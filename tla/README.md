# Verification of chimeflutter

TLA+ models, TLC runs and TLAPS proofs for the call protocol of chimeflutter: a
backend that starts Amazon Connect WebRTC contacts (customer-initiated calls, and
"simulated outbound" calls that an agent starts and a customer's phone answers),
and the mobile libraries that ring, answer, join and hang up.

Modelled so far: the agent-initiated calls of the backend (`OutboundCalls`, refined
to `CallLifecycle`), the backend as a server of requests with its customer routes and device
registration (`BackendServer`, `BackendRequests`), the incoming-call ring on Android
(`AndroidRing`), the Flutter call controller with its standalone media session
(`CallController`), and the React Native port with its call screen and a media session under
Telecom (`RnApp`). The other components are in the inventory and in the plan at the end.

    tlc -workers 2 -config MCOutbound_race.cfg MCOutboundCalls
    tlc -workers 2 -config MCAndroidRing_ring.cfg MCAndroidRing
    tlc -workers 2 -config MCCallController_calls.cfg MCCallController
    tlc -workers 2 -config MCRnApp_rn.cfg MCRnApp
    tlc -workers 2 -config MCRnApp_digits.cfg MCRnApp
    tlc -workers 2 -config MCBackendServer_backend.cfg MCBackendServer
    tlapm OutboundCalls_proofs.tla        # likewise the other *_proofs.tla

## 1. Inventory

Paths: `backend/` is `src/backend/src/`, `dart/` is
`src/packages/flutter_amazon_connect_webrtc/lib/src/`, `kotlin/` and `swift/` the
native parts of that package, `rn/` the React Native port of all of them.

| Component | State | Operations | What makes it hard | What makes it correct |
|---|---|---|---|---|
| Agent-initiated calls (`backend/handlers/startOutboundCall.ts`, `outboundCallAction.ts`, `sweepOutboundCalls.ts`, `store/outboundCallStore.ts`) | a DynamoDB record per call; the Connect contact that occupies the agent | start, answer, decline, get status, sweep every 60 s | any number of invocations between any two awaits; eventually consistent reads; lost replies; a push, a stop or the invocation itself may fail; overlapping sweeps | a call is settled once; credentials only for answered calls; no agent kept waiting; no contact stopped under an answered call |
| Customer-initiated calls (`startCall.ts`, `endCall.ts`, `participant.ts`) | none: Connect keeps it | start under an Idempotency-Key, end, DTMF | client retries, lost replies | one contact per logical call, ended when the call is over |
| Devices and push (`registerDevice.ts`, `deviceStore.ts`, `pushSender.ts`) | a device record per customer; an SNS endpoint per token | register, publish | two stores written one after the other; a push accepted but reported failed | the record names an endpoint that exists and belongs to that device |
| Attributes, capabilities, redaction | none | pure functions | limits in bytes or characters, precedence | reserved attributes cannot be overridden, the limits hold |
| HTTP layer, container server (`http/`, `server/`, `config/`) | the requests in flight, the sweep timer, whether the server is closing | read a body, route, check, map errors, stop gracefully, sweep every 60 s | a handler is cut at any await; replies of AWS get lost and the SDK repeats; the timer does not wait for the previous sweep | a status tells whether something happened |
| Call controller and backend client (`dart/connect_webrtc_controller.dart`, `backend_client.dart`; `rn/src/ConnectWebRtcController.ts`, `BackendClient.ts`) | state, session, participant token; subscriptions to native events | startCall, answerIncomingCall, declineIncomingCall, endCall, sendDtmf, native events; retries | every operation awaits several times; endCall and native events run between; events carry no call identity | an ended call leaves neither media nor contact nor session behind; the state does not lie |
| React Native app and call screen (`rn/src/ConnectCallApp.tsx`, `ConnectCallScreen.tsx`) | the controller made last; mounted, state, video button | mount, auto-dial, call, hang up, keypad, camera; replace or dispose of the controller | the native call outlives the controller that started it; a prop change replaces a controller under a live call | what the screen shows is what runs below it |
| Android ring (`kotlin/ConnectIncomingCallCenter.kt`, `IncomingCallNotifier.kt`, `IncomingCallActionReceiver.kt`, `ConnectWebrtcPlugin.kt`) | the ringing call, its timeout, the parked answer, the plugin's listener and sink | report, answer, decline, dismiss, time out, attach, listen, detach, drain | push thread against main thread; taps and timeouts already on their way; the app starts while the phone rings | one outcome per call; the screen shows what an answer takes; an answer reaches the app once; no endless ring |
| Android media and Telecom (`ChimeCallManager.kt`, `ConnectTelecomManager.kt`, `CallForegroundService.kt`) | session, observers, Telecom job and scope, service | join, leave, mute, callbacks of Chime and Telecom | coroutines and callbacks of an old call act on the next | every path releases media, Telecom call and service |
| iOS media and CallKit (`swift/ChimeCallManager.swift`, `ConnectCallKitManager.swift`, `ConnectWebrtcPlugin.swift`) | active UUID, pending answer, media session, audio activation | report, answer, end, activate audio, provider reset, time out | CallKit transactions and audio activation in any order with the join | media start once the audio is active and the session joined; every reported call ends |
| Hosts, example apps, templates, contact flows | user interface and configuration | - | - | - |

How they interact. An agent's desktop posts `/calls/outbound`; the start handler checks
the agent's free slot in Connect, starts a contact (the agent's leg, on hold music),
writes the record `ringing`, and publishes a push. The push reaches the ring component
of the phone, which shows a full-screen notification and arms a local timeout. The
user's tap is forwarded, or parked, to the controller of the app, which answers or
declines at the backend by callId. The answer handler moves the record to `answered` by
a conditional update and returns the session stored in the record; the controller joins
the media with it. A sweeper times out what nobody settled and stops its contact. A customer's
own call is one POST `/calls` under an Idempotency-Key; the contact of its session is ended by a
DELETE that nobody waits for, and its digits go through a participant connection that is made
on first use. A device becomes reachable by POST `/devices`, which finds or makes an SNS endpoint
and writes the record that the push of an agent's call reads.

The full list of hazards, each at its line, is in `PROJECT.json` ("hazards"), with the
properties that would catch it going wrong or the reason why there is none yet.

## 2. The models

### OutboundCalls

One action is one *awaited call*: its effect on the table, on Connect or on SNS, together
with the synchronous code that runs when it returns. Between two awaits every other
invocation may run, which is what Lambda and the one event loop of the container allow.

| State | Stands for |
|---|---|
| `rec` | `status` of each record of the OutboundCalls table (`none`: not written) |
| `contact` | each contact in Connect: live, hung up by a person, stopped by the backend |
| `expired` | the calls whose `expiresAt` lies in the past; the wall clock is this set |
| `pushed` | the calls whose push SNS accepted, so that a device knows the callId |
| `start`, `req`, `sweep` | control state and local data of each start request, answer or decline request, and sweeper |

`StartCheck` ... `StartCrash` are `createStartOutboundCallHandler`, in its order: free slot,
contact, record, push; when the push throws, cancel (the result is not looked at) and
stop. `Arrive`, `GetRecord`, `CheckDeadline`, `Settle`, `Reread`, `Stop` are
`createOutboundCallActionHandler`; `AfterGet` and `AfterSettle` are its branches as tables.
`Scan`, `SweepSettle`, `SweepStop` are the sweeper. `get`, `transitionFromRinging`,
`listExpiredRinging`, `startWebRtcContact` and `stopContact` give the *set of outcomes* that
the external call may have, faults included; the constant `Faults` says which faults an
instance has, and the theorems hold for every set of faults unless they say otherwise:

- `startError`, `putError`, `pushError`, `storeError`, `stopError`: the call throws. A start
  or a put that throws may have taken effect or not.
- `pushAmbiguous`: SNS accepted the push and the call throws all the same.
- `lostReply`: the update is applied, its reply is lost, and the SDK's own repeat fails its
  condition, so that the winner is told that it lost (or is told an error).
- `staleRead`: GetItem and Scan are eventually consistent and return an older status.
- `crash`: an invocation dies between two awaits.

A callId is a fresh UUID, so a call *is* the start request that makes it. `KeyOf` maps it to
its Idempotency-Key and so to its contact: two calls with one key share a contact. The wall
clock is one clock: skew between Lambda instances is not modelled.

### CallLifecycle

The abstract promise: a call rings once there is an agent's leg, is settled once, hands over
credentials only when answered, and `Release` stops a contact only if a call on it was given
up and none was answered. `OutboundCalls` implements it under the mapping `status <- rec`,
`leg <- contact`, `joined <- handedOver` (the calls for which some request is answered with a
session): `ImplementsLifecycle`, checked in run `race` and proved (theorem `Refinement`).

### AndroidRing

The methods of `ConnectIncomingCallCenter` are `@Synchronized`, so each is one action. Pushes
come on a thread of FCM, everything else runs on the main thread. The one place where the
lock does not make things atomic is the ring timeout: `removeCallbacks` cannot take back a
Runnable that the looper has started and that waits for the lock. So the timeout is two
actions, `TimerDue` (the looper starts it) and `onTimeout` (it has the lock), and while it is
under way (`main # NoCall`) nothing else runs on the main thread.

| State | Stands for |
|---|---|
| `current`, `answered`, `timeout`, `pending` | the fields of the center (`pending` is `pendingAnswered`) |
| `looper`, `main` | ring timeouts in the main looper's queue; the one it is executing |
| `shown`, `taps` | the notification; notification actions on their way to the receiver, which name no call |
| `engine` | no Flutter engine (`listener` null), attached (listener set, `eventSink` null), Dart listening |
| `emits` | events that `emit` has posted to the main looper |
| `drained`, `heard`, `declining` | the Dart side: has asked for a parked answer; what reached it; what it has declined |
| `reported`, `outcomes`, `rungOut`, `raced` | history that only the properties (and `reportIncomingCall`, once per call) read |

### CallController

The Dart controller with its backend client, and the Android `ChimeCallManager` in standalone mode
(`callKitEnabled` false). Dart runs one continuation at a time, so an action of the Dart side is the
code between two awaits: `startCall` up to the permission request, `PermissionGranted`,
`PermissionDenied`, `PermissionThrows`, then an attempt that is answered (`Received`), repeated or given
up (`AttemptFails`) or refused (`Refused`), then the reply to `join`. `endCall` sends `leave` and captures
the session; `LeaveReturns` is its `finally` block.

What makes the controller hard is that nothing identifies a message. Two queues carry them in the
order of the code: method calls and events that `emit` posts wait in the `looper` of the main thread,
replies and sent events wait in the `inbox` of Dart. `LeaveReturns` can therefore come before
events of the session that was left, and events of an old session during the start of the next.

| State | Stands for |
|---|---|
| `state`, `session` | `_state`, `_session` |
| `op` | each invocation of startCall: where it awaits, attempt, which Idempotency-Key |
| `hang` | each invocation of endCall and the session it captured |
| `contact`, `deletes` | contacts in Connect, one per key; DELETE requests on their way, which may never arrive |
| `media`, `running`, `coming` | `meetingSession`; sessions whose media Chime runs (a later join forgets them without stopping them, and their observer is the same manager); those of them that are still connecting |
| `crossed` | history: the calls that were being started when the state became inactive |

A join may fail in two ways. `joinThrows` fails on what it was given, before anything changes.
`startMediaThrows` fails in the foreground service or in `audioVideo.start`: the session is assigned and
`connecting` is posted, Dart is told of the failure first and of the `connecting` afterwards.

`crossed` names the weakness of the code exactly. The guard of startCall reads only `state`, and a
hang-up, a terminal event or the failure of an older call makes the state inactive without ending the
start that is under way. The safety properties hold but for crossed starts, and run `ringing` shows
one of those.

### RnApp

The React Native app, of which there is more than of Flutter: the call screen and the app that mounts it,
a controller that can be replaced while a call is up, and the Android call manager *with* Telecom
(`callKitEnabled`). An action of JavaScript is the code between two awaits. Native calls wait in
`calls`, their replies in `inbox`, events in `posted`. Events pass through the main looper before
they reach the queue of JavaScript, so a reply may overtake an event and the two queues are not one.

| State | Stands for |
|---|---|
| `ctl`, `cur` | state, session and participant token of each controller; the last one made (`useMemo`/`useEffect` of `ConnectCallApp`) |
| `screen` | the call screen: mounted, the state it shows, its video button, the first controller it has seen |
| `op`, `hang`, `tone` | each invocation of startCall or answerIncomingCall, of endCall, of sendDtmf: where it awaits, for which controller, what it captured |
| `calls`, `inbox`, `posted` | native calls, replies and events on their way |
| `media`, `coming`, `camera`, `running` | the native call: `meetingSession`, still connecting, the call whose screen switched on its local video, sessions whose observer is still there |
| `ending` | Telecom was asked to end the call and has not called back yet |
| `contact` | the contact of each call |
| `heard`, `spoiled`, `adrift`, `late` | history that only properties read: digits that another call's contact took; calls that failed or that another call made inactive; calls whose controller was disposed of; tokens that came after their call |
| `spent` | a bound, see section 3 |

Modelling decisions. The permission dialog and the request that follows it are one control state,
because nothing can tell them apart from outside. The DELETE after a hang-up may arrive whenever the
contact is live or never, which makes it indistinguishable from an agent who hangs up: `ContactEnds`
stands for both, and for a lost meeting. A controller that was disposed of hears no events, but its
pending continuations still run (`op[c].by`). Telecom's answer to `leave` is an action that need not
happen: whether it ever calls back for a call it has not accepted is left open, and `Quiet` excludes
the time in between. `setLocalVideoEnabled` names no call: it switches on the camera of whatever session
there is when it runs, and `camera` remembers whose screen asked for it.

### BackendRequests and BackendServer

`BackendRequests` holds the pure part: the route of a method and path (with stage prefix, trailing slash and
malformed identifiers), which body is refused with which status, how an AWS error is mapped, and the
contact attributes of a start: claims before device before fixed values, then context, allowed keys
only, each value truncated and what exceeds the budget dropped. A path is a sequence of segments, a
value is its origin, its number of characters and the bytes that each of these takes. The recursion over
the context (`addContext`) is a recursive function, so that `BackendRequests_proofs` can prove what it
computes.

`BackendServer` is the process around it. `handle` runs a request to its first await, the actions of
"Calls of AWS" are what SNS, DynamoDB, Connect and the participant service execute, and each
may fail without effect (`callFails`) or take effect and lose its reply, whereupon the SDK repeats the
call or gives up (`effect`). `stopAsked`, `exits`, `killed` and `boot` are the life of the container.

| State | Stands for |
|---|---|
| `config` | the outbound settings of the deployment: tables, APNs, FCM |
| `process` | up, closing (SIGTERM seen), down |
| `req` | each request: where it awaits, its input, the status it is answered, the endpoint it found, which requests were over before it |
| `endpoint` | SNS: platform endpoints with token, CustomUserData and Enabled |
| `device` | the device record of each customer |
| `contacts` | contacts started by customers, each with its client token and attributes |
| `touched`, `excused` | history: requests of which a call took effect; registrations whose endpoint SNS disabled later |

Modelling decisions. The body of a request arrives and is handled in one step: `readBody` keeps no state
that anyone else sees. The answer is written in the step that decides it. A call sent by a process
that is then killed takes effect at once or never. The insides of the outbound handlers are in
`OutboundCalls`; here one step, `outboundAnswers`, stands for each: it gives every status that the handler of the route
may answer, and says whether a write, a start or a stop may precede it. A look-up that refuses (404, 409)
comes before any; success, 410 and failures of AWS may follow one, for the answer that comes too late times the call
out, stops its contact and is told 410. The sweep timer is in `OutboundCalls` as well. All attribute keys have `KeyBytes` bytes.

## 3. What the runs check

| Run | Instance | Question and result |
|---|---|---|
| `race` | 2 calls of 1 agent, 2 requests, 2 sweepers; undeliverable pushes, failing updates, stale reads | The races for the record. Holds: `Inv`, `NoZombieLeg`, `OneReleaser`, `StopCause`, and the refinement of `CallLifecycle`. |
| `faults` | 1 call, 3 requests, 1 sweeper; every fault but the ambiguous push, failing updates and stale reads | What a device is told is true and stays true (`CredentialsOnlyIfAnswered`, `GoneMeansSettled`, `DeviceNotStranded`), a record is settled once, not before its deadline, and eventually (`RingingEnds`). |
| `live` | 2 calls, 2 requests, 1 sweeper; undeliverable pushes | `AgentReleased`: an agent whose leg was started is eventually released or talks to the customer. |
| `ring` | 3 incoming calls | One outcome per call, the notification shows what an answer takes, every ringing call has its own timeout, an answer is in one place, rings stop, answers arrive. |
| `calls` | 2 starts of up to 2 attempts, 1 hang-up; every fault | `OneStart`, `OneContact`, at no time media behind a closed call (`NoHiddenMedia`) or behind a newer call (`NoLostMedia`) unless starts were crossed, `HangUpStopsContact`, and `ConnectingEnds` but for a permission request that throws and media that do not start. |
| `rn` | 2 calls, of audio, of video or incoming, of up to 2 attempts, 1 hang-up, 2 controllers; throwing permissions, failing requests and joins; at most 3 moves | Once nothing is on its way, no microphone (`NoHiddenMedia`) and no camera (`CameraShown`) behind a screen that shows none, but for the calls of `adrift` and `spoiled` and a camera that the screen of such a call switched on. |
| `digits` | 2 audio calls, 1 hang-up, 2 digits; failing connections and messages; at most 4 moves | `DigitsReachTheirCall`: digits go to another call's contact only with a late token or after calls crossed. |
| `backend` | 3 requests out of 11 kinds (registrations, a start and the other routes), 2 customers, 2 tokens, 1 key; with and without outbound settings; at most 2 moves | `RefusedMeansNoEffect`, `RegisteredDeviceRings`, `OneContactPerKey`, and the attributes: `TrustedWins`, `BudgetHolds`. |
| `push`, `gone`, `lost`, `ringing` | minimal | The disagreements of section 6. |

Why the bounds are enough. The handlers share state only per record and per contact, so what
two calls can do to each other goes through the one agent and the one sweep that holds both
records: two calls. Every race of the action handler is between a winner and a loser; a third
request is there for the retry after a lost reply while another device competes
(`faults`). Two sweepers are needed for the timer that overlaps itself. In `ring` the third
call is there because a stale timeout needs a call before and a call after the one that it
may end. In `calls` an old call and a new one are what late messages can confuse, and one hang-up can
fall into the start of either. In these three modules no counter is bounded: every request, call and
push is sent at most once and a retry is another request (in `CallController`, attempts have the
code's own limit), so all state spaces are finite by the size of the constants.

`RnApp` and `BackendServer` have bounds of their own, as guards of their actions, and the theorems hold for
every value of them. `MaxControllers` is how often the app is mounted or reconfigured. `MaxAttempts`
is the client's limit of attempts. `MaxMoves` (`spent`, `counted`) bounds what comes from outside or goes
wrong: mounts, hang-ups, digits, ends of calls by others and failures in `RnApp`; failures of AWS,
disabled endpoints, clients that leave, stops and kills in `BackendServer`. What the program does by itself
is never counted. Three moves are enough in `rn` for a mount, and for two of another mount, a replaced
controller, a failure, a hang-up and an end from outside, on top of both calls (with a fourth move the
state space is eight times as large, and the properties hold as well); `digits` has four. Every
exception that a property names (`adrift`, `spoiled`, `late`, `excused`) is reached, and removing it makes the run fail. Two moves
in `backend` allow a lost reply and a kill, or an endpoint disabled between two registrations; three
requests are a registration by each of two customers and one that competes. The only outbound
request among the 11 kinds is an answer, and the only start has a key; that `RefusedMeansNoEffect` holds of the other
outbound routes, with the 409 of the start handler, and `BudgetHolds` of a start whose device alone exceeds the
budget, is shown by the theorems, whose requests are any. The three have 0.7, 1.1 and 1.6 million distinct
states, each in two to three minutes.

`race` uses symmetry of requests and of sweepers; its only temporal property, the refinement,
is a safety property. `rn`, `digits` and `backend`, which have safety properties only, use symmetry of
calls, digits and requests. The runs with liveness properties use no symmetry.

Deadlock is checked in the runs of `OutboundCalls` and `AndroidRing`, where something can always still
happen (a sweep scans again, an engine detaches or attaches). The runs of `CallController` have
`CHECK_DEADLOCK FALSE`: when all given starts and hang-ups are over, the system rests. So have
those of `RnApp` and `BackendServer`, which rest when the calls, requests and moves are used up.

`DeviceNotStranded` needs reads without staleness (the re-read of a lost answer is itself
eventually consistent), so `faults` leaves `staleRead` out; `NoZombieLeg` needs that nobody
dies between winning and stopping, that winners are told so, and that StopContact works.
These are the code's limits, listed as hazards, not conveniences of the model.

Every property is also tried against a mutant of the code ("mutants" in `PROJECT.json`): a
dropped condition, a scan of the first page only, a cancel in the wrong order. The mutated forms
stand in the modules, commented as wrong variants, before what they vary.

## 4. Fairness

`OutboundCalls`: an invocation that was started runs on (`WF` of its steps), time passes
(`WF(DeadlinePasses)`), the scheduler invokes the sweeper every minute (`WF(Scan)`), and of
infinitely many sweeps that hold a record not every one dies just before it (`SF(SweepSettle)`).
Nothing obliges agents to call, devices to answer or people to hang up, and crashes are never fair.
`RingingEnds` and `AgentReleased` are claimed only for instances in which the store's updates do
not fail forever.

`AndroidRing`: the main looper runs its queue (`WF` of timeouts, taps and events). A parked
answer brings the app to the foreground, so an engine attaches; strong fairness of `onListen`
and `handlePendingIncomingCall` says that the app is not closed each time just before its
Dart code runs. No fairness of pushes, taps, declines or detaching.

`CallController`: Dart and the main thread run what is queued, permission dialogs and requests end (the
client has a time-out), and a connection that is being set up comes up unless its session ends.
Nobody is obliged to hang up, no agent to end a call, and no DELETE has to arrive.

`RnApp` and `BackendServer` state no fairness: their properties are safety properties. What must hold "in the
end" is said of the states in which nothing is on its way (`Quiet`), or of what was answered.

## 5. What is proved

For every value of the constants (any number of calls, contacts, agents, requests,
sweepers), from the named assumptions `ConstantsAssumption`, `NoCallAssumption`,
`ControllerAssumption`, `RnAssumption`, `RequestAssumption`, `BackendAssumption` and
`AttributeAssumption` only, unless stated:

- `OutboundCalls_proofs`: `Invariance`, and from it `TypeCorrect`, `CredentialsSafe`,
  `GoneSafe`, `TimeoutSafe`, and the action property `SettlesOnce`. None of the properties
  is inductive alone: "the session is only handed out for answered calls" needs what a worker
  knows at each control point. `Inv` says it: a request is about a pushed and written call
  (`Known`), the contact precedes the record (`Placed`), only the start request writes the
  record and does so before the push (`Written`), who is to stop has won (`Stopping`), who is
  told it lost knows the call is settled (`Lost`), who times out knows the deadline has
  passed (`Late`). The step lemma has one case per action; a settled record never changes, so
  what a worker learnt stays true while it sleeps. `NobodyStranded` assumes `FreshReads` (no stale
  reads): `DeviceNotStranded` is then kept by every step, because the request that answers a call holds
  it (`OnlyRequestsAnswer`), and goes on holding it until it has the session, for its second look finds
  the record answered (`HolderStays`).
- `OutboundRelease_proofs`: `ReleasesOnce` (at most one worker goes on to stop a contact) for all
  faults, and `NoZombies` assuming `NoLostStop` (no crash, no lost reply, no failing StopContact).
- `OutboundRefinement_proofs`: `StopsJustified` assuming `NoAmbiguousPush`; `AnsweredIsSafe` and
  `Refinement` (`Spec => Lifecycle!Spec`) assuming `NoAmbiguousPush` and `DistinctKeys` (no two calls
  share a contact). The first assumption is necessary: run `push` is the counterexample. Each
  step is shown to be one abstract action or a stutter.
- `AndroidRing_proofs`: `RingInvariance` and from it `RingOneOutcome`, `RingVisible`, `RingArmed`,
  `RingOwnTimeout`, `RingParkedOnce`. The strengthening: a call that rings has no outcome yet
  (`Fresh`), no other timeout threatens a call that was not reported into a race (`Alone`), and
  what is parked, posted or heard was dispatched (`Traced`).

- `CallController_proofs`: `ControllerInvariance` and from it `ControllerTypeCorrect`,
  `ControllerOneStart` and `ControllerOneContact`. One start at a time is inductive with `StartIsActive`: a
  start that was not crossed keeps the state active, so the guard of the next one fails.
  One contact per call needs `OneKey`, which follows the key from the call over the session and the
  hang-up to the DELETE. `ControllerNoHiddenMedia` and `ControllerNoLostMedia` follow from `ControllerCalm`,
  which says what fits together as long as no start was crossed (`Kept`). At all times one join and one reply to a
  join at most are on their way, who joins is in the middle of starting (`JoinsKept`), and only the session of the
  call manager runs (`MediaKept`). Beyond that, either everything is in order (`Orderly`): only
  hang-ups wait behind a join (`JoinLast`), and while media run the state is active and nothing on its way ends the
  call but a hang-up, which ends the media first (`Harmless`). Or a start is bound to be crossed (`Fated`): what ends a call stands in
  Dart's queue before the reply to the join of somebody who still waits for it, which is how a failed session, or an old
  join that failed late, meets a new start. So the properties need no exception for messages on their way.
- `BackendServer_proofs`: `TypeCorrect`, `RefusalsHaveNoEffect` (of the refusals only 410, 429 and 502 may
  follow an effect), `RegisteredDevicesRing` and
  `StartsMakeOneContact`, for any number of requests, whatever their inputs. The inductive
  invariant: an unsent request has left no trace, nor has one whose outbound handler has not answered (`Unsent`); a request awaits only calls of its own
  route's handler and has a status only at the end (`Staged`); what was over before a request stays over
  (`Ordered`); an endpoint keeps the token and platform of the request that made it, and is enabled when
  a registration is about to store it, but for the exceptions (`EndpointsKept`); a record was
  stored by a registration that had found its endpoint (`RecordsKept`); contacts go by the client
  token of their start and differ in it (`ContactsKept`). "The last registration wins" needs
  `Ordered`: what overwrites a record later was not over when the answered request was sent.
  `TrustedAttributesWin` and `AttributesFit` follow contacts back to the request that made them.
- `BackendRequests_proofs`: `AttributesBuilt`, what the attributes of a request are (`Built`): its critical
  attributes unchanged, and from the context only allowed pairs, which together stay within the budget.
  The attributes are a recursion over a context of any length, and their bytes a fold over a
  set of keys of any size. Both are proved by a smallest counterexample (`SmallestNumber`,
  `SmallestSet`), which the well-founded order of the numbers has and which its predecessor rules out. It
  rests on `AttributeAssumption`, that the values of the requests have the shape that the authorizer,
  `parseDevice` and `parseContext` give them (`attributesRead`): a device has no blank values, a
  context is a sequence of keys and values.
- `RnApp_proofs`: `TypeCorrect`, `DigitsReach`, `HiddenMediaExcused` and `CameraInSight`. The
  inductive invariant `IInv` has a part for JavaScript (`JsInv`) and one for the native side (`NativeInv`). Nobody knows of a call that has no session yet
  (`FreshInJs`, `FreshInNative`: a terminal event about such a call cannot be on its way). The token
  of a controller is that of its session, and an inactive controller has neither, but for calls that are
  late or spoiled (`TokenKept`). A call that is about to receive its session is alone with an
  active controller that has no other (`RequestKept`). And a sendDtmf that has captured a session and a token has
  captured matching ones, with the same exceptions (`ToneKept`).

  The other two need two more layers. `OnTheWay` says what is in the queues: each native call and each
  reply is awaited and there once (`Matched`), the native side does not know a call whose join still waits
  (`Unjoined`), news that a call is over comes when its media is gone or going (`EndsHonestly`), and a
  hang-up stands behind the join of the session that it captured (`HangUpEnds`). `Held` says what this
  means for a call that nothing excuses: its media is held by the controller of the screen or `doomed`,
  that is, being ended or about to give way to another call (`MediaHeld`); while it starts, it
  has the controller of the screen, or a later join stands behind its own (`StartHeld`); the camera that
  a screen asked for before it went away comes before anything that the next screen joins
  (`FilmHeld`); and a camera that is on is shown, or its reply is on its way to the screen (`CameraHeld`).
  Once nothing is on its way nothing is doomed, and what is held is on the screen. Steps of JavaScript
  that leave the controller of the screen in its call are one lemma (`FrontHeld`), those that give it up
  another (`Abandoned`), what the native side executes a third (`ExecutedHeld`).

Only model-checked: the liveness properties (`RingingEnds`, `AgentReleased`, `RingStops`,
`AnswerTaken`, `HangUpStopsContact`, `ConnectingEnds`), because liveness under fairness is out of the
prover's reach. Every invariant that a passing run checks, the action property `SettledOnce` and the
refinement are proved.

## 6. Where code and documentation disagree

Each is a run that TLC finds violated; the quotations are in `PROJECT.json` ("findings").

- `push` (`startOutboundCall.ts:141`): when publishing throws, the contact is stopped even if the
  cancellation lost against an answer, so an answered call is cut off after an ambiguous push.
- `gone` (`outboundCallAction.ts:77`): an answer past the deadline that loses the time-out update
  is told 410 without a second look, although the same device's first answer has won.
- `lost` (`ConnectWebrtcPlugin.kt:120`): an answer between `onAttachedToEngine` and `onListen` is
  neither parked nor delivered.
- `ringing` (`connect_webrtc_controller.dart:98`): a hang-up during a start does not stop the start; the
  ended call rings and joins.

Weaknesses without a run of their own; the properties name them as their exceptions, or the hazards in
`PROJECT.json` list them.

- `connect_webrtc_controller.dart:77` and its port: a permission request that throws leaves the state at
  `connecting` (exception of `ConnectingEnds`).
- `ChimeCallManager.kt:86`: join posts `connecting` before it starts the media. When the foreground service (line
  125) or the audio (line 126) then throws, the controller sets `failed` and keeps its session, but
  the `connecting` that was posted comes afterwards, and nothing follows it: the controller refuses every
  new call until somebody hangs up (exception `stillborn` of `ConnectingEnds`).
- `outboundCallAction.ts:79`: after the agent has hung up, the next answer gets the session of a dead
  contact; nobody asks Connect.
- `ConnectIncomingCallCenter.kt:70`: the app's decline of one call may dismiss the ring of the next. A call
  that is reported while the timeout of the previous one waits for the lock is ended at once as missed
  (exception `raced` of `OwnTimeout`).
- `ConnectCallApp.tsx:44-53`: a prop that changes during a call replaces the controller, and a screen that is
  mounted anew starts from `idle`: the live call goes on without anything that can end it (`adrift`).
- `ConnectCallScreen.tsx:123-125`: after the join the screen of a video call goes on to switch the camera on,
  also when it is gone by then and another call has the media: the camera of an audio call may be on while the
  button of its screen says that it is off (second exception of `CameraShown`).
- `ConnectWebRtcController.ts:221`: the participant token is stored after an await, whatever call the
  controller has by then, and the next call's digits use it (`late`).
- `pushSender.ts:31` says that the endpoint is created "(or re-enables)": SNS returns a disabled endpoint
  unchanged when the same customer registers the same token again, and only the refusal of another
  customer's token leads to enabling (exception `e.user = c` of `RegisteredDeviceRings`). Two customers who
  register one device share its endpoint.
- `asObject` promises INVALID_BODY for a body that is not an object, but JSON `null` gets as far as a
  TypeError and is answered 502.
- `attributes.ts:47`: values are cut by characters and not by bytes, and the values that the context cannot
  override may exceed the budget alone (exception of `BudgetHolds`).
- `server/main.ts`: a client whose body is too large never sees the 413, because its socket is destroyed first.

## 7. What is not modelled

- `OutboundCalls`: the read-only GET status, callIds that no device was pushed, the deletion of day-old
  records by TTL, clock skew. A push that SNS accepts and loses is a device that sends nothing.
- `AndroidRing`: the death of the process, a push delivered twice, two engines in one process, a denied
  notification permission.
- `CallController`: a join that throws once `audioVideo.start` has succeeded (in `startRemoteVideo` or in muting),
  and an `audioVideo.start` that throws and runs all the same; answerIncomingCall and sendDtmf (the same code is in `RnApp`), declineIncomingCall,
  dispose, a connection that drops and recovers (`reconnecting` is treated as `connected`),
  `onAudioSessionCancelledReconnect`.
- `RnApp`: a join that throws after it has assigned the session (in the making of `ConnectTelecomManager`), a
  foreground service that fails inside Telecom's coroutine; declineIncomingCall, reportIncomingCall and registerDevice (one request each, of which the
  controller keeps nothing), the mute, route and video buttons during a call, remote tiles,
  `reconnecting`, `onAudioSessionCancelledReconnect`, the foreground service, accessibility.
- `BackendServer`: capabilities, redaction, the headers of responses, the values that a single field may take,
  the inside of the outbound handlers, and the sweep timer, which `OutboundCalls` has as its sweeper. More than
  one server process, which share nothing but AWS, behaves as more requests.
- iOS (CallKit, the Swift media session): no module yet, see the plan.
- Logging, correlation ids, wording of errors, display names, layout of the call screen, templates, contact flows, sample hosts: no state of the protocol.
- The video views and the adapters that build Chime configurations: plain conversions.

## 8. Plan

In this order; the most exposed to interleavings first.

Done: `OutboundCalls`, `CallLifecycle`, `AndroidRing`, `CallController`, `RnApp`, `BackendRequests`,
`BackendServer`. Next:

1. `CallKitCalls`: CallKit manager and call manager on iOS. Properties: media start exactly when joined
   and activated, every reported call ends, a pending answer is delivered once.
2. Proofs: an abstract "one ring" specification that `AndroidRing` implements, and one of a call
   that `CallController` implements as long as no start is crossed.
3. `AndroidMedia`: Telecom job and scope and the foreground service in detail, below the actions `leave` and
   `onDisconnect` of `RnApp`.
4. Composition of `OutboundCalls` and `AndroidRing`: the phone's answer is the backend's `Arrive`, two
   calls that share a contact, two engines, the death of the app's process.

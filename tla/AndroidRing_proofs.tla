---- MODULE AndroidRing_proofs ----
(***************************************************************************)
(* Proofs about AndroidRing, for any number of calls.                      *)
(***************************************************************************)
EXTENDS AndroidRing, SequenceTheorems, TLAPS

----
(* The queue of posted events. *)

\* Posting an event adds it to what is posted, and nothing else.
LEMMA PostFacts ==
  ASSUME emits \in Seq(Events), NEW e \in Events, emits' = Append(emits, e)
  PROVE  emits' \in Seq(Events) /\ posted' = posted \cup {e}
<1>1. /\ emits' \in Seq(Events)
      /\ Len(emits') = Len(emits) + 1
      /\ \A i \in 1 .. Len(emits) : emits'[i] = emits[i]
      /\ emits'[Len(emits) + 1] = e
  OBVIOUS
<1>2. DOMAIN emits' = 1 .. Len(emits) + 1 /\ DOMAIN emits = 1 .. Len(emits) /\ Len(emits) \in Nat
  BY <1>1
<1> QED
  BY <1>1, <1>2 DEF posted

\* Running a posted event takes one that was posted and adds none.
LEMMA EmitFacts ==
  ASSUME emits \in Seq(Events), emits # <<>>, emits' = Tail(emits)
  PROVE  emits' \in Seq(Events) /\ Head(emits) \in posted /\ posted' \subseteq posted
<1>1. /\ Len(emits) \in Nat \ {0} /\ DOMAIN emits = 1 .. Len(emits)
      /\ Head(emits) = emits[1]
  BY EmptySeq
<1>2. /\ emits' \in Seq(Events)
      /\ DOMAIN emits' = 1 .. Len(emits) - 1
      /\ \A i \in 1 .. Len(emits) - 1 : emits'[i] = emits[i + 1]
  BY HeadTailProperties
<1> QED
  BY <1>1, <1>2 DEF posted

----
(* The inductive invariant. *)

\* Nothing rings, runs, waits or was told at first.
LEMMA InitInv == Init => Inv
<1> SUFFICES ASSUME Init PROVE Inv
  OBVIOUS
<1>1. emits \in Seq(Events) /\ posted = {}
  BY DEF Init, posted
<1> QED
  BY <1>1, NoCallAssumption DEF Init, Inv, TypeOK, RingIsVisible, TimeoutArmed, Fresh, Alone,
     Traced, OneOutcome, OwnTimeout, ParkedOnce, CallOrNone

\* What answering, declining and timing out have in common: the ringing call,
\* about which nothing was told before, gets its only outcome and stops ringing.
LEMMA OutcomeStep ==
  ASSUME Inv, ringing, stopRinging,
         NEW t \in Outcomes, dispatch(event(t, current)),
         t = "incomingCallMissed" /\ current \notin raced => current \in rungOut,
         timeout' \in CallOrNone, looper' \subseteq Calls, main' \in {main, NoCall},
         answered' \in BOOLEAN, taps' \subseteq {"answer", "decline"},
         UNCHANGED <<engine, dart, reported, rungOut, raced>>
  PROVE  Inv'
<1> DEFINE e == event(t, current)
<1>0. /\ current \in Calls /\ current # NoCall /\ e \in Events
      /\ e.call = current /\ e.type = t /\ TypeOK
  BY DEF ringing, Inv, TypeOK, CallOrNone, Events, event
<1>1. CASE engine # "off"
  <2>1. emits' \in Seq(Events) /\ posted' = posted \cup {e} /\ pending' = pending
    BY <1>0, <1>1, PostFacts DEF dispatch, TypeOK
  <2>2. outcomes' = outcomes \cup {e}
    BY DEF dispatch
  <2>3. TypeOK' /\ RingIsVisible' /\ TimeoutArmed' /\ Fresh' /\ Alone'
    BY <1>0, <2>1, <2>2, NoCallAssumption
       DEF Inv, TypeOK, RingIsVisible, TimeoutArmed, Fresh, Alone, stopRinging, CallOrNone,
           dart
  <2>4. Traced'
    BY <1>0, <2>1, <2>2 DEF Inv, Traced, dart
  <2>5. OneOutcome' /\ OwnTimeout'
    BY <1>0, <2>2 DEF Inv, Fresh, OneOutcome, OwnTimeout, event
  <2>6. ParkedOnce'
    BY <1>0, <2>1 DEF Inv, Fresh, Traced, ParkedOnce, event, dart
  <2> QED
    BY <2>3, <2>4, <2>5, <2>6 DEF Inv
<1>2. CASE engine = "off"
  <2>1. /\ emits' = emits /\ posted' = posted
        /\ pending' = IF t = "incomingCallAnswered" THEN current ELSE pending
    BY <1>0, <1>2 DEF dispatch, posted
  <2>2. outcomes' = outcomes \cup {e}
    BY DEF dispatch
  <2>3. TypeOK' /\ RingIsVisible' /\ TimeoutArmed' /\ Fresh' /\ Alone'
    BY <1>0, <2>1, <2>2, NoCallAssumption
       DEF Inv, TypeOK, RingIsVisible, TimeoutArmed, Fresh, Alone, stopRinging, CallOrNone,
           dart
  <2>4. Traced'
    BY <1>0, <2>1, <2>2 DEF Inv, Traced, event, dart
  <2>5. OneOutcome' /\ OwnTimeout'
    BY <1>0, <2>2 DEF Inv, Fresh, OneOutcome, OwnTimeout, event
  <2>6. ParkedOnce'
    BY <1>0, <2>1 DEF Inv, Fresh, Traced, ParkedOnce, event, dart
  <2> QED
    BY <2>3, <2>4, <2>5, <2>6 DEF Inv
<1> QED
  BY <1>1, <1>2

\* A step that leaves the ring alone: it only takes a tap, an event of the
\* queue or the parked answer to where it goes.
LEMMA QuietStep ==
  ASSUME Inv,
         UNCHANGED <<current, answered, timeout, looper, main, shown, reported, outcomes,
                     rungOut, raced>>,
         taps' \subseteq {"answer", "decline"}, engine' \in {"off", "attached", "listening"},
         drained' \in BOOLEAN, declining' \subseteq Calls,
         emits' \in Seq(Events), pending' \in {pending, NoCall},
         heard' \cup posted' \subseteq heard \cup posted
           \/ (heard' \cup posted' \subseteq outcomes /\ pending' = NoCall)
  PROVE  Inv'
<1>1. heard' \cup posted' \subseteq outcomes /\ outcomes \subseteq Events
  BY DEF Inv, Traced, TypeOK
<1>2. TypeOK' /\ RingIsVisible' /\ TimeoutArmed'
  BY <1>1 DEF Inv, TypeOK, RingIsVisible, TimeoutArmed, CallOrNone
<1>3. Fresh' /\ Alone' /\ OneOutcome' /\ OwnTimeout'
  BY DEF Inv, Fresh, Alone, OneOutcome, OwnTimeout
<1>4. Traced' /\ ParkedOnce'
  BY <1>1 DEF Inv, Traced, ParkedOnce
<1> QED
  BY <1>2, <1>3, <1>4 DEF Inv

\* A report of a new call, the start of a ring timeout, and a decline by the
\* app tell no outcome, but change what rings and what may end it.
LEMMA RingStep ==
  ASSUME Inv, NEW c \in Calls,
         reportIncomingCall(c) \/ TimerDue(c) \/ declineIncomingCall(c)
  PROVE  Inv'
<1> USE NoCallAssumption
<1>1. CASE reportIncomingCall(c)
  <2> USE <1>1 DEF reportIncomingCall, Inv, dart
  <2>1. TypeOK' /\ RingIsVisible' /\ TimeoutArmed'
    BY DEF TypeOK, RingIsVisible, TimeoutArmed, CallOrNone
  <2>2. Fresh' /\ OneOutcome' /\ OwnTimeout'
    BY DEF Fresh, OneOutcome, OwnTimeout, TypeOK
  <2>3. Alone'
    BY DEF Alone, TypeOK
  <2>4. Traced' /\ ParkedOnce'
    BY DEF Traced, ParkedOnce, posted
  <2> QED
    BY <2>1, <2>2, <2>3, <2>4
<1>2. CASE TimerDue(c)
  <2> USE <1>2 DEF TimerDue, Inv, center, dart
  <2>1. TypeOK' /\ RingIsVisible' /\ TimeoutArmed'
    BY DEF TypeOK, RingIsVisible, TimeoutArmed, CallOrNone
  <2>2. Fresh' /\ Alone' /\ OneOutcome' /\ OwnTimeout'
    BY DEF Fresh, Alone, OneOutcome, OwnTimeout
  <2>3. Traced' /\ ParkedOnce'
    BY DEF Traced, ParkedOnce, posted
  <2> QED
    BY <2>1, <2>2, <2>3
<1>3. CASE declineIncomingCall(c)
  <2> USE <1>3 DEF declineIncomingCall, dismissIncomingCall, stopRinging, cancelTimeout,
                   ringing, Inv
  <2>1. TypeOK' /\ RingIsVisible' /\ TimeoutArmed'
    BY DEF TypeOK, RingIsVisible, TimeoutArmed, CallOrNone
  <2>2. Fresh' /\ Alone' /\ OneOutcome' /\ OwnTimeout'
    BY DEF Fresh, Alone, OneOutcome, OwnTimeout, TypeOK
  <2>3. Traced' /\ ParkedOnce'
    BY DEF Traced, ParkedOnce, posted
  <2> QED
    BY <2>1, <2>2, <2>3
<1> QED
  BY <1>1, <1>2, <1>3

\* The ring timeout may only end the ringing call if it is that call's own, or
\* the call was reported while an old timeout was about to run.
LEMMA TimeoutStep ==
  ASSUME Inv, onTimeout PROVE Inv'
<1>1. CASE ringing
  <2>1. current \notin raced => current \in rungOut
    BY <1>1 DEF onTimeout, ringing, Inv, Alone
  <2>2. /\ stopRinging /\ dispatch(event("incomingCallMissed", current))
        /\ timeout' = NoCall /\ main' = NoCall
        /\ UNCHANGED <<answered, looper, taps, engine, dart, reported, rungOut, raced>>
    BY <1>1 DEF onTimeout
  <2>3. TypeOK
    BY DEF Inv
  <2> QED
    BY <1>1, <2>1, <2>2, <2>3, OutcomeStep DEF TypeOK, CallOrNone, Outcomes
<1>2. CASE ~ringing
  <2>1. current = NoCall
    BY <1>2 DEF ringing, Inv, RingIsVisible
  <2> USE <1>2, <2>1 DEF onTimeout, Inv, dart
  <2>2. TypeOK' /\ RingIsVisible' /\ TimeoutArmed'
    BY DEF TypeOK, RingIsVisible, TimeoutArmed, CallOrNone
  <2>3. Fresh' /\ Alone' /\ OneOutcome' /\ OwnTimeout'
    BY DEF Fresh, Alone, OneOutcome, OwnTimeout
  <2>4. Traced' /\ ParkedOnce'
    BY DEF Traced, ParkedOnce, posted
  <2> QED
    BY <2>2, <2>3, <2>4
<1> QED
  BY <1>1, <1>2

\* A tap gets the ringing call whatever was on the screen, and nothing happens
\* when no call rings any more.
LEMMA TapStep ==
  ASSUME Inv, onAnswerAction \/ onDeclineAction PROVE Inv'
<1>0. TypeOK
  BY DEF Inv
<1>1. CASE onAnswerAction /\ ringing
  <2>1. /\ stopRinging /\ dispatch(event("incomingCallAnswered", current))
        /\ answered' = TRUE /\ taps' = taps \ {"answer"} /\ main' = main
        /\ looper' = looper \ {timeout} /\ timeout' = NoCall
        /\ UNCHANGED <<engine, dart, reported, rungOut, raced>>
    BY <1>1 DEF onAnswerAction, cancelTimeout
  <2> QED
    BY <1>0, <1>1, <2>1, OutcomeStep DEF TypeOK, CallOrNone, Outcomes
<1>2. CASE onDeclineAction /\ ringing
  <2>1. /\ stopRinging /\ dispatch(event("incomingCallDeclined", current))
        /\ answered' = answered /\ taps' = taps \ {"decline"} /\ main' = main
        /\ looper' = looper \ {timeout} /\ timeout' = NoCall
        /\ UNCHANGED <<engine, dart, reported, rungOut, raced>>
    BY <1>2 DEF onDeclineAction, cancelTimeout
  <2> QED
    BY <1>0, <1>2, <2>1, OutcomeStep DEF TypeOK, CallOrNone, Outcomes
<1>3. CASE ~ringing
  <2>1. /\ taps' \subseteq taps
        /\ UNCHANGED <<center, looper, main, shown, emits, engine, dart, reported, outcomes,
                       rungOut, raced>>
    BY <1>3 DEF onAnswerAction, onDeclineAction, center
  <2> QED
    BY <1>0, <2>1, QuietStep DEF TypeOK, center, dart, posted
<1> QED
  BY <1>1, <1>2, <1>3

\* The plugin, the event queue and the Dart side do not touch the ring.
LEMMA PluginStep ==
  ASSUME Inv,
         \/ \E a \in {"answer", "decline"} : Tap(a)
         \/ onAttachedToEngine \/ onListen \/ onDetachedFromEngine
         \/ emit \/ handlePendingIncomingCall
  PROVE  Inv'
<1>0. TypeOK
  BY DEF Inv
<1> USE <1>0 DEF center, dart, history, TypeOK
<1>1. ASSUME NEW a \in {"answer", "decline"}, Tap(a) PROVE Inv'
  BY <1>1, QuietStep DEF Tap, posted
<1>2. CASE onAttachedToEngine \/ onListen
  BY <1>2, QuietStep DEF onAttachedToEngine, onListen, posted
<1>3. CASE onDetachedFromEngine
  <2>1. posted' = {} /\ emits' \in Seq(Events) /\ heard' \subseteq heard
    BY <1>3 DEF onDetachedFromEngine, posted
  <2> QED
    BY <1>3, <2>1, QuietStep DEF onDetachedFromEngine
<1>4. CASE emit
  <2>1. emits' \in Seq(Events) /\ Head(emits) \in posted /\ posted' \subseteq posted
    BY <1>4, EmitFacts DEF emit
  <2> QED
    BY <1>4, <2>1, QuietStep DEF emit
<1>5. CASE handlePendingIncomingCall
  <2>1. posted' = posted /\ pending' = NoCall
    BY <1>5 DEF handlePendingIncomingCall, consumePendingAnsweredCall, posted
  <2>2. heard' \cup posted' \subseteq outcomes
    BY <1>5, <2>1 DEF handlePendingIncomingCall, Inv, Traced
  <2> QED
    BY <1>5, <2>1, <2>2, QuietStep DEF handlePendingIncomingCall
<1> QED
  BY <1>1, <1>2, <1>3, <1>4, <1>5

\* Every step keeps the invariant.
LEMMA NextInv == Inv /\ [Next]_vars => Inv'
<1> SUFFICES ASSUME Inv, [Next]_vars PROVE Inv'
  OBVIOUS
<1>1. CASE UNCHANGED vars
  BY <1>1 DEF vars, center, dart, history, Inv, TypeOK, RingIsVisible, TimeoutArmed, Fresh,
     Alone, Traced, OneOutcome, OwnTimeout, ParkedOnce, posted
<1>2. CASE Next
  BY <1>2, RingStep, TimeoutStep, TapStep, PluginStep DEF Next
<1> QED
  BY <1>1, <1>2

----
\* The inductive invariant of the ring: what rings is what is shown, it has its
\* timeout ahead of it and no outcome behind it, and an answer is in one place.
THEOREM RingInvariance == Spec => []Inv
<1> QED
  BY InitInv, NextInv, PTL DEF Spec

\* The variables keep their types.
THEOREM RingTypeCorrect == Spec => []TypeOK
<1>1. Inv => TypeOK
  BY DEF Inv
<1> QED
  BY <1>1, RingInvariance, PTL

\* No call is told to have ended in two ways, for any number of calls that
\* replace each other and however taps and timeouts interleave.
THEOREM RingOneOutcome == Spec => []OneOutcome
<1>1. Inv => OneOutcome
  BY DEF Inv
<1> QED
  BY <1>1, RingInvariance, PTL

\* The notification always shows the call that an answer would take.
THEOREM RingVisible == Spec => []RingIsVisible
<1>1. Inv => RingIsVisible
  BY DEF Inv
<1> QED
  BY <1>1, RingInvariance, PTL

\* A ringing call always has its own timeout ahead of it.
THEOREM RingArmed == Spec => []TimeoutArmed
<1>1. Inv => TimeoutArmed
  BY DEF Inv
<1> QED
  BY <1>1, RingInvariance, PTL

\* A call is only reported missed after its own ring time, unless it was
\* reported while an old timeout could still run.
THEOREM RingOwnTimeout == Spec => []OwnTimeout
<1>1. Inv => OwnTimeout
  BY DEF Inv
<1> QED
  BY <1>1, RingInvariance, PTL

\* A parked answer was not handed to Dart as well.
THEOREM RingParkedOnce == Spec => []ParkedOnce
<1>1. Inv => ParkedOnce
  BY DEF Inv
<1> QED
  BY <1>1, RingInvariance, PTL
====

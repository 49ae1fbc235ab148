---- MODULE RnApp_proofs ----
(***************************************************************************)
(* Proofs about RnApp, for any number of calls, controllers, hang-ups,     *)
(* digits and failures: the types, that digits reach their call, and that  *)
(* the screen shows the call, and the camera, that run below it.           *)
(***************************************************************************)
EXTENDS RnApp, TLAPS

(***************************************************************************)
(* The inductive invariant.  JavaScript and the native side have a part    *)
(* each; what they share is which calls are fresh: nobody knows of a call  *)
(* that has no session yet.                                                *)
(***************************************************************************)
CtlRecords == [state : CallState, session : SessionOrNone, token : SessionOrNone]
Screens == [mounted : BOOLEAN, state : CallState, video : BOOLEAN, since : 0 .. MaxControllers]
OpRecords ==
  [pc : {"idle", "video", "done", "threw", "threwEarly"} \cup Starting,
   by : Controllers, kind : CallTypes \cup {"incoming"}, attempt : 1 .. MaxAttempts]
HangRecords ==
  [pc : {"idle", "leaving", "done"}, by : Controllers, session : SessionOrNone]
ToneRecords ==
  [pc : {"idle", "connect", "send", "reconnect", "resend", "done", "threw"},
   by : Controllers, session : SessionOrNone, token : SessionOrNone]

JsTyped ==
  /\ ctl \in [Controllers -> CtlRecords] /\ cur \in 0 .. MaxControllers /\ screen \in Screens
  /\ op \in [Calls -> OpRecords] /\ hang \in [Ends -> HangRecords]
  /\ tone \in [Tones -> ToneRecords]
  /\ heard \subseteq Sessions \X Sessions
  /\ spoiled \subseteq Calls /\ adrift \subseteq Calls /\ late \subseteq Sessions

NativeTyped ==
  /\ spent \in 0 .. MaxMoves
  /\ calls \in Seq(NativeCalls) /\ inbox \in Seq(Replies) /\ posted \in Seq(Events)
  /\ media \in SessionOrNone /\ coming \in BOOLEAN /\ camera \in SessionOrNone /\ ending \in BOOLEAN
  /\ running \subseteq Sessions
  /\ contact \in [Sessions -> {"none", "live", "over"}]

fresh(c) == op[c].pc \in {"idle", "request"}

\* No session, or one that the property excuses.
excusable(s) == s = NoSession \/ s \in late \cup spoiled
forgotten(s) == s = NoSession \/ s \in spoiled

\* There is a controller below the screen, and a session where digits are sent.
Grounded ==
  /\ screen.mounted => cur # 0
  /\ \A t \in Tones :
       /\ tone[t].pc \in {"connect", "send", "reconnect", "resend"} => tone[t].session # NoSession
       /\ tone[t].pc \in {"send", "resend"} => tone[t].token # NoSession

\* A controller that is not made yet has no call.
Unmade ==
  /\ \A i \in Controllers : i > cur => ctl[i].state \notin isActive
  /\ \A c \in Calls : op[c].pc = "request" => op[c].by <= cur

FreshInJs ==
  \A c \in Calls : fresh(c) =>
    /\ \A i \in Controllers : ctl[i].session # c
    /\ \A e \in Ends : hang[e].session # c

FreshInNative ==
  \A c \in Calls : fresh(c) =>
    /\ media # c /\ c \notin running
    /\ \A k \in 1 .. Len(calls) : calls[k].kind = "join" => calls[k].of # c
    /\ \A k \in 1 .. Len(posted) : posted[k].about # c

\* The token that a controller holds is that of its session, and an inactive
\* controller has neither, but for excused calls.
TokenKept ==
  \A i \in Controllers :
    /\ \/ excusable(ctl[i].token) \/ ctl[i].token = ctl[i].session
       \/ ctl[i].session \in spoiled
    /\ ctl[i].state \notin isActive =>
         excusable(ctl[i].token) /\ forgotten(ctl[i].session)

\* A call that is about to get its session finds an active controller without one,
\* and is alone.
awaited(c) ==
  /\ ctl[op[c].by].state \in isActive
  /\ excusable(ctl[op[c].by].token) /\ forgotten(ctl[op[c].by].session)

RequestKept ==
  /\ \A c \in Calls : op[c].pc = "request" /\ c \notin spoiled => awaited(c)
  /\ \A c, d \in Calls :
       op[c].pc = "request" /\ op[d].pc = "request" /\ op[c].by = op[d].by /\ c # d =>
         c \in spoiled \/ d \in spoiled

\* So it is with the token and the session that a sendDtmf has captured.
ToneKept ==
  \A t \in Tones :
    excusable(tone[t].token) \/ tone[t].token = tone[t].session \/ tone[t].session \in spoiled

JsInv ==
  /\ JsTyped /\ Grounded /\ Unmade /\ FreshInJs
  /\ TokenKept /\ RequestKept /\ ToneKept /\ DigitsReachTheirCall

NativeInv == NativeTyped /\ (coming => media # NoSession) /\ FreshInNative

IInv == JsInv /\ NativeInv

LEMMA TypeParts == TypeOK <=> JsTyped /\ NativeTyped
BY DEF TypeOK, JsTyped, NativeTyped, CtlRecords, Screens, OpRecords, HangRecords, ToneRecords

----
(***************************************************************************)
(* What the operators of the model do.                                     *)
(***************************************************************************)

\* A change of the state spoils what the controller had in hand, unless it becomes
\* active, and never redeems anybody.
LEMMA SetStateFacts ==
  ASSUME JsTyped, media \in SessionOrNone, NEW i \in Controllers, NEW s \in CallState, NEW by,
         setState(i, s, by)
  PROVE  /\ screen' \in Screens /\ screen'.mounted = screen.mounted
         /\ spoiled \subseteq spoiled' /\ spoiled' \subseteq Calls
         /\ s \notin isActive => \A c \in inHand(i) : c # by => c \in spoiled'
<1>1. screen' \in Screens /\ screen'.mounted = screen.mounted
  <2> DEFINE b == screen.video /\ ~(s \in isTerminal /\ screen.state # s)
             n == [screen EXCEPT !.state = s, !.video = b]
  <2>1. screen \in Screens
    BY DEF JsTyped
  <2>2. b \in BOOLEAN
    OBVIOUS
  <2>3. screen' = n \/ screen' = screen
    BY DEF setState, shown
  <2> HIDE DEF b
  <2>4. n \in Screens /\ n.mounted = screen.mounted
    BY <2>1, <2>2 DEF Screens
  <2> QED
    BY <2>1, <2>3, <2>4
<1>2. inHand(i) \subseteq Calls /\ NoSession \notin inHand(i) /\ NoSession \notin Calls
  BY RnAssumption DEF inHand, JsTyped, CtlRecords, SessionOrNone, Calls, starting
<1>3. spoiled \subseteq Calls /\ media \in Calls \cup {NoSession}
  BY DEF JsTyped, SessionOrNone, Calls
<1>4. spoiled' = IF s \in isActive THEN spoiled
                 ELSE spoiled \cup ((inHand(i) \cup {media}) \ {NoSession, by})
  BY DEF setState
<1> HIDE DEF setState, inHand
<1> QED
  BY <1>1, <1>2, <1>3, <1>4

\* Queues stay queues; what is appended comes last.
LEMMA Queue ==
  ASSUME NEW S, NEW q \in Seq(S)
  PROVE  /\ \A m \in S : /\ Append(q, m) \in Seq(S) /\ Len(Append(q, m)) = Len(q) + 1
                         /\ \A k \in 1 .. Len(q) : Append(q, m)[k] = q[k]
                         /\ Append(q, m)[Len(q) + 1] = m
         /\ q # <<>> => /\ Head(q) \in S /\ Tail(q) \in Seq(S) /\ Len(Tail(q)) = Len(q) - 1
                        /\ Len(q) \in Nat \ {0} /\ Head(q) = q[1]
                        /\ \A k \in 1 .. Len(q) - 1 : Tail(q)[k] = q[k + 1]
         /\ Len(q) \in Nat
OBVIOUS

----
(***************************************************************************)
(* What the steps of JavaScript do to its part of the invariant.           *)
(***************************************************************************)

\* Digits, and the tokens that they use, are safe as long as nobody is redeemed.
LEMMA TonesKept ==
  ASSUME JsInv, UNCHANGED <<tone, heard, late>>, spoiled \subseteq spoiled'
  PROVE  ToneKept' /\ DigitsReachTheirCall'
<1>1. ToneKept /\ DigitsReachTheirCall
  BY DEF JsInv
<1>2. ToneKept'
  BY <1>1 DEF ToneKept, excusable
<1> QED
  BY <1>1, <1>2 DEF DigitsReachTheirCall

\* One field of a controller changes.
LEMMA StateFacts ==
  ASSUME ctl \in [Controllers -> CtlRecords], NEW i \in Controllers, NEW s \in CallState,
         ctl' = [ctl EXCEPT ![i].state = s]
  PROVE  /\ ctl' \in [Controllers -> CtlRecords]
         /\ \A j \in Controllers : /\ ctl'[j].session = ctl[j].session
                                   /\ ctl'[j].token = ctl[j].token
                                   /\ ctl'[j].state = IF j = i THEN s ELSE ctl[j].state
<1> DEFINE n == [ctl[i] EXCEPT !.state = s]
<1>1. ctl[i] \in CtlRecords
  OBVIOUS
<1>2. n \in CtlRecords /\ n.state = s /\ n.session = ctl[i].session /\ n.token = ctl[i].token
  BY <1>1 DEF CtlRecords
<1>3. ctl' = [ctl EXCEPT ![i] = n]
  OBVIOUS
<1> HIDE DEF n
<1> QED
  BY <1>2, <1>3

\* A call starts at an inactive controller, which may have been made just now.
LEMMA BeginStep ==
  ASSUME JsInv, NEW c \in Calls, NEW i \in Controllers, NEW kind \in CallTypes \cup {"incoming"},
         op[c].pc = "idle", ctl[i].state \notin isActive,
         op' = newCall(c, i, kind), ctl' = [ctl EXCEPT ![i].state = "connecting"],
         UNCHANGED <<hang, tone, spoiled, adrift, late, heard>>,
         cur' \in 0 .. MaxControllers, cur <= cur', i <= cur',
         screen' \in Screens, screen'.mounted => cur' # 0
  PROVE  JsInv' /\ \A d \in Calls : fresh(d)' => fresh(d)
<1>0. JsTyped /\ ctl \in [Controllers -> CtlRecords] /\ op \in [Calls -> OpRecords] /\ cur \in Nat
  BY DEF JsInv, JsTyped
<1>1. /\ ctl' \in [Controllers -> CtlRecords]
      /\ \A j \in Controllers : /\ ctl'[j].session = ctl[j].session
                                /\ ctl'[j].token = ctl[j].token
                                /\ ctl'[j].state = IF j = i THEN "connecting" ELSE ctl[j].state
  BY <1>0, StateFacts DEF CallState
<1>2. /\ op' \in [Calls -> OpRecords] /\ op'[c].pc = "request" /\ op'[c].by = i
      /\ \A d \in Calls : d # c => op'[d] = op[d]
  <2>1. [pc |-> "request", by |-> i, kind |-> kind, attempt |-> 1] \in OpRecords
    BY RnAssumption DEF OpRecords, Starting
  <2> QED
    BY <1>0, <2>1 DEF newCall
<1>3. \A d \in Calls : fresh(d)' => fresh(d)
  BY <1>2 DEF fresh
<1>4. JsTyped'
  BY <1>0, <1>1, <1>2 DEF JsTyped
<1>5. Grounded'
  BY DEF JsInv, Grounded
<1>6. Unmade'
  <2>1. \A j \in Controllers : j > cur' => j > cur /\ j # i
    BY <1>0 DEF Controllers
  <2>2. \A d \in Calls : op[d].by \in Controllers
    BY <1>0 DEF OpRecords
  <2> QED
    BY <1>0, <1>1, <1>2, <2>1, <2>2 DEF JsInv, Unmade, Controllers
<1>7. FreshInJs'
  BY <1>1, <1>3 DEF JsInv, FreshInJs
<1>8. TokenKept'
  BY <1>1 DEF JsInv, TokenKept, excusable, forgotten, isActive
<1>9. RequestKept'
  <2>1. \A d \in Calls : op[d].pc = "request" /\ op[d].by = i => d \in spoiled
    BY DEF JsInv, RequestKept, awaited
  <2>2. excusable(ctl[i].token) /\ forgotten(ctl[i].session)
    BY DEF JsInv, TokenKept
  <2>3. ASSUME NEW d \in Calls, op'[d].pc = "request", d \notin spoiled'
        PROVE  awaited(d)'
    <3>1. CASE d = c
      BY <1>1, <1>2, <2>2, <3>1 DEF awaited, excusable, forgotten, isActive
    <3>2. CASE d # c
      <4>1. op'[d] = op[d] /\ op[d].by \in Controllers
        BY <1>0, <1>2, <3>2 DEF OpRecords
      <4>2. awaited(d)
        BY <2>3, <4>1 DEF JsInv, RequestKept
      <4> QED
        BY <1>1, <4>1, <4>2 DEF awaited, excusable, forgotten, isActive
    <3> QED
      BY <3>1, <3>2
  <2>4. ASSUME NEW d \in Calls, NEW e \in Calls, op'[d].pc = "request", op'[e].pc = "request",
               op'[d].by = op'[e].by, d # e
        PROVE  d \in spoiled \/ e \in spoiled
    BY <1>2, <2>1, <2>4 DEF JsInv, RequestKept
  <2> QED
    BY <2>3, <2>4 DEF RequestKept
<1>10. ToneKept' /\ DigitsReachTheirCall'
  BY TonesKept
<1> QED
  BY <1>3, <1>4, <1>5, <1>6, <1>7, <1>8, <1>9, <1>10 DEF JsInv

\* A call fails: its controller becomes inactive, and the call is over.
LEMMA FailStep ==
  ASSUME JsInv, media \in SessionOrNone, NEW c \in Calls, fail(c, "threw"),
         UNCHANGED <<cur, hang, tone, adrift, late, heard>>
  PROVE  JsInv' /\ \A d \in Calls : fresh(d)' => fresh(d)
<1> DEFINE i == op[c].by
<1>0. /\ JsTyped /\ ctl \in [Controllers -> CtlRecords] /\ op \in [Calls -> OpRecords]
      /\ i \in Controllers /\ "failed" \in CallState /\ "failed" \notin isActive
  BY DEF JsInv, JsTyped, OpRecords, CallState, isActive
<1>1. /\ ctl' \in [Controllers -> CtlRecords]
      /\ \A j \in Controllers : /\ ctl'[j].session = ctl[j].session
                                /\ ctl'[j].token = ctl[j].token
                                /\ ctl'[j].state = IF j = i THEN "failed" ELSE ctl[j].state
  <2>1. ctl' = [ctl EXCEPT ![i].state = "failed"]
    BY DEF fail
  <2> HIDE DEF i
  <2> QED
    BY <1>0, <2>1, StateFacts
<1>2. /\ op' \in [Calls -> OpRecords] /\ op'[c].pc = "threw"
      /\ \A d \in Calls : d # c => op'[d] = op[d]
  <2>1. returned("threw") \in OpRecords /\ returned("threw").pc = "threw"
    BY RnAssumption DEF OpRecords, returned, Controllers, CallTypes
  <2> QED
    BY <1>0, <2>1 DEF fail
<1>3. /\ screen' \in Screens /\ screen'.mounted = screen.mounted
      /\ spoiled \subseteq spoiled' /\ spoiled' \subseteq Calls
      /\ \A d \in inHand(i) : d \in spoiled'
  <2>1. setState(i, "failed", NoSession)
    BY DEF fail
  <2>2. NoSession \notin inHand(i)
    BY <1>0, RnAssumption DEF inHand, starting, Calls
  <2> HIDE DEF i
  <2> QED
    BY <1>0, <2>1, <2>2, SetStateFacts
<1>4. /\ ctl[i].session \in spoiled' \cup {NoSession}
      /\ ctl[i].token \in spoiled' \cup {NoSession}
      /\ \A d \in Calls : op[d].pc = "request" /\ op[d].by = i => d \in spoiled'
  BY <1>3 DEF inHand, starting, Starting
<1> HIDE DEF i
<1>5. \A d \in Calls : fresh(d)' => fresh(d) /\ op'[d] = op[d]
  BY <1>2 DEF fresh
<1>6. JsTyped'
  BY <1>0, <1>1, <1>2, <1>3 DEF JsTyped
<1>7. Grounded'
  BY <1>3 DEF JsInv, Grounded
<1>8. Unmade'
  BY <1>0, <1>1, <1>2 DEF JsInv, Unmade
<1>9. FreshInJs'
  BY <1>1, <1>5 DEF JsInv, FreshInJs
<1>10. TokenKept'
  BY <1>1, <1>3, <1>4 DEF JsInv, TokenKept, excusable, forgotten
<1>11. RequestKept'
  <2>1. \A d \in Calls : op'[d].pc = "request" => op'[d] = op[d] /\ op[d].by \in Controllers
    BY <1>0, <1>2 DEF OpRecords
  <2>2. ASSUME NEW d \in Calls, op'[d].pc = "request", d \notin spoiled'
        PROVE  awaited(d)'
    <3>1. op'[d] = op[d] /\ op[d].by \in Controllers /\ op[d].by # i /\ d \notin spoiled
      BY <1>3, <1>4, <2>1, <2>2
    <3>2. awaited(d)
      BY <2>2, <3>1 DEF JsInv, RequestKept
    <3> QED
      BY <1>1, <1>3, <3>1, <3>2 DEF awaited, excusable, forgotten
  <2>3. ASSUME NEW d \in Calls, NEW e \in Calls, op'[d].pc = "request", op'[e].pc = "request",
               op'[d].by = op'[e].by, d # e
        PROVE  d \in spoiled' \/ e \in spoiled'
    BY <1>3, <2>1, <2>3 DEF JsInv, RequestKept
  <2> QED
    BY <2>2, <2>3 DEF RequestKept
<1>12. ToneKept' /\ DigitsReachTheirCall'
  BY <1>3, TonesKept
<1> QED
  BY <1>5, <1>6, <1>7, <1>8, <1>9, <1>10, <1>11, <1>12 DEF JsInv

\* Calls that go on, as long as no controller is touched.
LEMMA MoveStep ==
  ASSUME JsInv, op' \in [Calls -> OpRecords],
         \A d \in Calls : \/ op'[d] = op[d]
                          \/ op'[d].pc \notin {"idle", "request"}
                          \/ op'[d].pc = "request" /\ op[d].pc = "request" /\ op'[d].by = op[d].by,
         UNCHANGED <<ctl, hang, tone, spoiled, late, heard>>,
         cur' \in 0 .. MaxControllers, cur <= cur', adrift' \subseteq Calls,
         screen' \in Screens, screen'.mounted => cur' # 0
  PROVE  JsInv' /\ \A d \in Calls : fresh(d)' => fresh(d)
<1>0. JsTyped /\ cur \in Nat /\ \A d \in Calls : op[d] \in OpRecords
  BY DEF JsInv, JsTyped
<1>1. \A d \in Calls : op'[d].pc = "request" => op[d].pc = "request" /\ op'[d].by = op[d].by
  OBVIOUS
<1>2. \A d \in Calls : fresh(d)' => fresh(d)
  BY DEF fresh
<1>3. JsTyped'
  BY <1>0 DEF JsTyped
<1>4. Grounded'
  BY DEF JsInv, Grounded
<1>5. Unmade'
  BY <1>0, <1>1 DEF JsInv, Unmade, Controllers, OpRecords
<1>6. FreshInJs'
  BY <1>2 DEF JsInv, FreshInJs
<1>7. TokenKept'
  BY DEF JsInv, TokenKept, excusable, forgotten
<1>8. RequestKept'
  <2>1. \A d \in Calls : op'[d].pc = "request" /\ d \notin spoiled' => awaited(d)'
    BY <1>1 DEF JsInv, RequestKept, awaited, excusable, forgotten
  <2>2. ASSUME NEW d \in Calls, NEW e \in Calls, op'[d].pc = "request", op'[e].pc = "request",
               op'[d].by = op'[e].by, d # e
        PROVE  d \in spoiled' \/ e \in spoiled'
    BY <1>1, <2>2 DEF JsInv, RequestKept
  <2> QED
    BY <2>1, <2>2 DEF RequestKept
<1>9. ToneKept' /\ DigitsReachTheirCall'
  BY TonesKept
<1> QED
  BY <1>2, <1>3, <1>4, <1>5, <1>6, <1>7, <1>8, <1>9 DEF JsInv

\* A call gets its session: its controller had none, or the call was spoiled.
LEMMA ReceivedStep ==
  ASSUME JsInv, media \in SessionOrNone, NEW c \in Calls, Received(c)
  PROVE  JsInv' /\ (\A d \in Calls : fresh(d)' => fresh(d)) /\ ~fresh(c)'
<1> DEFINE i == op[c].by
<1>0. /\ JsTyped /\ ctl \in [Controllers -> CtlRecords] /\ op \in [Calls -> OpRecords]
      /\ i \in Controllers /\ op[c].pc = "request" /\ c \in Sessions /\ c # NoSession
      /\ UNCHANGED <<cur, hang, tone, adrift, late, heard>>
  BY RnAssumption DEF JsInv, JsTyped, OpRecords, Received, Calls
<1>1. /\ screen' \in Screens /\ screen'.mounted = screen.mounted /\ spoiled' = spoiled
  <2>1. (screen' = screen /\ spoiled' = spoiled) \/ setState(i, "ringing", c)
    BY DEF Received
  <2>2. setState(i, "ringing", c) => spoiled' = spoiled
    BY DEF setState, isActive
  <2> HIDE DEF i
  <2>3. "ringing" \in CallState
    BY DEF CallState
  <2> QED
    BY <1>0, <2>1, <2>2, <2>3, SetStateFacts DEF JsTyped
<1>2. /\ op' \in [Calls -> OpRecords] /\ op'[c].pc = "join"
      /\ \A d \in Calls : d # c => op'[d] = op[d]
  <2> DEFINE n == [op[c] EXCEPT !.pc = "join", !.attempt = 1]
  <2>1. op[c] \in OpRecords /\ 1 \in 1 .. MaxAttempts
    BY <1>0, RnAssumption
  <2>2. n \in OpRecords /\ n.pc = "join"
    BY <2>1 DEF OpRecords, Starting
  <2>3. op' = [op EXCEPT ![c] = n]
    BY <1>0 DEF Received
  <2> HIDE DEF n
  <2> QED
    BY <1>0, <2>2, <2>3
<1>3. /\ ctl' \in [Controllers -> CtlRecords] /\ ctl'[i].session = c
      /\ ctl'[i].token = ctl[i].token
      /\ ctl[i].state \in isActive => ctl'[i].state \in isActive
      /\ ctl'[i].state \notin isActive => ctl[i].state \notin isActive
      /\ \A j \in Controllers : j # i => ctl'[j] = ctl[j]
  <2> DEFINE n == [ctl[i] EXCEPT !.session = c]
             m == [ctl[i] EXCEPT !.session = c, !.state = "ringing"]
  <2>1. ctl[i] \in CtlRecords
    BY <1>0
  <2>2. /\ n \in CtlRecords /\ n.session = c /\ n.token = ctl[i].token
        /\ n.state = ctl[i].state
        /\ m \in CtlRecords /\ m.session = c /\ m.token = ctl[i].token /\ m.state = "ringing"
    BY <1>0, <2>1 DEF CtlRecords, SessionOrNone, CallState
  <2>3. ctl' = [ctl EXCEPT ![i] = n] \/ ctl' = [ctl EXCEPT ![i] = m]
    BY <1>0 DEF Received
  <2> HIDE DEF n, m, i
  <2> QED
    BY <1>0, <2>2, <2>3 DEF isActive
<1>4. \A d \in Calls : (fresh(d)' => fresh(d) /\ d # c) /\ ~fresh(c)'
  BY <1>2 DEF fresh
<1>5. c \in spoiled \/ awaited(c)
  BY <1>0 DEF JsInv, RequestKept
<1>6. \A d \in Calls : d # c /\ op[d].pc = "request" /\ op[d].by = i => c \in spoiled \/ d \in spoiled
  BY <1>0 DEF JsInv, RequestKept
<1>7. \A d \in Calls : op[d].pc = "request" /\ d \notin spoiled => awaited(d)
  BY DEF JsInv, RequestKept
<1>8. \A d \in Calls : op'[d].pc = "request" => d # c /\ op'[d] = op[d] /\ op[d].by \in Controllers
  BY <1>0, <1>2 DEF OpRecords
<1>9. JsTyped'
  BY <1>0, <1>1, <1>2, <1>3 DEF JsTyped
<1>10. Grounded'
  BY <1>0, <1>1 DEF JsInv, Grounded
<1>11. Unmade'
  <2>1. i <= cur
    BY <1>0 DEF JsInv, Unmade
  <2>2. cur \in Nat /\ i \in Nat
    BY <1>0 DEF JsTyped, Controllers
  <2> HIDE DEF i
  <2>3. \A j \in Controllers : j > cur => j # i
    BY <1>0, <2>1, <2>2 DEF Controllers
  <2> QED
    BY <1>0, <1>3, <1>8, <2>3 DEF JsInv, Unmade
<1>12. FreshInJs'
  <2> HIDE DEF i
  <2>1. ASSUME NEW d \in Calls, fresh(d)', NEW j \in Controllers
        PROVE  ctl'[j].session # d
    BY <1>3, <1>4, <2>1 DEF JsInv, FreshInJs
  <2> QED
    BY <1>0, <1>4, <2>1 DEF JsInv, FreshInJs
<1>13. awaited(c) => excusable(ctl[i].token)
  BY DEF awaited
<1>14. TokenKept'
  <2>1. ctl[i].state \notin isActive => excusable(ctl[i].token) /\ c \in spoiled
    BY <1>0, <1>5 DEF JsInv, TokenKept, awaited
  <2> HIDE DEF i
  <2>2. excusable(ctl[i].token) \/ c \in spoiled
    BY <1>5, <1>13
  <2> QED
    BY <1>0, <1>1, <1>3, <2>1, <2>2 DEF JsInv, TokenKept, excusable, forgotten
<1>15. RequestKept'
  <2>1. ASSUME NEW d \in Calls, op'[d].pc = "request", d \notin spoiled'
        PROVE  awaited(d)'
    <3>1. op'[d] = op[d] /\ op[d].by \in Controllers /\ d # c /\ awaited(d) /\ op[d].pc = "request"
      BY <1>1, <1>7, <1>8, <2>1
    <3>2. CASE op[d].by = i
      <4>1. c \in spoiled
        BY <1>1, <1>6, <2>1, <3>1, <3>2
      <4> QED
        BY <1>0, <1>1, <1>3, <3>1, <3>2, <4>1 DEF awaited, excusable, forgotten
    <3>3. CASE op[d].by # i
      <4> HIDE DEF i
      <4> QED
        BY <1>0, <1>1, <1>3, <3>1, <3>3 DEF awaited, excusable, forgotten
    <3> QED
      BY <3>2, <3>3
  <2>2. ASSUME NEW d \in Calls, NEW e \in Calls, op'[d].pc = "request", op'[e].pc = "request",
               op'[d].by = op'[e].by, d # e
        PROVE  d \in spoiled' \/ e \in spoiled'
    BY <1>1, <1>8, <2>2 DEF JsInv, RequestKept
  <2> QED
    BY <2>1, <2>2 DEF RequestKept
<1>16. ToneKept' /\ DigitsReachTheirCall'
  BY <1>0, <1>1, TonesKept
<1> QED
  BY <1>4, <1>9, <1>10, <1>11, <1>12, <1>14, <1>15, <1>16 DEF JsInv

\* A hang-up captures the session of the controller.
LEMMA HangStep ==
  ASSUME JsInv, NEW e \in Ends, endCall(e)
  PROVE  JsInv' /\ \A d \in Calls : fresh(d)' => fresh(d)
<1>0. /\ JsTyped /\ hang \in [Ends -> HangRecords] /\ cur \in Controllers /\ ctl[cur] \in CtlRecords
      /\ UNCHANGED <<ctl, cur, screen, op, tone, spoiled, adrift, late, heard>>
  BY RnAssumption DEF JsInv, JsTyped, Grounded, endCall, Controllers, connect
<1> DEFINE n == [pc |-> "leaving", by |-> cur, session |-> ctl[cur].session]
<1>1. n \in HangRecords /\ n.session = ctl[cur].session /\ hang' = [hang EXCEPT ![e] = n]
  BY <1>0 DEF HangRecords, CtlRecords, endCall
<1> HIDE DEF n
<1>2. JsTyped'
  BY <1>0, <1>1 DEF JsTyped
<1>3. FreshInJs' /\ \A d \in Calls : fresh(d)' => fresh(d)
  BY <1>0, <1>1 DEF JsInv, FreshInJs, fresh
<1>4. Grounded' /\ Unmade'
  BY <1>0 DEF JsInv, Grounded, Unmade
<1>5. TokenKept' /\ RequestKept'
  BY <1>0 DEF JsInv, TokenKept, RequestKept, awaited, excusable, forgotten
<1>6. ToneKept' /\ DigitsReachTheirCall'
  BY <1>0, TonesKept
<1> QED
  BY <1>2, <1>3, <1>4, <1>5, <1>6 DEF JsInv

\* A call is over for its controller, because of a call that has its session.
LEMMA OverStep ==
  ASSUME JsInv, media \in SessionOrNone, NEW i \in Controllers,
         NEW s \in {"disconnected", "failed"}, NEW by, ctl' = over(i, s), setState(i, s, by),
         \A d \in Calls : op[d].pc = "request" => d # by,
         hang' \in [Ends -> HangRecords],
         \A e \in Ends : hang'[e].session \in {hang[e].session, NoSession},
         UNCHANGED <<cur, op, tone, adrift, late, heard>>
  PROVE  JsInv' /\ \A d \in Calls : fresh(d)' => fresh(d)
<1>0. /\ JsTyped /\ ctl \in [Controllers -> CtlRecords] /\ op \in [Calls -> OpRecords]
      /\ s \in CallState /\ s \notin isActive
  BY DEF JsInv, JsTyped, CallState, isActive
<1> DEFINE n == [ctl[i] EXCEPT !.state = s, !.session = NoSession, !.token = NoSession]
<1>1. n \in CtlRecords /\ n.state = s /\ n.session = NoSession /\ n.token = NoSession
  <2>1. ctl[i] \in CtlRecords
    BY <1>0
  <2> QED
    BY <1>0, <2>1 DEF CtlRecords, SessionOrNone
<1>2. ctl' = [ctl EXCEPT ![i] = n]
  BY <1>0 DEF over, CtlRecords
<1> HIDE DEF n
<1>3. ctl' \in [Controllers -> CtlRecords] /\ ctl'[i] = n /\ \A j \in Controllers : j # i => ctl'[j] = ctl[j]
  BY <1>0, <1>1, <1>2
<1>4. /\ screen' \in Screens /\ screen'.mounted = screen.mounted
      /\ spoiled \subseteq spoiled' /\ spoiled' \subseteq Calls
      /\ \A c \in inHand(i) : c # by => c \in spoiled'
  BY <1>0, SetStateFacts
<1>5. \A d \in Calls : op[d].pc = "request" /\ op[d].by = i => d \in spoiled'
  BY <1>4 DEF inHand, starting, Starting
<1>6. JsTyped'
  BY <1>0, <1>3, <1>4 DEF JsTyped
<1>7. Grounded'
  BY <1>4 DEF JsInv, Grounded
<1>8. Unmade'
  BY <1>0, <1>1, <1>3 DEF JsInv, Unmade
<1>9. FreshInJs' /\ \A d \in Calls : fresh(d)' => fresh(d)
  <2>1. \A d \in Calls : d # NoSession
    BY RnAssumption DEF Calls
  <2> QED
    BY <1>1, <1>3, <2>1 DEF JsInv, FreshInJs, fresh
<1>10. TokenKept'
  BY <1>1, <1>3, <1>4 DEF JsInv, TokenKept, excusable, forgotten
<1>11. RequestKept'
  <2>1. ASSUME NEW d \in Calls, op[d].pc = "request", d \notin spoiled'
        PROVE  awaited(d)'
    <3>1. op[d].by \in Controllers /\ op[d].by # i /\ d \notin spoiled
      BY <1>0, <1>4, <1>5, <2>1 DEF OpRecords
    <3>2. awaited(d)
      BY <2>1, <3>1 DEF JsInv, RequestKept
    <3> QED
      BY <1>3, <1>4, <3>1, <3>2 DEF awaited, excusable, forgotten
  <2>2. ASSUME NEW d \in Calls, NEW e \in Calls, op[d].pc = "request", op[e].pc = "request",
               op[d].by = op[e].by, d # e
        PROVE  d \in spoiled' \/ e \in spoiled'
    BY <1>4, <2>2 DEF JsInv, RequestKept
  <2> QED
    BY <2>1, <2>2 DEF RequestKept
<1>12. ToneKept' /\ DigitsReachTheirCall'
  BY <1>4, TonesKept
<1> QED
  BY <1>6, <1>7, <1>8, <1>9, <1>10, <1>11, <1>12 DEF JsInv

\* An event makes the controller of the screen active.
LEMMA ActiveStep ==
  ASSUME JsInv, media \in SessionOrNone, cur \in Controllers,
         NEW s \in {"connecting", "connected"}, NEW by,
         ctl' = [ctl EXCEPT ![cur].state = s], setState(cur, s, by),
         UNCHANGED <<cur, op, hang, tone, adrift, late, heard>>
  PROVE  JsInv' /\ \A d \in Calls : fresh(d)' => fresh(d)
<1>0. /\ JsTyped /\ ctl \in [Controllers -> CtlRecords] /\ s \in CallState /\ s \in isActive
      /\ op \in [Calls -> OpRecords] /\ cur \in Nat
  BY DEF JsInv, JsTyped, CallState, isActive
<1>1. /\ ctl' \in [Controllers -> CtlRecords]
      /\ \A j \in Controllers : /\ ctl'[j].session = ctl[j].session
                                /\ ctl'[j].token = ctl[j].token
                                /\ ctl'[j].state = IF j = cur THEN s ELSE ctl[j].state
  BY <1>0, StateFacts
<1>2. screen' \in Screens /\ screen'.mounted = screen.mounted
  BY <1>0, SetStateFacts
<1>3. spoiled' = spoiled
  BY <1>0 DEF setState
<1>4. JsTyped'
  BY <1>0, <1>1, <1>2, <1>3 DEF JsTyped
<1>5. Grounded' /\ Unmade'
  BY <1>0, <1>1, <1>2 DEF JsInv, Grounded, Unmade
<1>6. FreshInJs' /\ \A d \in Calls : fresh(d)' => fresh(d)
  BY <1>1 DEF JsInv, FreshInJs, fresh
<1>7. TokenKept'
  BY <1>0, <1>1, <1>3 DEF JsInv, TokenKept, excusable, forgotten
<1>8. RequestKept'
  <2>1. ASSUME NEW d \in Calls, op[d].pc = "request", d \notin spoiled PROVE awaited(d)'
    <3>1. awaited(d) /\ op[d].by \in Controllers
      BY <1>0, <2>1 DEF JsInv, RequestKept, OpRecords
    <3> QED
      BY <1>0, <1>1, <1>3, <3>1 DEF awaited, excusable, forgotten
  <2> QED
    BY <1>3, <2>1 DEF JsInv, RequestKept
<1>9. ToneKept' /\ DigitsReachTheirCall'
  BY <1>3, TonesKept
<1> QED
  BY <1>4, <1>5, <1>6, <1>7, <1>8, <1>9 DEF JsInv

\* Digits are typed: the session and the token of the controller are captured.
LEMMA TypedStep ==
  ASSUME JsInv, NEW t \in Tones, sendDtmf(t)
  PROVE  JsInv'
<1>0. /\ JsTyped /\ tone \in [Tones -> ToneRecords] /\ cur \in Controllers /\ ctl[cur] \in CtlRecords
      /\ ctl[cur].session # NoSession
      /\ UNCHANGED <<ctl, cur, screen, op, hang, spoiled, adrift, late, heard>>
  BY RnAssumption DEF JsInv, JsTyped, Grounded, sendDtmf, Controllers, connect
<1> DEFINE p == IF ctl[cur].token = NoSession THEN "connect" ELSE "send"
           n == [pc |-> p, by |-> cur, session |-> ctl[cur].session, token |-> ctl[cur].token]
<1>1. /\ n \in ToneRecords /\ n.session = ctl[cur].session /\ n.token = ctl[cur].token
      /\ n.pc = p /\ tone' = [tone EXCEPT ![t] = n]
  BY <1>0 DEF ToneRecords, CtlRecords, sendDtmf
<1>2. n.pc = "send" => n.token # NoSession
  BY <1>1
<1>3. n.pc \in {"connect", "send"}
  BY <1>1
<1> HIDE DEF n, p
<1>4. tone' \in [Tones -> ToneRecords] /\ tone'[t] = n /\ \A u \in Tones : u # t => tone'[u] = tone[u]
  BY <1>0, <1>1
<1>5. JsTyped'
  BY <1>0, <1>4 DEF JsTyped
<1>6. Grounded'
  BY <1>0, <1>1, <1>2, <1>3, <1>4 DEF JsInv, Grounded
<1>7. Unmade' /\ FreshInJs'
  BY <1>0 DEF JsInv, Unmade, FreshInJs, fresh
<1>8. TokenKept' /\ RequestKept'
  BY <1>0 DEF JsInv, TokenKept, RequestKept, awaited, excusable, forgotten
<1>9. ToneKept'
  <2>1. \/ excusable(n.token) \/ n.token = n.session \/ n.session \in spoiled
    BY <1>0, <1>1 DEF JsInv, TokenKept
  <2> QED
    BY <1>0, <1>4, <2>1 DEF JsInv, ToneKept, excusable
<1>10. DigitsReachTheirCall'
  BY <1>0 DEF JsInv, DigitsReachTheirCall
<1> QED
  BY <1>5, <1>6, <1>7, <1>8, <1>9, <1>10 DEF JsInv

\* A participant connection is made: its token is that of the captured session, and
\* comes late if the controller has another by now.
LEMMA ConnectedStep ==
  ASSUME JsInv, NEW t \in Tones, Connected(t)
  PROVE  JsInv'
<1> DEFINE s == tone[t].session
           i == tone[t].by
<1>0. /\ JsTyped /\ tone \in [Tones -> ToneRecords] /\ ctl \in [Controllers -> CtlRecords]
      /\ i \in Controllers /\ s \in Sessions /\ s # NoSession
      /\ UNCHANGED <<cur, screen, op, hang, spoiled, adrift, heard>>
  BY DEF JsInv, JsTyped, Grounded, ToneRecords, SessionOrNone, Connected, connect
<1>1. /\ ctl' \in [Controllers -> CtlRecords] /\ ctl'[i].token = s
      /\ ctl'[i].session = ctl[i].session /\ ctl'[i].state = ctl[i].state
      /\ \A j \in Controllers : j # i => ctl'[j] = ctl[j]
  <2> DEFINE n == [ctl[i] EXCEPT !.token = s]
  <2>1. ctl[i] \in CtlRecords
    BY <1>0
  <2>2. n \in CtlRecords /\ n.token = s /\ n.session = ctl[i].session /\ n.state = ctl[i].state
    BY <1>0, <2>1 DEF CtlRecords, SessionOrNone
  <2>3. ctl' = [ctl EXCEPT ![i] = n]
    BY DEF Connected
  <2> HIDE DEF n, i, s
  <2> QED
    BY <1>0, <2>2, <2>3
<1>2. /\ tone' \in [Tones -> ToneRecords] /\ tone'[t].token = s /\ tone'[t].session = s
      /\ \A u \in Tones : u # t => tone'[u] = tone[u]
  <2> DEFINE p == IF tone[t].pc = "connect" THEN "send" ELSE "resend"
             n == [tone[t] EXCEPT !.token = s, !.pc = p]
  <2>1. tone[t] \in ToneRecords
    BY <1>0
  <2>2. n \in ToneRecords /\ n.token = s /\ n.session = s
    BY <1>0, <2>1 DEF ToneRecords, SessionOrNone
  <2>3. tone' = [tone EXCEPT ![t] = n]
    BY <1>0 DEF Connected, ToneRecords
  <2> HIDE DEF n, s
  <2> QED
    BY <1>0, <2>2, <2>3
<1>3. /\ late \subseteq late' /\ late' \subseteq Sessions
      /\ ctl[i].session = s \/ s \in late'
  BY <1>0 DEF Connected, JsTyped
<1> HIDE DEF i, s
<1>4. JsTyped'
  BY <1>0, <1>1, <1>2, <1>3 DEF JsTyped
<1>5. Grounded'
  BY <1>0, <1>2 DEF JsInv, Grounded
<1>6. Unmade' /\ FreshInJs'
  BY <1>0, <1>1 DEF JsInv, Unmade, FreshInJs, fresh
<1>7. TokenKept'
  BY <1>0, <1>1, <1>3 DEF JsInv, TokenKept, excusable, forgotten
<1>8. RequestKept'
  <2>1. ASSUME NEW d \in Calls, op[d].pc = "request", d \notin spoiled PROVE awaited(d)'
    <3>1. awaited(d) /\ op[d].by \in Controllers
      BY <2>1 DEF JsInv, RequestKept, JsTyped, OpRecords
    <3>2. CASE op[d].by = i
      BY <1>0, <1>1, <1>3, <3>1, <3>2 DEF awaited, excusable, forgotten
    <3>3. CASE op[d].by # i
      BY <1>0, <1>1, <1>3, <3>1, <3>3 DEF awaited, excusable, forgotten
    <3> QED
      BY <3>2, <3>3
  <2> QED
    BY <1>0, <2>1 DEF JsInv, RequestKept
<1>9. ToneKept'
  BY <1>0, <1>2, <1>3 DEF JsInv, ToneKept, excusable
<1>10. DigitsReachTheirCall'
  BY <1>0, <1>3 DEF JsInv, DigitsReachTheirCall
<1> QED
  BY <1>4, <1>5, <1>6, <1>7, <1>8, <1>9, <1>10 DEF JsInv

\* Digits are taken, or fail, or are tried again.
LEMMA DigitsStep ==
  ASSUME JsInv, NEW t \in Tones, NEW p \in {"done", "threw"},
         toneOver(t, p) \/ (tone[t].pc = "send" /\ tone' = [tone EXCEPT ![t].pc = "reconnect"]),
         heard' = heard \/ (tone[t].pc \in {"send", "resend"} /\ heard' = hearDigits(t)),
         UNCHANGED <<ctl, cur, screen, op, hang, spoiled, adrift, late>>
  PROVE  JsInv'
<1>0. /\ JsTyped /\ tone \in [Tones -> ToneRecords] /\ tone[t] \in ToneRecords
      /\ NoSession \in SessionOrNone /\ 1 \in Controllers
  BY RnAssumption DEF JsInv, JsTyped, SessionOrNone, Controllers
<1>1. /\ tone' \in [Tones -> ToneRecords]
      /\ \A u \in Tones : u # t => tone'[u] = tone[u]
      /\ \/ tone'[t].token = NoSession /\ tone'[t].pc = p
         \/ /\ tone[t].pc = "send" /\ tone'[t].pc = "reconnect"
            /\ tone'[t].token = tone[t].token /\ tone'[t].session = tone[t].session
  <2> DEFINE m == [pc |-> p, by |-> 1, session |-> NoSession, token |-> NoSession]
             n == [tone[t] EXCEPT !.pc = "reconnect"]
  <2>1. m \in ToneRecords /\ m.token = NoSession /\ m.pc = p
    BY <1>0 DEF ToneRecords
  <2>2. n \in ToneRecords /\ n.pc = "reconnect" /\ n.token = tone[t].token /\ n.session = tone[t].session
    BY <1>0 DEF ToneRecords
  <2>3. \/ tone' = [tone EXCEPT ![t] = m]
        \/ tone[t].pc = "send" /\ tone' = [tone EXCEPT ![t] = n]
    BY DEF toneOver
  <2> HIDE DEF m, n
  <2> QED
    BY <1>0, <2>1, <2>2, <2>3
<1>2. ASSUME tone[t].pc \in {"send", "resend"}
      PROVE  /\ tone[t].session \in Sessions /\ tone[t].token \in Sessions
             /\ \/ tone[t].token = tone[t].session \/ tone[t].token \in late
                \/ {tone[t].session, tone[t].token} \cap spoiled # {}
  <2>1. tone[t].session # NoSession /\ tone[t].token # NoSession
    BY <1>2 DEF JsInv, Grounded
  <2>2. tone[t].session \in Sessions /\ tone[t].token \in Sessions
    BY <1>0, <2>1 DEF ToneRecords, SessionOrNone
  <2>3. excusable(tone[t].token) \/ tone[t].token = tone[t].session \/ tone[t].session \in spoiled
    BY DEF JsInv, ToneKept
  <2> QED
    BY <2>1, <2>2, <2>3 DEF excusable
<1>3. heard' \subseteq Sessions \X Sessions /\ DigitsReachTheirCall'
  <2>1. DigitsReachTheirCall /\ heard \subseteq Sessions \X Sessions
    BY <1>0 DEF JsInv, JsTyped
  <2>2. CASE heard' = heard
    BY <2>1, <2>2 DEF DigitsReachTheirCall
  <2>3. CASE tone[t].pc \in {"send", "resend"} /\ heard' = hearDigits(t)
    BY <1>2, <2>1, <2>3 DEF DigitsReachTheirCall, hearDigits
  <2> QED
    BY <2>2, <2>3
<1>4. JsTyped'
  BY <1>0, <1>1, <1>3 DEF JsTyped
<1>5. Grounded'
  BY <1>1 DEF JsInv, Grounded
<1>6. Unmade' /\ FreshInJs'
  BY DEF JsInv, Unmade, FreshInJs, fresh
<1>7. TokenKept' /\ RequestKept'
  BY DEF JsInv, TokenKept, RequestKept, awaited, excusable, forgotten
<1>8. ToneKept'
  BY <1>1 DEF JsInv, ToneKept, excusable
<1> QED
  BY <1>3, <1>4, <1>5, <1>6, <1>7, <1>8 DEF JsInv

----
(***************************************************************************)
(* The native side's part, and the theorems.                               *)
(***************************************************************************)

\* What JavaScript does to the native side: a call is appended, a reply or an event
\* is taken.
LEMMA NativeFrame ==
  ASSUME NativeInv, \A d \in Calls : fresh(d)' => fresh(d),
         calls' = calls \/ \E m \in NativeCalls :
           calls' = Append(calls, m) /\ (m.kind = "join" => ~fresh(m.of)'),
         inbox' \in {inbox, Tail(inbox)}, inbox' # inbox => inbox # <<>>,
         posted' \in {posted, Tail(posted)}, posted' # posted => posted # <<>>,
         UNCHANGED native, spent' \in 0 .. MaxMoves,
         contact' \in [Sessions -> {"none", "live", "over"}]
  PROVE  NativeInv'
<1>0. /\ NativeTyped /\ calls \in Seq(NativeCalls) /\ inbox \in Seq(Replies)
      /\ posted \in Seq(Events) /\ UNCHANGED <<media, coming, camera, ending, running>>
  BY DEF NativeInv, NativeTyped, native
<1>1. /\ calls' \in Seq(NativeCalls)
      /\ \A d \in Calls : fresh(d)' =>
           \A k \in 1 .. Len(calls') : calls'[k].kind = "join" => calls'[k].of # d
  <2>1. CASE calls' = calls
    BY <1>0, <2>1 DEF NativeInv, FreshInNative
  <2>2. ASSUME NEW m \in NativeCalls, calls' = Append(calls, m), m.kind = "join" => ~fresh(m.of)'
        PROVE  /\ calls' \in Seq(NativeCalls)
               /\ \A d \in Calls : fresh(d)' =>
                    \A k \in 1 .. Len(calls') : calls'[k].kind = "join" => calls'[k].of # d
    <3>1. /\ Append(calls, m) \in Seq(NativeCalls) /\ Len(Append(calls, m)) = Len(calls) + 1
          /\ \A k \in 1 .. Len(calls) : Append(calls, m)[k] = calls[k]
          /\ Append(calls, m)[Len(calls) + 1] = m /\ Len(calls) \in Nat
      BY <1>0, Queue
    <3>2. ASSUME NEW d \in Calls, fresh(d)', NEW k \in 1 .. Len(calls'), calls'[k].kind = "join"
          PROVE  calls'[k].of # d
      <4>1. CASE k = Len(calls) + 1
        BY <2>2, <3>1, <3>2, <4>1
      <4>2. CASE k # Len(calls) + 1
        <5>1. k \in 1 .. Len(calls) /\ calls'[k] = calls[k]
          BY <2>2, <3>1, <4>2
        <5> QED
          BY <3>2, <5>1 DEF NativeInv, FreshInNative
      <4> QED
        BY <4>1, <4>2
    <3> QED
      BY <2>2, <3>1, <3>2
  <2> QED
    BY <2>1, <2>2
<1>2. inbox' \in Seq(Replies)
  <2>1. inbox # <<>> => Tail(inbox) \in Seq(Replies)
    BY <1>0, Queue
  <2> QED
    BY <1>0, <2>1
<1>3. /\ posted' \in Seq(Events)
      /\ \A d \in Calls : fresh(d)' => \A k \in 1 .. Len(posted') : posted'[k].about # d
  <2>1. CASE posted' = posted
    BY <1>0, <2>1 DEF NativeInv, FreshInNative
  <2>2. CASE posted' # posted
    <3>1. posted' = Tail(posted) /\ posted # <<>>
      BY <2>2
    <3>2. /\ Tail(posted) \in Seq(Events) /\ Len(Tail(posted)) = Len(posted) - 1
          /\ \A k \in 1 .. Len(posted) - 1 : Tail(posted)[k] = posted[k + 1]
          /\ Len(posted) \in Nat \ {0}
      BY <1>0, <3>1, Queue
    <3>3. ASSUME NEW d \in Calls, fresh(d)', NEW k \in 1 .. Len(posted') PROVE posted'[k].about # d
      <4>1. k \in 1 .. Len(posted) - 1
        BY <3>1, <3>2
      <4>2. k + 1 \in 1 .. Len(posted)
        BY <3>2, <4>1
      <4>3. posted'[k] = posted[k + 1]
        BY <3>1, <3>2, <4>1
      <4> QED
        BY <3>3, <4>2, <4>3 DEF NativeInv, FreshInNative
    <3> QED
      BY <3>1, <3>2, <3>3
  <2> QED
    BY <2>1, <2>2
<1>4. NativeTyped'
  BY <1>0, <1>1, <1>2, <1>3 DEF NativeTyped
<1>5. FreshInNative'
  BY <1>0, <1>1, <1>3 DEF NativeInv, FreshInNative
<1> QED
  BY <1>0, <1>4, <1>5 DEF NativeInv

\* What the native side does: a call is executed and answered, an event is posted
\* about a call that is not fresh.
LEMMA NativeMove ==
  ASSUME NativeInv, UNCHANGED <<op, hang>>,
         calls' \in {calls, Tail(calls)}, calls' # calls => calls # <<>>,
         inbox' = inbox \/ \E m \in Replies : inbox' = Append(inbox, m),
         posted' = posted \/ \E v \in Events : posted' = Append(posted, v) /\ ~fresh(v.about),
         media' \in {media, NoSession} \/ (media' \in Calls /\ ~fresh(media')),
         \A c \in running' : c \in Calls /\ (c \in running \/ ~fresh(c)),
         coming' \in BOOLEAN, coming' => media' # NoSession,
         camera' \in SessionOrNone, ending' \in BOOLEAN, spent' \in 0 .. MaxMoves,
         contact' \in [Sessions -> {"none", "live", "over"}]
  PROVE  NativeInv'
<1>0. /\ NativeTyped /\ calls \in Seq(NativeCalls) /\ inbox \in Seq(Replies)
      /\ posted \in Seq(Events) /\ media \in SessionOrNone
      /\ \A d \in Calls : fresh(d)' = fresh(d) /\ d # NoSession
  BY RnAssumption DEF NativeInv, NativeTyped, fresh, Calls
<1>1. /\ calls' \in Seq(NativeCalls)
      /\ \A d \in Calls : fresh(d) =>
           \A k \in 1 .. Len(calls') : calls'[k].kind = "join" => calls'[k].of # d
  <2>1. CASE calls' = calls
    BY <1>0, <2>1 DEF NativeInv, FreshInNative
  <2>2. CASE calls' # calls
    <3>1. calls' = Tail(calls) /\ calls # <<>>
      BY <2>2
    <3>2. /\ Tail(calls) \in Seq(NativeCalls) /\ Len(Tail(calls)) = Len(calls) - 1
          /\ \A k \in 1 .. Len(calls) - 1 : Tail(calls)[k] = calls[k + 1]
          /\ Len(calls) \in Nat \ {0}
      BY <1>0, <3>1, Queue
    <3>3. ASSUME NEW d \in Calls, fresh(d), NEW k \in 1 .. Len(calls'), calls'[k].kind = "join"
          PROVE  calls'[k].of # d
      <4>1. k \in 1 .. Len(calls) - 1
        BY <3>1, <3>2
      <4>2. k + 1 \in 1 .. Len(calls)
        BY <3>2, <4>1
      <4>3. calls'[k] = calls[k + 1]
        BY <3>1, <3>2, <4>1
      <4> QED
        BY <3>3, <4>2, <4>3 DEF NativeInv, FreshInNative
    <3> QED
      BY <3>1, <3>2, <3>3
  <2> QED
    BY <2>1, <2>2
<1>2. inbox' \in Seq(Replies)
  <2>1. \A m \in Replies : Append(inbox, m) \in Seq(Replies)
    BY <1>0, Queue
  <2> QED
    BY <1>0, <2>1
<1>3. /\ posted' \in Seq(Events)
      /\ \A d \in Calls : fresh(d) => \A k \in 1 .. Len(posted') : posted'[k].about # d
  <2>1. CASE posted' = posted
    BY <1>0, <2>1 DEF NativeInv, FreshInNative
  <2>2. ASSUME NEW v \in Events, posted' = Append(posted, v), ~fresh(v.about)
        PROVE  /\ posted' \in Seq(Events)
               /\ \A d \in Calls : fresh(d) => \A k \in 1 .. Len(posted') : posted'[k].about # d
    <3>1. /\ Append(posted, v) \in Seq(Events) /\ Len(Append(posted, v)) = Len(posted) + 1
          /\ \A k \in 1 .. Len(posted) : Append(posted, v)[k] = posted[k]
          /\ Append(posted, v)[Len(posted) + 1] = v /\ Len(posted) \in Nat
      BY <1>0, Queue
    <3>2. ASSUME NEW d \in Calls, fresh(d), NEW k \in 1 .. Len(posted') PROVE posted'[k].about # d
      <4>1. CASE k = Len(posted) + 1
        BY <2>2, <3>1, <3>2, <4>1
      <4>2. CASE k # Len(posted) + 1
        <5>1. k \in 1 .. Len(posted) /\ posted'[k] = posted[k]
          BY <2>2, <3>1, <4>2
        <5> QED
          BY <3>2, <5>1 DEF NativeInv, FreshInNative
      <4> QED
        BY <4>1, <4>2
    <3> QED
      BY <2>2, <3>1, <3>2
  <2> QED
    BY <2>1, <2>2
<1>4. media' \in SessionOrNone /\ running' \subseteq Sessions
  BY <1>0 DEF SessionOrNone, Calls
<1>5. NativeTyped'
  BY <1>1, <1>2, <1>3, <1>4 DEF NativeTyped
<1>6. FreshInNative'
  <2>1. \A d \in Calls : fresh(d) => media' # d /\ d \notin running'
    BY <1>0 DEF NativeInv, FreshInNative
  <2> QED
    BY <1>0, <1>1, <1>3, <2>1 DEF FreshInNative
<1> QED
  BY <1>5, <1>6 DEF NativeInv

\* Nothing happens to JavaScript, or only its screen and its controllers come and go.
LEMMA JsFrame ==
  ASSUME JsInv, UNCHANGED <<ctl, op, hang, tone, spoiled, late, heard>>,
         cur' \in 0 .. MaxControllers, cur <= cur', adrift' \subseteq Calls,
         screen' \in Screens, screen'.mounted => cur' # 0
  PROVE  JsInv' /\ \A d \in Calls : fresh(d)' => fresh(d)
<1>1. op' \in [Calls -> OpRecords] /\ \A d \in Calls : op'[d] = op[d]
  BY DEF JsInv, JsTyped
<1> QED
  BY <1>1, MoveStep

\* A step of JavaScript that leaves the native side and its queues alone.
LEMMA QuietStep ==
  ASSUME IInv, JsInv', \A d \in Calls : fresh(d)' => fresh(d), native_unchanged,
         counted \/ free, contact' \in [Sessions -> {"none", "live", "over"}]
  PROVE  IInv'
<1>1. spent' \in 0 .. MaxMoves
  BY RnAssumption DEF IInv, NativeInv, NativeTyped, counted, free
<1>2. NativeInv'
  BY <1>1, NativeFrame DEF IInv, native_unchanged
<1> QED
  BY <1>2 DEF IInv

\* A contact that is started was not, and stays one.
LEMMA ContactTyped ==
  ASSUME NativeTyped, NEW c \in Calls, contact' \in {contact, startWebRtcContact(c)}
  PROVE  contact' \in [Sessions -> {"none", "live", "over"}]
BY DEF NativeTyped, startWebRtcContact, Calls

\* The host presents, reconfigures and dismisses the screen.
LEMMA HostStep == IInv /\ Host => IInv'
<1> SUFFICES ASSUME IInv, Host PROVE IInv'
  OBVIOUS
<1>0. /\ JsInv /\ JsTyped /\ cur \in 0 .. MaxControllers /\ screen \in Screens
      /\ adrift \subseteq Calls /\ contact \in [Sessions -> {"none", "live", "over"}]
  BY DEF IInv, JsInv, JsTyped, NativeInv, NativeTyped
<1>1. ASSUME NEW i \in Controllers PROVE inHand(i) \subseteq Calls
  BY <1>0 DEF inHand, JsTyped, CtlRecords, SessionOrNone, Calls, starting
<1>2. ASSUME Present PROVE IInv'
  <2>1. cur + 1 \in Controllers /\ cur' = cur + 1 /\ cur' \in 0 .. MaxControllers /\ cur' # 0
        /\ cur <= cur'
    BY <1>0, <1>2, RnAssumption DEF Present, Controllers
  <2>2. JsInv' /\ \A d \in Calls : fresh(d)' => fresh(d)
    <3>1. CASE soleType = {}
      <4>1. /\ screen' = [mounted |-> TRUE, state |-> "idle", video |-> FALSE, since |-> cur + 1]
            /\ UNCHANGED <<op, ctl, hang, tone, spoiled, adrift, late, heard>>
        BY <1>2, <3>1 DEF Present, connect
      <4>2. screen' \in Screens
        BY <2>1, <4>1 DEF Screens, CallState
      <4> QED
        BY <1>0, <2>1, <4>1, <4>2, JsFrame
    <3>2. CASE soleType # {}
      <4>1. PICK c \in Calls, type \in soleType :
              /\ op[c].pc = "idle" /\ op' = newCall(c, cur + 1, type)
              /\ ctl' = [ctl EXCEPT ![cur + 1].state = "connecting"]
              /\ screen' = [mounted |-> TRUE, state |-> "connecting", video |-> FALSE,
                            since |-> cur + 1]
        BY <1>2, <3>2 DEF Present
      <4>2. screen' \in Screens
        BY <2>1, <4>1 DEF Screens, CallState
      <4>3. type \in CallTypes \cup {"incoming"}
        BY DEF soleType, CallTypes
      <4>4. ctl[cur + 1].state \notin isActive
        BY <1>0, <2>1 DEF JsInv, Unmade
      <4> DEFINE i == cur + 1
      <4>5. /\ i \in Controllers /\ op' = newCall(c, i, type)
            /\ ctl' = [ctl EXCEPT ![i].state = "connecting"]
            /\ ctl[i].state \notin isActive /\ i <= cur'
        BY <2>1, <4>1, <4>4
      <4> HIDE DEF i
      <4>6. UNCHANGED <<hang, tone, spoiled, adrift, late, heard>>
        BY <1>2 DEF Present, connect
      <4> QED
        BY <1>0, <2>1, <4>1, <4>2, <4>3, <4>5, <4>6, BeginStep
    <3> QED
      BY <3>1, <3>2
  <2> QED
    BY <1>0, <1>2, <2>2, QuietStep DEF Present, connect
<1>3. ASSUME Reconfigure PROVE IInv'
  <2>1. cur' \in 0 .. MaxControllers /\ cur <= cur' /\ cur' # 0 /\ cur \in Controllers
    BY <1>0, <1>3, RnAssumption DEF Reconfigure, Controllers, JsInv, Grounded
  <2>2. adrift' \subseteq Calls
    BY <1>0, <1>1, <1>3, <2>1 DEF Reconfigure, dispose
  <2>3. JsInv' /\ \A d \in Calls : fresh(d)' => fresh(d)
    BY <1>0, <1>3, <2>1, <2>2, JsFrame DEF Reconfigure, connect
  <2> QED
    BY <1>0, <1>3, <2>3, QuietStep DEF Reconfigure, connect
<1>4. ASSUME Dismiss PROVE IInv'
  <2>1. cur' \in 0 .. MaxControllers /\ cur <= cur' /\ cur \in Controllers
    BY <1>0, <1>4, RnAssumption DEF Dismiss, Controllers, JsInv, Grounded
  <2>2. adrift' \subseteq Calls
    BY <1>0, <1>1, <1>4, <2>1 DEF Dismiss, dispose
  <2>3. screen' \in Screens /\ ~screen'.mounted
    BY <1>4, RnAssumption DEF Dismiss, Screens, CallState
  <2>4. JsInv' /\ \A d \in Calls : fresh(d)' => fresh(d)
    BY <1>0, <1>4, <2>1, <2>2, <2>3, JsFrame DEF Dismiss, connect
  <2> QED
    BY <1>0, <1>4, <2>4, QuietStep DEF Dismiss, connect
<1> QED
  BY <1>2, <1>3, <1>4 DEF Host

\* A call starts, goes on or fails at the backend.
LEMMA CallSteps ==
  ASSUME IInv, NEW c \in Calls,
         (\E type \in CallTypes : startCall(c, type)) \/ answerIncomingCall(c) \/ CallStep(c)
  PROVE  IInv'
<1>0. /\ JsInv /\ JsTyped /\ NativeTyped /\ media \in SessionOrNone /\ cur \in 0 .. MaxControllers
      /\ op \in [Calls -> OpRecords]
      /\ screen \in Screens /\ adrift \subseteq Calls
      /\ contact \in [Sessions -> {"none", "live", "over"}]
  BY DEF IInv, JsInv, JsTyped, NativeInv, NativeTyped
<1>1. ASSUME NEW kind \in CallTypes \cup {"incoming"}, screen.mounted, op[c].pc = "idle",
             ~isInCall(cur), op' = newCall(c, cur, kind),
             ctl' = [ctl EXCEPT ![cur].state = "connecting"], setState(cur, "connecting", c),
             UNCHANGED <<cur, hang, tone, adrift, late, connect>>, native_unchanged, free
      PROVE  IInv'
  <2>1. cur \in Controllers /\ "connecting" \in CallState /\ "connecting" \in isActive /\ cur <= cur
    BY <1>0, <1>1, RnAssumption DEF JsInv, Grounded, Controllers, CallState, isActive
  <2>2. screen' \in Screens /\ screen'.mounted => cur' # 0
    BY <1>0, <1>1, <2>1, SetStateFacts DEF Controllers
  <2>3. spoiled' = spoiled
    BY <1>1, <2>1 DEF setState
  <2>4. screen' \in Screens
    BY <1>0, <1>1, <2>1, SetStateFacts
  <2>5. cur' # 0 /\ cur' = cur /\ ctl[cur].state \notin isActive
    BY <1>1, <2>1 DEF Controllers, isInCall
  <2>6. JsInv' /\ \A d \in Calls : fresh(d)' => fresh(d)
    BY <1>0, <1>1, <2>1, <2>3, <2>4, <2>5, BeginStep DEF connect
  <2> QED
    BY <1>0, <1>1, <2>6, QuietStep DEF connect
<1>2. ASSUME NEW type \in CallTypes, startCall(c, type) PROVE IInv'
  BY <1>1, <1>2 DEF startCall
<1>3. ASSUME answerIncomingCall(c) PROVE IInv'
  BY <1>1, <1>3 DEF answerIncomingCall
<1>4. ASSUME fail(c, "threw"), UNCHANGED <<cur, hang, tone, adrift, late, heard>>, native_unchanged,
             counted \/ free, contact' \in [Sessions -> {"none", "live", "over"}]
      PROVE  IInv'
  BY <1>0, <1>4, FailStep, QuietStep
<1>5. ASSUME PermissionDenied(c) PROVE IInv'
  BY <1>0, <1>4, <1>5 DEF PermissionDenied, connect
<1>6. ASSUME Refused(c) PROVE IInv'
  BY <1>0, <1>4, <1>6, ContactTyped DEF Refused
<1>7. ASSUME PermissionThrows(c) PROVE IInv'
  <2>1. /\ op' \in [Calls -> OpRecords] /\ op'[c].pc \notin {"idle", "request"}
        /\ \A d \in Calls : d # c => op'[d] = op[d]
    <3>1. returned("threwEarly") \in OpRecords /\ returned("threwEarly").pc = "threwEarly"
      BY RnAssumption DEF OpRecords, returned, Controllers, CallTypes
    <3> QED
      BY <1>0, <1>7, <3>1 DEF PermissionThrows
  <2>2. screen.mounted => cur # 0
    BY <1>0 DEF JsInv, Grounded
  <2>3. JsInv' /\ \A d \in Calls : fresh(d)' => fresh(d)
    BY <1>0, <1>7, <2>1, <2>2, MoveStep DEF PermissionThrows, connect
  <2> QED
    BY <1>0, <1>7, <2>3, QuietStep DEF PermissionThrows, connect
<1>8. ASSUME AttemptFails(c) PROVE IInv'
  <2>1. contact' \in [Sessions -> {"none", "live", "over"}]
    BY <1>0, <1>8, ContactTyped DEF AttemptFails
  <2>2. CASE ~attemptsLeft(c)
    BY <1>4, <1>8, <2>1, <2>2 DEF AttemptFails
  <2>3. CASE attemptsLeft(c)
    <3> DEFINE n == [op[c] EXCEPT !.attempt = @ + 1]
    <3>1. op[c] \in OpRecords /\ op[c].attempt \in 1 .. MaxAttempts /\ op[c].attempt < MaxAttempts
      BY <1>0, <2>3 DEF OpRecords, attemptsLeft
    <3>2. op[c].attempt + 1 \in 1 .. MaxAttempts
      BY <3>1, RnAssumption
    <3>3. n \in OpRecords /\ n.pc = op[c].pc /\ n.by = op[c].by
      BY <3>1, <3>2 DEF OpRecords
    <3>4. op' = [op EXCEPT ![c] = n] /\ op[c].pc = "request"
      BY <1>8, <2>3 DEF AttemptFails
    <3> HIDE DEF n
    <3>5. /\ op' \in [Calls -> OpRecords] /\ op'[c].pc = "request" /\ op'[c].by = op[c].by
          /\ \A d \in Calls : d # c => op'[d] = op[d]
      BY <1>0, <3>3, <3>4
    <3>6. screen.mounted => cur # 0
      BY <1>0 DEF JsInv, Grounded
    <3>7. UNCHANGED <<ctl, screen, spoiled, cur, hang, tone, adrift, late, heard>> /\ cur <= cur'
      BY <1>0, <1>8, <2>3 DEF AttemptFails
    <3>8. JsInv' /\ \A d \in Calls : fresh(d)' => fresh(d)
      BY <1>0, <3>4, <3>5, <3>6, <3>7, MoveStep
    <3> QED
      BY <1>8, <2>1, <3>8, QuietStep DEF AttemptFails
  <2> QED
    BY <2>2, <2>3
<1>9. ASSUME Received(c) PROVE IInv'
  <2>1. JsInv' /\ (\A d \in Calls : fresh(d)' => fresh(d)) /\ ~fresh(c)'
    BY <1>0, <1>9, ReceivedStep
  <2>2. contact' \in [Sessions -> {"none", "live", "over"}]
    BY <1>0, <1>9, ContactTyped DEF Received
  <2> DEFINE m == [kind |-> "join", of |-> c]
  <2>3. m \in NativeCalls /\ calls' = Append(calls, m) /\ m.of = c
    BY <1>9 DEF NativeCalls, Received
  <2>4. spent' \in 0 .. MaxMoves /\ UNCHANGED native /\ UNCHANGED <<inbox, posted>>
    BY <1>0, <1>9 DEF NativeTyped, free, Received
  <2> HIDE DEF m
  <2>5. NativeInv'
    BY <2>1, <2>2, <2>3, <2>4, NativeFrame DEF IInv
  <2> QED
    BY <2>1, <2>5 DEF IInv
<1> QED
  BY <1>2, <1>3, <1>5, <1>6, <1>7, <1>8, <1>9 DEF CallStep

\* What the head of a queue carries goes by its kind.
LEMMA MessageTypes ==
  /\ \A m \in Replies : /\ m.kind \in {"join", "video", "joinFailed"} => m.of \in Calls
                        /\ m.kind = "leave" => m.of \in Ends
  /\ \A v \in Events : /\ v.of \in {"connecting", "connected", "disconnected", "failed"}
                       /\ v.about \in Sessions
  /\ NativeCalls \subseteq Replies
BY DEF Replies, NativeCalls, Events

\* JavaScript receives replies and events.
LEMMA ReceiveStep == IInv /\ Receive => IInv'
<1> SUFFICES ASSUME IInv, Receive PROVE IInv'
  OBVIOUS
<1>0. /\ JsInv /\ JsTyped /\ NativeTyped /\ media \in SessionOrNone /\ cur \in 0 .. MaxControllers
      /\ op \in [Calls -> OpRecords] /\ hang \in [Ends -> HangRecords] /\ screen \in Screens
      /\ adrift \subseteq Calls /\ calls \in Seq(NativeCalls)
      /\ inbox \in Seq(Replies) /\ posted \in Seq(Events) /\ spent \in 0 .. MaxMoves
      /\ contact \in [Sessions -> {"none", "live", "over"}]
      /\ (screen.mounted => cur # 0) /\ cur <= cur
  BY DEF IInv, JsInv, JsTyped, Grounded, NativeInv, NativeTyped
<1>1. inbox # <<>> => Head(inbox) \in Replies
  BY <1>0, Queue
<1>2. returned("done") \in OpRecords /\ returned("done").pc = "done"
  BY RnAssumption DEF OpRecords, returned, Controllers, CallTypes
<1>3. ASSUME JsInv', \A d \in Calls : fresh(d)' => fresh(d), inbox # <<>>, inbox' = Tail(inbox),
             UNCHANGED <<calls, posted, native, contact, spent>>
      PROVE  IInv'
  <2>1. NativeInv'
    BY <1>0, <1>3, NativeFrame DEF IInv
  <2> QED
    BY <1>3, <2>1 DEF IInv
<1>4. ASSUME JoinReturns PROVE IInv'
  <2> DEFINE c == Head(inbox).of
             n == [op[c] EXCEPT !.pc = "video"]
  <2>1. c \in Calls
    BY <1>1, <1>4, MessageTypes DEF JoinReturns
  <2>2. op[c] \in OpRecords
    BY <1>0, <2>1
  <2>3. n \in OpRecords /\ n.pc = "video"
    BY <2>2 DEF OpRecords
  <2>4. op' = [op EXCEPT ![c] = n] \/ op' = [op EXCEPT ![c] = returned("done")]
    BY <1>4 DEF JoinReturns
  <2>5. \/ calls' = calls
        \/ calls' = Append(calls, [kind |-> "video", of |-> c])
    BY <1>4 DEF JoinReturns
  <2>6. inbox # <<>> /\ inbox' = Tail(inbox) /\ UNCHANGED <<posted, native, contact, spent>>
        /\ UNCHANGED <<ctl, cur, screen, hang, tone, spoiled, adrift, late, heard>>
    BY <1>4 DEF JoinReturns, connect, free
  <2> HIDE DEF n, c
  <2>7. /\ op' \in [Calls -> OpRecords] /\ op'[c].pc \notin {"idle", "request"}
        /\ \A d \in Calls : d # c => op'[d] = op[d]
    BY <1>0, <1>2, <2>1, <2>3, <2>4
  <2>8. JsInv' /\ \A d \in Calls : fresh(d)' => fresh(d)
    BY <1>0, <2>6, <2>7, MoveStep
  <2> DEFINE m == [kind |-> "video", of |-> c]
  <2>9. m \in NativeCalls /\ m.kind # "join" /\ (calls' = calls \/ calls' = Append(calls, m))
    BY <2>1, <2>5 DEF NativeCalls
  <2> HIDE DEF m
  <2>10. NativeInv'
    BY <1>0, <2>6, <2>8, <2>9, NativeFrame DEF IInv
  <2> QED
    BY <2>8, <2>10 DEF IInv
<1>5. ASSUME JoinThrows PROVE IInv'
  <2> DEFINE c == Head(inbox).of
  <2>1. c \in Calls
    BY <1>1, <1>5, MessageTypes DEF JoinThrows
  <2>2. fail(c, "threw") /\ UNCHANGED <<cur, hang, tone, adrift, late, heard>>
        /\ inbox # <<>> /\ inbox' = Tail(inbox) /\ UNCHANGED <<calls, posted, native, contact, spent>>
    BY <1>5 DEF JoinThrows, connect, free
  <2> HIDE DEF c
  <2>3. JsInv' /\ \A d \in Calls : fresh(d)' => fresh(d)
    BY <1>0, <2>1, <2>2, FailStep
  <2> QED
    BY <1>3, <2>2, <2>3
<1>6. ASSUME VideoReturns PROVE IInv'
  <2> DEFINE c == Head(inbox).of
             b == screen.video \/ (screen.mounted /\ op[c].by >= screen.since)
             n == [screen EXCEPT !.video = b]
  <2>1. c \in Calls
    BY <1>1, <1>6, MessageTypes DEF VideoReturns
  <2>2. b \in BOOLEAN
    BY <1>0 DEF Screens
  <2>3. screen' = n
    BY <1>6 DEF VideoReturns
  <2>4. op' = [op EXCEPT ![c] = returned("done")]
    BY <1>6 DEF VideoReturns
  <2> HIDE DEF b
  <2>5. n \in Screens /\ n.mounted = screen.mounted
    BY <1>0, <2>2 DEF Screens
  <2>6. inbox # <<>> /\ inbox' = Tail(inbox) /\ UNCHANGED <<calls, posted, native, contact, spent>>
        /\ UNCHANGED <<ctl, cur, hang, tone, spoiled, adrift, late, heard>>
    BY <1>6 DEF VideoReturns, connect, free
  <2> HIDE DEF n, c
  <2>7. /\ op' \in [Calls -> OpRecords] /\ op'[c].pc \notin {"idle", "request"}
        /\ \A d \in Calls : d # c => op'[d] = op[d]
    BY <1>0, <1>2, <2>1, <2>4
  <2>8. JsInv' /\ \A d \in Calls : fresh(d)' => fresh(d)
    BY <1>0, <2>3, <2>5, <2>6, <2>7, MoveStep
  <2> QED
    BY <1>3, <2>6, <2>8
<1>7. ASSUME LeaveReturns PROVE IInv'
  <2> DEFINE e == Head(inbox).of
             i == hang[e].by
             by == hang[e].session
             n == [pc |-> "done", by |-> 1, session |-> NoSession]
  <2>1. e \in Ends
    BY <1>1, <1>7, MessageTypes DEF LeaveReturns
  <2>2. i \in Controllers
    BY <1>0, <2>1 DEF HangRecords
  <2>3. /\ hang' = [hang EXCEPT ![e] = n] /\ ctl' = over(i, "disconnected")
        /\ setState(i, "disconnected", by)
        /\ inbox # <<>> /\ inbox' = Tail(inbox)
        /\ UNCHANGED <<cur, op, tone, adrift, late, heard, contact, calls, posted, native, spent>>
    BY <1>7 DEF LeaveReturns, free
  <2>4. n \in HangRecords /\ n.session = NoSession
    BY RnAssumption DEF HangRecords, Controllers, SessionOrNone
  <2>5. \A d \in Calls : op[d].pc = "request" => d # by
    BY <1>0, <2>1 DEF JsInv, FreshInJs, fresh
  <2> HIDE DEF n, i, by, e
  <2>6. /\ hang' \in [Ends -> HangRecords]
        /\ \A f \in Ends : hang'[f].session \in {hang[f].session, NoSession}
    BY <1>0, <2>1, <2>3, <2>4
  <2>7. JsInv' /\ \A d \in Calls : fresh(d)' => fresh(d)
    BY <1>0, <2>2, <2>3, <2>5, <2>6, OverStep
  <2> QED
    BY <1>3, <2>3, <2>7
<1>8. ASSUME onNativeEvent PROVE IInv'
  <2> DEFINE v == Head(posted)
             s == v.of
             by == v.about
  <2>1. v \in Events /\ v = posted[1] /\ Len(posted) \in Nat \ {0}
    BY <1>0, <1>8, Queue DEF onNativeEvent
  <2>2. s \in {"connecting", "connected", "disconnected", "failed"}
    BY <2>1, MessageTypes
  <2>3. \A d \in Calls : op[d].pc = "request" => d # by
    BY <2>1 DEF IInv, NativeInv, FreshInNative, fresh
  <2>4. /\ posted # <<>> /\ posted' = Tail(posted)
        /\ UNCHANGED <<cur, op, hang, tone, adrift, late, heard, contact, calls, inbox, native, spent>>
    BY <1>8 DEF onNativeEvent, connect, free
  <2>5. \/ ~screen.mounted /\ UNCHANGED <<ctl, screen, spoiled>>
        \/ /\ screen.mounted /\ setState(cur, s, by)
           /\ ctl' = IF s \in isTerminal THEN over(cur, s) ELSE [ctl EXCEPT ![cur].state = s]
    BY <1>8 DEF onNativeEvent
  <2> HIDE DEF s, by, v
  <2>6. JsInv' /\ \A d \in Calls : fresh(d)' => fresh(d)
    <3>1. CASE ~screen.mounted
      BY <1>0, <2>4, <2>5, <3>1, JsFrame
    <3>2. CASE screen.mounted /\ s \in {"disconnected", "failed"}
      <4>1. cur \in Controllers
        BY <1>0, <3>2, RnAssumption DEF Controllers
      <4>2. ctl' = over(cur, s) /\ setState(cur, s, by)
        BY <2>5, <3>2 DEF isTerminal
      <4>3. \A f \in Ends : hang'[f].session \in {hang[f].session, NoSession}
        BY <2>4
      <4> QED
        BY <1>0, <2>3, <2>4, <3>2, <4>1, <4>2, <4>3, OverStep
    <3>3. CASE screen.mounted /\ s \in {"connecting", "connected"}
      <4>1. cur \in Controllers
        BY <1>0, <3>3, RnAssumption DEF Controllers
      <4>2. ctl' = [ctl EXCEPT ![cur].state = s] /\ setState(cur, s, by)
        BY <2>5, <3>3 DEF isTerminal
      <4> QED
        BY <1>0, <2>4, <3>3, <4>1, <4>2, ActiveStep
    <3> QED
      BY <2>2, <3>1, <3>2, <3>3
  <2>7. NativeInv'
    BY <1>0, <2>4, <2>6, NativeFrame DEF IInv
  <2> QED
    BY <2>6, <2>7 DEF IInv
<1> QED
  BY <1>4, <1>5, <1>6, <1>7, <1>8 DEF Receive

\* Digits are typed and sent.
LEMMA ToneSteps ==
  ASSUME IInv, NEW t \in Tones, sendDtmf(t) \/ ToneStep(t)
  PROVE  IInv'
<1>0. JsInv /\ contact \in [Sessions -> {"none", "live", "over"}]
  BY DEF IInv, NativeInv, NativeTyped
<1>1. native_unchanged /\ (counted \/ free) /\ contact' = contact /\ op' = op
  BY DEF sendDtmf, ToneStep, Connected, ConnectFails, DigitsTaken, DigitsFail, connect
<1>2. \A d \in Calls : fresh(d)' => fresh(d)
  BY <1>1 DEF fresh
<1>3. JsInv'
  <2>1. CASE sendDtmf(t)
    BY <1>0, <2>1, TypedStep
  <2>2. CASE Connected(t)
    BY <1>0, <2>2, ConnectedStep
  <2>3. CASE ConnectFails(t)
    BY <1>0, <2>3, DigitsStep DEF ConnectFails, connect
  <2>4. CASE DigitsTaken(t)
    BY <1>0, <2>4, DigitsStep DEF DigitsTaken
  <2>5. CASE DigitsFail(t)
    <3>1. /\ tone[t].pc \in {"send", "resend"} /\ (heard' = heard \/ heard' = hearDigits(t))
          /\ UNCHANGED <<ctl, cur, screen, op, hang, spoiled, adrift, late>>
          /\ \/ toneOver(t, "threw")
             \/ tone[t].pc = "send" /\ tone' = [tone EXCEPT ![t].pc = "reconnect"]
      BY <2>5 DEF DigitsFail
    <3> QED
      BY <1>0, <3>1, DigitsStep
  <2> QED
    BY <2>1, <2>2, <2>3, <2>4, <2>5 DEF ToneStep
<1> QED
  BY <1>0, <1>1, <1>2, <1>3, QuietStep

\* A hang-up reaches the queue of the native modules.
LEMMA EndCallStep ==
  ASSUME IInv, NEW e \in Ends, endCall(e)
  PROVE  IInv'
<1>1. JsInv /\ NativeInv /\ spent \in 0 .. MaxMoves
      /\ contact \in [Sessions -> {"none", "live", "over"}]
  BY DEF IInv, NativeInv, NativeTyped
<1>2. JsInv' /\ \A d \in Calls : fresh(d)' => fresh(d)
  BY <1>1, HangStep
<1> DEFINE m == [kind |-> "leave", of |-> e]
<1>3. m \in NativeCalls /\ m.kind # "join" /\ calls' = Append(calls, m)
  BY DEF NativeCalls, endCall
<1>4. UNCHANGED <<inbox, posted, native, contact>> /\ spent' \in 0 .. MaxMoves
  BY <1>1, RnAssumption DEF endCall, connect, counted
<1> HIDE DEF m
<1>5. NativeInv'
  BY <1>1, <1>2, <1>3, <1>4, NativeFrame
<1> QED
  BY <1>2, <1>5 DEF IInv

\* A step of the other side leaves JavaScript alone.
LEMMA JsAlone ==
  ASSUME JsInv, UNCHANGED <<js, heard>>
  PROVE  JsInv' /\ UNCHANGED <<op, hang>>
<1>1. cur \in 0 .. MaxControllers /\ cur <= cur /\ adrift \subseteq Calls /\ screen \in Screens
      /\ (screen.mounted => cur # 0)
  BY DEF JsInv, JsTyped, Grounded
<1>2. UNCHANGED <<ctl, cur, screen, op, hang, tone, spoiled, adrift, late, heard>>
  BY DEF js
<1> QED
  BY <1>1, <1>2, JsFrame

\* The native modules take a call from their queue.
LEMMA ModuleStep == IInv /\ NativeModules => IInv'
<1> SUFFICES ASSUME IInv, NativeModules PROVE IInv'
  OBVIOUS
<1>0. /\ JsInv /\ NativeInv /\ NativeTyped /\ calls \in Seq(NativeCalls)
      /\ media \in SessionOrNone /\ coming \in BOOLEAN /\ camera \in SessionOrNone /\ ending \in BOOLEAN
      /\ running \subseteq Sessions /\ (coming => media # NoSession)
      /\ contact \in [Sessions -> {"none", "live", "over"}] /\ spent \in 0 .. MaxMoves
      /\ (counted \/ free => spent' \in 0 .. MaxMoves)
  BY RnAssumption DEF IInv, NativeInv, NativeTyped, counted, free
<1>1. ASSUME NEW m, NEW r \in Replies, Execute(m, r)
      PROVE  /\ JsInv' /\ UNCHANGED <<op, hang, contact>> /\ calls' = Tail(calls) /\ calls # <<>>
             /\ Head(calls) = m /\ inbox' = Append(inbox, r)
  BY <1>0, <1>1, JsAlone DEF Execute, connect
<1>2. ASSUME NEW c \in Calls, join(c) PROVE IInv'
  <2> DEFINE m == [kind |-> "join", of |-> c]
             v == stateEvent("connecting", c)
  <2>1. m \in Replies /\ m.kind = "join" /\ m.of = c /\ v \in Events /\ v.about = c
    BY DEF Replies, NativeCalls, Events, stateEvent, Calls
  <2>2. Execute(m, m) /\ media' = c /\ coming' = TRUE /\ camera' = NoSession /\ ending' = ending
        /\ running' = running \cup {c} /\ posted' = Append(posted, v) /\ free
    BY <1>2 DEF join
  <2> HIDE DEF m, v
  <2>3. JsInv' /\ UNCHANGED <<op, hang, contact>> /\ calls' = Tail(calls) /\ calls # <<>>
        /\ Head(calls) = m /\ inbox' = Append(inbox, m)
    BY <1>1, <2>1, <2>2
  <2>4. ~fresh(c) /\ c # NoSession
    <3>1. calls[1] = m /\ 1 \in 1 .. Len(calls)
      BY <1>0, <2>3, Queue
    <3> QED
      BY <1>0, <2>1, <3>1, RnAssumption DEF NativeInv, FreshInNative, Calls
  <2>5. \A d \in running' : d \in Calls /\ (d \in running \/ ~fresh(d))
    BY <1>0, <2>2, <2>4 DEF Calls
  <2>6. NativeInv'
    BY <1>0, <2>1, <2>2, <2>3, <2>4, <2>5, NativeMove DEF SessionOrNone
  <2> QED
    BY <2>3, <2>6 DEF IInv
<1>3. ASSUME NEW c \in Calls, joinThrows(c) PROVE IInv'
  <2> DEFINE m == [kind |-> "join", of |-> c]
             r == [kind |-> "joinFailed", of |-> c]
  <2>1. r \in Replies
    BY DEF Replies
  <2>2. Execute(m, r) /\ UNCHANGED <<posted, media, coming, camera, ending, running>> /\ counted
    BY <1>3 DEF joinThrows, native
  <2> HIDE DEF m, r
  <2>3. JsInv' /\ UNCHANGED <<op, hang, contact>> /\ calls' = Tail(calls) /\ calls # <<>>
        /\ inbox' = Append(inbox, r)
    BY <1>1, <2>1, <2>2
  <2>4. \A d \in running' : d \in Calls /\ (d \in running \/ ~fresh(d))
    BY <1>0, <2>2 DEF Calls
  <2>5. NativeInv'
    BY <1>0, <2>1, <2>2, <2>3, <2>4, NativeMove
  <2> QED
    BY <2>3, <2>5 DEF IInv
<1>4. ASSUME NEW c \in Calls, setLocalVideoEnabled(c) PROVE IInv'
  <2> DEFINE m == [kind |-> "video", of |-> c]
  <2>1. m \in Replies
    BY DEF Replies, NativeCalls
  <2>2. Execute(m, m) /\ UNCHANGED <<posted, media, coming, ending, running>> /\ free
        /\ camera' \in SessionOrNone
    BY <1>0, <1>4 DEF setLocalVideoEnabled, SessionOrNone, Calls
  <2> HIDE DEF m
  <2>3. JsInv' /\ UNCHANGED <<op, hang, contact>> /\ calls' = Tail(calls) /\ calls # <<>>
        /\ inbox' = Append(inbox, m)
    BY <1>1, <2>1, <2>2
  <2>4. \A d \in running' : d \in Calls /\ (d \in running \/ ~fresh(d))
    BY <1>0, <2>2 DEF Calls
  <2>5. NativeInv'
    BY <1>0, <2>1, <2>2, <2>3, <2>4, NativeMove
  <2> QED
    BY <2>3, <2>5 DEF IInv
<1>5. ASSUME NEW e \in Ends, leave(e) PROVE IInv'
  <2> DEFINE m == [kind |-> "leave", of |-> e]
  <2>1. m \in Replies
    BY DEF Replies, NativeCalls
  <2>2. Execute(m, m) /\ UNCHANGED <<posted, media, coming, camera, running>> /\ free
        /\ ending' \in BOOLEAN
    BY <1>0, <1>5 DEF leave
  <2> HIDE DEF m
  <2>3. JsInv' /\ UNCHANGED <<op, hang, contact>> /\ calls' = Tail(calls) /\ calls # <<>>
        /\ inbox' = Append(inbox, m)
    BY <1>1, <2>1, <2>2
  <2>4. \A d \in running' : d \in Calls /\ (d \in running \/ ~fresh(d))
    BY <1>0, <2>2 DEF Calls
  <2>5. NativeInv'
    BY <1>0, <2>1, <2>2, <2>3, <2>4, NativeMove
  <2> QED
    BY <2>3, <2>5 DEF IInv
<1> QED
  BY <1>2, <1>3, <1>4, <1>5 DEF NativeModules

\* The native call, Telecom and the agent move on their own.
LEMMA NativeStep ==
  ASSUME IInv,
         \/ onDisconnect \/ SystemEnds \/ onAudioSessionStarted
         \/ \E s \in Sessions : onAudioSessionStopped(s) \/ ContactEnds(s)
  PROVE  IInv'
<1>0. /\ JsInv /\ NativeInv /\ NativeTyped
      /\ media \in SessionOrNone /\ coming \in BOOLEAN /\ camera \in SessionOrNone /\ ending \in BOOLEAN
      /\ running \subseteq Sessions /\ (coming => media # NoSession)
      /\ contact \in [Sessions -> {"none", "live", "over"}]
      /\ (counted \/ free => spent' \in 0 .. MaxMoves)
  BY RnAssumption DEF IInv, NativeInv, NativeTyped, counted, free
<1>1. /\ media # NoSession => media \in Sessions /\ ~fresh(media)
      /\ \A s \in running : s \in Sessions /\ ~fresh(s)
  BY <1>0 DEF NativeInv, FreshInNative, SessionOrNone, Calls
<1>2. \A s \in {"connecting", "connected", "disconnected", "failed"}, c \in Sessions :
        stateEvent(s, c) \in Events /\ stateEvent(s, c).about = c
  BY DEF Events, stateEvent
<1>3. ASSUME stopMedia, counted \/ free, ending' \in BOOLEAN PROVE IInv'
  <2>1. JsInv' /\ UNCHANGED <<op, hang, contact, calls, inbox>>
    BY <1>0, <1>3, JsAlone DEF stopMedia, connect
  <2>2. media' = NoSession /\ coming' = FALSE /\ camera' = NoSession /\ running' \subseteq running
    BY <1>3 DEF stopMedia
  <2>3. posted' = posted \/ \E v \in Events : posted' = Append(posted, v) /\ ~fresh(v.about)
    BY <1>1, <1>2, <1>3 DEF stopMedia
  <2>4. \A d \in running' : d \in Calls /\ (d \in running \/ ~fresh(d))
    BY <1>1, <2>2 DEF Calls
  <2>5. NativeInv'
    BY <1>0, <1>3, <2>1, <2>2, <2>3, <2>4, NativeMove DEF SessionOrNone
  <2> QED
    BY <2>1, <2>5 DEF IInv
<1>4. ASSUME onDisconnect PROVE IInv'
  BY <1>3, <1>4 DEF onDisconnect
<1>5. ASSUME SystemEnds PROVE IInv'
  BY <1>0, <1>3, <1>5 DEF SystemEnds
<1>6. ASSUME onAudioSessionStarted PROVE IInv'
  <2>1. JsInv' /\ UNCHANGED <<op, hang, contact, calls, inbox>>
    BY <1>0, <1>6, JsAlone DEF onAudioSessionStarted, connect
  <2>2. coming /\ coming' = FALSE /\ UNCHANGED <<media, camera, ending, running>> /\ free
        /\ posted' = Append(posted, stateEvent("connected", media))
    BY <1>6 DEF onAudioSessionStarted
  <2>3. \E v \in Events : posted' = Append(posted, v) /\ ~fresh(v.about)
    BY <1>0, <1>1, <1>2, <2>2
  <2>4. \A d \in running' : d \in Calls /\ (d \in running \/ ~fresh(d))
    BY <1>1, <2>2 DEF Calls
  <2>5. NativeInv'
    BY <1>0, <2>1, <2>2, <2>3, <2>4, NativeMove
  <2> QED
    BY <2>1, <2>5 DEF IInv
<1>7. ASSUME NEW s \in Sessions, onAudioSessionStopped(s) PROVE IInv'
  <2> DEFINE v == [kind |-> "error", of |-> "failed", about |-> s]
  <2>1. JsInv' /\ UNCHANGED <<op, hang, contact, calls, inbox>>
    BY <1>0, <1>7, JsAlone DEF onAudioSessionStopped, connect
  <2>2. s \in running /\ running' \subseteq running /\ UNCHANGED <<media, coming, camera>> /\ free
        /\ ending' \in BOOLEAN /\ (posted' = posted \/ posted' = Append(posted, v))
    BY <1>0, <1>7 DEF onAudioSessionStopped
  <2>3. v \in Events /\ v.about = s /\ ~fresh(s)
    BY <1>1, <2>2 DEF Events
  <2> HIDE DEF v
  <2>4. \A d \in running' : d \in Calls /\ (d \in running \/ ~fresh(d))
    BY <1>1, <2>2 DEF Calls
  <2>5. NativeInv'
    BY <1>0, <2>1, <2>2, <2>3, <2>4, NativeMove
  <2> QED
    BY <2>1, <2>5 DEF IInv
<1>8. ASSUME NEW s \in Sessions, ContactEnds(s) PROVE IInv'
  <2>1. JsInv' /\ UNCHANGED <<op, hang, calls, inbox, posted>>
    BY <1>0, <1>8, JsAlone DEF ContactEnds
  <2>2. UNCHANGED <<media, coming, camera, ending, running>> /\ counted
        /\ contact' \in [Sessions -> {"none", "live", "over"}]
    BY <1>0, <1>8 DEF ContactEnds, native
  <2>3. \A d \in running' : d \in Calls /\ (d \in running \/ ~fresh(d))
    BY <1>1, <2>2 DEF Calls
  <2>4. NativeInv'
    BY <1>0, <2>1, <2>2, <2>3, NativeMove
  <2> QED
    BY <2>1, <2>4 DEF IInv
<1> QED
  BY <1>4, <1>5, <1>6, <1>7, <1>8

----
(***************************************************************************)
(* What is on the way between JavaScript and the native call.              *)
(***************************************************************************)
joinOf(c) == [kind |-> "join", of |-> c]
failureOf(c) == [kind |-> "joinFailed", of |-> c]
filmOf(c) == [kind |-> "video", of |-> c]
leaveOf(e) == [kind |-> "leave", of |-> e]

queued(q, m) == \E k \in 1 .. Len(q) : q[k] = m

\* The native call that a reply answers.
asked(r) == IF r.kind = "joinFailed" THEN joinOf(r.of) ELSE r

\* The native calls whose reply is awaited.
pending ==
  {m \in NativeCalls :
     IF m.kind = "leave" THEN hang[m.of].pc = "leaving" ELSE op[m.of].pc = m.kind}

\* Each native call is under way once, and awaited.
Matched ==
  /\ \A k \in 1 .. Len(calls) : calls[k] \in pending
  /\ \A k \in 1 .. Len(inbox) : asked(inbox[k]) \in pending
  /\ \A j, k \in 1 .. Len(calls) : j # k => calls[j] # calls[k]
  /\ \A j, k \in 1 .. Len(inbox) : j # k => asked(inbox[j]) # asked(inbox[k])
  /\ \A j \in 1 .. Len(calls), k \in 1 .. Len(inbox) : calls[j] # asked(inbox[k])

\* The native side does not know a call whose join still waits.
Unjoined ==
  \A k \in 1 .. Len(calls) : calls[k].kind = "join" =>
    /\ media # calls[k].of /\ calls[k].of \notin running
    /\ \A j \in 1 .. Len(posted) : posted[j].about # calls[k].of

\* When news that a call is over reaches JavaScript, its media is gone or going.
EndsHonestly ==
  \A k \in 1 .. Len(posted) :
    posted[k].of \in isTerminal /\ posted[k].about = media => ending

\* A hang-up follows the join of the session that it captured, and ends it.
HangUpEnds ==
  \A e \in Ends : hang[e].pc = "leaving" =>
    /\ \A p \in 1 .. Len(calls) : calls[p] = joinOf(hang[e].session) =>
         \E q \in p + 1 .. Len(calls) : calls[q] = leaveOf(e)
    /\ hang[e].session = media /\ media # NoSession =>
         ending \/ queued(calls, leaveOf(e))

OnTheWay == Matched /\ Unjoined /\ EndsHonestly /\ HangUpEnds

\* The messages and what they carry.
LEMMA Messages ==
  /\ \A c \in Calls : /\ joinOf(c) \in NativeCalls /\ joinOf(c) \in Replies
                      /\ joinOf(c).kind = "join" /\ joinOf(c).of = c
                      /\ filmOf(c) \in NativeCalls /\ filmOf(c) \in Replies
                      /\ filmOf(c).kind = "video" /\ filmOf(c).of = c
                      /\ failureOf(c) \in Replies /\ failureOf(c).kind = "joinFailed"
                      /\ failureOf(c).of = c /\ asked(failureOf(c)) = joinOf(c)
  /\ \A e \in Ends : /\ leaveOf(e) \in NativeCalls /\ leaveOf(e) \in Replies
                     /\ leaveOf(e).kind = "leave" /\ leaveOf(e).of = e
  /\ \A m \in NativeCalls : /\ asked(m) = m /\ m.kind \in {"join", "video", "leave"}
                            /\ m.kind = "join" => m.of \in Calls /\ m = joinOf(m.of)
                            /\ m.kind = "video" => m.of \in Calls /\ m = filmOf(m.of)
                            /\ m.kind = "leave" => m.of \in Ends /\ m = leaveOf(m.of)
  /\ \A r \in Replies : /\ asked(r) \in NativeCalls
                        /\ r.kind = "joinFailed" => r.of \in Calls /\ r = failureOf(r.of)
                        /\ r.kind # "joinFailed" => r \in NativeCalls
BY DEF joinOf, filmOf, failureOf, leaveOf, asked, NativeCalls, Replies

LEMMA Names ==
  \A c, d : /\ joinOf(c) = joinOf(d) => c = d
            /\ filmOf(c) = filmOf(d) => c = d
            /\ joinOf(c) # filmOf(d)
            /\ joinOf(c).kind = "join" /\ joinOf(c).of = c
<1>1. \A c : /\ joinOf(c).of = c /\ joinOf(c).kind = "join"
             /\ filmOf(c).of = c /\ filmOf(c).kind = "video"
  BY DEF joinOf, filmOf
<1> QED
  BY <1>1

\* A queue gets shorter at its head and longer at its end.
LEMMA Shorter ==
  ASSUME NEW S, NEW q \in Seq(S), NEW p, p = Tail(q), q # <<>>
  PROVE  /\ Len(q) \in Nat \ {0} /\ Len(p) = Len(q) - 1 /\ Head(q) = q[1] /\ Head(q) \in S
         /\ \A k \in 1 .. Len(p) : k + 1 \in 2 .. Len(q) /\ k + 1 \in 1 .. Len(q) /\ p[k] = q[k + 1]
         /\ \A k \in 2 .. Len(q) : k - 1 \in 1 .. Len(p) /\ p[k - 1] = q[k]
<1>1. /\ Tail(q) \in Seq(S) /\ Len(Tail(q)) = Len(q) - 1
      /\ Len(q) \in Nat \ {0} /\ Head(q) = q[1] /\ Head(q) \in S
      /\ \A k \in 1 .. Len(q) - 1 : Tail(q)[k] = q[k + 1]
  BY Queue
<1>2. \A k \in 1 .. Len(p) : k + 1 \in 2 .. Len(q) /\ k + 1 \in 1 .. Len(q) /\ p[k] = q[k + 1]
  BY <1>1
<1>3. ASSUME NEW k \in 2 .. Len(q) PROVE k - 1 \in 1 .. Len(p) /\ p[k - 1] = q[k]
  <2>1. k - 1 \in 1 .. Len(q) - 1 /\ (k - 1) + 1 = k
    BY <1>1
  <2> QED
    BY <1>1, <2>1
<1> QED
  BY <1>1, <1>2, <1>3

LEMMA Longer ==
  ASSUME NEW S, NEW q \in Seq(S), NEW m \in S, NEW p, p = Append(q, m)
  PROVE  /\ Len(q) \in Nat /\ Len(p) = Len(q) + 1
         /\ \A k \in 1 .. Len(p) : \/ k \in 1 .. Len(q) /\ p[k] = q[k]
                                   \/ k = Len(q) + 1 /\ p[k] = m
         /\ \A k \in 1 .. Len(q) : k \in 1 .. Len(p) /\ p[k] = q[k]
         /\ Len(q) + 1 \in 1 .. Len(p) /\ p[Len(q) + 1] = m
<1>1. /\ Len(Append(q, m)) = Len(q) + 1 /\ Append(q, m)[Len(q) + 1] = m /\ Len(q) \in Nat
      /\ \A k \in 1 .. Len(q) : Append(q, m)[k] = q[k]
  BY Queue
<1> QED
  BY <1>1

\* What JavaScript takes was awaited by one; what it sends is awaited from now on.
LEMMA MatchedJs ==
  ASSUME Matched, calls \in Seq(NativeCalls), inbox \in Seq(Replies),
         inbox' = inbox \/ (inbox # <<>> /\ inbox' = Tail(inbox)),
         calls' = calls \/ \E m \in NativeCalls :
           calls' = Append(calls, m) /\ m \in pending' /\ m \notin pending,
         \A m \in NativeCalls : m \in pending =>
           m \in pending' \/ (inbox # <<>> /\ inbox' = Tail(inbox) /\ m = asked(Head(inbox)))
  PROVE  Matched'
<1> DEFINE sh == IF inbox' = inbox THEN 0 ELSE 1
<1>1. /\ sh \in {0, 1}
      /\ \A k \in 1 .. Len(inbox') : k + sh \in 1 .. Len(inbox) /\ inbox'[k] = inbox[k + sh]
                                     /\ (sh = 1 => k + sh # 1)
      /\ inbox # <<>> /\ inbox' = Tail(inbox) => sh = 1 /\ Head(inbox) = inbox[1] /\ 1 \in 1 .. Len(inbox)
  <2>1. CASE inbox' = inbox
    <3>1. Len(inbox) \in Nat
      BY Queue
    <3>2. inbox # <<>> => Tail(inbox) # inbox
      BY Queue
    <3> QED
      BY <2>1, <3>1, <3>2
  <2>2. CASE inbox' # inbox
    <3>1. /\ Len(inbox) \in Nat \ {0} /\ Head(inbox) = inbox[1]
          /\ \A k \in 1 .. Len(inbox') : k + 1 \in 2 .. Len(inbox) /\ k + 1 \in 1 .. Len(inbox)
                                         /\ inbox'[k] = inbox[k + 1]
      BY <2>2, Shorter
    <3> QED
      BY <2>2, <3>1
  <2> QED
    BY <2>1, <2>2
<1> HIDE DEF sh
<1>2. \A k \in 1 .. Len(inbox) : inbox[k] \in Replies /\ asked(inbox[k]) \in NativeCalls
  BY Messages
<1>3. \A k \in 1 .. Len(calls) : calls[k] \in NativeCalls
  OBVIOUS
<1>4. ASSUME NEW k \in 1 .. Len(inbox')
      PROVE  asked(inbox'[k]) \in pending' /\ asked(inbox[k + sh]) \in pending
             /\ asked(inbox[k + sh]) \in NativeCalls
  <2>1. k + sh \in 1 .. Len(inbox) /\ inbox'[k] = inbox[k + sh] /\ (sh = 1 => k + sh # 1)
    BY <1>1
  <2> DEFINE m == asked(inbox[k + sh])
  <2>2. m \in NativeCalls /\ m \in pending
    BY <1>2, <2>1 DEF Matched
  <2>3. inbox # <<>> /\ inbox' = Tail(inbox) => m # asked(Head(inbox))
    BY <1>1, <2>1 DEF Matched
  <2>4. m \in pending'
    BY <2>2, <2>3
  <2> QED
    BY <2>1, <2>2, <2>4
<1>5. ASSUME NEW k \in 1 .. Len(calls')
      PROVE  /\ calls'[k] \in NativeCalls /\ calls'[k] \in pending'
             /\ \/ k \in 1 .. Len(calls) /\ calls'[k] = calls[k] /\ calls[k] \in pending
                \/ k = Len(calls) + 1 /\ calls'[k] \notin pending
  <2>1. CASE k \in 1 .. Len(calls) /\ calls'[k] = calls[k]
    <3> DEFINE m == calls[k]
    <3>1. m \in NativeCalls /\ m \in pending
      BY <1>3, <2>1 DEF Matched
    <3>2. inbox # <<>> /\ inbox' = Tail(inbox) => m # asked(Head(inbox))
      BY <1>1, <2>1 DEF Matched
    <3>3. m \in pending'
      BY <3>1, <3>2
    <3> QED
      BY <2>1, <3>1, <3>3
  <2>2. CASE calls' = calls
    BY <2>1, <2>2
  <2>3. ASSUME NEW m \in NativeCalls, calls' = Append(calls, m), m \in pending', m \notin pending
        PROVE  \/ k \in 1 .. Len(calls) /\ calls'[k] = calls[k]
               \/ /\ calls'[k] \in NativeCalls /\ calls'[k] \in pending'
                  /\ k = Len(calls) + 1 /\ calls'[k] \notin pending
    BY <2>3, Longer
  <2> QED
    BY <2>1, <2>2, <2>3
<1>6. \A j, k \in 1 .. Len(calls') : j # k => calls'[j] # calls'[k]
  BY <1>5 DEF Matched
<1>7. \A j, k \in 1 .. Len(inbox') : j # k => asked(inbox'[j]) # asked(inbox'[k])
  <2>1. ASSUME NEW j \in 1 .. Len(inbox'), NEW k \in 1 .. Len(inbox'), j # k
        PROVE  asked(inbox'[j]) # asked(inbox'[k])
    <3>1. j + sh \in 1 .. Len(inbox) /\ k + sh \in 1 .. Len(inbox) /\ j + sh # k + sh
      BY <1>1, <2>1
    <3> QED
      BY <1>1, <3>1 DEF Matched
  <2> QED
    BY <2>1
<1>8. \A j \in 1 .. Len(calls'), k \in 1 .. Len(inbox') : calls'[j] # asked(inbox'[k])
  <2>1. ASSUME NEW j \in 1 .. Len(calls'), NEW k \in 1 .. Len(inbox')
        PROVE  calls'[j] # asked(inbox'[k])
    <3>1. k + sh \in 1 .. Len(inbox) /\ inbox'[k] = inbox[k + sh]
      BY <1>1
    <3>2. CASE j \in 1 .. Len(calls) /\ calls'[j] = calls[j]
      BY <3>1, <3>2 DEF Matched
    <3>3. CASE calls'[j] \notin pending
      BY <1>4, <3>1, <3>3
    <3> QED
      BY <1>5, <3>2, <3>3
  <2> QED
    BY <2>1
<1> QED
  BY <1>4, <1>5, <1>6, <1>7, <1>8 DEF Matched

\* What the native side executes moves from the one queue to the other.
LEMMA MatchedNative ==
  ASSUME Matched, calls \in Seq(NativeCalls), inbox \in Seq(Replies), UNCHANGED <<op, hang>>,
         calls # <<>>, calls' = Tail(calls), NEW r \in Replies, inbox' = Append(inbox, r),
         asked(r) = Head(calls)
  PROVE  Matched'
<1>1. /\ Head(calls) = calls[1] /\ 1 \in 1 .. Len(calls)
      /\ \A k \in 1 .. Len(calls') : k + 1 \in 1 .. Len(calls) /\ calls'[k] = calls[k + 1]
                                     /\ k \in Nat
  BY Shorter
<1>2. \A k \in 1 .. Len(inbox') : \/ k \in 1 .. Len(inbox) /\ inbox'[k] = inbox[k]
                                  \/ k = Len(inbox) + 1 /\ inbox'[k] = r
  BY Longer
<1>3. pending' = pending
  BY DEF pending
<1>4. \A k \in 1 .. Len(calls') : calls'[k] \in pending'
  BY <1>1, <1>3 DEF Matched
<1>5. \A k \in 1 .. Len(inbox') : asked(inbox'[k]) \in pending'
  BY <1>1, <1>2, <1>3 DEF Matched
<1>6. \A j, k \in 1 .. Len(calls') : j # k => calls'[j] # calls'[k]
  BY <1>1 DEF Matched
<1>7. \A j, k \in 1 .. Len(inbox') : j # k => asked(inbox'[j]) # asked(inbox'[k])
  BY <1>1, <1>2 DEF Matched
<1>8. \A j \in 1 .. Len(calls'), k \in 1 .. Len(inbox') : calls'[j] # asked(inbox'[k])
  <2>1. ASSUME NEW j \in 1 .. Len(calls'), NEW k \in 1 .. Len(inbox')
        PROVE  calls'[j] # asked(inbox'[k])
    <3>1. j + 1 \in 1 .. Len(calls) /\ j + 1 # 1 /\ calls'[j] = calls[j + 1]
      BY <1>1
    <3> QED
      BY <1>1, <1>2, <3>1 DEF Matched
  <2> QED
    BY <2>1
<1> QED
  BY <1>4, <1>5, <1>6, <1>7, <1>8 DEF Matched

\* The types, as the steps below use them.
LEMMA Typed ==
  ASSUME IInv
  PROVE  /\ calls \in Seq(NativeCalls) /\ inbox \in Seq(Replies) /\ posted \in Seq(Events)
         /\ media \in SessionOrNone /\ camera \in SessionOrNone /\ running \subseteq Calls
         /\ ending \in BOOLEAN /\ NoSession \notin Calls /\ Sessions = Calls
         /\ ctl \in [Controllers -> CtlRecords] /\ op \in [Calls -> OpRecords]
         /\ hang \in [Ends -> HangRecords] /\ screen \in Screens /\ cur \in 0 .. MaxControllers
         /\ spoiled \subseteq Calls /\ adrift \subseteq Calls
         /\ (screen.mounted => cur \in Controllers)
         /\ \A c \in Calls : op[c].by \in Controllers
         /\ \A e \in Ends : hang[e].by \in Controllers /\ hang[e].session \in SessionOrNone
         /\ \A k \in 1 .. Len(posted) : posted[k].about \in Calls
<1>1. JsTyped /\ NativeTyped /\ Grounded
  BY DEF IInv, JsInv, NativeInv
<1>2. \A k \in 1 .. Len(posted) : posted[k] \in Events
  BY <1>1 DEF NativeTyped
<1>3. screen.mounted => cur \in Controllers
  BY <1>1, RnAssumption DEF JsTyped, Grounded, Controllers
<1>4. /\ \A c \in Calls : op[c].by \in Controllers
      /\ \A e \in Ends : hang[e].by \in Controllers /\ hang[e].session \in SessionOrNone
  BY <1>1 DEF JsTyped, OpRecords, HangRecords
<1>5. \A k \in 1 .. Len(posted) : posted[k].about \in Calls
  BY <1>2, MessageTypes DEF Calls
<1> QED
  BY <1>1, <1>3, <1>4, <1>5, RnAssumption DEF JsTyped, NativeTyped, Calls

\* JavaScript sends, and takes what has come.
LEMMA WayJs ==
  ASSUME IInv, OnTheWay, UNCHANGED <<media, ending, running>>,
         inbox' = inbox \/ (inbox # <<>> /\ inbox' = Tail(inbox)),
         posted' = posted \/ (posted # <<>> /\ posted' = Tail(posted)),
         calls' = calls \/ \E m \in NativeCalls :
           /\ calls' = Append(calls, m) /\ m \in pending' /\ m \notin pending
           /\ m.kind = "join" => fresh(m.of),
         \A m \in NativeCalls : m \in pending =>
           m \in pending' \/ (inbox # <<>> /\ inbox' = Tail(inbox) /\ m = asked(Head(inbox))),
         \A e \in Ends : hang'[e].pc = "leaving" =>
           \/ hang[e].pc = "leaving" /\ hang'[e].session = hang[e].session
           \/ calls' = Append(calls, leaveOf(e))
  PROVE  OnTheWay'
<1>0. /\ calls \in Seq(NativeCalls) /\ inbox \in Seq(Replies) /\ posted \in Seq(Events)
      /\ Matched /\ Unjoined /\ EndsHonestly /\ HangUpEnds /\ Len(calls) \in Nat
  BY Typed DEF OnTheWay
<1>1. Matched'
  BY <1>0, MatchedJs
<1>2. \A j \in 1 .. Len(posted') : \E k \in 1 .. Len(posted) : posted'[j] = posted[k]
  <2>1. posted # <<>> => \A j \in 1 .. Len(Tail(posted)) : \E k \in 1 .. Len(posted) : Tail(posted)[j] = posted[k]
    BY <1>0, Shorter
  <2> QED
    BY <2>1
<1>3. \A k \in 1 .. Len(calls') :
        \/ k \in 1 .. Len(calls) /\ calls'[k] = calls[k]
        \/ k = Len(calls) + 1 /\ calls'[k] \in NativeCalls /\ (calls'[k].kind = "join" => fresh(calls'[k].of))
  BY <1>0, Longer
<1>4. \A k \in 1 .. Len(calls) : k \in 1 .. Len(calls') /\ calls'[k] = calls[k]
  BY <1>0, Longer
<1>5. Len(calls') \in Nat /\ Len(calls) <= Len(calls')
  BY <1>0, Longer
<1>6. Unjoined'
  <2>1. ASSUME NEW k \in 1 .. Len(calls'), calls'[k].kind = "join"
        PROVE  /\ media # calls'[k].of /\ calls'[k].of \notin running
               /\ \A j \in 1 .. Len(posted) : posted[j].about # calls'[k].of
    <3>1. CASE k \in 1 .. Len(calls) /\ calls'[k] = calls[k]
      BY <1>0, <2>1, <3>1 DEF Unjoined
    <3>2. CASE calls'[k] \in NativeCalls /\ fresh(calls'[k].of)
      <4>1. calls'[k].of \in Calls
        BY <2>1, <3>2, Messages
      <4> QED
        BY <3>2, <4>1 DEF IInv, NativeInv, FreshInNative
    <3> QED
      BY <1>3, <2>1, <3>1, <3>2
  <2> QED
    BY <1>2, <2>1 DEF Unjoined
<1>7. EndsHonestly'
  BY <1>0, <1>2 DEF EndsHonestly
<1>8. HangUpEnds'
  <2>1. ASSUME NEW e \in Ends, hang'[e].pc = "leaving",
               hang[e].pc = "leaving", hang'[e].session = hang[e].session
        PROVE  /\ \A p \in 1 .. Len(calls') : calls'[p] = joinOf(hang'[e].session) =>
                    \E q \in p + 1 .. Len(calls') : calls'[q] = leaveOf(e)
               /\ hang'[e].session = media /\ media # NoSession =>
                    ending \/ queued(calls', leaveOf(e))
    <3>1. ASSUME NEW p \in 1 .. Len(calls'), calls'[p] = joinOf(hang[e].session)
          PROVE  \E q \in p + 1 .. Len(calls') : calls'[q] = leaveOf(e)
      <4>1. CASE p \in 1 .. Len(calls) /\ calls'[p] = calls[p]
        <5>1. PICK q \in p + 1 .. Len(calls) : calls[q] = leaveOf(e)
          BY <1>0, <2>1, <3>1, <4>1 DEF HangUpEnds
        <5>2. q \in 1 .. Len(calls) /\ q \in p + 1 .. Len(calls')
          BY <1>0, <1>5, <4>1
        <5> QED
          BY <1>4, <5>1, <5>2
      <4>2. CASE calls'[p] \in NativeCalls /\ (calls'[p].kind = "join" => fresh(calls'[p].of))
        <5>1. joinOf(hang[e].session).kind = "join" /\ joinOf(hang[e].session).of = hang[e].session
          BY DEF joinOf
        <5>2. hang[e].session \in Calls /\ fresh(hang[e].session)
          BY <3>1, <4>2, <5>1, Messages
        <5> QED
          BY <5>2 DEF IInv, JsInv, FreshInJs
      <4> QED
        BY <1>3, <4>1, <4>2
    <3>2. queued(calls, leaveOf(e)) => queued(calls', leaveOf(e))
      BY <1>4 DEF queued
    <3> QED
      BY <1>0, <2>1, <3>1, <3>2 DEF HangUpEnds
  <2>2. ASSUME NEW e \in Ends, calls' = Append(calls, leaveOf(e))
        PROVE  /\ \A p \in 1 .. Len(calls') : calls'[p] = joinOf(hang'[e].session) =>
                    \E q \in p + 1 .. Len(calls') : calls'[q] = leaveOf(e)
               /\ queued(calls', leaveOf(e))
    <3>1. leaveOf(e) \in NativeCalls /\ leaveOf(e).kind = "leave"
      BY Messages
    <3>2. /\ Len(calls) + 1 \in 1 .. Len(calls') /\ Len(calls') = Len(calls) + 1
          /\ calls'[Len(calls) + 1] = leaveOf(e)
      BY <1>0, <2>2, <3>1, Longer
    <3>3. joinOf(hang'[e].session).kind = "join"
      BY DEF joinOf
    <3>4. ASSUME NEW p \in 1 .. Len(calls'), calls'[p] = joinOf(hang'[e].session)
          PROVE  Len(calls) + 1 \in p + 1 .. Len(calls')
      <4>1. p # Len(calls) + 1
        BY <3>1, <3>2, <3>3, <3>4
      <4> QED
        BY <1>0, <3>2, <4>1
    <3> QED
      BY <3>2, <3>4 DEF queued
  <2> QED
    BY <2>1, <2>2 DEF HangUpEnds
<1> QED
  BY <1>1, <1>6, <1>7, <1>8 DEF OnTheWay

\* A native call is executed: a join makes its session the media, a hang-up ends it.
LEMMA WayNative ==
  ASSUME IInv, OnTheWay, UNCHANGED <<op, hang>>, NEW m \in NativeCalls, NEW r \in Replies,
         calls # <<>>, m = Head(calls), calls' = Tail(calls), inbox' = Append(inbox, r),
         asked(r) = m, media' = media \/ (media' \in Calls /\ m = joinOf(media')),
         ending => ending', m.kind = "leave" /\ media # NoSession => ending',
         running' \subseteq running \cup {media'},
         posted' = posted \/ \E v \in Events :
           posted' = Append(posted, v) /\ v.about = media' /\ v.of \notin isTerminal
             /\ m = joinOf(media')
  PROVE  OnTheWay'
<1>0. /\ calls \in Seq(NativeCalls) /\ inbox \in Seq(Replies) /\ posted \in Seq(Events)
      /\ Matched /\ Unjoined /\ EndsHonestly /\ HangUpEnds /\ Len(calls) \in Nat /\ ending \in BOOLEAN
      /\ \A k \in 1 .. Len(posted) : posted[k].about \in Calls
  BY Typed DEF OnTheWay
<1>1. Matched'
  BY <1>0, MatchedNative
<1>2. /\ m = calls[1] /\ 1 \in 1 .. Len(calls) /\ Len(calls') = Len(calls) - 1
      /\ \A k \in 1 .. Len(calls') : k + 1 \in 2 .. Len(calls) /\ k + 1 \in 1 .. Len(calls)
                                     /\ calls'[k] = calls[k + 1] /\ calls'[k] # m
      /\ \A k \in 2 .. Len(calls) : k - 1 \in 1 .. Len(calls') /\ calls'[k - 1] = calls[k]
  <2>1. /\ m = calls[1] /\ Len(calls) \in Nat \ {0} /\ Len(calls') = Len(calls) - 1
        /\ \A k \in 1 .. Len(calls') : k + 1 \in 2 .. Len(calls) /\ k + 1 \in 1 .. Len(calls)
                                       /\ calls'[k] = calls[k + 1]
        /\ \A k \in 2 .. Len(calls) : k - 1 \in 1 .. Len(calls') /\ calls'[k - 1] = calls[k]
    BY <1>0, Shorter
  <2> QED
    BY <1>0, <2>1 DEF Matched
<1>3. \A j \in 1 .. Len(posted') :
        \/ \E k \in 1 .. Len(posted) : posted'[j] = posted[k]
        \/ posted'[j].about = media' /\ posted'[j].of \notin isTerminal /\ m = joinOf(media')
  BY <1>0, Longer
<1>4. /\ joinOf(media').kind = "join" /\ joinOf(media').of = media'
      /\ \A c \in Calls : m = joinOf(c) => c # media /\ \A k \in 1 .. Len(posted) : posted[k].about # c
  <2>1. \A c : joinOf(c).kind = "join" /\ joinOf(c).of = c
    BY DEF joinOf
  <2>2. ASSUME NEW c \in Calls, m = joinOf(c)
        PROVE  c # media /\ \A k \in 1 .. Len(posted) : posted[k].about # c
    <3>1. 1 \in 1 .. Len(calls) /\ calls[1].kind = "join" /\ calls[1].of = c
      BY <1>2, <2>1, <2>2
    <3> QED
      BY <1>0, <3>1 DEF Unjoined
  <2> QED
    BY <2>1, <2>2
<1>5. Unjoined'
  <2>1. ASSUME NEW k \in 1 .. Len(calls'), calls'[k].kind = "join"
        PROVE  /\ media' # calls'[k].of /\ calls'[k].of \notin running'
               /\ \A j \in 1 .. Len(posted') : posted'[j].about # calls'[k].of
    <3>1. /\ media # calls'[k].of /\ calls'[k].of \notin running
          /\ \A j \in 1 .. Len(posted) : posted[j].about # calls'[k].of
      BY <1>0, <1>2, <2>1 DEF Unjoined
    <3>2. calls'[k] = joinOf(calls'[k].of)
      BY <1>0, <1>2, <2>1, Messages
    <3>3. m = joinOf(media') => media' # calls'[k].of
      BY <1>2, <3>2
    <3>4. media' # calls'[k].of
      BY <3>1, <3>3
    <3> QED
      BY <1>3, <3>1, <3>4
  <2> QED
    BY <2>1 DEF Unjoined
<1>6. EndsHonestly'
  BY <1>0, <1>3, <1>4 DEF EndsHonestly
<1>7. HangUpEnds'
  <2>1. ASSUME NEW e \in Ends, hang[e].pc = "leaving"
        PROVE  /\ \A p \in 1 .. Len(calls') : calls'[p] = joinOf(hang[e].session) =>
                    \E q \in p + 1 .. Len(calls') : calls'[q] = leaveOf(e)
               /\ hang[e].session = media' /\ media' # NoSession =>
                    ending' \/ queued(calls', leaveOf(e))
    <3>1. ASSUME NEW p \in 1 .. Len(calls'), calls'[p] = joinOf(hang[e].session)
          PROVE  \E q \in p + 1 .. Len(calls') : calls'[q] = leaveOf(e)
      <4>1. p + 1 \in 1 .. Len(calls) /\ calls[p + 1] = joinOf(hang[e].session) /\ p \in Nat
        BY <1>2, <3>1
      <4>2. PICK q \in (p + 1) + 1 .. Len(calls) : calls[q] = leaveOf(e)
        BY <1>0, <2>1, <4>1 DEF HangUpEnds
      <4>3. q \in 2 .. Len(calls) /\ q - 1 \in p + 1 .. Len(calls')
        BY <1>0, <1>2, <4>1
      <4> QED
        BY <1>2, <4>2, <4>3
    <3>2. ASSUME queued(calls, leaveOf(e)), m # leaveOf(e) PROVE queued(calls', leaveOf(e))
      <4>1. PICK k \in 1 .. Len(calls) : calls[k] = leaveOf(e)
        BY <3>2 DEF queued
      <4>2. k \in 2 .. Len(calls)
        BY <1>0, <1>2, <3>2, <4>1
      <4>3. k - 1 \in 1 .. Len(calls') /\ calls'[k - 1] = leaveOf(e)
        BY <1>2, <4>1, <4>2
      <4> QED
        BY <4>3 DEF queued
    <3>3. leaveOf(e).kind = "leave"
      BY Messages
    <3>4. ASSUME media' = media, hang[e].session = media, media # NoSession
          PROVE  ending' \/ queued(calls', leaveOf(e))
      BY <1>0, <2>1, <3>2, <3>3, <3>4 DEF HangUpEnds
    <3>5. ASSUME media' \in Calls, m = joinOf(media'), hang[e].session = media'
          PROVE  queued(calls', leaveOf(e))
      <4>1. PICK q \in 1 + 1 .. Len(calls) : calls[q] = leaveOf(e)
        BY <1>0, <1>2, <2>1, <3>5 DEF HangUpEnds
      <4>2. q \in 2 .. Len(calls)
        BY <1>0
      <4> QED
        BY <1>2, <4>1, <4>2 DEF queued
    <3> QED
      BY <3>1, <3>4, <3>5
  <2> QED
    BY <2>1 DEF HangUpEnds
<1> QED
  BY <1>1, <1>5, <1>6, <1>7 DEF OnTheWay

\* The native call moves on its own; it posts the end of a call that is gone or going.
LEMMA WayAlone ==
  ASSUME IInv, OnTheWay, UNCHANGED <<op, hang, calls, inbox>>, media' \in {media, NoSession},
         media' = media /\ media # NoSession => (ending => ending'), running' \subseteq running,
         posted' = posted \/ \E v \in Events :
           /\ posted' = Append(posted, v) /\ v.about \in running \cup {media}
           /\ v.of \in isTerminal /\ v.about = media' => ending'
  PROVE  OnTheWay'
<1>0. /\ calls \in Seq(NativeCalls) /\ posted \in Seq(Events) /\ NoSession \notin Calls
      /\ Matched /\ Unjoined /\ EndsHonestly /\ HangUpEnds
      /\ \A k \in 1 .. Len(posted) : posted[k].about \in Calls
      /\ \A k \in 1 .. Len(calls) : calls[k].kind = "join" => calls[k].of \in Calls
  BY Typed, Messages DEF OnTheWay
<1>1. \A j \in 1 .. Len(posted') :
        \/ \E k \in 1 .. Len(posted) : posted'[j] = posted[k]
        \/ /\ posted'[j].about \in running \cup {media}
           /\ posted'[j].of \in isTerminal /\ posted'[j].about = media' => ending'
  BY <1>0, Longer
<1>2. Matched'
  BY <1>0 DEF Matched, pending
<1>3. Unjoined'
  <2>1. ASSUME NEW k \in 1 .. Len(calls), calls[k].kind = "join"
        PROVE  /\ media' # calls[k].of /\ calls[k].of \notin running'
               /\ \A j \in 1 .. Len(posted') : posted'[j].about # calls[k].of
    BY <1>0, <1>1, <2>1 DEF Unjoined
  <2> QED
    BY <2>1 DEF Unjoined
<1>4. EndsHonestly'
  BY <1>0, <1>1 DEF EndsHonestly
<1>5. HangUpEnds'
  BY <1>0 DEF HangUpEnds, queued
<1> QED
  BY <1>2, <1>3, <1>4, <1>5 DEF OnTheWay

\* Nothing is sent or taken, and no call that is awaited moves.
LEMMA WayStill ==
  ASSUME IInv, OnTheWay, UNCHANGED <<calls, inbox, posted, native, hang>>,
         \A c \in Calls : op'[c].pc = op[c].pc \/ op[c].pc \notin {"join", "video"}
  PROVE  OnTheWay'
<1>1. \A m \in NativeCalls : m \in pending => m \in pending'
  BY Messages DEF pending
<1> QED
  BY <1>1, WayJs DEF native

\* One call moves.
LEMMA OneCall ==
  ASSUME IInv, NEW c \in Calls, NEW n, op' = [op EXCEPT ![c] = n]
  PROVE  op'[c] = n /\ \A d \in Calls : d # c => op'[d] = op[d]
BY Typed

\* Everything that happens keeps the queues in order.
LEMMA NextOnTheWay ==
  ASSUME IInv, OnTheWay, [Next]_vars
  PROVE  OnTheWay'
<1>0. /\ calls \in Seq(NativeCalls) /\ inbox \in Seq(Replies) /\ posted \in Seq(Events)
      /\ op \in [Calls -> OpRecords] /\ hang \in [Ends -> HangRecords] /\ NoSession \notin Calls
      /\ Matched /\ media \in SessionOrNone /\ running \subseteq Calls
  BY Typed DEF OnTheWay
<1>1. ASSUME inbox # <<>>
      PROVE  /\ Head(inbox) \in Replies /\ asked(Head(inbox)) \in pending
             /\ asked(Head(inbox)) \in NativeCalls
  <2>1. Head(inbox) = inbox[1] /\ 1 \in 1 .. Len(inbox) /\ Head(inbox) \in Replies
    BY <1>0, <1>1, Shorter
  <2> QED
    BY <1>0, <2>1, Messages DEF Matched
<1>2. CASE Host
  <2>1. CASE Present
    <3>1. CASE UNCHANGED op
      BY <2>1, <3>1, WayStill DEF native_unchanged, Present
    <3>2. CASE op' # op
      <4>1. PICK c \in Calls, kind \in soleType : op[c].pc = "idle" /\ op' = newCall(c, cur + 1, kind)
        BY <2>1, <3>2 DEF Present
      <4>2. \A d \in Calls : d # c => op'[d] = op[d]
        BY <4>1, OneCall DEF newCall
      <4> QED
        BY <2>1, <4>1, <4>2, WayStill DEF native_unchanged, Present
    <3> QED
      BY <3>1, <3>2
  <2>2. CASE Reconfigure
    BY <2>2, WayStill DEF native_unchanged, Reconfigure
  <2>3. CASE Dismiss
    BY <2>3, WayStill DEF native_unchanged, Dismiss
  <2> QED
    BY <1>2, <2>1, <2>2, <2>3 DEF Host
<1>3. ASSUME NEW c \in Calls, (\E type \in CallTypes : startCall(c, type)) \/ answerIncomingCall(c)
      PROVE  OnTheWay'
  <2>1. PICK kind : op' = newCall(c, cur, kind)
    BY <1>3 DEF startCall, answerIncomingCall
  <2>2. \A d \in Calls : d # c => op'[d] = op[d]
    BY <2>1, OneCall DEF newCall
  <2> QED
    BY <1>3, <2>2, WayStill DEF native_unchanged, startCall, answerIncomingCall
<1>4. ASSUME NEW c \in Calls, CallStep(c) PROVE OnTheWay'
  <2>1. ASSUME NEW n, op' = [op EXCEPT ![c] = n], op[c].pc = "request",
               UNCHANGED <<calls, inbox, posted, native, hang>>
        PROVE  OnTheWay'
    <3>1. \A d \in Calls : d # c => op'[d] = op[d]
      BY <2>1, OneCall
    <3> QED
      BY <2>1, <3>1, WayStill
  <2>2. CASE PermissionDenied(c)
    BY <2>1, <2>2 DEF PermissionDenied, fail, native_unchanged
  <2>3. CASE PermissionThrows(c)
    BY <2>1, <2>3 DEF PermissionThrows, native_unchanged
  <2>4. CASE Refused(c)
    BY <2>1, <2>4 DEF Refused, fail, native_unchanged
  <2>5. CASE AttemptFails(c)
    BY <2>1, <2>5 DEF AttemptFails, fail, native_unchanged
  <2>6. CASE Received(c)
    <3>1. /\ op[c].pc = "request" /\ calls' = Append(calls, joinOf(c))
          /\ UNCHANGED <<hang, inbox, posted, native>>
      BY <2>6 DEF Received, joinOf
    <3>2. op'[c].pc = "join" /\ \A d \in Calls : d # c => op'[d] = op[d]
      BY <1>0, <2>6 DEF Received, OpRecords
    <3>3. joinOf(c) \in pending' /\ joinOf(c) \notin pending /\ fresh(joinOf(c).of)
      BY <3>1, <3>2, Messages DEF pending, fresh
    <3>4. \A m \in NativeCalls : m \in pending => m \in pending'
      BY <3>1, <3>2, Messages DEF pending
    <3> QED
      BY <3>1, <3>3, <3>4, Messages, WayJs DEF native
  <2> QED
    BY <1>4, <2>2, <2>3, <2>4, <2>5, <2>6 DEF CallStep
<1>5. CASE JoinReturns
  <2> DEFINE c == Head(inbox).of
  <2>1. inbox # <<>> /\ inbox' = Tail(inbox) /\ UNCHANGED <<hang, posted, native>>
    BY <1>5 DEF JoinReturns
  <2>2. c \in Calls /\ asked(Head(inbox)) = joinOf(c) /\ op[c].pc = "join"
    BY <1>1, <1>5, <2>1, Messages DEF JoinReturns, pending
  <2>3. /\ op'[c].pc \in {"video", "done"}
        /\ calls' = calls \/ (calls' = Append(calls, filmOf(c)) /\ op'[c].pc = "video")
        /\ \A d \in Calls : d # c => op'[d] = op[d]
    BY <1>0, <1>5, <2>2 DEF JoinReturns, OpRecords, filmOf, returned
  <2> HIDE DEF c
  <2>4. \A m \in NativeCalls : m \in pending => m \in pending' \/ m = joinOf(c)
    BY <2>1, <2>2, <2>3, Messages DEF pending
  <2>5. op'[c].pc = "video" => filmOf(c) \in pending' /\ filmOf(c) \notin pending
    BY <2>2, Messages DEF pending
  <2>6. calls' = calls \/ \E m \in NativeCalls :
          /\ calls' = Append(calls, m) /\ m \in pending' /\ m \notin pending
          /\ m.kind = "join" => fresh(m.of)
    BY <2>2, <2>3, <2>5, Messages
  <2> QED
    BY <2>1, <2>2, <2>4, <2>6, WayJs DEF native
<1>6. ASSUME NEW c \in Calls, NEW n, inbox # <<>>, inbox' = Tail(inbox), op' = [op EXCEPT ![c] = n],
             asked(Head(inbox)) \in {joinOf(c), filmOf(c)}, UNCHANGED <<calls, hang, posted, native>>
      PROVE  OnTheWay'
  <2>1. \A d \in Calls : d # c => op'[d] = op[d]
    BY <1>6, OneCall
  <2>2. op[c].pc = asked(Head(inbox)).kind
    BY <1>1, <1>6, Messages DEF pending
  <2>3. \A m \in NativeCalls : m \in pending => m \in pending' \/ m = asked(Head(inbox))
    BY <1>6, <2>1, <2>2, Messages DEF pending
  <2> QED
    BY <1>6, <2>3, WayJs DEF native
<1>7. CASE JoinThrows
  <2> DEFINE c == Head(inbox).of
  <2>1. c \in Calls /\ asked(Head(inbox)) = joinOf(c)
    BY <1>1, <1>7, Messages DEF JoinThrows
  <2>2. /\ inbox # <<>> /\ inbox' = Tail(inbox) /\ op' = [op EXCEPT ![c] = returned("threw")]
        /\ UNCHANGED <<calls, hang, posted, native>>
    BY <1>7 DEF JoinThrows, fail
  <2> HIDE DEF c
  <2> QED
    BY <1>6, <2>1, <2>2
<1>8. CASE VideoReturns
  <2> DEFINE c == Head(inbox).of
  <2>1. c \in Calls /\ asked(Head(inbox)) = filmOf(c)
    BY <1>1, <1>8, Messages DEF VideoReturns
  <2>2. /\ inbox # <<>> /\ inbox' = Tail(inbox) /\ op' = [op EXCEPT ![c] = returned("done")]
        /\ UNCHANGED <<calls, hang, posted, native>>
    BY <1>8 DEF VideoReturns
  <2> HIDE DEF c
  <2> QED
    BY <1>6, <2>1, <2>2
<1>9. CASE LeaveReturns
  <2> DEFINE e == Head(inbox).of
  <2>1. inbox # <<>> /\ inbox' = Tail(inbox) /\ UNCHANGED <<op, calls, posted, native>>
    BY <1>9 DEF LeaveReturns
  <2>2. e \in Ends /\ asked(Head(inbox)) = leaveOf(e)
    BY <1>1, <1>9, <2>1, Messages DEF LeaveReturns
  <2>3. hang'[e].pc = "done" /\ \A f \in Ends : f # e => hang'[f] = hang[f]
    BY <1>0, <1>9, <2>2 DEF LeaveReturns
  <2> HIDE DEF e
  <2>4. \A m \in NativeCalls : m \in pending => m \in pending' \/ m = leaveOf(e)
    BY <2>1, <2>3, Messages DEF pending
  <2> QED
    BY <2>1, <2>2, <2>3, <2>4, WayJs DEF native
<1>10. CASE onNativeEvent
  <2>1. /\ posted # <<>> /\ posted' = Tail(posted) /\ UNCHANGED <<op, hang, calls, inbox, native>>
    BY <1>10 DEF onNativeEvent
  <2>2. pending' = pending
    BY <2>1 DEF pending
  <2> QED
    BY <2>1, <2>2, WayJs DEF native
<1>11. ASSUME NEW e \in Ends, endCall(e) PROVE OnTheWay'
  <2>1. /\ hang[e].pc = "idle" /\ calls' = Append(calls, leaveOf(e))
        /\ UNCHANGED <<op, inbox, posted, native>>
    BY <1>11 DEF endCall, leaveOf
  <2>2. hang'[e].pc = "leaving" /\ \A f \in Ends : f # e => hang'[f] = hang[f]
    BY <1>0, <1>11 DEF endCall
  <2>3. \A m \in NativeCalls : m \in pending => m \in pending'
    BY <2>1, <2>2, Messages DEF pending
  <2>4. leaveOf(e) \in pending' /\ leaveOf(e) \notin pending
    BY <2>1, <2>2, Messages DEF pending
  <2> QED
    BY <2>1, <2>2, <2>3, <2>4, Messages, WayJs DEF native
<1>12. ASSUME NEW t \in Tones, sendDtmf(t) \/ ToneStep(t) PROVE OnTheWay'
  <2>1. UNCHANGED <<op, hang>> /\ native_unchanged
    BY <1>12 DEF sendDtmf, ToneStep, Connected, ConnectFails, DigitsTaken, DigitsFail
  <2> QED
    BY <2>1, WayStill DEF native_unchanged
<1>13. CASE NativeModules
  <2>1. ASSUME NEW m, NEW r, Execute(m, r)
        PROVE  /\ calls # <<>> /\ m = Head(calls) /\ calls' = Tail(calls)
               /\ inbox' = Append(inbox, r) /\ UNCHANGED <<op, hang>>
    BY <2>1 DEF Execute, js
  <2>2. ASSUME NEW c \in Calls, join(c) PROVE OnTheWay'
    <3> DEFINE v == stateEvent("connecting", c)
    <3>1. v \in Events /\ v.about = c /\ v.of \notin isTerminal
      BY DEF Events, stateEvent, isTerminal, Calls
    <3>2. Execute(joinOf(c), joinOf(c)) /\ media' = c /\ running' = running \cup {c}
          /\ posted' = Append(posted, v) /\ ending' = ending
      BY <2>2 DEF join, joinOf
    <3> HIDE DEF v
    <3> QED
      BY <2>1, <3>1, <3>2, Messages, WayNative
  <2>3. ASSUME NEW c \in Calls, joinThrows(c) PROVE OnTheWay'
    <3>1. Execute(joinOf(c), failureOf(c)) /\ UNCHANGED <<posted, media, ending, running>>
      BY <2>3 DEF joinThrows, joinOf, failureOf, native
    <3> QED
      BY <2>1, <3>1, Messages, WayNative
  <2>4. ASSUME NEW c \in Calls, setLocalVideoEnabled(c) PROVE OnTheWay'
    <3>1. Execute(filmOf(c), filmOf(c)) /\ UNCHANGED <<posted, media, ending, running>>
      BY <2>4 DEF setLocalVideoEnabled, filmOf
    <3> QED
      BY <2>1, <3>1, Messages, WayNative
  <2>5. ASSUME NEW e \in Ends, leave(e) PROVE OnTheWay'
    <3>1. Execute(leaveOf(e), leaveOf(e)) /\ UNCHANGED <<posted, media, running>>
          /\ ending' = (ending \/ media # NoSession)
      BY <2>5 DEF leave, leaveOf
    <3>2. leaveOf(e) \in NativeCalls /\ leaveOf(e) \in Replies /\ asked(leaveOf(e)) = leaveOf(e)
      BY Messages
    <3> QED
      BY <2>1, <3>1, <3>2, WayNative
  <2> QED
    BY <1>13, <2>2, <2>3, <2>4, <2>5 DEF NativeModules
<1>14. ASSUME stopMedia PROVE OnTheWay'
  <2>1. /\ media' = NoSession /\ running' \subseteq running /\ UNCHANGED <<op, hang, calls, inbox>>
        /\ posted' = IF media = NoSession THEN posted ELSE Append(posted, stateEvent("disconnected", media))
    BY <1>14 DEF stopMedia, js
  <2>2. media # NoSession => stateEvent("disconnected", media) \in Events
                             /\ stateEvent("disconnected", media).about = media
    BY <1>0 DEF SessionOrNone, Events, stateEvent
  <2>3. CASE media = NoSession
    BY <2>1, <2>3, WayAlone
  <2>4. CASE media # NoSession
    <3> DEFINE v == stateEvent("disconnected", media)
    <3>1. v \in Events /\ v.about = media /\ v.about # media'
      BY <2>1, <2>2, <2>4
    <3>2. posted' = Append(posted, v)
      BY <2>1, <2>4
    <3> HIDE DEF v
    <3> QED
      BY <2>1, <3>1, <3>2, WayAlone
  <2> QED
    BY <2>3, <2>4
<1>15. CASE onDisconnect \/ SystemEnds
  BY <1>14, <1>15 DEF onDisconnect, SystemEnds
<1>16. CASE onAudioSessionStarted
  <2> DEFINE v == stateEvent("connected", media)
  <2>1. media # NoSession
    BY <1>16 DEF onAudioSessionStarted, IInv, NativeInv
  <2>2. v \in Events /\ v.about = media /\ v.of \notin isTerminal
    BY <1>0, <2>1 DEF SessionOrNone, Events, stateEvent, isTerminal
  <2>3. UNCHANGED <<op, hang, calls, inbox, media, ending, running>> /\ posted' = Append(posted, v)
    BY <1>16 DEF onAudioSessionStarted, js
  <2> HIDE DEF v
  <2> QED
    BY <2>2, <2>3, WayAlone
<1>17. ASSUME NEW s \in Sessions, onAudioSessionStopped(s) PROVE OnTheWay'
  <2> DEFINE v == [kind |-> "error", of |-> "failed", about |-> s]
  <2>1. v \in Events /\ v.about = s
    BY DEF Events
  <2>2. /\ UNCHANGED <<op, hang, calls, inbox, media>> /\ s \in running /\ running' \subseteq running
        /\ ending' = (ending \/ media # NoSession)
        /\ posted' = posted \/ posted' = Append(posted, v)
    BY <1>17 DEF onAudioSessionStopped, js
  <2>3. s # NoSession
    BY <1>0, <2>2
  <2> HIDE DEF v
  <2> QED
    BY <2>1, <2>2, <2>3, WayAlone
<1>18. CASE (\E s \in Sessions : ContactEnds(s)) \/ UNCHANGED vars
  <2>1. UNCHANGED <<calls, inbox, posted, native, hang, op>>
    BY <1>18 DEF ContactEnds, vars, js
  <2> QED
    BY <2>1, WayStill
<1> QED
  BY <1>2, <1>3, <1>4, <1>5, <1>7, <1>8, <1>9, <1>10, <1>11, <1>12, <1>13, <1>15, <1>16, <1>17, <1>18
  DEF Next, Receive

----
(***************************************************************************)
(* What the screen shows and what runs below it.                           *)
(*                                                                         *)
(* A call that nothing excuses is held by the screen from its start until  *)
(* its media is bound to go.  What is on the way decides which: a join     *)
(* behind a join replaces its session, a hang-up behind a join ends it,    *)
(* and the camera that a dismissed screen still asks for is asked for      *)
(* before anything that the next screen joins.                             *)
(***************************************************************************)
clean(c) == c \in Calls /\ c \notin adrift \cup spoiled

\* The controller of the screen is in a call, and which.
inFront == screen.mounted /\ ctl[cur].state \in isActive
held(c) == inFront /\ ctl[cur].session = c

\* The media will not stay: it is being ended, or another call takes its place or
\* will spoil it by failing.
doomed ==
  \/ ending
  \/ \E e \in Ends : queued(calls, leaveOf(e))
  \/ \E c \in Calls : c # media /\ (queued(calls, joinOf(c)) \/ queued(inbox, failureOf(c)))

MediaHeld == clean(media) => held(media) \/ doomed

StartHeld ==
  \A c \in Calls : clean(c) =>
    /\ c \in starting => screen.mounted /\ op[c].by = cur
    /\ op[c].pc = "request" => inFront
    /\ \A p \in 1 .. Len(calls) : calls[p] = joinOf(c) =>
         /\ inFront
         /\ \/ ctl[cur].session = c
            \/ \E q \in p + 1 .. Len(calls), d \in Calls : d # c /\ calls[q] = joinOf(d)

\* The screen that started call c is gone.
stale(c) == ~(screen.mounted /\ op[c].by >= screen.since)

\* The camera that it asks for is that of no call of the screen.
FilmHeld ==
  \A c \in Calls, p \in 1 .. Len(calls) :
    calls[p] = filmOf(c) /\ clean(c) /\ stale(c) =>
      /\ clean(media) => doomed
      /\ \A q \in 1 .. p - 1, d \in Calls : calls[q] = joinOf(d) => ~clean(d)

CameraHeld ==
  /\ camera # NoSession => media # NoSession
  /\ clean(camera) /\ clean(media) =>
       doomed \/ screen.video \/ (queued(inbox, filmOf(camera)) /\ ~stale(camera))

ScreenTrue ==
  screen.mounted => /\ screen.since <= cur
                    /\ ctl[cur].state \in isActive => screen.state \in isActive

Held == MediaHeld /\ StartHeld /\ FilmHeld /\ CameraHeld /\ ScreenTrue

\* The screen follows its controller.
LEMMA ScreenFollows ==
  ASSUME IInv, ScreenTrue, NEW i \in Controllers, NEW s \in CallState, NEW by,
         setState(i, s, by), cur' = cur,
         \A j \in Controllers : ctl'[j].state = IF j = i THEN s ELSE ctl[j].state
  PROVE  /\ ScreenTrue' /\ screen'.mounted = screen.mounted /\ screen'.since = screen.since
         /\ s \in isActive => screen'.video = screen.video
         /\ i # cur \/ ~screen.mounted => screen' = screen
<1> DEFINE v == screen.video /\ ~(s \in isTerminal /\ screen.state # s)
<1>1. screen' = screen \/ screen' = [screen EXCEPT !.state = s, !.video = v]
  BY DEF setState, shown
<1>2. screen \in Screens /\ (screen.mounted => cur \in Controllers)
  BY Typed
<1>3. s \in isActive => v = screen.video
  BY <1>2 DEF isActive, isTerminal, Screens
<1>4. screen.mounted /\ i = cur /\ ctl[cur].state # s => screen' = [screen EXCEPT !.state = s, !.video = v]
  BY DEF setState, shown
<1>5. i # cur \/ ~screen.mounted => screen' = screen
  BY DEF setState, shown
<1> HIDE DEF v
<1>6. /\ screen'.mounted = screen.mounted /\ screen'.since = screen.since
      /\ screen'.state = screen.state \/ screen'.state = s
      /\ screen.mounted /\ i = cur /\ ctl[cur].state # s => screen'.state = s
      /\ s \in isActive => screen'.video = screen.video
  BY <1>1, <1>2, <1>3, <1>4 DEF Screens
<1>7. ScreenTrue'
  BY <1>2, <1>5, <1>6 DEF ScreenTrue
<1> QED
  BY <1>5, <1>6, <1>7

\* What is excused stays excused; whose camera is asked for keeps its controller.
LEMMA FilmsKept ==
  ASSUME OnTheWay', NEW d \in Calls, queued(calls', filmOf(d)) \/ queued(inbox', filmOf(d))
  PROVE  op'[d].pc = "video"
<1>1. filmOf(d) \in NativeCalls /\ asked(filmOf(d)) = filmOf(d) /\ filmOf(d).kind = "video"
      /\ filmOf(d).of = d
  BY Messages
<1>2. filmOf(d) \in pending'
  BY <1>1 DEF OnTheWay, Matched, queued
<1> QED
  BY <1>1, <1>2 DEF pending

\* JavaScript goes on and leaves the controller of the screen in its call.
LEMMA FrontHeld ==
  ASSUME IInv, OnTheWay', Held, ScreenTrue', UNCHANGED <<cur, media, ending, camera>>,
         adrift \subseteq adrift', spoiled \subseteq spoiled',
         screen'.mounted = screen.mounted, screen'.since = screen.since,
         screen.video => screen'.video, inFront => inFront',
         screen.mounted => ctl'[cur].session = ctl[cur].session,
         \A d \in Calls : op'[d].pc \in Starting =>
           \/ op'[d].pc = op[d].pc /\ op'[d].by = op[d].by
           \/ op'[d].pc = "request" /\ op'[d].by = cur /\ inFront',
         \A d \in Calls : op'[d].pc = "video" => op'[d].by = op[d].by,
         calls' = calls \/ \E m \in NativeCalls :
           /\ calls' = Append(calls, m)
           /\ m.kind = "leave" \/ \E c \in Calls : m = filmOf(c) /\ (clean(c) => ~stale(c)'),
         inbox' = inbox \/
           /\ inbox # <<>> /\ inbox' = Tail(inbox)
           /\ \A c \in Calls : Head(inbox) = failureOf(c) => ~clean(media)'
           /\ \A c \in Calls : Head(inbox) = filmOf(c) => screen'.video \/ stale(c)
  PROVE  Held'
<1>0. /\ calls \in Seq(NativeCalls) /\ inbox \in Seq(Replies) /\ Len(calls) \in Nat
      /\ MediaHeld /\ StartHeld /\ FilmHeld /\ CameraHeld
  BY Typed DEF Held
<1>1. \A c : (clean(c)' => clean(c)) /\ (c \in Calls /\ c \notin adrift' \cup spoiled' => clean(c))
  BY DEF clean
<1>2. (clean(media)' => clean(media)) /\ (clean(camera)' => clean(camera))
  BY DEF clean
<1>3. /\ Len(calls') \in Nat /\ Len(calls) <= Len(calls')
      /\ \A k \in 1 .. Len(calls) : k \in 1 .. Len(calls') /\ calls'[k] = calls[k]
      /\ \A k \in 1 .. Len(calls') :
           \/ k \in 1 .. Len(calls) /\ calls'[k] = calls[k]
           \/ k = Len(calls) + 1 /\ calls'[k].kind = "leave"
           \/ \E c \in Calls : k = Len(calls) + 1 /\ calls'[k] = filmOf(c) /\ (clean(c) => ~stale(c)')
  BY <1>0, Longer
<1>4. \A m : queued(calls, m) => queued(calls', m)
  BY <1>3 DEF queued
<1>5. \A m : queued(inbox, m) => queued(inbox', m) \/ (inbox # <<>> /\ inbox' = Tail(inbox) /\ m = Head(inbox))
  <2>1. ASSUME NEW m, NEW k \in 1 .. Len(inbox), inbox[k] = m, inbox' # inbox
        PROVE  queued(inbox', m) \/ m = Head(inbox)
    <3>1. /\ Len(inbox) \in Nat \ {0} /\ Head(inbox) = inbox[1]
          /\ \A j \in 2 .. Len(inbox) : j - 1 \in 1 .. Len(inbox') /\ inbox'[j - 1] = inbox[j]
      BY <1>0, <2>1, Shorter
    <3>2. k = 1 \/ k \in 2 .. Len(inbox)
      BY <3>1
    <3> QED
      BY <2>1, <3>1, <3>2 DEF queued
  <2> QED
    BY <2>1 DEF queued
<1>6. doomed => doomed' \/ ~clean(media)'
  <2>1. ASSUME NEW c \in Calls, c # media, queued(inbox, failureOf(c)) PROVE doomed' \/ ~clean(media)'
    <3>1. CASE queued(inbox', failureOf(c))
      BY <2>1, <3>1 DEF doomed
    <3>2. CASE inbox # <<>> /\ inbox' = Tail(inbox) /\ failureOf(c) = Head(inbox)
      <4>1. inbox' # inbox
        BY <1>0, <3>2, Queue
      <4> QED
        BY <3>2, <4>1
    <3> QED
      BY <1>5, <2>1, <3>1, <3>2
  <2>2. ASSUME NEW c \in Calls, c # media, queued(calls, joinOf(c)) PROVE doomed'
    BY <1>4, <2>2 DEF doomed
  <2>3. ASSUME NEW e \in Ends, queued(calls, leaveOf(e)) PROVE doomed'
    BY <1>4, <2>3 DEF doomed
  <2>4. ending => doomed'
    BY DEF doomed
  <2> QED
    BY <2>1, <2>2, <2>3, <2>4 DEF doomed
<1>7. MediaHeld'
  BY <1>0, <1>2, <1>6 DEF MediaHeld, held, inFront
<1>8. StartHeld'
  <2>1. ASSUME NEW c \in Calls, clean(c)'
        PROVE  /\ op'[c].pc \in Starting => screen'.mounted /\ op'[c].by = cur'
               /\ op'[c].pc = "request" => inFront'
    <3>1. /\ op[c].pc \in Starting => screen.mounted /\ op[c].by = cur
          /\ op[c].pc = "request" => inFront
      BY <1>0, <1>1, <2>1 DEF StartHeld, starting
    <3>2. inFront' => screen'.mounted
      BY DEF inFront
    <3>3. op'[c].pc = "request" => op'[c].pc \in Starting
      BY DEF Starting
    <3> QED
      BY <3>1, <3>2, <3>3
  <2>2. ASSUME NEW c \in Calls, clean(c)', NEW p \in 1 .. Len(calls'), calls'[p] = joinOf(c)
        PROVE  /\ inFront'
               /\ \/ ctl'[cur'].session = c
                  \/ \E q \in p + 1 .. Len(calls'), d \in Calls : d # c /\ calls'[q] = joinOf(d)
    <3>1. p \in 1 .. Len(calls) /\ calls[p] = joinOf(c)
      BY <1>3, <2>2, Messages
    <3>2. /\ inFront
          /\ \/ ctl[cur].session = c
             \/ \E q \in p + 1 .. Len(calls), d \in Calls : d # c /\ calls[q] = joinOf(d)
      BY <1>0, <1>1, <2>2, <3>1 DEF StartHeld
    <3>3. \A q \in p + 1 .. Len(calls) : q \in 1 .. Len(calls) /\ q \in p + 1 .. Len(calls')
      BY <1>0, <1>3, <3>1
    <3>4. inFront => ctl'[cur'].session = ctl[cur].session
      BY DEF inFront
    <3> QED
      BY <1>3, <3>2, <3>3, <3>4
  <2> QED
    BY <2>1, <2>2 DEF StartHeld, starting
<1>9. \A c \in Calls : op'[c].by = op[c].by => (stale(c)' <=> stale(c))
  BY DEF stale
<1>10. FilmHeld'
  <2>1. ASSUME NEW c \in Calls, NEW p \in 1 .. Len(calls'), calls'[p] = filmOf(c), clean(c)', stale(c)'
        PROVE  /\ clean(media)' => doomed'
               /\ \A q \in 1 .. p - 1, d \in Calls : calls'[q] = joinOf(d) => ~clean(d)'
    <3>1. stale(c)
      <4>1. queued(calls', filmOf(c))
        BY <2>1 DEF queued
      <4>2. op'[c].by = op[c].by
        BY <4>1, FilmsKept
      <4> QED
        BY <1>9, <2>1, <4>2
    <3>2. p \in 1 .. Len(calls) /\ calls[p] = filmOf(c)
      <4>1. \A d \in Calls : calls'[p] = filmOf(d) => d = c
        BY <2>1, Names
      <4>2. calls'[p].kind # "leave"
        BY <2>1, Messages
      <4> QED
        BY <1>1, <1>3, <2>1, <4>1, <4>2
    <3>3. /\ clean(media) => doomed
          /\ \A q \in 1 .. p - 1, d \in Calls : calls[q] = joinOf(d) => ~clean(d)
      BY <1>0, <1>1, <2>1, <3>1, <3>2 DEF FilmHeld
    <3>4. \A q \in 1 .. p - 1 : calls'[q] = calls[q]
      BY <1>0, <1>3, <3>2
    <3> QED
      BY <1>1, <1>2, <1>6, <3>3, <3>4
  <2> QED
    BY <2>1 DEF FilmHeld
<1>11. CameraHeld'
  <2>1. ASSUME clean(camera), queued(inbox, filmOf(camera)), ~stale(camera)
        PROVE  screen'.video \/ (queued(inbox', filmOf(camera')) /\ ~stale(camera)')
    <3>1. camera \in Calls
      BY <2>1 DEF clean
    <3>2. CASE queued(inbox', filmOf(camera))
      <4>1. op'[camera].by = op[camera].by
        BY <3>1, <3>2, FilmsKept
      <4> QED
        BY <2>1, <3>2, <4>1 DEF stale
    <3>3. CASE inbox # <<>> /\ inbox' = Tail(inbox) /\ filmOf(camera) = Head(inbox)
      <4>1. inbox' # inbox
        BY <1>0, <3>3, Queue
      <4> QED
        BY <2>1, <3>1, <3>3, <4>1
    <3> QED
      BY <1>5, <2>1, <3>2, <3>3
  <2> QED
    BY <1>0, <1>2, <1>6, <2>1 DEF CameraHeld
<1> QED
  BY <1>7, <1>8, <1>10, <1>11 DEF Held

\* JavaScript gives up what the screen had in hand: what is left below it is doomed.
LEMMA Abandoned ==
  ASSUME IInv, Held, UNCHANGED <<media, camera, calls>>, ScreenTrue', clean(media)' => doomed',
         \A c \in Calls : clean(c)' => ~queued(calls, joinOf(c)),
         \A c \in Calls : clean(c)' /\ op'[c].pc \in Starting =>
           screen'.mounted /\ op'[c].by = cur' /\ (op'[c].pc = "request" => inFront')
  PROVE  Held'
<1>1. MediaHeld'
  BY DEF MediaHeld
<1>2. \A c \in Calls, p \in 1 .. Len(calls) : calls[p] = joinOf(c) => ~clean(c)'
  BY DEF queued
<1>3. StartHeld'
  <2>1. \A c \in Calls : op'[c].pc = "request" => op'[c].pc \in Starting
    BY DEF Starting
  <2> QED
    BY <1>2, <2>1 DEF StartHeld, starting
<1>4. FilmHeld'
  <2>1. calls \in Seq(NativeCalls) /\ Len(calls) \in Nat
    BY Typed
  <2>2. \A p \in 1 .. Len(calls), q \in Nat : q \in 1 .. p - 1 => q \in 1 .. Len(calls)
    BY <2>1
  <2> QED
    BY <1>2, <2>2 DEF FilmHeld
<1>5. CameraHeld'
  BY DEF CameraHeld, Held
<1> QED
  BY <1>1, <1>3, <1>4, <1>5 DEF Held

\* A controller's call is over.  A call that is told to be over is not about to
\* start, and its media is gone or going.
LEMMA OverHeld ==
  ASSUME IInv, OnTheWay, OnTheWay', Held, NEW i \in Controllers, NEW s \in isTerminal, NEW by,
         setState(i, s, by), UNCHANGED <<cur, adrift, media, ending, camera, calls>>,
         \A j \in Controllers : /\ ctl'[j].state = IF j = i THEN s ELSE ctl[j].state
                                /\ j # i => ctl'[j].session = ctl[j].session,
         \A d \in Calls : op'[d].pc \in Starting \cup {"video"} => op'[d] = op[d],
         inbox' = inbox \/
           /\ inbox # <<>> /\ inbox' = Tail(inbox) /\ Head(inbox).kind # "video"
           /\ Head(inbox).kind = "joinFailed" => by = NoSession,
         by \in Calls => /\ op[by].pc # "request" /\ ~queued(calls, joinOf(by))
                         /\ by = media => ending
  PROVE  Held'
<1>0. /\ spoiled \subseteq Calls /\ media \in SessionOrNone /\ JsTyped /\ NoSession \notin Calls
      /\ Matched /\ StartHeld /\ ScreenTrue /\ Sessions = Calls
      /\ (screen.mounted => cur \in Controllers)
  BY Typed DEF IInv, JsInv, OnTheWay, Held
<1>1. s \in CallState /\ s \notin isActive
  BY DEF CallState, isActive, isTerminal
<1>2. /\ spoiled \subseteq spoiled'
      /\ \A c \in inHand(i) : c # by => c \in spoiled'
      /\ media \in Calls /\ media # by => media \in spoiled'
  <2>1. media \in Calls /\ media # by => media \in spoiled'
    BY <1>0, <1>1 DEF setState
  <2> QED
    BY <1>0, <1>1, <2>1, SetStateFacts
<1>3. /\ ScreenTrue' /\ screen'.mounted = screen.mounted /\ screen'.since = screen.since
      /\ i # cur \/ ~screen.mounted => screen' = screen
  BY <1>0, <1>1, ScreenFollows
<1>4. CASE i # cur \/ ~screen.mounted
  <2>1. inFront => inFront'
    BY <1>0, <1>3, <1>4 DEF inFront
  <2>2. screen.mounted => ctl'[cur].session = ctl[cur].session
    BY <1>0, <1>4
  <2>3. inbox' = inbox \/
           /\ inbox # <<>> /\ inbox' = Tail(inbox)
           /\ \A c \in Calls : Head(inbox) = failureOf(c) => ~clean(media)'
           /\ \A c \in Calls : Head(inbox) = filmOf(c) => screen'.video \/ stale(c)
    <3>1. \A c \in Calls : failureOf(c).kind = "joinFailed" /\ filmOf(c).kind = "video"
      BY Messages
    <3>2. by = NoSession => ~clean(media)'
      BY <1>0, <1>2 DEF clean
    <3> QED
      BY <3>1, <3>2
  <2> HIDE DEF stale
  <2> QED
    BY <1>2, <1>3, <1>4, <2>1, <2>2, <2>3, FrontHeld
<1>5. CASE i = cur /\ screen.mounted
  <2>1. ASSUME NEW c \in Calls, clean(c)'
        PROVE  clean(c) /\ (c \in inHand(cur) => c = by)
    BY <1>2, <1>5, <2>1 DEF clean
  <2>2. ASSUME NEW c \in Calls, clean(c)', op[c].pc \in Starting PROVE c = by /\ op[c].by = cur
    <3>1. op[c].by = cur
      BY <1>0, <2>1, <2>2 DEF StartHeld, starting
    <3>2. c \in inHand(cur)
      BY <2>2, <3>1 DEF inHand, starting
    <3> QED
      BY <2>1, <2>2, <3>1, <3>2
  <2>3. ASSUME NEW c \in Calls, clean(c)' PROVE ~queued(calls, joinOf(c))
    <3>1. SUFFICES ASSUME queued(calls, joinOf(c)) PROVE FALSE
      OBVIOUS
    <3>2. op[c].pc = "join"
      BY <1>0, <3>1, Messages DEF queued, Matched, pending
    <3>3. c = by
      BY <2>2, <2>3, <3>2 DEF Starting
    <3> QED
      BY <3>1, <3>3
  <2>4. ASSUME NEW c \in Calls, clean(c)', op'[c].pc \in Starting
        PROVE  screen'.mounted /\ op'[c].by = cur' /\ (op'[c].pc = "request" => inFront')
    <3>1. op'[c] = op[c]
      BY <2>4
    <3>2. c = by /\ op[c].by = cur
      BY <2>2, <2>4, <3>1
    <3> QED
      BY <1>3, <1>5, <3>1, <3>2
  <2>5. clean(media)' => doomed'
    BY <1>2 DEF clean, doomed
  <2> QED
    BY <1>3, <2>3, <2>4, <2>5, Abandoned
<1> QED
  BY <1>4, <1>5

\* A call gets its session and goes to the native side, behind those that went before.
LEMMA ReceivedHeld ==
  ASSUME IInv, OnTheWay, Held, NEW c \in Calls, Received(c)
  PROVE  Held'
<1> DEFINE i == op[c].by
<1>0. /\ calls \in Seq(NativeCalls) /\ Len(calls) \in Nat /\ i \in Controllers
      /\ MediaHeld /\ StartHeld /\ FilmHeld /\ CameraHeld /\ ScreenTrue
      /\ ctl \in [Controllers -> CtlRecords] /\ op \in [Calls -> OpRecords]
      /\ (screen.mounted => cur \in Controllers) /\ FreshInNative
  BY Typed DEF Held, IInv, NativeInv
<1>1. /\ op[c].pc = "request" /\ calls' = Append(calls, joinOf(c))
      /\ UNCHANGED <<cur, adrift, inbox, native>>
  BY DEF Received, joinOf
<1>2. \A d \in Calls : /\ op'[d].by = op[d].by
                       /\ op'[d].pc = IF d = c THEN "join" ELSE op[d].pc
  BY <1>0 DEF Received, OpRecords
<1>3. /\ \A j \in Controllers : /\ ctl'[j].session = IF j = i THEN c ELSE ctl[j].session
                                /\ ctl'[j].state = IF j = i /\ op[c].kind # "incoming"
                                                   THEN "ringing" ELSE ctl[j].state
      /\ op[c].kind = "incoming" => UNCHANGED <<screen, spoiled>>
      /\ op[c].kind # "incoming" => setState(i, "ringing", c)
  <2>1. CASE op[c].kind = "incoming"
    <3>1. ctl' = [ctl EXCEPT ![i].session = c] /\ UNCHANGED <<screen, spoiled>>
      BY <2>1 DEF Received
    <3> QED
      BY <1>0, <2>1, <3>1 DEF CtlRecords
  <2>2. CASE op[c].kind # "incoming"
    <3>1. ctl' = [ctl EXCEPT ![i].session = c, ![i].state = "ringing"] /\ setState(i, "ringing", c)
      BY <2>2 DEF Received
    <3> QED
      BY <1>0, <2>2, <3>1 DEF CtlRecords
  <2> QED
    BY <2>1, <2>2
<1>4. "ringing" \in isActive /\ "ringing" \in CallState
  BY DEF isActive, CallState
<1>5. /\ ScreenTrue' /\ screen'.mounted = screen.mounted /\ screen'.since = screen.since
      /\ spoiled' = spoiled
  <2>1. CASE op[c].kind = "incoming"
    BY <1>0, <1>1, <1>3, <2>1 DEF ScreenTrue
  <2>2. CASE op[c].kind # "incoming"
    <3>1. setState(i, "ringing", c) /\ \A j \in Controllers :
            ctl'[j].state = IF j = i THEN "ringing" ELSE ctl[j].state
      BY <1>3, <2>2
    <3>2. spoiled' = spoiled
      BY <1>4, <3>1 DEF setState
    <3> HIDE DEF i
    <3> QED
      BY <1>0, <1>1, <1>4, <3>1, <3>2, ScreenFollows
  <2> QED
    BY <2>1, <2>2
<1> HIDE DEF i
<1>6. /\ \A d : clean(d)' => clean(d)
      /\ inFront => inFront'
  BY <1>0, <1>1, <1>3, <1>4, <1>5 DEF clean, inFront
<1>7. /\ \A k \in 1 .. Len(calls') : \/ k \in 1 .. Len(calls) /\ calls'[k] = calls[k]
                                     \/ k = Len(calls) + 1 /\ calls'[k] = joinOf(c)
      /\ Len(calls) + 1 \in 1 .. Len(calls') /\ calls'[Len(calls) + 1] = joinOf(c)
      /\ \A k \in 1 .. Len(calls) : k \in 1 .. Len(calls') /\ calls'[k] = calls[k]
      /\ Len(calls') = Len(calls) + 1
  BY <1>0, <1>1, Longer, Messages
<1>8. fresh(c) /\ media # c /\ media' = media /\ camera' = camera
  BY <1>0, <1>1 DEF fresh, FreshInNative, native
<1>9. doomed'
  BY <1>7, <1>8 DEF doomed, queued
<1>10. StartHeld'
  <2>1. ASSUME NEW d \in Calls, clean(d)'
        PROVE  /\ op'[d].pc \in Starting => screen'.mounted /\ op'[d].by = cur'
               /\ op'[d].pc = "request" => inFront'
    <3>1. op'[d].pc \in Starting => op[d].pc \in Starting
      BY <1>1, <1>2 DEF Starting
    <3>2. op'[d].pc = "request" => op[d].pc = "request"
      BY <1>2
    <3>3. clean(d)
      BY <1>6, <2>1
    <3> QED
      BY <1>0, <1>1, <1>2, <1>5, <1>6, <3>1, <3>2, <3>3 DEF StartHeld, starting
  <2>2. ASSUME NEW d \in Calls, clean(d)', NEW p \in 1 .. Len(calls'), calls'[p] = joinOf(d)
        PROVE  /\ inFront'
               /\ \/ ctl'[cur'].session = d
                  \/ \E q \in p + 1 .. Len(calls'), x \in Calls : x # d /\ calls'[q] = joinOf(x)
    <3>1. CASE p \in 1 .. Len(calls) /\ calls'[p] = calls[p]
      <4>1. inFront'
        BY <1>0, <1>6, <2>2, <3>1 DEF StartHeld
      <4>2. d # c
        <5>1. calls[p].kind = "join" /\ calls[p].of = d
          BY <2>2, <3>1, Names
        <5> QED
          BY <1>0, <1>8, <3>1, <5>1 DEF FreshInNative
      <4>3. Len(calls) + 1 \in p + 1 .. Len(calls')
        BY <1>0, <1>7, <3>1
      <4> QED
        BY <1>7, <4>1, <4>2, <4>3
    <3>2. CASE calls'[p] = joinOf(c)
      <4>1. d = c
        BY <2>2, <3>2, Names
      <4>2. inFront /\ op[c].by = cur
        <5>1. clean(c) /\ c \in starting
          BY <1>1, <1>6, <2>2, <4>1 DEF starting, Starting
        <5> QED
          BY <1>0, <1>1, <5>1 DEF StartHeld
      <4>3. cur \in Controllers
        BY <1>0, <4>2 DEF inFront
      <4> QED
        BY <1>1, <1>3, <1>6, <4>1, <4>2, <4>3 DEF i
    <3> QED
      BY <1>7, <3>1, <3>2
  <2> QED
    BY <2>1, <2>2 DEF StartHeld, starting
<1>11. FilmHeld'
  <2>1. ASSUME NEW d \in Calls, NEW p \in 1 .. Len(calls'), calls'[p] = filmOf(d), clean(d)', stale(d)'
        PROVE  \A q \in 1 .. p - 1, x \in Calls : calls'[q] = joinOf(x) => ~clean(x)'
    <3>1. p \in 1 .. Len(calls) /\ calls[p] = filmOf(d)
      BY <1>7, <2>1, Messages
    <3>2. stale(d)
      BY <1>2, <1>5, <2>1 DEF stale
    <3>3. \A q \in 1 .. p - 1 : q \in 1 .. Len(calls) /\ calls'[q] = calls[q]
      BY <1>0, <1>7, <3>1
    <3> QED
      BY <1>0, <1>6, <2>1, <3>1, <3>2, <3>3 DEF FilmHeld
  <2> QED
    BY <1>9, <2>1 DEF FilmHeld
<1> QED
  BY <1>0, <1>5, <1>8, <1>9, <1>10, <1>11 DEF Held, MediaHeld, CameraHeld
\* The host presents, changes and dismisses the screen.
LEMMA HostHeld ==
  ASSUME IInv, OnTheWay, Held, Host
  PROVE  Held'
<1>0. /\ Unmade /\ MediaHeld /\ StartHeld /\ ScreenTrue /\ Matched /\ cur \in 0 .. MaxControllers
      /\ op \in [Calls -> OpRecords] /\ NoSession \notin Calls /\ Sessions = Calls
      /\ ctl \in [Controllers -> CtlRecords]
  BY Typed DEF IInv, JsInv, OnTheWay, Held
<1>1. /\ UNCHANGED <<media, camera, calls, inbox, ending>>
      /\ cur < MaxControllers /\ cur' = cur + 1 => cur + 1 \in Controllers
  <2>1. native_unchanged
    BY DEF Host, Present, Reconfigure, Dismiss
  <2> QED
    BY <1>0, <2>1, RnAssumption DEF native_unchanged, native, Controllers
<1>2. doomed' <=> doomed
  BY <1>1 DEF doomed
<1>3. \A c \in Calls : queued(calls, joinOf(c)) => op[c].pc = "join" /\ op[c].pc \in Starting
  BY <1>0, Messages DEF queued, Matched, pending, Starting
<1>4. CASE Present
  <2>1. /\ ~screen.mounted /\ cur' = cur + 1 /\ cur + 1 \in Controllers
        /\ spoiled' = spoiled /\ adrift' = adrift
    BY <1>1, <1>4 DEF Present
  <2>2. ScreenTrue'
    <3>1. screen'.since = cur + 1 /\ screen'.state \in {"idle", "connecting"}
      BY <1>4 DEF Present
    <3>2. screen'.state = "idle" => ctl' = ctl
      BY <1>4 DEF Present
    <3>3. ctl[cur + 1].state \notin isActive
      BY <1>0, <2>1 DEF Unmade
    <3>4. "connecting" \in isActive
      BY DEF isActive
    <3> QED
      BY <1>0, <2>1, <3>1, <3>2, <3>3, <3>4 DEF ScreenTrue
  <2>3. \A c \in Calls : clean(c)' => clean(c) /\ op[c].pc \notin Starting
    BY <1>0, <2>1 DEF StartHeld, starting, clean
  <2>4. clean(media)' => doomed'
    BY <1>0, <1>1, <1>2, <2>1 DEF MediaHeld, held, inFront, clean
  <2>5. ASSUME NEW c \in Calls, clean(c)', op'[c].pc \in Starting
        PROVE  screen'.mounted /\ op'[c].by = cur' /\ (op'[c].pc = "request" => inFront')
    <3>1. PICK d \in Calls, type \in soleType :
            /\ op' = newCall(d, cur + 1, type) /\ screen'.mounted
            /\ ctl' = [ctl EXCEPT ![cur + 1].state = "connecting"]
      BY <1>4, <2>3, <2>5 DEF Present
    <3>2. c = d /\ op'[c].by = cur + 1
      BY <1>0, <2>3, <2>5, <3>1 DEF newCall
    <3>3. ctl'[cur + 1].state \in isActive
      BY <1>0, <2>1, <3>1 DEF isActive, CtlRecords
    <3> QED
      BY <2>1, <3>1, <3>2, <3>3 DEF inFront
  <2>6. \A c \in Calls : clean(c)' => ~queued(calls, joinOf(c))
    BY <1>3, <2>3
  <2> QED
    BY <1>1, <2>2, <2>4, <2>5, <2>6, Abandoned
<1>5. ASSUME dispose(cur), screen.mounted, UNCHANGED <<op, ctl, spoiled>>, ScreenTrue' PROVE Held'
  <2>1. \A c : clean(c)' => c \in Calls /\ clean(c) /\ c \notin inHand(cur)
    BY <1>5 DEF dispose, clean
  <2>2. \A c \in Calls : clean(c)' => op[c].pc \notin Starting
    BY <1>0, <2>1 DEF StartHeld, starting, inHand
  <2>3. clean(media)' => doomed'
    <3>1. SUFFICES ASSUME clean(media)', held(media) PROVE FALSE
      BY <1>0, <1>1, <1>2, <2>1 DEF MediaHeld, clean
    <3>2. media \in Calls /\ media \notin inHand(cur)
      BY <1>1, <2>1, <3>1 DEF clean
    <3> QED
      BY <1>0, <3>1, <3>2 DEF held, inHand
  <2>4. \A c \in Calls : clean(c)' => ~queued(calls, joinOf(c))
    BY <1>3, <2>2
  <2>5. op' = op
    BY <1>5
  <2> QED
    BY <1>1, <1>5, <2>2, <2>3, <2>4, <2>5, Abandoned
<1>6. CASE Reconfigure
  <2>1. ScreenTrue'
    <3>1. /\ screen' = screen /\ ctl' = ctl /\ cur' = cur + 1 /\ screen.mounted
          /\ cur + 1 \in Controllers
      BY <1>1, <1>6 DEF Reconfigure
    <3>2. ctl[cur + 1].state \notin isActive
      BY <1>0, <3>1 DEF Unmade
    <3>3. screen \in Screens
      BY Typed
    <3> QED
      BY <1>0, <3>1, <3>2, <3>3 DEF ScreenTrue, Screens
  <2> QED
    BY <1>5, <1>6, <2>1 DEF Reconfigure
<1>7. CASE Dismiss
  <2>1. ScreenTrue'
    BY <1>7 DEF Dismiss, ScreenTrue
  <2> QED
    BY <1>5, <1>7, <2>1 DEF Dismiss
<1> QED
  BY <1>4, <1>6, <1>7 DEF Host

\* A call starts, or the controller of the screen goes on with its call.
LEMMA BeginHeld ==
  ASSUME IInv, OnTheWay', Held, NEW c \in Calls,
         (\E type \in CallTypes : startCall(c, type)) \/ answerIncomingCall(c)
  PROVE  Held'
<1>1. PICK kind : op' = newCall(c, cur, kind)
  BY DEF startCall, answerIncomingCall
<1>2. /\ screen.mounted /\ ctl' = [ctl EXCEPT ![cur].state = "connecting"]
      /\ setState(cur, "connecting", c) /\ native_unchanged /\ UNCHANGED <<cur, adrift>>
  BY DEF startCall, answerIncomingCall
<1>3. /\ cur \in Controllers /\ ctl \in [Controllers -> CtlRecords] /\ op \in [Calls -> OpRecords]
      /\ ScreenTrue
  BY <1>2, Typed DEF Held
<1>4. /\ op'[c].pc = "request" /\ op'[c].by = cur
      /\ \A d \in Calls : d # c => op'[d] = op[d]
  BY <1>1, <1>3 DEF newCall
<1>5. "connecting" \in isActive /\ "connecting" \in CallState
  BY DEF isActive, CallState
<1>6. \A j \in Controllers : /\ ctl'[j].session = ctl[j].session
                             /\ ctl'[j].state = IF j = cur THEN "connecting" ELSE ctl[j].state
  BY <1>2, <1>3, <1>5, StateFacts
<1>7. /\ ScreenTrue' /\ screen'.mounted = screen.mounted /\ screen'.since = screen.since
      /\ screen'.video = screen.video /\ spoiled' = spoiled
  <2>1. spoiled' = spoiled
    BY <1>2, <1>5 DEF setState
  <2>2. setState(cur, "connecting", c) /\ cur' = cur /\ cur \in Controllers /\ ScreenTrue
    BY <1>2, <1>3
  <2>3. \A j \in Controllers : ctl'[j].state = IF j = cur THEN "connecting" ELSE ctl[j].state
    BY <1>6
  <2>4. /\ ScreenTrue' /\ screen'.mounted = screen.mounted /\ screen'.since = screen.since
        /\ "connecting" \in isActive => screen'.video = screen.video
    BY <1>5, <2>2, <2>3, ScreenFollows
  <2> QED
    BY <1>5, <2>1, <2>4
<1>8. inFront' /\ ctl'[cur].session = ctl[cur].session
  BY <1>2, <1>3, <1>5, <1>6, <1>7 DEF inFront
<1> QED
  BY <1>2, <1>3, <1>4, <1>7, <1>8, FrontHeld DEF native_unchanged, native

\* JavaScript goes on; the controllers, the screen and the queues stay as they are.
LEMMA AwaitHeld ==
  ASSUME IInv, OnTheWay', Held, NEW c \in Calls, UNCHANGED <<cur, screen, spoiled, adrift>>,
         native_unchanged, NEW n, op' = [op EXCEPT ![c] = n],
         n.pc \in Starting => n.pc = op[c].pc /\ n.by = op[c].by, n.pc # "video",
         \A i \in Controllers : ctl'[i].state = ctl[i].state /\ ctl'[i].session = ctl[i].session
  PROVE  Held'
<1>1. ScreenTrue /\ (screen.mounted => cur \in Controllers) /\ op \in [Calls -> OpRecords]
  BY Typed DEF Held
<1>2. ScreenTrue' /\ inFront' = inFront /\ (screen.mounted => ctl'[cur].session = ctl[cur].session)
  BY <1>1 DEF ScreenTrue, inFront
<1>3. op'[c] = n /\ \A d \in Calls : d # c => op'[d] = op[d]
  BY <1>1
<1> QED
  BY <1>2, <1>3, FrontHeld DEF native_unchanged, native

\* A call fails.
LEMMA FailHeld ==
  ASSUME IInv, OnTheWay, OnTheWay', Held, NEW c \in Calls, NEW pc, pc \notin Starting \cup {"video"},
         fail(c, pc), UNCHANGED <<cur, adrift, media, ending, camera, calls>>,
         inbox' = inbox \/
           (inbox # <<>> /\ inbox' = Tail(inbox) /\ Head(inbox).kind = "joinFailed")
  PROVE  Held'
<1>1. /\ ctl \in [Controllers -> CtlRecords] /\ op \in [Calls -> OpRecords]
      /\ op[c].by \in Controllers /\ NoSession \notin Calls
  BY Typed
<1>2. op'[c].pc = pc /\ \A d \in Calls : d # c => op'[d] = op[d]
  BY <1>1 DEF fail, returned
<1>3. "failed" \in isTerminal /\ "failed" \in CallState
  BY DEF isTerminal, CallState
<1>4. \A j \in Controllers : /\ ctl'[j].session = ctl[j].session
                             /\ ctl'[j].state = IF j = op[c].by THEN "failed" ELSE ctl[j].state
  BY <1>1, <1>3, StateFacts DEF fail
<1>5. setState(op[c].by, "failed", NoSession)
  BY DEF fail
<1> QED
  BY <1>1, <1>2, <1>3, <1>4, <1>5, OverHeld
\* The steps of a call between its awaits.
LEMMA CallHeld ==
  ASSUME IInv, OnTheWay, OnTheWay', Held, NEW c \in Calls, CallStep(c)
  PROVE  Held'
<1>1. ASSUME fail(c, "threw"), native_unchanged, UNCHANGED <<cur, adrift>> PROVE Held'
  BY <1>1, FailHeld DEF native_unchanged, native, Starting
<1>2. CASE PermissionDenied(c)
  BY <1>1, <1>2 DEF PermissionDenied
<1>3. CASE Refused(c)
  BY <1>1, <1>3 DEF Refused
<1>4. CASE PermissionThrows(c)
  <2>1. returned("threwEarly").pc = "threwEarly"
    BY DEF returned
  <2>2. /\ op' = [op EXCEPT ![c] = returned("threwEarly")] /\ native_unchanged
        /\ UNCHANGED <<ctl, cur, screen, spoiled, adrift>>
    BY <1>4 DEF PermissionThrows
  <2> QED
    BY <2>1, <2>2, AwaitHeld DEF Starting
<1>5. CASE AttemptFails(c)
  <2>1. CASE attemptsLeft(c)
    <3> DEFINE n == [op[c] EXCEPT !.attempt = @ + 1]
    <3>1. /\ op' = [op EXCEPT ![c] = n] /\ op[c].pc = "request" /\ native_unchanged
          /\ UNCHANGED <<ctl, cur, screen, spoiled, adrift>>
      BY <1>5, <2>1 DEF AttemptFails
    <3>2. n.pc = op[c].pc /\ n.by = op[c].by
      BY Typed DEF OpRecords
    <3> HIDE DEF n
    <3> QED
      BY <3>1, <3>2, AwaitHeld
  <2>2. CASE ~attemptsLeft(c)
    BY <1>1, <1>5, <2>2 DEF AttemptFails
  <2> QED
    BY <2>1, <2>2
<1>6. CASE Received(c)
  BY <1>6, ReceivedHeld
<1> QED
  BY <1>2, <1>3, <1>4, <1>5, <1>6 DEF CallStep

\* The user hangs up, which is not yet the end; digits concern nobody else.
LEMMA EndCallHeld ==
  ASSUME IInv, OnTheWay', Held, NEW e \in Ends, endCall(e)
  PROVE  Held'
<1>1. /\ calls' = Append(calls, leaveOf(e))
      /\ UNCHANGED <<ctl, cur, screen, op, spoiled, adrift, inbox, native>>
  BY DEF endCall, leaveOf
<1>2. ScreenTrue' /\ inFront' = inFront
  BY <1>1 DEF Held, ScreenTrue, inFront
<1>3. leaveOf(e) \in NativeCalls /\ leaveOf(e).kind = "leave"
  BY Messages
<1> QED
  BY <1>1, <1>2, <1>3, FrontHeld DEF native

LEMMA ToneHeld ==
  ASSUME IInv, OnTheWay', Held, NEW t \in Tones, sendDtmf(t) \/ ToneStep(t)
  PROVE  Held'
<1>1. UNCHANGED <<cur, screen, op, spoiled, adrift>> /\ native_unchanged
  BY DEF sendDtmf, ToneStep, Connected, ConnectFails, DigitsTaken, DigitsFail
<1>2. \A i \in Controllers : ctl'[i].state = ctl[i].state /\ ctl'[i].session = ctl[i].session
  <2>1. CASE ctl' = ctl
    BY <2>1
  <2>2. CASE Connected(t)
    <3>1. ctl \in [Controllers -> CtlRecords]
      BY Typed
    <3> QED
      BY <2>2, <3>1 DEF Connected, CtlRecords
  <2> QED
    BY <2>1, <2>2 DEF sendDtmf, ToneStep, ConnectFails, DigitsTaken, DigitsFail
<1>3. ScreenTrue' /\ inFront' = inFront /\ (screen.mounted => ctl'[cur].session = ctl[cur].session)
  <2>1. ScreenTrue /\ (screen.mounted => cur \in Controllers)
    BY Typed DEF Held
  <2> QED
    BY <1>1, <1>2, <2>1 DEF ScreenTrue, inFront
<1> QED
  BY <1>1, <1>3, FrontHeld DEF native_unchanged, native

\* JavaScript takes a reply or an event.
LEMMA ReceiveHeld ==
  ASSUME IInv, OnTheWay, OnTheWay', Held, Receive
  PROVE  Held'
<1>0. /\ inbox \in Seq(Replies) /\ posted \in Seq(Events) /\ calls \in Seq(NativeCalls)
      /\ ctl \in [Controllers -> CtlRecords] /\ op \in [Calls -> OpRecords]
      /\ hang \in [Ends -> HangRecords] /\ screen \in Screens /\ Sessions = Calls
      /\ NoSession \notin Calls /\ (screen.mounted => cur \in Controllers)
      /\ media \in SessionOrNone
      /\ Matched /\ Unjoined /\ EndsHonestly /\ HangUpEnds
      /\ FreshInJs /\ FreshInNative /\ ScreenTrue /\ StartHeld
  BY Typed DEF OnTheWay, IInv, JsInv, NativeInv, Held
<1>1. ASSUME inbox # <<>>
      PROVE  /\ Head(inbox) \in Replies /\ asked(Head(inbox)) \in pending
             /\ asked(Head(inbox)) \in NativeCalls
             /\ ~queued(calls, asked(Head(inbox)))
  <2>1. Head(inbox) = inbox[1] /\ 1 \in 1 .. Len(inbox) /\ Head(inbox) \in Replies
    BY <1>0, <1>1, Shorter
  <2> QED
    BY <1>0, <2>1, Messages DEF Matched, queued
<1>2. CASE JoinReturns
  <2>0. PICK c \in Calls : c = Head(inbox).of
    BY <1>1, <1>2, Messages DEF JoinReturns
  <2> DEFINE films == op[c].kind = "video"
  <2>1. /\ inbox # <<>> /\ inbox' = Tail(inbox) /\ Head(inbox).kind = "join"
        /\ UNCHANGED <<ctl, cur, screen, spoiled, adrift, native>>
        /\ op' = [op EXCEPT ![c] = IF films THEN [@ EXCEPT !.pc = "video"] ELSE returned("done")]
        /\ calls' = IF films THEN Append(calls, filmOf(c)) ELSE calls
    BY <1>2, <2>0 DEF JoinReturns, filmOf
  <2>2. op[c].pc = "join"
    BY <1>1, <2>0, <2>1, Messages DEF pending
  <2>3. /\ op'[c].pc \in {"video", "done"} /\ (films => op'[c].by = op[c].by)
        /\ op'[c].pc = "video" => films
        /\ \A d \in Calls : d # c => op'[d] = op[d]
    BY <1>0, <2>1, <2>2 DEF OpRecords, returned
  <2> HIDE DEF films
  <2>4. ScreenTrue' /\ inFront' = inFront
    BY <1>0, <2>1 DEF ScreenTrue, inFront
  <2>5. films /\ clean(c) => ~stale(c)'
    <3>1. clean(c) => screen.mounted /\ op[c].by = cur
      BY <1>0, <2>2 DEF StartHeld, starting, Starting
    <3>2. films /\ clean(c) => screen.mounted /\ op'[c].by = cur /\ screen.since <= cur
      BY <1>0, <2>3, <3>1 DEF ScreenTrue
    <3>3. screen.since \in Nat /\ cur \in Nat /\ screen' = screen
      BY <1>0, <2>1, RnAssumption, Typed DEF Screens
    <3> QED
      BY <3>2, <3>3 DEF stale
  <2>6. filmOf(c) \in NativeCalls
    BY Messages
  <2>7. calls' = calls \/ \E m \in NativeCalls :
          /\ calls' = Append(calls, m)
          /\ m.kind = "leave" \/ \E d \in Calls : m = filmOf(d) /\ (clean(d) => ~stale(d)')
    BY <2>1, <2>5, <2>6
  <2>8. \A d \in Calls : Head(inbox) # failureOf(d) /\ Head(inbox) # filmOf(d)
    BY <2>1, Messages
  <2> HIDE DEF stale
  <2> QED
    BY <2>1, <2>3, <2>4, <2>7, <2>8, FrontHeld DEF native, Starting
<1>3. CASE JoinThrows
  <2> DEFINE c == Head(inbox).of
  <2>1. c \in Calls
    BY <1>1, <1>3, Messages DEF JoinThrows
  <2>2. /\ inbox # <<>> /\ inbox' = Tail(inbox) /\ Head(inbox).kind = "joinFailed"
        /\ fail(c, "threw") /\ UNCHANGED <<cur, adrift, media, ending, camera, calls>>
    BY <1>3 DEF JoinThrows, native
  <2> HIDE DEF c
  <2> QED
    BY <2>1, <2>2, FailHeld DEF Starting
<1>4. CASE VideoReturns
  <2> DEFINE c == Head(inbox).of
  <2>1. /\ inbox # <<>> /\ inbox' = Tail(inbox) /\ Head(inbox).kind = "video"
        /\ UNCHANGED <<ctl, cur, spoiled, adrift, calls, native>>
        /\ op' = [op EXCEPT ![c] = returned("done")]
        /\ screen' = [screen EXCEPT !.video = @ \/ (screen.mounted /\ op[c].by >= screen.since)]
    BY <1>4 DEF VideoReturns
  <2>2. c \in Calls /\ Head(inbox) = filmOf(c)
    BY <1>1, <2>1, Messages
  <2> HIDE DEF c
  <2>3. op'[c].pc = "done" /\ \A d \in Calls : d # c => op'[d] = op[d]
    BY <1>0, <2>1, <2>2 DEF returned
  <2>4. /\ screen'.mounted = screen.mounted /\ screen'.since = screen.since
        /\ screen'.state = screen.state
        /\ screen'.video = (screen.video \/ ~stale(c))
    BY <1>0, <2>1 DEF Screens, stale
  <2>5. ScreenTrue' /\ inFront' = inFront
    BY <1>0, <2>1, <2>4 DEF ScreenTrue, inFront
  <2>6. \A d \in Calls : /\ Head(inbox) # failureOf(d)
                         /\ Head(inbox) = filmOf(d) => screen'.video \/ stale(d)
    <3>1. \A d \in Calls : Head(inbox) # failureOf(d)
      BY <2>1, Messages
    <3>2. \A d \in Calls : Head(inbox) = filmOf(d) => d = c
      BY <2>2, Names
    <3> HIDE DEF stale
    <3> QED
      BY <2>4, <3>1, <3>2
  <2> HIDE DEF stale
  <2>7. \A d \in Calls : op'[d].pc \in Starting \cup {"video"} => op'[d] = op[d]
    BY <2>3 DEF Starting
  <2> QED
    BY <2>1, <2>4, <2>5, <2>6, <2>7, FrontHeld DEF native
<1>5. CASE LeaveReturns
  <2> DEFINE e == Head(inbox).of
             i == hang[e].by
             s == hang[e].session
  <2>1. /\ inbox # <<>> /\ inbox' = Tail(inbox) /\ Head(inbox).kind = "leave"
        /\ ctl' = over(i, "disconnected") /\ setState(i, "disconnected", s)
        /\ UNCHANGED <<cur, op, adrift, calls, native>>
    BY <1>5 DEF LeaveReturns
  <2>2. /\ e \in Ends /\ hang[e].pc = "leaving" /\ ~queued(calls, leaveOf(e))
        /\ i \in Controllers
    <3>1. e \in Ends /\ asked(Head(inbox)) = leaveOf(e)
      BY <1>1, <2>1, Messages
    <3> QED
      BY <1>0, <1>1, <2>1, <3>1, Messages DEF pending, HangRecords
  <2>3. ASSUME s \in Calls
        PROVE  /\ op[s].pc # "request" /\ ~queued(calls, joinOf(s))
               /\ s = media => ending
    <3>1. op[s].pc # "request"
      BY <1>0, <2>2, <2>3 DEF FreshInJs, fresh
    <3>2. ~queued(calls, joinOf(s))
      <4>1. \A p \in 1 .. Len(calls) : calls[p] = joinOf(s) =>
              \E q \in p + 1 .. Len(calls) : calls[q] = leaveOf(e)
        BY <1>0, <2>2 DEF HangUpEnds
      <4>2. \A p \in 1 .. Len(calls) : \A q \in p + 1 .. Len(calls) : q \in 1 .. Len(calls)
        BY <1>0
      <4> QED
        BY <2>2, <4>1, <4>2 DEF queued
    <3>3. s = media => ending
      BY <1>0, <2>2, <2>3 DEF HangUpEnds
    <3> QED
      BY <3>1, <3>2, <3>3
  <2>4. \A j \in Controllers : /\ ctl'[j].state = IF j = i THEN "disconnected" ELSE ctl[j].state
                               /\ j # i => ctl'[j].session = ctl[j].session
    BY <1>0, <2>1, <2>2 DEF over, CtlRecords
  <2> HIDE DEF e, i, s
  <2>5. "disconnected" \in isTerminal
    BY DEF isTerminal
  <2> QED
    BY <2>1, <2>2, <2>3, <2>4, <2>5, OverHeld DEF native
<1>6. CASE onNativeEvent
  <2> DEFINE s == Head(posted).of
             a == Head(posted).about
  <2>1. posted # <<>> /\ UNCHANGED <<cur, op, adrift, calls, inbox, native>>
    BY <1>6 DEF onNativeEvent
  <2>2. /\ Head(posted) \in Events /\ Head(posted) = posted[1] /\ 1 \in 1 .. Len(posted)
    BY <1>0, <2>1, Shorter
  <2>3. CASE ~screen.mounted
    <3>1. UNCHANGED <<ctl, screen, spoiled>>
      BY <1>6, <2>3 DEF onNativeEvent
    <3>2. ScreenTrue' /\ inFront' = inFront
      BY <1>0, <2>1, <3>1 DEF ScreenTrue, inFront
    <3> QED
      BY <2>1, <2>3, <3>1, <3>2, FrontHeld DEF native
  <2>4. CASE screen.mounted
    <3>1. /\ ctl' = IF s \in isTerminal THEN over(cur, s) ELSE [ctl EXCEPT ![cur].state = s]
          /\ setState(cur, s, a)
      BY <1>6, <2>4 DEF onNativeEvent
    <3>2. s \in {"connecting", "connected", "disconnected", "failed"} /\ a \in Sessions
      BY <2>2 DEF Events
    <3>3. cur \in Controllers
      BY <1>0, <2>4
    <3>4. CASE s \in isTerminal
      <4>1. ASSUME a \in Calls
            PROVE  /\ op[a].pc # "request" /\ ~queued(calls, joinOf(a))
                   /\ a = media => ending
        <5>1. op[a].pc # "request"
          BY <1>0, <2>2, <4>1 DEF FreshInNative, fresh
        <5>2. ~queued(calls, joinOf(a))
          BY <1>0, <2>2, <4>1, Names DEF queued, Unjoined
        <5>3. a = media => ending
          BY <1>0, <2>2, <3>4 DEF EndsHonestly
        <5> QED
          BY <5>1, <5>2, <5>3
      <4>2. \A j \in Controllers : /\ ctl'[j].state = IF j = cur THEN s ELSE ctl[j].state
                                   /\ j # cur => ctl'[j].session = ctl[j].session
        BY <1>0, <3>1, <3>3, <3>4 DEF over, CtlRecords
      <4> HIDE DEF s, a
      <4> QED
        BY <2>1, <3>1, <3>3, <3>4, <4>1, <4>2, OverHeld DEF native
    <3>5. CASE s \notin isTerminal
      <4>1. s \in isActive /\ s \in CallState
        BY <3>2, <3>5 DEF isActive, CallState, isTerminal
      <4>2. ctl' = [ctl EXCEPT ![cur].state = s]
        BY <3>1, <3>5
      <4> HIDE DEF s, a
      <4>3. \A j \in Controllers : /\ ctl'[j].session = ctl[j].session
                                   /\ ctl'[j].state = IF j = cur THEN s ELSE ctl[j].state
        BY <1>0, <3>3, <4>1, <4>2, StateFacts
      <4>4. spoiled' = spoiled
        BY <3>1, <4>1 DEF setState
      <4>5. cur' = cur /\ setState(cur, s, a)
        BY <2>1, <3>1
      <4>6. /\ ScreenTrue' /\ screen'.mounted = screen.mounted /\ screen'.since = screen.since
            /\ s \in isActive => screen'.video = screen.video
        BY <1>0, <3>3, <4>1, <4>3, <4>5, ScreenFollows
      <4>7. inFront'
        BY <2>1, <2>4, <3>3, <4>1, <4>3, <4>6 DEF inFront
      <4> QED
        BY <2>1, <3>3, <4>1, <4>3, <4>4, <4>6, <4>7, FrontHeld DEF native
    <3> QED
      BY <3>4, <3>5
  <2> QED
    BY <2>3, <2>4
<1> QED
  BY <1>2, <1>3, <1>4, <1>5, <1>6 DEF Receive
\* The native side executes a call of JavaScript: what is behind it moves up.
LEMMA ExecutedHeld ==
  ASSUME IInv, Held, UNCHANGED js, calls # <<>>, calls' = Tail(calls),
         MediaHeld', CameraHeld',
         \A c \in Calls, p \in 2 .. Len(calls) :
           calls[p] = filmOf(c) /\ clean(c) /\ stale(c) /\ clean(media)' => doomed'
  PROVE  Held'
<1>0. /\ calls \in Seq(NativeCalls) /\ StartHeld /\ FilmHeld /\ ScreenTrue
  BY Typed DEF Held
<1>1. /\ UNCHANGED <<ctl, cur, screen, op, spoiled, adrift>>
      /\ \A c : (clean(c)' <=> clean(c)) /\ (stale(c)' <=> stale(c))
      /\ starting' = starting /\ (inFront' <=> inFront)
  BY DEF js, clean, stale, starting, inFront
<1>2. /\ Len(calls) \in Nat \ {0} /\ Len(calls') = Len(calls) - 1
      /\ \A k \in 1 .. Len(calls') : k + 1 \in 2 .. Len(calls) /\ k + 1 \in 1 .. Len(calls)
                                     /\ calls'[k] = calls[k + 1]
      /\ \A k \in 2 .. Len(calls) : k - 1 \in 1 .. Len(calls') /\ calls'[k - 1] = calls[k]
  BY <1>0, Shorter
<1> HIDE DEF clean, stale, starting, inFront, doomed
<1>3. StartHeld'
  <2>1. ASSUME NEW c \in Calls, clean(c), NEW p \in 1 .. Len(calls'), calls'[p] = joinOf(c)
        PROVE  /\ inFront
               /\ \/ ctl[cur].session = c
                  \/ \E q \in p + 1 .. Len(calls'), d \in Calls : d # c /\ calls'[q] = joinOf(d)
    <3>1. p + 1 \in 1 .. Len(calls) /\ calls[p + 1] = joinOf(c)
      BY <1>2, <2>1
    <3>2. /\ inFront
          /\ \/ ctl[cur].session = c
             \/ \E q \in (p + 1) + 1 .. Len(calls), d \in Calls : d # c /\ calls[q] = joinOf(d)
      BY <1>0, <2>1, <3>1 DEF StartHeld
    <3>3. Len(calls) \in Nat /\ Len(calls') = Len(calls) - 1 /\ p \in Nat \ {0}
      BY <1>2
    <3>4. \A q \in (p + 1) + 1 .. Len(calls) : q \in 2 .. Len(calls) /\ q - 1 \in p + 1 .. Len(calls')
      BY <3>3
    <3>5. ASSUME NEW q \in (p + 1) + 1 .. Len(calls), NEW d \in Calls, calls[q] = joinOf(d)
          PROVE  \E x \in p + 1 .. Len(calls') : calls'[x] = joinOf(d)
      BY <1>2, <3>4, <3>5
    <3> QED
      BY <3>2, <3>5
  <2> QED
    BY <1>0, <1>1, <2>1 DEF StartHeld
<1>4. FilmHeld'
  <2>1. ASSUME NEW c \in Calls, NEW p \in 1 .. Len(calls'), calls'[p] = filmOf(c), clean(c), stale(c)
        PROVE  /\ clean(media)' => doomed'
               /\ \A q \in 1 .. p - 1, d \in Calls : calls'[q] = joinOf(d) => ~clean(d)
    <3>1. p + 1 \in 2 .. Len(calls) /\ p + 1 \in 1 .. Len(calls) /\ calls[p + 1] = filmOf(c)
      BY <1>2, <2>1
    <3>2. \A q \in 1 .. p - 1 : q + 1 \in 1 .. (p + 1) - 1 /\ calls'[q] = calls[q + 1]
      BY <1>2
    <3> QED
      BY <1>0, <2>1, <3>1, <3>2 DEF FilmHeld
  <2> QED
    BY <1>1, <2>1 DEF FilmHeld
<1>5. ScreenTrue'
  BY <1>0, <1>1 DEF ScreenTrue
<1> QED
  BY <1>3, <1>4, <1>5 DEF Held

\* What dooms the media goes on doing so.
LEMMA DoomStays ==
  ASSUME IInv, OnTheWay, calls # <<>>, calls' = Tail(calls), NEW r \in Replies,
         inbox' = Append(inbox, r), media' = media, ending => ending', doomed,
         \/ Head(calls).kind = "video"
         \/ Head(calls).kind = "leave" /\ (media # NoSession => ending')
         \/ \E c \in Calls : Head(calls) = joinOf(c) /\ r = failureOf(c)
  PROVE  media = NoSession \/ doomed'
<1>0. calls \in Seq(NativeCalls) /\ inbox \in Seq(Replies)
  BY Typed
<1>1. /\ Head(calls) = calls[1] /\ Len(calls) \in Nat \ {0}
      /\ \A k \in 2 .. Len(calls) : k - 1 \in 1 .. Len(calls') /\ calls'[k - 1] = calls[k]
  BY <1>0, Shorter
<1>2. \A m : queued(calls, m) => queued(calls', m) \/ m = Head(calls)
  <2>1. ASSUME NEW k \in 1 .. Len(calls) PROVE queued(calls', calls[k]) \/ k = 1
    <3>1. k = 1 \/ k \in 2 .. Len(calls)
      BY <1>1
    <3> QED
      BY <1>1, <3>1 DEF queued
  <2> QED
    BY <1>1, <2>1 DEF queued
<1>3. (\A m : queued(inbox, m) => queued(inbox', m)) /\ queued(inbox', r)
  BY <1>0, Longer DEF queued
<1>4. CASE ending
  BY <1>4 DEF doomed
<1>5. ASSUME NEW e \in Ends, queued(calls, leaveOf(e)) PROVE media = NoSession \/ doomed'
  <2>1. CASE leaveOf(e) = Head(calls)
    BY <2>1, Messages DEF doomed
  <2>2. CASE queued(calls', leaveOf(e))
    BY <2>2 DEF doomed
  <2> QED
    BY <1>2, <1>5, <2>1, <2>2
<1>6. ASSUME NEW c \in Calls, c # media, queued(calls, joinOf(c)) PROVE doomed' \/ media = NoSession
  <2>1. CASE joinOf(c) = Head(calls)
    <3>1. r = failureOf(c) \/ Head(calls).kind # "join"
      BY <2>1, Names
    <3>2. r = failureOf(c)
      BY <2>1, <3>1, Names
    <3> QED
      BY <1>3, <1>6, <3>2 DEF doomed
  <2>2. CASE queued(calls', joinOf(c))
    BY <1>6, <2>2 DEF doomed
  <2> QED
    BY <1>2, <1>6, <2>1, <2>2
<1>7. ASSUME NEW c \in Calls, c # media, queued(inbox, failureOf(c)) PROVE doomed'
  BY <1>3, <1>7 DEF doomed
<1> QED
  BY <1>4, <1>5, <1>6, <1>7 DEF doomed

LEMMA ModulesHeld ==
  ASSUME IInv, OnTheWay, Held, NativeModules
  PROVE  Held'
<1>0. /\ calls \in Seq(NativeCalls) /\ inbox \in Seq(Replies) /\ media \in SessionOrNone
      /\ MediaHeld /\ StartHeld /\ FilmHeld /\ CameraHeld /\ Unjoined /\ NoSession \notin Calls
      /\ Sessions = Calls /\ camera \in SessionOrNone
  BY Typed DEF Held, OnTheWay
<1>1. ASSUME NEW m, NEW r, Execute(m, r)
      PROVE  /\ calls # <<>> /\ Head(calls) = m /\ calls[1] = m /\ calls' = Tail(calls)
             /\ inbox' = Append(inbox, r) /\ UNCHANGED js
             /\ Len(calls) \in Nat \ {0} /\ 1 \in 1 .. Len(calls)
             /\ \A k \in 2 .. Len(calls) : k - 1 \in 1 .. Len(calls') /\ calls'[k - 1] = calls[k]
  <2>1. calls # <<>> /\ Head(calls) = m /\ calls' = Tail(calls)
        /\ inbox' = Append(inbox, r) /\ UNCHANGED js
    BY <1>1 DEF Execute
  <2> QED
    BY <1>0, <2>1, Shorter
<1>2. UNCHANGED js => /\ \A c : (clean(c)' <=> clean(c)) /\ (stale(c)' <=> stale(c))
                      /\ (inFront' <=> inFront) /\ ctl' = ctl /\ cur' = cur /\ screen' = screen
  BY DEF js, clean, stale, inFront
<1>3. ASSUME NEW r \in Replies, inbox' = Append(inbox, r)
      PROVE  (\A m : queued(inbox, m) => queued(inbox', m)) /\ queued(inbox', r)
  BY <1>0, <1>3, Longer DEF queued
<1>4. ASSUME NEW c \in Calls, join(c) PROVE Held'
  <2>1. Execute(joinOf(c), joinOf(c)) /\ media' = c /\ camera' = NoSession
    BY <1>4 DEF join, joinOf
  <2>2. clean(c) => inFront /\ (ctl[cur].session = c \/ doomed')
    <3>1. clean(c) => /\ inFront
                      /\ \/ ctl[cur].session = c
                         \/ \E q \in 1 + 1 .. Len(calls), d \in Calls : d # c /\ calls[q] = joinOf(d)
      BY <1>0, <1>1, <2>1 DEF StartHeld
    <3>2. ASSUME NEW q \in 1 + 1 .. Len(calls), NEW d \in Calls, d # c, calls[q] = joinOf(d)
          PROVE  doomed'
      <4>1. q \in 2 .. Len(calls)
        BY <3>2
      <4>2. q - 1 \in 1 .. Len(calls') /\ calls'[q - 1] = joinOf(d)
        BY <1>1, <2>1, <3>2, <4>1
      <4>3. queued(calls', joinOf(d))
        BY <4>2 DEF queued
      <4> QED
        BY <2>1, <3>2, <4>3 DEF doomed
    <3> QED
      BY <3>1, <3>2
  <2>3. MediaHeld'
    <3>1. clean(media)' => clean(c)
      BY <2>1 DEF clean, Execute, js
    <3>2. (inFront' <=> inFront) /\ ctl'[cur'].session = ctl[cur].session
      BY <1>1, <1>2, <2>1
    <3> QED
      BY <2>1, <2>2, <3>1, <3>2 DEF MediaHeld, held
  <2>4. CameraHeld'
    BY <1>0, <2>1 DEF CameraHeld, clean
  <2>5. \A d \in Calls, p \in 2 .. Len(calls) :
          calls[p] = filmOf(d) /\ clean(d) /\ stale(d) /\ clean(media)' => doomed'
    <3>1. clean(media)' => clean(c)
      BY <2>1 DEF clean, Execute, js
    <3>2. \A p \in 2 .. Len(calls) : p \in 1 .. Len(calls) /\ 1 \in 1 .. p - 1
      BY <1>1, <2>1
    <3>3. calls[1] = joinOf(c)
      BY <1>1, <2>1
    <3> QED
      BY <1>0, <3>1, <3>2, <3>3 DEF FilmHeld
  <2> QED
    BY <1>1, <2>1, <2>3, <2>4, <2>5, ExecutedHeld
<1>5. ASSUME NEW m \in NativeCalls, NEW r \in Replies, Execute(m, r), media' = media, ending => ending',
             camera' = camera \/ (camera' \in Calls /\ media # NoSession /\ m = filmOf(camera')
                                  /\ r = m),
             \/ m.kind = "video"
             \/ m.kind = "leave" /\ (media # NoSession => ending')
             \/ \E c \in Calls : m = joinOf(c) /\ r = failureOf(c)
      PROVE  Held'
  <2>1. clean(media)' /\ doomed => doomed'
    <3>1. doomed => media = NoSession \/ doomed'
      BY <1>1, <1>5, DoomStays
    <3> QED
      BY <1>0, <1>5, <3>1 DEF clean
  <2>2. clean(media)' => clean(media)
    BY <1>1, <1>2, <1>5 DEF clean
  <2>3. MediaHeld'
    <3>1. held(media)' <=> held(media)
      BY <1>1, <1>2, <1>5 DEF held
    <3> QED
      BY <1>0, <2>1, <2>2, <3>1 DEF MediaHeld
  <2>4. \A d \in Calls, p \in 2 .. Len(calls) :
          calls[p] = filmOf(d) /\ clean(d) /\ stale(d) /\ clean(media)' => doomed'
    <3>1. \A p \in 2 .. Len(calls) : p \in 1 .. Len(calls)
      BY <1>1, <1>5
    <3> QED
      BY <1>0, <2>1, <2>2, <3>1 DEF FilmHeld
  <2>5. CameraHeld'
    <3>1. camera' # NoSession => media' # NoSession
      BY <1>0, <1>5 DEF CameraHeld
    <3>2. ASSUME clean(camera)', clean(media)', camera' = camera
          PROVE  doomed' \/ screen'.video \/ (queued(inbox', filmOf(camera')) /\ ~stale(camera)')
      <4>1. clean(camera)
        BY <1>1, <1>2, <1>5, <3>2 DEF clean
      <4>2. doomed \/ screen.video \/ (queued(inbox, filmOf(camera)) /\ ~stale(camera))
        BY <1>0, <2>2, <3>2, <4>1 DEF CameraHeld
      <4>3. stale(camera)' <=> stale(camera)
        BY <1>1, <1>5, <3>2 DEF stale, js
      <4>4. queued(inbox, filmOf(camera)) => queued(inbox', filmOf(camera'))
        BY <1>1, <1>3, <1>5, <3>2
      <4>5. screen' = screen
        BY <1>1, <1>2, <1>5
      <4> QED
        BY <2>1, <3>2, <4>2, <4>3, <4>4, <4>5
    <3>3. ASSUME clean(camera)', clean(media)', camera' \in Calls, m = filmOf(camera'), r = m
          PROVE  doomed' \/ (queued(inbox', filmOf(camera')) /\ ~stale(camera)')
      <4>1. calls[1] = filmOf(camera') /\ 1 \in 1 .. Len(calls)
        BY <1>1, <1>5, <3>3
      <4>2. queued(inbox', filmOf(camera'))
        BY <1>1, <1>3, <1>5, <3>3
      <4> DEFINE c == camera'
      <4>3. clean(c) /\ (stale(camera)' <=> stale(c))
        BY <1>1, <1>5, <3>3 DEF clean, stale, js
      <4>4. stale(c) => doomed
        BY <1>0, <2>2, <3>3, <4>1, <4>3 DEF FilmHeld
      <4> QED
        BY <2>1, <3>3, <4>2, <4>3, <4>4
    <3> QED
      BY <1>5, <3>1, <3>2, <3>3 DEF CameraHeld
  <2> QED
    BY <1>1, <1>5, <2>3, <2>4, <2>5, ExecutedHeld
<1>6. ASSUME NEW c \in Calls, joinThrows(c) PROVE Held'
  <2>1. Execute(joinOf(c), failureOf(c)) /\ UNCHANGED <<media, ending, camera>>
    BY <1>6 DEF joinThrows, joinOf, failureOf, native
  <2> QED
    BY <1>5, <2>1, Messages
<1>7. ASSUME NEW c \in Calls, setLocalVideoEnabled(c) PROVE Held'
  <2>1. Execute(filmOf(c), filmOf(c)) /\ UNCHANGED <<media, ending>>
        /\ camera' = IF media = NoSession THEN camera ELSE c
    BY <1>7 DEF setLocalVideoEnabled, filmOf
  <2>2. filmOf(c) \in NativeCalls /\ filmOf(c) \in Replies /\ filmOf(c).kind = "video"
    BY Messages
  <2> QED
    BY <1>5, <2>1, <2>2
<1>8. ASSUME NEW e \in Ends, leave(e) PROVE Held'
  <2>1. Execute(leaveOf(e), leaveOf(e)) /\ UNCHANGED <<media, camera>>
        /\ ending' = (ending \/ media # NoSession)
    BY <1>8 DEF leave, leaveOf
  <2>2. leaveOf(e) \in NativeCalls /\ leaveOf(e) \in Replies /\ leaveOf(e).kind = "leave"
    BY Messages
  <2> QED
    BY <1>5, <2>1, <2>2
<1> QED
  BY <1>4, <1>6, <1>7, <1>8 DEF NativeModules

\* The native call ends, or is about to, whoever wants it.
LEMMA StillHeld ==
  ASSUME IInv, Held, UNCHANGED <<ctl, cur, screen, op, spoiled, adrift, calls, inbox>>,
         \/ media' = NoSession /\ camera' = NoSession
         \/ UNCHANGED <<media, camera>> /\ (ending => ending')
  PROVE  Held'
<1>0. MediaHeld /\ StartHeld /\ FilmHeld /\ CameraHeld /\ ScreenTrue /\ NoSession \notin Calls
  BY Typed DEF Held
<1>1. /\ \A c : (clean(c)' <=> clean(c)) /\ (stale(c)' <=> stale(c)) /\ (held(c)' <=> held(c))
      /\ starting' = starting /\ (inFront' <=> inFront)
  BY DEF clean, stale, starting, inFront, held
<1>2. clean(media)' => media' = media /\ clean(media) /\ camera' = camera /\ (doomed => doomed')
  BY <1>0 DEF clean, doomed
<1>3. MediaHeld'
  <2>1. media' = media => (held(media)' <=> held(media))
    BY DEF held, inFront
  <2> QED
    BY <1>0, <1>2, <2>1 DEF MediaHeld
<1>4. StartHeld' /\ ScreenTrue'
  BY <1>0, <1>1 DEF StartHeld, ScreenTrue
<1>5. FilmHeld'
  <2> HIDE DEF stale, doomed
  <2> QED
    BY <1>0, <1>1, <1>2 DEF FilmHeld
<1>6. CameraHeld'
  <2>1. camera' = camera => (stale(camera)' <=> stale(camera)) /\ (clean(camera)' <=> clean(camera))
    BY DEF stale, clean
  <2>2. camera' # NoSession => media' # NoSession
    BY <1>0 DEF CameraHeld
  <2> QED
    BY <1>0, <1>2, <2>1, <2>2 DEF CameraHeld
<1> QED
  BY <1>3, <1>4, <1>5, <1>6 DEF Held

\* Everything that happens leaves the screen with the call that runs below it.
LEMMA NextHeld ==
  ASSUME IInv, OnTheWay, OnTheWay', Held, [Next]_vars
  PROVE  Held'
<1>1. CASE Host
  BY <1>1, HostHeld
<1>2. CASE Receive
  BY <1>2, ReceiveHeld
<1>3. CASE NativeModules
  BY <1>3, ModulesHeld
<1>4. CASE \E c \in Calls, type \in CallTypes : startCall(c, type)
  BY <1>4, BeginHeld
<1>5. CASE \E c \in Calls : answerIncomingCall(c) \/ CallStep(c)
  BY <1>5, BeginHeld, CallHeld
<1>6. CASE \E e \in Ends : endCall(e)
  BY <1>6, EndCallHeld
<1>7. CASE \E t \in Tones : sendDtmf(t) \/ ToneStep(t)
  BY <1>7, ToneHeld
<1>8. CASE onDisconnect \/ SystemEnds
  BY <1>8, StillHeld DEF onDisconnect, SystemEnds, stopMedia, js
<1>9. CASE onAudioSessionStarted
  BY <1>9, StillHeld DEF onAudioSessionStarted, js
<1>10. CASE \E s \in Sessions : onAudioSessionStopped(s) \/ ContactEnds(s)
  <2>1. ending \in BOOLEAN
    BY Typed
  <2> QED
    BY <1>10, <2>1, StillHeld DEF onAudioSessionStopped, ContactEnds, js, native
<1>11. CASE UNCHANGED vars
  BY <1>11, StillHeld DEF vars, js, native
<1> QED
  BY <1>1, <1>2, <1>3, <1>4, <1>5, <1>6, <1>7, <1>8, <1>9, <1>10, <1>11 DEF Next

LEMMA InitHeld == Init => OnTheWay /\ Held
<1> SUFFICES ASSUME Init PROVE OnTheWay /\ Held
  OBVIOUS
<1>1. /\ calls = <<>> /\ inbox = <<>> /\ posted = <<>> /\ media = NoSession /\ camera = NoSession
      /\ ~screen.mounted /\ \A e \in Ends : hang[e].pc = "idle"
      /\ \A c \in Calls : op[c].pc = "idle"
  BY DEF Init
<1>2. NoSession \notin Calls
  BY RnAssumption DEF Calls
<1>3. OnTheWay
  BY <1>1 DEF OnTheWay, Matched, Unjoined, EndsHonestly, HangUpEnds
<1>4. Held
  BY <1>1, <1>2 DEF Held, MediaHeld, StartHeld, FilmHeld, CameraHeld, ScreenTrue, clean, starting,
                    Starting
<1> QED
  BY <1>3, <1>4

----
(***************************************************************************)
(* The theorems                                                            *)
(***************************************************************************)

\* The app starts without a screen, a call or a message.
LEMMA InitIInv == Init => IInv
<1> SUFFICES ASSUME Init PROVE IInv
  OBVIOUS
<1>1. 1 \in Controllers /\ 1 \in 1 .. MaxAttempts /\ 0 \in 0 .. MaxControllers
      /\ 0 \in 0 .. MaxMoves
  BY RnAssumption DEF Controllers
<1>2. JsTyped /\ NativeTyped
  <2>1. [state |-> "idle", session |-> NoSession, token |-> NoSession] \in CtlRecords
    BY DEF CtlRecords, CallState, SessionOrNone
  <2>2. [mounted |-> FALSE, state |-> "idle", video |-> FALSE, since |-> 0] \in Screens
    BY <1>1 DEF Screens, CallState
  <2>3. [pc |-> "idle", by |-> 1, kind |-> "audio", attempt |-> 1] \in OpRecords
    BY <1>1 DEF OpRecords, CallTypes
  <2>4. [pc |-> "idle", by |-> 1, session |-> NoSession] \in HangRecords
    BY <1>1 DEF HangRecords, SessionOrNone
  <2>5. [pc |-> "idle", by |-> 1, session |-> NoSession, token |-> NoSession] \in ToneRecords
    BY <1>1 DEF ToneRecords, SessionOrNone
  <2>6. JsTyped
    BY <1>1, <2>1, <2>2, <2>3, <2>4, <2>5 DEF Init, JsTyped
  <2>7. /\ spent \in 0 .. MaxMoves /\ media \in SessionOrNone /\ running \subseteq Sessions
        /\ coming \in BOOLEAN /\ camera \in SessionOrNone /\ ending \in BOOLEAN
        /\ contact \in [Sessions -> {"none", "live", "over"}]
    BY <1>1 DEF Init, SessionOrNone
  <2>8. calls \in Seq(NativeCalls) /\ inbox \in Seq(Replies) /\ posted \in Seq(Events)
    BY DEF Init
  <2> QED
    BY <2>6, <2>7, <2>8 DEF NativeTyped
<1>3. Grounded
  BY DEF Init, Grounded
<1>4. Unmade
  BY DEF Init, Unmade, isActive
<1>5. FreshInJs /\ FreshInNative
  BY RnAssumption DEF Init, FreshInJs, FreshInNative, Calls
<1>6. TokenKept /\ ToneKept /\ RequestKept /\ DigitsReachTheirCall
  BY DEF Init, TokenKept, ToneKept, RequestKept, DigitsReachTheirCall, excusable, forgotten
<1>7. coming => media # NoSession
  BY DEF Init
<1> QED
  BY <1>2, <1>3, <1>4, <1>5, <1>6, <1>7 DEF IInv, JsInv, NativeInv

\* The invariant survives every step of the app, of the native call and of the agent.
LEMMA NextIInv == IInv /\ [Next]_vars => IInv'
<1> SUFFICES ASSUME IInv, [Next]_vars PROVE IInv'
  OBVIOUS
<1>1. CASE Host \/ Receive \/ NativeModules
  BY <1>1, HostStep, ReceiveStep, ModuleStep
<1>2. CASE \E c \in Calls, type \in CallTypes : startCall(c, type)
  BY <1>2, CallSteps
<1>3. CASE \E c \in Calls : answerIncomingCall(c) \/ CallStep(c)
  BY <1>3, CallSteps
<1>4. CASE \E e \in Ends : endCall(e)
  BY <1>4, EndCallStep
<1>5. CASE \E t \in Tones : sendDtmf(t) \/ ToneStep(t)
  BY <1>5, ToneSteps
<1>6. CASE \/ onDisconnect \/ SystemEnds \/ onAudioSessionStarted
           \/ \E s \in Sessions : onAudioSessionStopped(s) \/ ContactEnds(s)
  BY <1>6, NativeStep
<1>7. CASE UNCHANGED vars
  <2>1. JsInv' /\ UNCHANGED <<op, hang>>
    BY <1>7, JsAlone DEF vars, connect, IInv
  <2>2. NativeInv'
    BY <1>7, <2>1 DEF vars, connect, native, IInv, NativeInv, NativeTyped, FreshInNative, fresh
  <2> QED
    BY <2>1, <2>2 DEF IInv
<1> QED
  BY <1>1, <1>2, <1>3, <1>4, <1>5, <1>6, <1>7 DEF Next

\* Every variable of the app has its type, whatever the host, the user, the system
\* and the agent do, and however many calls and controllers there are.
THEOREM TypeCorrect == Spec => []TypeOK
<1>1. IInv => TypeOK
  BY TypeParts DEF IInv, JsInv, NativeInv
<1> QED
  BY <1>1, InitIInv, NextIInv, PTL DEF Spec

\* The digits typed for a call reach the contact of that call (sendDtmf), unless the
\* token they used came after its call was over, or one of the two calls failed or
\* was made inactive by another call.
THEOREM DigitsReach == Spec => []DigitsReachTheirCall
<1>1. IInv => DigitsReachTheirCall
  BY DEF IInv, JsInv
<1> QED
  BY <1>1, InitIInv, NextIInv, PTL DEF Spec

LEMMA AllHeld == Spec => [](IInv /\ OnTheWay /\ Held)
<1>1. Init => IInv /\ OnTheWay /\ Held
  BY InitIInv, InitHeld
<1>2. IInv /\ OnTheWay /\ Held /\ [Next]_vars => (IInv /\ OnTheWay /\ Held)'
  BY NextIInv, NextOnTheWay, NextHeld
<1> QED
  BY <1>1, <1>2, PTL DEF Spec

\* Nothing that is quiet is doomed, and what is held is on the screen.
LEMMA QuietHeld ==
  ASSUME Held, Quiet, clean(media)
  PROVE  ~doomed /\ onScreen
<1>1. ~doomed
  BY DEF Quiet, doomed, queued
<1>2. held(media)
  BY <1>1 DEF Held, MediaHeld
<1> QED
  BY <1>1, <1>2 DEF Held, ScreenTrue, held, inFront, onScreen

\* Once nothing is on its way, no media runs below a screen that shows no call
\* (ConnectCallScreen, endCall, onNativeEvent), unless the controller of its call was
\* disposed of, or became inactive because of another call.
THEOREM HiddenMediaExcused == Spec => []NoHiddenMedia
<1>1. IInv /\ Held => NoHiddenMedia
  <2>1. SUFFICES ASSUME IInv, Held, Quiet, media # NoSession, ~onScreen
                 PROVE  media \in adrift \cup spoiled
    BY DEF NoHiddenMedia
  <2>2. media \in Calls
    BY <2>1, Typed DEF SessionOrNone
  <2> QED
    BY <2>1, <2>2, QuietHeld DEF clean
<1> QED
  BY <1>1, AllHeld, PTL

\* Likewise, the camera sends only while the video button of the screen is on (start),
\* but for a call that was left behind, and a call whose camera was switched on for one.
THEOREM CameraInSight == Spec => []CameraShown
<1>1. IInv /\ Held => CameraShown
  <2>1. SUFFICES ASSUME IInv, Held, Quiet, camera # NoSession, ~screen.video,
                        clean(media), clean(camera)
                 PROVE  FALSE
    <3>1. IInv /\ Held /\ camera # NoSession => media \in Calls /\ camera \in Calls
      BY Typed DEF SessionOrNone, Held, CameraHeld
    <3> QED
      BY <3>1 DEF CameraShown, clean
  <2>2. ~queued(inbox, filmOf(camera))
    BY <2>1 DEF Quiet, queued
  <2> QED
    BY <2>1, <2>2, QuietHeld DEF Held, CameraHeld
<1> QED
  BY <1>1, AllHeld, PTL
====

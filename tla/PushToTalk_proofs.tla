-------------------------- MODULE PushToTalk_proofs --------------------------
(***************************************************************************)
(* Proofs about PushToTalk, for any number of presses, joins and breaks:   *)
(* the recorder and the subscription to its frames; the room of a session  *)
(* and the fallback; who is on the air: the microphone, the peer           *)
(* connections and who holds the button; the types.                        *)
(***************************************************************************)
EXTENDS PushToTalk, Integers, SequenceTheorems, TLAPS

Call == [op : {"start", "stop"}, press : Nat]
Calls == 1 .. Len(calls)

ScalarsTyped ==
  /\ state \in {"idle", "transmitting"} /\ recording \in BOOLEAN
  /\ framesSub \in BOOLEAN /\ subs \in Int /\ presses \in Nat

CallsTyped ==
  /\ calls \in Seq(Call)
  /\ \A k \in Calls : calls[k].press <= presses

RecorderTyped == ScalarsTyped /\ CallsTyped

(* A call that concerns the present press: its start, or a stop of it.     *)
OfThisPress(k) == calls[k].op = "start" \/ calls[k].press = presses

(* Unless a stop has met a later press: only the present press can have a  *)
(* start under way, and nothing of it before that; an idle device records  *)
(* nothing and will not; one that transmits records, or a call of this     *)
(* press is under way.                                                     *)
RecorderKept ==
  "crossed" \notin odd =>
    /\ \A j, k \in Calls : j < k /\ calls[k].op = "start" => ~OfThisPress(j)
    /\ state = "idle" => ~recording /\ \A k \in Calls : calls[k].op = "stop"
    /\ state = "transmitting" /\ ~recording => \E k \in Calls : OfThisPress(k)

(* Unless a start was released before it was answered, too: the notifier   *)
(* knows the only subscription there is, and has none when it is idle or a *)
(* call of this press is under way.                                        *)
FramesKept ==
  odd \cap {"tapped", "crossed"} = {} =>
    /\ subs = IF framesSub THEN 1 ELSE 0
    /\ state = "idle" \/ (\E k \in Calls : OfThisPress(k)) => ~framesSub

RecorderInv == RecorderTyped /\ RecorderKept /\ FramesKept

(* One more call, and one less.                                            *)
LEMMA CallQueue ==
  ASSUME NEW s \in Seq(Call)
  PROVE  /\ \A x \in Call : /\ Append(s, x) \in Seq(Call) /\ Len(Append(s, x)) = Len(s) + 1
                            /\ Append(s, x)[Len(s) + 1] = x
                            /\ \A k \in 1 .. Len(s) : Append(s, x)[k] = s[k]
         /\ s # <<>> => /\ Tail(s) \in Seq(Call) /\ Len(Tail(s)) = Len(s) - 1
                        /\ Head(s) = s[1] /\ Len(s) \in Nat \ {0}
                        /\ \A k \in 1 .. Len(Tail(s)) : Tail(s)[k] = s[k + 1]
         /\ Len(s) \in Nat
OBVIOUS

(* Another stop of the press that transmits.                               *)
LEMMA StopKeeps ==
  ASSUME RecorderInv, StopTransmitting, UNCHANGED <<state, presses>>, odd \subseteq odd',
         \/ recording' = recording
         \/ recording' = FALSE
  PROVE  RecorderInv'
<1> USE DEF RecorderInv
<1>1. CASE state = "transmitting"
  <2> DEFINE x == [op |-> "stop", press |-> presses]
  <2>1. x \in Call /\ x.op = "stop" /\ x.press = presses
    BY DEF Call, RecorderTyped, ScalarsTyped
  <2>2. calls' = Append(calls, x) /\ framesSub' = FALSE
        /\ subs' = IF framesSub THEN subs - 1 ELSE subs
    BY <1>1 DEF StopTransmitting
  <2> HIDE DEF x
  <2>3. /\ calls' \in Seq(Call) /\ Len(calls') = Len(calls) + 1 /\ calls'[Len(calls) + 1] = x
        /\ Len(calls) \in Nat
        /\ \A k \in Calls : calls'[k] = calls[k]
    BY <2>1, <2>2, CallQueue DEF RecorderTyped, ScalarsTyped, CallsTyped, Calls
  <2>4. RecorderTyped'
    <3>1. \A k \in Calls' : calls'[k].press <= presses'
      <4> SUFFICES ASSUME NEW k \in Calls' PROVE calls'[k].press <= presses
        OBVIOUS
      <4>1. CASE k \in Calls
        BY <4>1, <2>3 DEF RecorderTyped, ScalarsTyped, CallsTyped
      <4>2. CASE k = Len(calls) + 1
        BY <4>2, <2>1, <2>3 DEF RecorderTyped, ScalarsTyped, CallsTyped
      <4> QED BY <4>1, <4>2, <2>3 DEF Calls
    <3>2. CallsTyped'
      BY <3>1, <2>3 DEF CallsTyped, RecorderTyped, ScalarsTyped
    <3>3. subs' \in Int
      BY <2>2 DEF RecorderTyped, ScalarsTyped
    <3>4. recording' \in BOOLEAN /\ framesSub' \in BOOLEAN
      BY <2>2 DEF RecorderTyped, ScalarsTyped
    <3>5. state' \in {"idle", "transmitting"} /\ presses' \in Nat
      BY DEF RecorderTyped, ScalarsTyped
    <3> QED BY <3>2, <3>3, <3>4, <3>5 DEF RecorderTyped, ScalarsTyped
  <2>5. RecorderKept'
    BY <1>1, <2>1, <2>2, <2>3 DEF RecorderTyped, ScalarsTyped, CallsTyped, RecorderKept, OfThisPress, Calls
  <2>6. FramesKept'
    BY <1>1, <2>1, <2>2, <2>3 DEF RecorderTyped, ScalarsTyped, CallsTyped, FramesKept, OfThisPress, Calls
  <2> QED BY <2>4, <2>5, <2>6
<1>2. CASE state # "transmitting"
  <2>1. state = "idle" /\ state' = "idle" /\ presses' = presses
    BY <1>2 DEF RecorderTyped, ScalarsTyped, CallsTyped
  <2>2. UNCHANGED <<framesSub, subs, calls>>
    BY <1>2 DEF StopTransmitting
  <2>3. RecorderTyped'
    BY <2>1, <2>2 DEF RecorderTyped, ScalarsTyped, CallsTyped, Calls
  <2>4. RecorderKept'
    BY <2>1, <2>2 DEF RecorderTyped, ScalarsTyped, CallsTyped, RecorderKept, OfThisPress, Calls
  <2>5. FramesKept'
    BY <2>1, <2>2 DEF RecorderTyped, ScalarsTyped, CallsTyped, FramesKept, OfThisPress, Calls
  <2> QED BY <2>3, <2>4, <2>5
<1> QED BY <1>1, <1>2

(* The first call is answered.                                             *)
LEMMA CallAnswered ==
  ASSUME RecorderTyped, calls # <<>>, calls' = Tail(calls), UNCHANGED presses
  PROVE  /\ calls' \in Seq(Call) /\ Len(calls') = Len(calls) - 1 /\ Len(calls) \in Nat \ {0}
         /\ Head(calls) = calls[1]
         /\ \A k \in Calls' : k + 1 \in Calls /\ calls'[k] = calls[k + 1]
         /\ \A k \in Calls \ {1} : k - 1 \in Calls' /\ calls[k] = calls'[k - 1]
         /\ \A k \in Calls' : calls'[k].press <= presses
BY CallQueue DEF RecorderTyped, ScalarsTyped, CallsTyped, Calls

(* A press preserves the recorder's invariant.                             *)
LEMMA PressKeeps ==
  ASSUME RecorderInv, PressDown
  PROVE  RecorderInv'
<1> USE DEF RecorderInv
<1>1. CASE state = "transmitting"
  <2>1. UNCHANGED <<state, framesSub, subs, recording, calls, presses, odd>>
    BY <1>1 DEF PressDown
  <2> QED BY <2>1 DEF RecorderTyped, ScalarsTyped, CallsTyped, RecorderKept, FramesKept, OfThisPress, Calls
<1>2. CASE state # "transmitting"
  <2> DEFINE x == [op |-> "start", press |-> presses + 1]
  <2>1. x \in Call /\ x.op = "start" /\ x.press = presses + 1
    BY DEF Call, RecorderTyped, ScalarsTyped
  <2>2. /\ calls' = Append(calls, x) /\ presses' = presses + 1
        /\ state = "idle" /\ state' = "transmitting"
        /\ UNCHANGED <<framesSub, subs, recording, odd>>
    BY <1>2 DEF PressDown, RecorderTyped, ScalarsTyped
  <2> HIDE DEF x
  <2>3. /\ calls' \in Seq(Call) /\ Len(calls') = Len(calls) + 1 /\ calls'[Len(calls) + 1] = x
        /\ Len(calls) \in Nat
        /\ \A k \in Calls : calls'[k] = calls[k]
    BY <2>1, <2>2, CallQueue DEF RecorderTyped, ScalarsTyped, CallsTyped, Calls
  <2>4. RecorderTyped'
    <3>1. \A k \in Calls' : calls'[k].press <= presses'
      <4> SUFFICES ASSUME NEW k \in Calls' PROVE calls'[k].press <= presses'
        OBVIOUS
      <4>1. CASE k \in Calls
        <5>1. calls[k] \in Call /\ calls[k].press <= presses
          BY <4>1 DEF RecorderTyped, ScalarsTyped, CallsTyped, Calls
        <5>2. calls'[k].press <= presses
          BY <5>1, <4>1, <2>3
        <5>3. calls'[k].press \in Nat /\ presses \in Nat
          BY <5>1, <4>1, <2>3 DEF Call, RecorderTyped, ScalarsTyped
        <5>4. presses' = presses + 1
          BY <2>2
        <5> QED BY <5>2, <5>3, <5>4
      <4>2. CASE k = Len(calls) + 1
        BY <4>2, <2>1, <2>2, <2>3 DEF RecorderTyped, ScalarsTyped, CallsTyped
      <4> QED BY <4>1, <4>2, <2>3 DEF Calls
    <3>2. CallsTyped'
      BY <3>1, <2>3 DEF CallsTyped
    <3>3. ScalarsTyped'
      BY <2>2 DEF RecorderTyped, ScalarsTyped
    <3> QED BY <3>2, <3>3 DEF RecorderTyped
  <2>5. RecorderKept'
    BY <2>1, <2>2, <2>3 DEF RecorderTyped, ScalarsTyped, CallsTyped, RecorderKept, OfThisPress, Calls
  <2>6. FramesKept'
    BY <2>1, <2>2, <2>3 DEF RecorderTyped, ScalarsTyped, CallsTyped, FramesKept, OfThisPress, Calls
  <2> QED BY <2>4, <2>5, <2>6
<1> QED BY <1>1, <1>2

(* So does a recorder that starts, for the present press or an earlier     *)
(* one.                                                                    *)
LEMMA RecorderStartsKeeps ==
  ASSUME RecorderInv, RecorderStarts
  PROVE  RecorderInv'
<1> USE DEF RecorderInv
<1>1. /\ calls # <<>> /\ Head(calls).op = "start" /\ calls' = Tail(calls) /\ recording' = TRUE
      /\ framesSub' = TRUE /\ subs' = subs + 1 /\ UNCHANGED <<state, presses>>
      /\ odd \subseteq odd' /\ (Tail(calls) # <<>> => "tapped" \in odd')
  BY DEF RecorderStarts
<1>2. /\ calls' \in Seq(Call) /\ Len(calls') = Len(calls) - 1 /\ Len(calls) \in Nat \ {0}
      /\ Head(calls) = calls[1]
      /\ \A k \in Calls' : k + 1 \in Calls /\ calls'[k] = calls[k + 1]
      /\ \A k \in Calls \ {1} : k - 1 \in Calls' /\ calls[k] = calls'[k - 1]
      /\ \A k \in Calls' : calls'[k].press <= presses
  BY <1>1, CallAnswered
<1>3. RecorderTyped'
  <2>1. CallsTyped'
    BY <1>1, <1>2 DEF CallsTyped
  <2>2. ScalarsTyped'
    BY <1>1 DEF RecorderTyped, ScalarsTyped
  <2> QED BY <2>1, <2>2 DEF RecorderTyped
<1>4. RecorderKept'
  BY <1>1, <1>2 DEF RecorderTyped, ScalarsTyped, CallsTyped, RecorderKept, OfThisPress, Calls
<1>5. FramesKept'
  <2> SUFFICES ASSUME odd' \cap {"tapped", "crossed"} = {} PROVE FramesKept'
    BY DEF FramesKept
  <2>1. calls' = <<>> /\ Calls' = {}
    BY <1>1 DEF Calls
  <2>2. 1 \in Calls /\ OfThisPress(1)
    BY <1>1, <1>2 DEF Calls, OfThisPress
  <2>3. state # "idle" /\ ~framesSub /\ subs = 0
    BY <1>1, <1>2, <2>2 DEF RecorderKept, FramesKept, RecorderTyped
  <2> QED BY <1>1, <2>1, <2>3 DEF FramesKept
<1> QED BY <1>3, <1>4, <1>5

(* So does one that refuses.                                               *)
LEMMA RecorderRefusesKeeps ==
  ASSUME RecorderInv, RecorderRefuses
  PROVE  RecorderInv'
<1> USE DEF RecorderInv
<1>1. /\ calls # <<>> /\ Head(calls).op = "start" /\ ~recording /\ calls' = Tail(calls)
      /\ state' = "idle" /\ UNCHANGED <<framesSub, subs, recording, presses>> /\ odd \subseteq odd'
  BY DEF RecorderRefuses, BecomesIdle
<1>2. /\ calls' \in Seq(Call) /\ Len(calls') = Len(calls) - 1 /\ Len(calls) \in Nat \ {0}
      /\ Head(calls) = calls[1]
      /\ \A k \in Calls' : k + 1 \in Calls /\ calls'[k] = calls[k + 1]
      /\ \A k \in Calls \ {1} : k - 1 \in Calls' /\ calls[k] = calls'[k - 1]
      /\ \A k \in Calls' : calls'[k].press <= presses
  BY <1>1, CallAnswered
<1>3. RecorderTyped'
  <2>1. CallsTyped'
    BY <1>1, <1>2 DEF CallsTyped
  <2>2. ScalarsTyped'
    BY <1>1 DEF RecorderTyped, ScalarsTyped
  <2> QED BY <2>1, <2>2 DEF RecorderTyped
<1>4. RecorderKept'
  <2> SUFFICES ASSUME "crossed" \notin odd' PROVE RecorderKept'
    BY DEF RecorderKept
  <2>1. /\ \A j, k \in Calls : j < k /\ calls[k].op = "start" => ~OfThisPress(j)
        /\ state = "idle" => \A k \in Calls : calls[k].op = "stop"
    BY <1>1 DEF RecorderKept
  <2>2. 1 \in Calls
    BY <1>2 DEF Calls
  <2>3. \A j, k \in Calls' : j < k /\ calls'[k].op = "start" => ~OfThisPress(j)'
    <3> SUFFICES ASSUME NEW j \in Calls', NEW k \in Calls', j < k, calls'[k].op = "start"
                 PROVE  ~OfThisPress(j)'
      OBVIOUS
    <3>1. j + 1 \in Calls /\ k + 1 \in Calls /\ calls'[j] = calls[j + 1]
          /\ calls'[k] = calls[k + 1] /\ j + 1 < k + 1
      BY <1>2 DEF Calls
    <3> QED BY <3>1, <2>1, <1>1 DEF OfThisPress
  <2>4. \A k \in Calls' : calls'[k].op = "stop"
    <3> SUFFICES ASSUME NEW k \in Calls', calls'[k].op # "stop" PROVE FALSE
      OBVIOUS
    <3>1. k + 1 \in Calls /\ calls'[k] = calls[k + 1] /\ 1 < k + 1 /\ calls[k + 1] \in Call
      BY <1>2 DEF Calls, RecorderTyped, ScalarsTyped, CallsTyped
    <3>2. calls[k + 1].op = "start"
      BY <3>1 DEF Call
    <3>3. ~OfThisPress(1)
      BY <3>1, <3>2, <2>1, <2>2
    <3> QED BY <3>1, <3>2, <3>3, <2>1, <1>1, <1>2 DEF OfThisPress, RecorderTyped, ScalarsTyped, CallsTyped
  <2> QED BY <2>3, <2>4, <1>1 DEF RecorderKept
<1>5. FramesKept'
  BY <1>1, <1>2 DEF RecorderTyped, ScalarsTyped, CallsTyped, RecorderKept, FramesKept, OfThisPress, Calls
<1> QED BY <1>3, <1>4, <1>5

(* So does one that stops.                                                 *)
LEMMA RecorderStopsKeeps ==
  ASSUME RecorderInv, RecorderStops
  PROVE  RecorderInv'
<1> USE DEF RecorderInv
<1>1. /\ calls # <<>> /\ Head(calls).op = "stop" /\ calls' = Tail(calls) /\ recording' = FALSE
      /\ state' = "idle" /\ UNCHANGED <<framesSub, subs, presses>> /\ odd \subseteq odd'
      /\ state = "transmitting" /\ Head(calls).press # presses => "crossed" \in odd'
  BY DEF RecorderStops, BecomesIdle
<1>2. /\ calls' \in Seq(Call) /\ Len(calls') = Len(calls) - 1 /\ Len(calls) \in Nat \ {0}
      /\ Head(calls) = calls[1]
      /\ \A k \in Calls' : k + 1 \in Calls /\ calls'[k] = calls[k + 1]
      /\ \A k \in Calls \ {1} : k - 1 \in Calls' /\ calls[k] = calls'[k - 1]
      /\ \A k \in Calls' : calls'[k].press <= presses
  BY <1>1, CallAnswered
<1>3. RecorderTyped'
  <2>1. CallsTyped'
    BY <1>1, <1>2 DEF CallsTyped
  <2>2. ScalarsTyped'
    BY <1>1 DEF RecorderTyped, ScalarsTyped
  <2> QED BY <2>1, <2>2 DEF RecorderTyped
<1>4. RecorderKept'
  <2> SUFFICES ASSUME "crossed" \notin odd' PROVE RecorderKept'
    BY DEF RecorderKept
  <2>1. /\ \A j, k \in Calls : j < k /\ calls[k].op = "start" => ~OfThisPress(j)
        /\ state = "idle" => \A k \in Calls : calls[k].op = "stop"
    BY <1>1 DEF RecorderKept
  <2>2. 1 \in Calls
    BY <1>2 DEF Calls
  <2>3. \A j, k \in Calls' : j < k /\ calls'[k].op = "start" => ~OfThisPress(j)'
    <3> SUFFICES ASSUME NEW j \in Calls', NEW k \in Calls', j < k, calls'[k].op = "start"
                 PROVE  ~OfThisPress(j)'
      OBVIOUS
    <3>1. j + 1 \in Calls /\ k + 1 \in Calls /\ calls'[j] = calls[j + 1]
          /\ calls'[k] = calls[k + 1] /\ j + 1 < k + 1
      BY <1>2 DEF Calls
    <3> QED BY <3>1, <2>1, <1>1 DEF OfThisPress
  <2>4. \A k \in Calls' : calls'[k].op = "stop"
    <3> SUFFICES ASSUME NEW k \in Calls', calls'[k].op # "stop" PROVE FALSE
      OBVIOUS
    <3>1. k + 1 \in Calls /\ calls'[k] = calls[k + 1] /\ 1 < k + 1 /\ calls[k + 1] \in Call
      BY <1>2 DEF Calls, RecorderTyped, ScalarsTyped, CallsTyped
    <3>2. calls[k + 1].op = "start"
      BY <3>1 DEF Call
    <3>3. ~OfThisPress(1)
      BY <3>1, <3>2, <2>1, <2>2
    <3> QED BY <3>1, <3>2, <3>3, <2>1, <1>1, <1>2 DEF OfThisPress, RecorderTyped, ScalarsTyped, CallsTyped
  <2> QED BY <2>3, <2>4, <1>1 DEF RecorderKept
<1>5. FramesKept'
  BY <1>1, <1>2 DEF RecorderTyped, ScalarsTyped, CallsTyped, RecorderKept, FramesKept, OfThisPress, Calls
<1> QED BY <1>3, <1>4, <1>5

(* What the transports do only adds to odd.                                *)
LEMMA RecorderInvStable ==
  ASSUME RecorderInv, UNCHANGED <<notifierVars, presses>>, odd \subseteq odd'
  PROVE  RecorderInv'
BY DEF RecorderInv, RecorderTyped, ScalarsTyped, CallsTyped, RecorderKept, FramesKept, OfThisPress, Calls, notifierVars

(* The recorder's invariant holds initially.                               *)
LEMMA RecorderInvInit ==
  ASSUME Init
  PROVE  RecorderInv
<1>1. Calls = {} /\ calls \in Seq(Call)
  BY DEF Init, Calls
<1>2. ScalarsTyped
  <2>1. recording = FALSE /\ framesSub = FALSE
    BY DEF Init
  <2>2. state \in {"idle", "transmitting"} /\ subs \in Int /\ presses \in Nat
    BY DEF Init
  <2> QED BY <2>1, <2>2 DEF ScalarsTyped
<1>3. CallsTyped
  BY <1>1 DEF CallsTyped
<1>4. RecorderKept /\ FramesKept
  BY <1>1 DEF Init, RecorderKept, FramesKept
<1> QED BY <1>2, <1>3, <1>4 DEF RecorderInv, RecorderTyped

(* What an answer to a join's request leaves alone,                        *)
LEMMA JoinLeaves ==
  ASSUME NEW j \in joins, Joins(j)
  PROVE  JoinUnchanged /\ odd \subseteq odd' /\ Resumed = {}
BY DEF Joins, TokenAnswered, Connected, ConnectFails, Muted, MuteFails, Answered

(* and what one about a peer connection leaves alone.                      *)
LEMMA SetupLeaves ==
  ASSUME (\E p \in Press : SetsUp(p)) \/ (\E x \in stops : StopsPeer(x))
  PROVE  UNCHANGED <<pressed, touches, presses, notifierVars, configured, sessionVars, mic, liveVars,
                     odd>> /\ Resumed = {}
BY DEF SetsUp, StopsPeer, SetupUnchanged, PeerCreated, ChannelCreated, PeerOffered, OfferSent, SetupFails,
       ChannelClosed, PeerClosed, PeerDisposed, StopFails

(* Every step preserves it.                                                *)
LEMMA RecorderStep ==
  ASSUME RecorderInv, [Next]_vars
  PROVE  RecorderInv'
<1> USE RecorderInvStable
<1>1. CASE UNCHANGED vars
  BY <1>1 DEF vars, notifierVars
<1>2. CASE Enter
  BY <1>2 DEF Enter, notifierVars
<1>3. CASE Leave
  BY <1>3 DEF Leave, notifierVars
<1>4. CASE LoseRoom
  BY <1>4 DEF LoseRoom, notifierVars
<1>5. CASE PressDown
  BY <1>5, PressKeeps
<1>6. CASE Release
  BY <1>6, StopKeeps DEF Release
<1>7. CASE Interrupt
  BY <1>7, StopKeeps DEF Interrupt
<1>8. CASE RecorderStarts
  BY <1>8, RecorderStartsKeeps
<1>9. CASE RecorderRefuses
  BY <1>9, RecorderRefusesKeeps
<1>10. CASE RecorderStops
  BY <1>10, RecorderStopsKeeps
<1>11. CASE \E m \in micCalls : MicDone(m) \/ MicFails(m)
  BY <1>11 DEF MicDone, MicFails, notifierVars
<1>12. CASE \E p \in Press : Resume(p)
  BY <1>12 DEF Resume, notifierVars
<1>13. CASE (\E p \in Press : SetsUp(p)) \/ (\E x \in stops : StopsPeer(x))
  BY <1>13, SetupLeaves DEF notifierVars
<1>14. CASE \E j \in joins : Joins(j)
  BY <1>14, JoinLeaves DEF JoinUnchanged, notifierVars
<1> QED
  BY <1>1, <1>2, <1>3, <1>4, <1>5, <1>6, <1>7, <1>8, <1>9, <1>10, <1>11, <1>12, <1>13, <1>14
     DEF Next

(* Once everything is answered the recorder runs if and only if the button *)
(* shows it, whatever the order of presses, releases, interruptions and    *)
(* refusals, unless the answer to an earlier stop met a later press.       *)
THEOREM RecorderObeys == Spec => []RecorderFollows
<1>1. RecorderInv => RecorderFollows
  BY DEF RecorderInv, RecorderTyped, ScalarsTyped, CallsTyped, RecorderKept, RecorderFollows, Settled, Calls
<1> QED BY <1>1, RecorderInvInit, RecorderStep, PTL DEF Spec

(* The notifier never holds two subscriptions to the frames, unless a start*)
(* was released before its answer or the above.                            *)
THEOREM FramesOnce == Spec => []OneSubscription
<1>1. RecorderInv => OneSubscription
  BY DEF RecorderInv, RecorderTyped, ScalarsTyped, CallsTyped, FramesKept, OneSubscription
<1> QED BY <1>1, RecorderInvInit, RecorderStep, PTL DEF Spec

-----------------------------------------------------------------------------
(* The session, the rooms and the fallback.                                *)

Sessions == [st : {"none", "joining", "room", "p2p", "error"}, no : Nat]
JoinTypes == [no : Nat, attempt : Nat, at : {"token", "connecting", "muting"}]
Places == {"none", "resolving", "unmuting", "muting", "creating", "channel", "offering", "sending",
           "ended"}
Tasks ==
  [at : Places, fgen : Nat, lgen : Nat, got : {"nothing", "room", "p2p", "error"}, room : Nat]
Repos == [gen : Nat, tx : {"none", "livekit", "p2p"}, fallback : BOOLEAN]
Lives == [gen : Nat, active : Nat]

(* Joins have numbers of their own; the session's is under way while it is *)
(* joining, and otherwise only if the session was left.                    *)
JoinsKept ==
  /\ \A j \in joins : j.no <= session.no /\ (j.no = session.no => session.st \in {"joining", "none"})
  /\ \A j, k \in joins : j.no = k.no => j = k
  /\ session.st = "joining" => \E j \in joins : j.no = session.no
  /\ session.st # "none" => session.no # 0

(* Every room is the session's or that of a join which mutes it, and the   *)
(* session has its room, unless that was lost early.  The convoy screen    *)
(* keeps the session.                                                      *)
RoomKept ==
  /\ \A r \in rooms : \/ session.st = "room" /\ session.no = r
                      \/ \E j \in joins : j.at = "muting" /\ j.no = r
  /\ session.st = "room" /\ "lostEarly" \notin odd => session.no \in rooms
  /\ ~inConvoy => session.st = "none"

(* Only a configured backend gives a token.                                *)
Joined ==
  /\ session \in Sessions /\ joins \subseteq JoinTypes
  /\ JoinsKept /\ RoomKept
  /\ \A j \in joins : j.at # "token" => configured

(* "Not configured" is heard from a backend that is not.                   *)
HeardRightly ==
  configured => /\ session.st # "p2p" /\ ~repo.fallback
                /\ \A p \in Press : task[p].got # "p2p"

Counted == touches \in Nat /\ presses \in Nat /\ presses <= touches

Told ==
  /\ task \in [Press -> Tasks] /\ repo \in Repos /\ live \in Lives
  /\ HeardRightly /\ Counted

SessionInv == Joined /\ Told

(* What neither joins nor leaves keeps the session.                        *)
LEMMA JoinedStable ==
  ASSUME Joined, UNCHANGED <<session, joins, rooms, inConvoy, configured>>, odd \subseteq odd'
  PROVE  Joined'
BY DEF Joined, JoinsKept, RoomKept

(* What hears nothing new keeps what was told.                             *)
LEMMA ToldStable ==
  ASSUME Told, Counted', UNCHANGED configured,
         session'.st = "p2p" /\ configured => session.st = "p2p",
         task' \in [Press -> Tasks],
         \A p \in Press : task'[p].got = "p2p" /\ configured => task[p].got = "p2p",
         repo' \in Repos, repo'.fallback /\ configured => repo.fallback, live' \in Lives
  PROVE  Told'
BY DEF Told, HeardRightly

(* A session that is built anew is joining; its join has a new number.     *)
LEMMA NewJoin ==
  ASSUME session \in Sessions, NEW js, Rebuilt(js)
  PROVE  /\ session' \in Sessions /\ session'.st = "joining" /\ session'.no = session.no + 1
         /\ session.no \in Nat
         /\ \E f \in JoinTypes : f.no = session.no + 1 /\ f.at = "token" /\ joins' = js \cup {f}
<1>1. session.no \in Nat /\ session' = [st |-> "joining", no |-> session.no + 1]
  BY DEF Rebuilt, Sessions
<1> DEFINE f == [no |-> session.no + 1, attempt |-> 1, at |-> "token"]
<1>2. f \in JoinTypes /\ f.no = session.no + 1 /\ f.at = "token" /\ joins' = js \cup {f}
  BY <1>1 DEF JoinTypes, Rebuilt
<1> HIDE DEF f
<1> QED BY <1>1, <1>2 DEF Sessions

(* It keeps the rooms of the joins that still mute theirs.                 *)
LEMMA JoinedAnew ==
  ASSUME Joined, NEW js, Rebuilt(js), js \subseteq JoinTypes,
         \A k \in js : k.no <= session.no /\ (k.at # "token" => configured),
         \A k, l \in js : k.no = l.no => k = l,
         \A r \in rooms' : \E k \in js : k.at = "muting" /\ k.no = r,
         inConvoy', UNCHANGED configured
  PROVE  Joined'
<1>1. /\ session' \in Sessions /\ session'.st = "joining" /\ session'.no = session.no + 1
      /\ session.no \in Nat
  BY NewJoin DEF Joined
<1>2. PICK f \in JoinTypes : f.no = session.no + 1 /\ f.at = "token" /\ joins' = js \cup {f}
  BY NewJoin DEF Joined
<1>3. \A k \in js : k.no \in Nat
  BY DEF JoinTypes
<1>4. JoinsKept'
  BY <1>1, <1>2, <1>3 DEF JoinsKept
<1>5. RoomKept'
  BY <1>1, <1>2 DEF RoomKept
<1> QED BY <1>1, <1>2, <1>4, <1>5 DEF Joined

(* A join goes on, with its next request or attempt: its room, if it has   *)
(* one, is entered or closed with it.                                      *)
LEMMA JoinedGoesOn ==
  ASSUME Joined, NEW j \in joins, NEW k \in JoinTypes, k.no = j.no,
         joins' = (joins \ {j}) \cup {k}, k.at # "token" => configured,
         \/ j.at # "muting" /\ rooms' = rooms
         \/ k.at = "muting" /\ rooms' = {j.no} /\ ~InRoom
         \/ rooms' = rooms \ {j.no},
         UNCHANGED <<session, inConvoy, configured>>, odd \subseteq odd'
  PROVE  Joined'
<1>1. JoinsKept'
  BY DEF Joined, JoinsKept
<1>2. session.st = "room" => session.no # j.no
  BY DEF Joined, JoinsKept
<1>3. RoomKept'
  <2>1. \A r \in rooms' : \/ session.st = "room" /\ session.no = r
                          \/ \E l \in joins' : l.at = "muting" /\ l.no = r
    BY DEF Joined, RoomKept
  <2>2. session.st = "room" /\ "lostEarly" \notin odd' => session.no \in rooms'
    BY <1>2 DEF Joined, RoomKept, InRoom
  <2> QED BY <2>1, <2>2 DEF Joined, RoomKept
<1> QED BY <1>1, <1>3 DEF Joined

(* A join ends: the session has its room from then on, or the room is      *)
(* closed.                                                                 *)
LEMMA JoinedDecided ==
  ASSUME Joined, NEW j \in joins, NEW outcome \in {"room", "p2p", "error"}, Decided(j, outcome),
         \/ j.at # "muting" /\ outcome # "room" /\ rooms' = rooms
         \/ /\ outcome = "room" /\ session = [st |-> "joining", no |-> j.no] /\ rooms' = rooms
            /\ j.no \notin rooms => "lostEarly" \in odd'
         \/ rooms' = rooms \ {j.no} /\ (session = [st |-> "joining", no |-> j.no] => outcome = "error"),
         UNCHANGED <<inConvoy, configured>>, odd \subseteq odd'
  PROVE  Joined'
<1>1. joins' = joins \ {j} /\ joins' \subseteq JoinTypes
  BY DEF Joined, Decided
<1>2. CASE session = [st |-> "joining", no |-> j.no]
  <2>1. session' = [session EXCEPT !.st = outcome]
    BY <1>2 DEF Decided
  <2>2. session' \in Sessions /\ session'.st = outcome /\ session'.no = j.no
        /\ session.st = "joining" /\ session.no = j.no
    BY <1>2, <2>1 DEF Sessions, Joined
  <2>3. JoinsKept'
    BY <1>1, <2>2 DEF Joined, JoinsKept
  <2>4. RoomKept'
    <3>1. \A r \in rooms' : \/ session'.st = "room" /\ session'.no = r
                            \/ \E l \in joins' : l.at = "muting" /\ l.no = r
      BY <1>1, <1>2, <2>2 DEF Joined, RoomKept
    <3>2. session'.st = "room" /\ "lostEarly" \notin odd' => session'.no \in rooms'
      BY <1>2, <2>2
    <3> QED BY <2>2, <3>1, <3>2 DEF Joined, RoomKept
  <2> QED BY <1>1, <2>2, <2>3, <2>4 DEF Joined
<1>3. CASE session # [st |-> "joining", no |-> j.no]
  <2>1. session' = session
    BY <1>3 DEF Decided
  <2>2. session.st = "joining" => session.no # j.no
    BY <1>3 DEF Joined, Sessions
  <2>3. JoinsKept'
    BY <1>1, <2>1, <2>2 DEF Joined, JoinsKept
  <2>4. session.st = "room" => session.no # j.no
    BY DEF Joined, JoinsKept
  <2>5. RoomKept'
    <3>1. \A r \in rooms' : \/ session.st = "room" /\ session.no = r
                            \/ \E l \in joins' : l.at = "muting" /\ l.no = r
      BY <1>1, <1>3 DEF Joined, RoomKept
    <3>2. session.st = "room" /\ "lostEarly" \notin odd' => session.no \in rooms'
      BY <1>3, <2>4 DEF Joined, RoomKept
    <3> QED BY <2>1, <3>1, <3>2 DEF Joined, RoomKept
  <2> QED BY <1>1, <2>1, <2>3, <2>5 DEF Joined
<1> QED BY <1>2, <1>3

(* An answer to a join's request lets it go on,                            *)
GoesOn(j) ==
  /\ \E k \in JoinTypes : /\ k.no = j.no /\ (k.at # "token" => configured)
                          /\ joins' = (joins \ {j}) \cup {k}
                          /\ \/ j.at # "muting" /\ rooms' = rooms /\ mic' = mic
                             \/ k.at = "muting" /\ rooms' = {j.no} /\ mic' = {} /\ ~InRoom
                             \/ Closed(j.no)
  /\ UNCHANGED <<session, task, odd>>

(* or ends it,                                                             *)
Ends(j) ==
  \E outcome \in {"room", "p2p", "error"} :
    /\ Decided(j, outcome)
    /\ outcome = "p2p" => ~configured
    /\ outcome = "room" => configured
    /\ \/ j.at # "muting" /\ outcome # "room" /\ rooms' = rooms /\ mic' = mic
       \/ /\ outcome = "room" /\ session = [st |-> "joining", no |-> j.no]
          /\ rooms' = rooms /\ mic' = mic
          /\ j.no \notin rooms => "lostEarly" \in odd'
       \/ Closed(j.no) /\ (session = [st |-> "joining", no |-> j.no] => outcome = "error")

(* or enters its room in the session's stead.                              *)
Kicks(j) ==
  /\ \E k \in JoinTypes : /\ k.no = j.no /\ k.at = "muting" /\ configured
                          /\ Rebuilt((joins \ {j}) \cup {k})
  /\ InRoom /\ rooms' = {j.no} /\ mic' = {}
  /\ odd' = odd \cup Gone /\ UNCHANGED task

LEMMA JoinCases ==
  ASSUME Joined, NEW j \in joins, Joins(j)
  PROVE  GoesOn(j) \/ Ends(j) \/ Kicks(j)
<1>1. j \in JoinTypes /\ (j.at # "token" => configured)
  BY DEF Joined
<1>2. \A a \in {"token", "connecting", "muting"} :
        /\ [j EXCEPT !.at = a] \in JoinTypes
        /\ [j EXCEPT !.at = a].no = j.no /\ [j EXCEPT !.at = a].at = a
  <2> SUFFICES ASSUME NEW a \in {"token", "connecting", "muting"}
               PROVE  /\ [j EXCEPT !.at = a] \in JoinTypes
                      /\ [j EXCEPT !.at = a].no = j.no /\ [j EXCEPT !.at = a].at = a
    OBVIOUS
  <2> QED BY <1>1 DEF JoinTypes
<1>3. /\ [j EXCEPT !.attempt = @ + 1, !.at = "token"] \in JoinTypes
      /\ [j EXCEPT !.attempt = @ + 1, !.at = "token"].no = j.no
      /\ [j EXCEPT !.attempt = @ + 1, !.at = "token"].at = "token"
  <2>1. PICK n \in Nat : n = j.attempt + 1
    BY <1>1 DEF JoinTypes
  <2> QED BY <1>1, <2>1 DEF JoinTypes
<1>4. ASSUME Retry(j), UNCHANGED odd,
             (j.at # "muting" /\ rooms' = rooms /\ mic' = mic) \/ Closed(j.no)
      PROVE  GoesOn(j) \/ Ends(j)
  <2>1. CASE j.attempt < MaxAttempts
    BY <1>3, <1>4, <2>1 DEF Retry, GoesOn
  <2>2. CASE ~(j.attempt < MaxAttempts)
    BY <1>4, <2>2 DEF Retry, Ends
  <2> QED BY <2>1, <2>2
<1>5. CASE TokenAnswered(j)
  <2>1. j.at = "token" /\ UNCHANGED <<rooms, mic, odd>>
    BY <1>5 DEF TokenAnswered, Answered
  <2>2. \/ Retry(j)
        \/ Decided(j, "p2p") /\ ~configured
        \/ Decided(j, "error")
        \/ joins' = Goes(j, "connecting") /\ configured /\ UNCHANGED <<session, task>>
    BY <1>5 DEF TokenAnswered, TokenRoute
  <2>3. CASE (Decided(j, "p2p") /\ ~configured) \/ Decided(j, "error")
    BY <2>1, <2>3 DEF Ends
  <2>4. CASE joins' = Goes(j, "connecting") /\ configured /\ UNCHANGED <<session, task>>
    BY <1>2, <2>1, <2>4 DEF Goes, GoesOn
  <2> QED BY <1>4, <2>1, <2>2, <2>3, <2>4
<1>6. CASE Connected(j)
  <2>1. j.at = "connecting" /\ configured
    BY <1>1, <1>6 DEF Connected, Answered
  <2>2. CASE InRoom
    BY <1>2, <1>6, <2>1, <2>2 DEF Connected, Goes, Kicks
  <2>3. CASE ~InRoom
    BY <1>2, <1>6, <2>1, <2>3 DEF Connected, Goes, GoesOn
  <2> QED BY <2>2, <2>3
<1>7. CASE ConnectFails(j)
  BY <1>4, <1>7 DEF ConnectFails, Answered
<1>8. CASE Muted(j)
  <2>1. j.at = "muting" /\ configured /\ Decided(j, "room")
    BY <1>1, <1>8 DEF Muted, Answered
  <2>2. CASE session = [st |-> "joining", no |-> j.no]
    BY <1>8, <2>1, <2>2 DEF Muted, Ends
  <2>3. CASE session # [st |-> "joining", no |-> j.no]
    BY <1>8, <2>1, <2>3 DEF Muted, Ends
  <2> QED BY <2>2, <2>3
<1>9. CASE MuteFails(j)
  BY <1>4, <1>9 DEF MuteFails
<1> QED BY <1>5, <1>6, <1>7, <1>8, <1>9 DEF Joins

(* The outcome is heard by those who wait for it.                          *)
LEMMA DecidedTells ==
  ASSUME SessionInv, NEW j \in joins, NEW outcome \in {"room", "p2p", "error"}, Decided(j, outcome),
         session = [st |-> "joining", no |-> j.no]
  PROVE  /\ session'.st = outcome /\ session'.no = session.no
         /\ task' \in [Press -> Tasks]
         /\ \A p \in Press :
              IF task[p].at = "resolving" /\ task[p].got = "nothing"
              THEN /\ task'[p].at = "resolving" /\ task'[p].got = outcome /\ task'[p].room = j.no
                   /\ task'[p].fgen = task[p].fgen /\ task'[p].lgen = task[p].lgen
              ELSE task'[p] = task[p]
<1>1. /\ session' = [session EXCEPT !.st = outcome]
      /\ task' = [p \in Press |-> IF task[p].at = "resolving" /\ task[p].got = "nothing"
                                  THEN [task[p] EXCEPT !.got = outcome, !.room = j.no]
                                  ELSE task[p]]
  BY DEF Decided
<1>2. task \in [Press -> Tasks] /\ j.no \in Nat
  BY DEF SessionInv, Joined, Told, JoinTypes
<1> DEFINE t(p) == [task[p] EXCEPT !.got = outcome, !.room = j.no]
<1>3. \A p \in Press : /\ t(p) \in Tasks /\ t(p).got = outcome /\ t(p).room = j.no
                       /\ t(p).at = task[p].at /\ t(p).fgen = task[p].fgen /\ t(p).lgen = task[p].lgen
  BY <1>2 DEF Tasks
<1>4. task' = [p \in Press |-> IF task[p].at = "resolving" /\ task[p].got = "nothing"
                               THEN t(p) ELSE task[p]]
  BY <1>1
<1>5. session'.st = outcome /\ session'.no = session.no
  BY <1>1
<1> HIDE DEF t
<1> QED BY <1>2, <1>3, <1>4, <1>5

(* So a step of a join preserves the session's invariant.                  *)
LEMMA JoinKeeps ==
  ASSUME SessionInv, NEW j \in joins, Joins(j)
  PROVE  SessionInv'
<1> USE DEF SessionInv
<1>1. UNCHANGED <<configured, inConvoy, touches, presses, repo, live>> /\ odd \subseteq odd'
  BY JoinLeaves DEF JoinUnchanged, liveVars
<1>2. Counted'
  BY <1>1 DEF Told, Counted
<1>3. task \in [Press -> Tasks] /\ repo \in Repos /\ live \in Lives
  BY DEF Told
<1>4. CASE GoesOn(j)
  <2>1. Joined'
    BY <1>1, <1>4, JoinedGoesOn DEF GoesOn, Closed
  <2>2. Told'
    BY <1>1, <1>2, <1>3, <1>4, ToldStable DEF GoesOn
  <2> QED BY <2>1, <2>2
<1>5. CASE Ends(j)
  <2>1. PICK outcome \in {"room", "p2p", "error"} :
          /\ Decided(j, outcome)
          /\ outcome = "p2p" => ~configured
          /\ \/ j.at # "muting" /\ outcome # "room" /\ rooms' = rooms
             \/ /\ outcome = "room" /\ session = [st |-> "joining", no |-> j.no] /\ rooms' = rooms
                /\ j.no \notin rooms => "lostEarly" \in odd'
             \/ rooms' = rooms \ {j.no}
                /\ (session = [st |-> "joining", no |-> j.no] => outcome = "error")
    BY <1>5 DEF Ends, Closed
  <2>2. Joined'
    BY <1>1, <2>1, JoinedDecided
  <2>3. CASE session = [st |-> "joining", no |-> j.no]
    <3>1. /\ session'.st = outcome /\ task' \in [Press -> Tasks]
          /\ \A p \in Press : task'[p].got \in {task[p].got, outcome}
      BY <2>1, <2>3, DecidedTells
    <3>2. Told'
      BY <1>1, <1>2, <1>3, <2>1, <3>1, ToldStable
    <3> QED BY <2>2, <3>2
  <2>4. CASE session # [st |-> "joining", no |-> j.no]
    <3>1. UNCHANGED <<session, task>>
      BY <2>1, <2>4 DEF Decided
    <3>2. Told'
      BY <1>1, <1>2, <1>3, <3>1, ToldStable
    <3> QED BY <2>2, <3>2
  <2> QED BY <2>3, <2>4
<1>6. CASE Kicks(j)
  <2>1. PICK k \in JoinTypes : /\ k.no = j.no /\ k.at = "muting" /\ configured
                               /\ Rebuilt((joins \ {j}) \cup {k})
    BY <1>6 DEF Kicks
  <2>2. PICK js : js = (joins \ {j}) \cup {k}
    OBVIOUS
  <2>3. /\ Rebuilt(js) /\ js \subseteq JoinTypes
        /\ \A l \in js : l.no <= session.no /\ (l.at # "token" => configured)
        /\ \A l, m \in js : l.no = m.no => l = m
        /\ k \in js
    BY <2>1, <2>2 DEF Joined, JoinsKept
  <2>4. \A r \in rooms' : \E l \in js : l.at = "muting" /\ l.no = r
    BY <1>6, <2>1, <2>3 DEF Kicks
  <2>5. inConvoy'
    BY <1>1, <1>6 DEF Kicks, InRoom, Joined, RoomKept
  <2>6. Joined'
    BY <1>1, <2>3, <2>4, <2>5, JoinedAnew
  <2>7. session'.st = "joining"
    BY <2>3, NewJoin DEF Joined
  <2>8. Told'
    BY <1>1, <1>2, <1>3, <1>6, <2>7, ToldStable DEF Kicks
  <2> QED BY <2>6, <2>8
<1> QED BY <1>4, <1>5, <1>6, JoinCases

(* Press p goes on to a, or has ended, and no other does.                  *)
MovesTo(p, a) ==
  /\ task' \in [Press -> Tasks]
  /\ \A q \in Press : q # p => task'[q] = task[q]
  /\ task'[p].at = a
  /\ task'[p].got \in {task[p].got, "nothing"}
  /\ IF a = "ended" THEN task'[p].fgen = 0 /\ task'[p].lgen = 0
                    ELSE task'[p].fgen = task[p].fgen /\ task'[p].lgen = task[p].lgen

LEMMA TaskGoes ==
  ASSUME NEW p \in Press, task \in [Press -> Tasks], NEW a \in Places \ {"ended"},
         task' = [task EXCEPT ![p].at = a]
  PROVE  MovesTo(p, a)
BY DEF MovesTo, Tasks

LEMMA TaskEnds ==
  ASSUME NEW p \in Press, task \in [Press -> Tasks], task' = [task EXCEPT ![p] = Ended]
  PROVE  MovesTo(p, "ended")
<1>1. Ended = [at |-> "ended", fgen |-> 0, lgen |-> 0, got |-> "nothing", room |-> 0]
  BY DEF Ended, Idle
<1>2. PICK e : e = Ended
  OBVIOUS
<1>3. e \in Tasks /\ e.at = "ended" /\ e.fgen = 0 /\ e.lgen = 0 /\ e.got = "nothing"
  BY <1>1, <1>2 DEF Tasks, Places
<1>4. task' = [task EXCEPT ![p] = e]
  BY <1>2
<1> QED BY <1>3, <1>4 DEF MovesTo

(* What a start does: with P2P after a fallback, not at all while a room   *)
(* is active, and otherwise with the session, which is tried once more if  *)
(* it failed.                                                              *)
LEMMA Starts ==
  ASSUME Told, session \in Sessions, NEW p \in Press, Start(p)
  PROVE  /\ repo' \in Repos /\ repo'.gen = repo.gen + 1 /\ repo'.fallback = repo.fallback
         /\ repo'.tx = IF repo.fallback THEN "p2p" ELSE "livekit"
         /\ live' \in Lives /\ live'.active = live.active
         /\ task' \in [Press -> Tasks] /\ \A q \in Press : q # p => task'[q] = task[q]
         /\ UNCHANGED <<micCalls, webVars>>
         /\ \/ /\ repo.fallback /\ task'[p].at = "creating" /\ task'[p].got = "nothing"
               /\ task'[p].fgen = repo.gen + 1 /\ task'[p].lgen = 0
               /\ spoilt' = spoilt \cup Beside(p) /\ UNCHANGED <<live, session, joins>>
            \/ /\ ~repo.fallback /\ live.active # 0
               /\ task'[p].at = "ended" /\ task'[p].got = "nothing"
               /\ task'[p].fgen = 0 /\ task'[p].lgen = 0
               /\ UNCHANGED <<live, session, joins, spoilt>>
            \/ /\ ~repo.fallback /\ live.active = 0 /\ live'.gen = live.gen + 1
               /\ task'[p].at = "resolving" /\ task'[p].room = session.no
               /\ task'[p].fgen = repo.gen + 1 /\ task'[p].lgen = live.gen + 1
               /\ task'[p].got = IF session.st \in {"room", "p2p"} THEN session.st ELSE "nothing"
               /\ Resolve /\ UNCHANGED spoilt
<1>1. /\ repo.gen \in Nat /\ live.gen \in Nat /\ live.active \in Nat /\ session.no \in Nat
      /\ task \in [Press -> Tasks] /\ repo \in Repos /\ live \in Lives
  BY DEF Told, Repos, Lives, Sessions
<1>2. /\ repo' \in Repos /\ repo'.gen = repo.gen + 1 /\ repo'.fallback = repo.fallback
      /\ repo'.tx = IF repo.fallback THEN "p2p" ELSE "livekit"
  <2>1. PICK x \in {"livekit", "p2p"} : x = IF repo.fallback THEN "p2p" ELSE "livekit"
    OBVIOUS
  <2>2. repo' = [repo EXCEPT !.gen = repo.gen + 1, !.tx = x]
    BY <2>1 DEF Start
  <2>3. repo.gen + 1 \in Nat
    BY <1>1
  <2> QED BY <1>1, <2>1, <2>2, <2>3 DEF Repos
<1>3. UNCHANGED <<micCalls, webVars>>
  BY DEF Start
<1> DEFINE t == [Idle EXCEPT !.fgen = repo.gen + 1]
<1>4. t = [at |-> "none", fgen |-> repo.gen + 1, lgen |-> 0, got |-> "nothing", room |-> 0]
  BY DEF Idle
<1>5. CASE repo.fallback
  <2>1. /\ task' = [task EXCEPT ![p] = [t EXCEPT !.at = "creating"]] /\ UNCHANGED <<live, session, joins>>
        /\ spoilt' = spoilt \cup Beside(p)
    BY <1>5 DEF Start
  <2> HIDE DEF t
  <2>2. PICK u : u = [t EXCEPT !.at = "creating"]
    OBVIOUS
  <2>3. u \in Tasks /\ u.at = "creating" /\ u.got = "nothing" /\ u.fgen = repo.gen + 1 /\ u.lgen = 0
    <3>1. PICK g \in Nat : g = repo.gen + 1
      BY <1>1
    <3>2. u = [at |-> "creating", fgen |-> g, lgen |-> 0, got |-> "nothing", room |-> 0]
      BY <1>4, <2>2, <3>1
    <3> QED BY <3>1, <3>2 DEF Tasks, Places
  <2>4. task' = [task EXCEPT ![p] = u]
    BY <2>1, <2>2
  <2>5. task' \in [Press -> Tasks] /\ (\A q \in Press : q # p => task'[q] = task[q]) /\ task'[p] = u
    BY <1>1, <2>3, <2>4
  <2> QED BY <1>1, <1>2, <1>3, <1>5, <2>1, <2>3, <2>5
<1>6. CASE ~repo.fallback /\ live.active # 0
  <2>1. /\ task' = [task EXCEPT ![p] = Ended] /\ UNCHANGED <<live, session, joins, spoilt>>
    BY <1>6 DEF Start, LiveStart
  <2>2. PICK u : u = Ended
    OBVIOUS
  <2>3. u \in Tasks /\ u.at = "ended" /\ u.got = "nothing" /\ u.fgen = 0 /\ u.lgen = 0
    BY <2>2 DEF Ended, Idle, Tasks, Places
  <2>4. task' = [task EXCEPT ![p] = u]
    BY <2>1, <2>2
  <2>5. task' \in [Press -> Tasks] /\ (\A q \in Press : q # p => task'[q] = task[q]) /\ task'[p] = u
    BY <1>1, <2>3, <2>4
  <2> QED BY <1>1, <1>2, <1>3, <1>6, <2>1, <2>3, <2>5
<1>7. CASE ~repo.fallback /\ live.active = 0
  <2>1. PICK g \in {"nothing", "room", "p2p"} :
          g = IF session.st \in {"room", "p2p"} THEN session.st ELSE "nothing"
    OBVIOUS
  <2>2. PICK u : u = [t EXCEPT !.at = "resolving", !.lgen = live.gen + 1, !.room = session.no, !.got = g]
    OBVIOUS
  <2>3. /\ task' = [task EXCEPT ![p] = u] /\ live' = [live EXCEPT !.gen = @ + 1] /\ Resolve
        /\ UNCHANGED spoilt
    BY <1>7, <2>1, <2>2 DEF Start, LiveStart
  <2> HIDE DEF t
  <2>4. u \in Tasks /\ u.at = "resolving" /\ u.got = g /\ u.fgen = repo.gen + 1
        /\ u.lgen = live.gen + 1 /\ u.room = session.no
    <3>1. PICK f \in Nat, l \in Nat : f = repo.gen + 1 /\ l = live.gen + 1
      BY <1>1
    <3>2. u = [at |-> "resolving", fgen |-> f, lgen |-> l, got |-> g, room |-> session.no]
      BY <1>4, <2>2, <3>1
    <3> QED BY <1>1, <3>1, <3>2 DEF Tasks, Places
  <2>5. task' \in [Press -> Tasks] /\ (\A q \in Press : q # p => task'[q] = task[q]) /\ task'[p] = u
    BY <1>1, <2>3, <2>4
  <2>6. live' \in Lives /\ live'.active = live.active /\ live'.gen = live.gen + 1
    BY <1>1, <2>3 DEF Lives
  <2> QED BY <1>1, <1>2, <1>3, <1>7, <2>1, <2>3, <2>4, <2>5, <2>6
<1> QED BY <1>5, <1>6, <1>7

(* What a failure that is reported does.                                   *)
LEMMA Reports ==
  ASSUME Told, NEW p \in Press, Reported(p)
  PROVE  /\ MovesTo(p, "ended")
         /\ repo' \in Repos /\ repo'.gen = repo.gen /\ repo'.fallback = repo.fallback
         /\ repo'.tx = "none" /\ spoilt' = spoilt \cup {p, presses}
<1>1. task \in [Press -> Tasks] /\ repo \in Repos
  BY DEF Told
<1>2. MovesTo(p, "ended")
  BY <1>1, TaskEnds DEF Reported
<1> QED BY <1>1, <1>2 DEF Reported, Repos

(* The start of a transmission preserves the session's invariant,          *)
LEMMA StartKeeps ==
  ASSUME SessionInv, NEW p \in Press, Start(p), Counted', inConvoy,
         UNCHANGED <<configured, inConvoy, rooms, odd>>
  PROVE  SessionInv'
<1> USE DEF SessionInv
<1>1. session \in Sessions
  BY DEF Joined
<1>2. /\ repo' \in Repos /\ repo'.fallback = repo.fallback /\ live' \in Lives
      /\ task' \in [Press -> Tasks] /\ \A q \in Press : task'[q].got \in {task[q].got, "nothing", session.st}
      /\ UNCHANGED <<session, joins>> \/ Resolve
  BY <1>1, Starts
<1>3. CASE UNCHANGED <<session, joins>>
  <2>1. Joined'
    BY <1>3, JoinedStable
  <2>2. Told'
    BY <1>2, <1>3, ToldStable DEF Told, HeardRightly
  <2> QED BY <2>1, <2>2
<1>4. CASE session.st = "error" /\ NewSession
  <2>1. PICK js : js = joins
    OBVIOUS
  <2>2. Rebuilt(js)
    BY <1>4, <2>1 DEF NewSession
  <2>3. \A r \in rooms' : \E k \in js : k.at = "muting" /\ k.no = r
    BY <1>4, <2>1 DEF Joined, RoomKept
  <2>4. Joined'
    BY <2>1, <2>2, <2>3, JoinedAnew DEF Joined, JoinsKept
  <2>5. session'.st = "joining"
    BY <1>1, <2>2, NewJoin
  <2>6. Told'
    BY <1>2, <2>5, ToldStable DEF Told, HeardRightly
  <2> QED BY <2>4, <2>6
<1> QED BY <1>2, <1>3, <1>4 DEF Resolve

(* and so does its end,                                                    *)
LEMMA StopKeepsSession ==
  ASSUME SessionInv, Stop \/ TransportUnchanged,
         Counted', UNCHANGED <<configured, inConvoy, rooms>>, odd \subseteq odd'
  PROVE  SessionInv'
<1> USE DEF SessionInv
<1>1. UNCHANGED <<session, joins, task>>
  BY DEF Stop, TransportUnchanged
<1>2. repo' \in Repos /\ repo'.fallback = repo.fallback
  <2>1. CASE Stop
    <3>1. PICK g \in Nat : g = repo.gen + 1
      BY DEF Told, Repos
    <3>2. repo' = [repo EXCEPT !.gen = g, !.tx = "none"]
      BY <2>1, <3>1 DEF Stop
    <3> QED BY <3>1, <3>2 DEF Told, Repos
  <2>2. CASE TransportUnchanged
    BY <2>2 DEF TransportUnchanged, Told
  <2> QED BY <2>1, <2>2
<1>3. live' \in Lives
  <2>1. live' = live \/ live' = [gen |-> live.gen + 1, active |-> 0]
    BY DEF Stop, LiveStop, liveVars, TransportUnchanged
  <2> QED BY <2>1 DEF Told, Lives
<1>4. Joined'
  BY <1>1, JoinedStable
<1>5. Told'
  BY <1>1, <1>2, <1>3, ToldStable DEF Told
<1> QED BY <1>4, <1>5

(* whatever a start does after an await,                                   *)
LEMMA MoveKeeps ==
  ASSUME SessionInv, NEW p \in Press, NEW a, MovesTo(p, a),
         repo' \in Repos, repo'.fallback = repo.fallback \/ ~configured, live' \in Lives,
         UNCHANGED <<configured, touches, presses, sessionVars>>, odd \subseteq odd'
  PROVE  SessionInv'
<1> USE DEF SessionInv
<1>1. Joined'
  BY JoinedStable DEF sessionVars
<1>2. \A q \in Press : task'[q].got \in {task[q].got, "nothing"}
  BY DEF MovesTo
<1>3. Told'
  BY <1>2, ToldStable DEF MovesTo, sessionVars, Told, Counted
<1> QED BY <1>1, <1>3

(* with what its session gave it,                                          *)
LEMMA ResumeKeeps ==
  ASSUME SessionInv, NEW p \in Press, Resume(p)
  PROVE  SessionInv'
<1> USE MoveKeeps DEF SessionInv
<1>0. /\ UNCHANGED <<configured, touches, presses, sessionVars, odd>>
      /\ task \in [Press -> Tasks] /\ repo \in Repos /\ live \in Lives
  BY DEF Resume, Told
<1>1. CASE task[p].got = "room" /\ Unmute(p) /\ UNCHANGED repo
  <2>1. live' \in Lives
    BY <1>0, <1>1 DEF Unmute, liveVars, Lives, Tasks
  <2>2. MovesTo(p, "unmuting") \/ MovesTo(p, "ended")
    BY <1>0, <1>1, TaskGoes, TaskEnds DEF Unmute, Places
  <2> QED BY <1>0, <1>1, <2>1, <2>2
<1>2. CASE task[p].got = "p2p" /\ FallBack(p) /\ UNCHANGED liveVars
  <2>1. ~configured
    BY <1>2 DEF Told, HeardRightly
  <2>2. MovesTo(p, "creating") \/ MovesTo(p, "ended")
    BY <1>0, <1>2, TaskGoes, TaskEnds DEF FallBack, Places
  <2>3. repo' \in Repos
    BY <1>0, <1>2 DEF FallBack, Repos
  <2> QED BY <1>0, <1>2, <2>1, <2>2, <2>3 DEF liveVars
<1>3. CASE task[p].got = "error" /\ Reported(p) /\ UNCHANGED liveVars
  BY <1>0, <1>3, Reports DEF liveVars
<1> QED BY <1>1, <1>2, <1>3 DEF Resume

(* an answer about the microphone,                                         *)
LEMMA MicKeeps ==
  ASSUME SessionInv, NEW m \in micCalls, MicDone(m) \/ MicFails(m)
  PROVE  SessionInv'
<1> USE MoveKeeps DEF SessionInv
<1>0. /\ UNCHANGED <<configured, touches, presses, sessionVars, live>> /\ odd \subseteq odd'
      /\ task \in [Press -> Tasks] /\ repo \in Repos /\ live \in Lives
  BY DEF MicDone, MicFails, Told
<1>1. ASSUME task' \in [Press -> Tasks], \A q \in Press : task'[q] = task[q] \/ task'[q] = Ended,
             UNCHANGED repo
      PROVE  SessionInv'
  <2>1. Ended.got = "nothing"
    BY DEF Ended, Idle
  <2>2. Joined'
    BY <1>0, JoinedStable DEF sessionVars
  <2>3. Told'
    BY <1>0, <1>1, <2>1, ToldStable DEF Told, Counted, sessionVars
  <2> QED BY <2>2, <2>3
<1>2. CASE MicDone(m) /\ m.by = "start"
  <2>1. PICK p \in Press : Unmuted(p, m)
    BY <1>2 DEF MicDone
  <2>2. MovesTo(p, "muting") \/ MovesTo(p, "ended")
    BY <1>0, <2>1, TaskGoes, TaskEnds DEF Unmuted, Places
  <2> QED BY <1>0, <1>2, <2>2 DEF MicDone
<1>3. CASE MicDone(m) /\ m.by # "start"
  <2>1. task' = [p \in Press |-> IF m.by = "again" /\ task[p].at = "muting" /\ task[p].lgen = m.gen
                                 THEN Ended ELSE task[p]]
    BY <1>3 DEF MicDone
  <2>2. Ended \in Tasks
    BY DEF Ended, Idle, Tasks, Places
  <2>3. task' \in [Press -> Tasks] /\ \A q \in Press : task'[q] = task[q] \/ task'[q] = Ended
    BY <1>0, <2>1, <2>2
  <2>4. UNCHANGED repo
    BY <1>3 DEF MicDone
  <2> QED BY <1>1, <2>3, <2>4
<1>4. CASE MicFails(m) /\ m.by = "stop"
  BY <1>0, <1>1, <1>4 DEF MicFails
<1>5. CASE MicFails(m) /\ m.by # "stop"
  <2>1. PICK p \in Press : Reported(p)
    BY <1>5 DEF MicFails
  <2> QED BY <1>0, <2>1, Reports
<1> QED BY <1>2, <1>3, <1>4, <1>5

(* or one about a peer connection.                                         *)
LEMMA PeerMoves ==
  ASSUME Told, NEW p \in Press, SetsUp(p)
  PROVE  /\ task[p].at \in {"creating", "channel", "offering", "sending"}
         /\ \/ Reported(p)
            \/ PeerCreated(p) /\ MovesTo(p, "channel") /\ UNCHANGED repo
            \/ ChannelCreated(p) /\ MovesTo(p, "offering") /\ UNCHANGED repo
            \/ PeerOffered(p) /\ MovesTo(p, "sending") /\ UNCHANGED repo
            \/ OfferSent(p) /\ MovesTo(p, "ended") /\ UNCHANGED repo
BY TaskGoes, TaskEnds
   DEF Told, Places, SetsUp, SettingUp, PeerCreated, ChannelCreated, PeerOffered, OfferSent, SetupFails

LEMMA PeerKeeps ==
  ASSUME SessionInv, (\E p \in Press : SetsUp(p)) \/ (\E x \in stops : StopsPeer(x))
  PROVE  SessionInv'
<1> USE DEF SessionInv
<1>1. UNCHANGED <<configured, touches, presses, sessionVars, live, odd>>
  BY SetupLeaves DEF liveVars
<1>2. repo \in Repos /\ live \in Lives
  BY DEF Told
<1>3. CASE \E p \in Press : SetsUp(p)
  <2>1. PICK p \in Press : SetsUp(p)
    BY <1>3
  <2>2. \/ Reported(p)
        \/ (\E a \in Places : MovesTo(p, a)) /\ UNCHANGED repo
    BY <2>1, PeerMoves DEF Places
  <2>3. CASE Reported(p)
    BY <1>1, <1>2, <2>3, Reports, MoveKeeps
  <2>4. CASE (\E a \in Places : MovesTo(p, a)) /\ UNCHANGED repo
    BY <1>1, <1>2, <2>4, MoveKeeps
  <2> QED BY <2>2, <2>3, <2>4
<1>4. CASE \E x \in stops : StopsPeer(x)
  <2>1. UNCHANGED <<task, repo>>
    BY <1>4 DEF StopsPeer, ChannelClosed, PeerClosed, PeerDisposed, StopFails
  <2>2. Joined'
    BY <1>1, JoinedStable DEF sessionVars
  <2>3. Told'
    BY <1>1, <2>1, ToldStable DEF Told, Counted, sessionVars
  <2> QED BY <2>2, <2>3
<1> QED BY <1>3, <1>4

(* It holds initially,                                                     *)
LEMMA SessionInvInit ==
  ASSUME Init
  PROVE  SessionInv
<1>1. Idle \in Tasks /\ Idle.got = "nothing"
  BY DEF Idle, Tasks, Places
<1>2. task \in [Press -> Tasks] /\ joins = {} /\ rooms = {} /\ \A p \in Press : task[p] = Idle
  BY <1>1 DEF Init
<1>3. session \in Sessions /\ repo \in Repos /\ session.st = "none" /\ ~repo.fallback
  BY DEF Init, Sessions, Repos
<1>4. live \in Lives
  BY DEF Init, Lives
<1>5. Joined
  BY <1>2, <1>3 DEF Joined, JoinsKept, RoomKept
<1>6. Told
  BY <1>1, <1>2, <1>3, <1>4 DEF Init, Told, HeardRightly, Counted
<1> QED BY <1>5, <1>6 DEF SessionInv

(* after the convoy is left, whose session tells those who wait,           *)
LEMMA LeaveTells ==
  ASSUME Told, Leave
  PROVE  /\ task' \in [Press -> Tasks]
         /\ \A p \in Press :
              IF task[p].at = "resolving" /\ task[p].got = "nothing"
              THEN /\ task'[p].at = "resolving" /\ task'[p].got = "error"
                   /\ task'[p].fgen = task[p].fgen /\ task'[p].lgen = task[p].lgen
              ELSE task'[p] = task[p]
<1>1. task' = [p \in Press |-> IF task[p].at = "resolving" /\ task[p].got = "nothing"
                               THEN [task[p] EXCEPT !.got = "error"] ELSE task[p]]
  BY DEF Leave
<1>2. task \in [Press -> Tasks]
  BY DEF Told
<1> DEFINE t(p) == [task[p] EXCEPT !.got = "error"]
<1>3. \A p \in Press : /\ t(p) \in Tasks /\ t(p).got = "error" /\ t(p).at = task[p].at
                       /\ t(p).fgen = task[p].fgen /\ t(p).lgen = task[p].lgen
  BY <1>2 DEF Tasks
<1>4. task' = [p \in Press |-> IF task[p].at = "resolving" /\ task[p].got = "nothing"
                               THEN t(p) ELSE task[p]]
  BY <1>1
<1> HIDE DEF t
<1> QED BY <1>2, <1>3, <1>4

LEMMA LeaveKeeps ==
  ASSUME SessionInv, Leave
  PROVE  SessionInv'
<1> USE DEF SessionInv
<1>1. /\ session' = [session EXCEPT !.st = "none"] /\ joins' = joins /\ odd \subseteq odd'
      /\ rooms' = IF session.st = "room" THEN rooms \ {session.no} ELSE rooms
      /\ UNCHANGED <<configured, touches, presses, repo, live>>
  BY DEF Leave, Closed, liveVars
<1>2. session' \in Sessions /\ session'.st = "none" /\ session'.no = session.no
  BY <1>1 DEF Joined, Sessions
<1>3. Joined'
  BY <1>1, <1>2 DEF Joined, JoinsKept, RoomKept
<1>4. task' \in [Press -> Tasks] /\ \A p \in Press : task'[p].got \in {task[p].got, "error"}
  BY LeaveTells
<1>5. Told'
  BY <1>1, <1>2, <1>4, ToldStable DEF Told, Counted
<1> QED BY <1>3, <1>5

(* and after every other step.                                             *)
LEMMA SessionStep ==
  ASSUME SessionInv, PttAssumption, [Next]_vars
  PROVE  SessionInv'
<1> USE DEF SessionInv
<1>0. ASSUME UNCHANGED <<configured, inConvoy, session, joins, rooms, repo, live, task>>, Counted',
             odd \subseteq odd'
      PROVE  SessionInv'
  BY <1>0, JoinedStable, ToldStable DEF Told
<1>1. CASE UNCHANGED vars
  BY <1>0, <1>1 DEF vars, sessionVars, liveVars, Told, Counted
<1>2. ASSUME NewSession, session.st # "room" \/ rooms' = rooms \ {session.no}, rooms' \subseteq rooms, inConvoy',
             UNCHANGED <<configured, touches, presses, repo, live, task>>
      PROVE  SessionInv'
  <2>1. PICK js : js = joins
    OBVIOUS
  <2>2. Rebuilt(js)
    BY <1>2, <2>1 DEF NewSession
  <2>3. \A r \in rooms' : \E k \in js : k.at = "muting" /\ k.no = r
    BY <1>2, <2>1 DEF Joined, RoomKept
  <2>4. Joined'
    BY <1>2, <2>1, <2>2, <2>3, JoinedAnew DEF Joined, JoinsKept
  <2>5. session'.st = "joining"
    BY <2>2, NewJoin DEF Joined
  <2>6. Told'
    BY <1>2, <2>5, ToldStable DEF Told, Counted
  <2> QED BY <2>4, <2>6
<1>3. CASE Enter
  BY <1>2, <1>3 DEF Enter, Joined, RoomKept, liveVars
<1>4. CASE Leave
  BY <1>4, LeaveKeeps
<1>5. CASE LoseRoom
  <2>1. PICK r \in rooms : /\ rooms' = rooms \ {r}
                           /\ IF session = [st |-> "room", no |-> r] THEN NewSession
                              ELSE UNCHANGED <<session, joins>>
    BY <1>5 DEF LoseRoom, Closed
  <2>2. UNCHANGED <<configured, inConvoy, touches, presses, repo, live, task>> /\ odd \subseteq odd'
    BY <1>5 DEF LoseRoom, liveVars
  <2>3. CASE session = [st |-> "room", no |-> r]
    BY <1>2, <2>1, <2>2, <2>3 DEF Joined, RoomKept
  <2>4. CASE session # [st |-> "room", no |-> r]
    <3>1. session.st = "room" => session.no # r
      BY <2>4 DEF Joined, Sessions
    <3>2. Joined'
      BY <2>1, <2>2, <2>4, <3>1 DEF Joined, JoinsKept, RoomKept
    <3>3. Told'
      BY <2>1, <2>2, <2>4, ToldStable DEF Told, Counted
    <3> QED BY <3>2, <3>3
  <2> QED BY <2>3, <2>4
<1>6. CASE PressDown
  <2>1. UNCHANGED <<configured, inConvoy, rooms, odd>> /\ inConvoy
    BY <1>6 DEF PressDown
  <2>2. CASE state = "transmitting"
    <3>1. TransportUnchanged /\ Counted'
      BY <1>6, <2>2 DEF PressDown, Told, Counted
    <3> QED BY <2>1, <3>1, StopKeepsSession
  <2>3. CASE state # "transmitting"
    <3>1. Start(presses') /\ Counted' /\ presses' \in Press
      BY <1>6, <2>3 DEF PressDown, Told, Counted, Press, PttAssumption
    <3> QED BY <2>1, <3>1, StartKeeps
  <2> QED BY <2>2, <2>3
<1>7. CASE Release \/ Interrupt \/ RecorderStarts
  BY <1>0, <1>7 DEF Release, Interrupt, RecorderStarts, sessionVars, liveVars, Told, Counted
<1>8. CASE RecorderRefuses \/ RecorderStops
  BY <1>8, StopKeepsSession DEF RecorderRefuses, RecorderStops, BecomesIdle, Told, Counted
<1>9. CASE \E m \in micCalls : MicDone(m) \/ MicFails(m)
  BY <1>9, MicKeeps
<1>10. CASE \E p \in Press : Resume(p)
  BY <1>10, ResumeKeeps
<1>11. CASE (\E p \in Press : SetsUp(p)) \/ (\E x \in stops : StopsPeer(x))
  BY <1>11, PeerKeeps
<1>12. CASE \E j \in joins : Joins(j)
  BY <1>12, JoinKeeps
<1> QED
  BY <1>1, <1>3, <1>4, <1>5, <1>6, <1>7, <1>8, <1>9, <1>10, <1>11, <1>12 DEF Next

(* Every room this device is connected to is the session's or is being     *)
(* muted by a join that will close it, or hand it over, at its end; and the*)
(* session's room is one of them, unless it was lost before its join was   *)
(* over: also when a join that was disposed of connects late and the server*)
(* ends the session's connection in its favour.                            *)
THEOREM RoomsClosed == Spec => []NoStrayRoom
<1>1. SessionInv => NoStrayRoom
  BY DEF SessionInv, Joined, RoomKept, NoStrayRoom
<1> QED BY <1>1, PttAssumption, SessionInvInit, SessionStep, PTL DEF Spec

(* Only the answer of a backend without LiveKit makes a device fall back   *)
(* for good, however late a start hears of its session.                    *)
THEOREM FallbackJustified == Spec => []FallbackOnlyUnconfigured
<1>1. SessionInv => FallbackOnlyUnconfigured
  BY DEF SessionInv, Told, HeardRightly, FallbackOnlyUnconfigured
<1> QED BY <1>1, PttAssumption, SessionInvInit, SessionStep, PTL DEF Spec

-----------------------------------------------------------------------------
(* Who is heard: sessions, presses, microphone calls and peer connections. *)

(* Who waits for the session waits for the present one, and what it was    *)
(* told is what the session is; after the fallback nobody waits for LiveKit.*)
Waits ==
  /\ inConvoy => session.st # "none"
  /\ \A p \in Press : task[p].at = "resolving" =>
       /\ task[p].got = "nothing" => session.st = "joining"
       /\ task[p].got = "room" => session.st = "room" /\ task[p].room = session.no
       /\ task[p].got = "p2p" => session.st = "p2p"
       /\ task[p].got = "error" => session.st \in {"none", "error"}
       /\ repo.fallback => task[p].got = "p2p"

Active(p) == task[p].at \notin {"none", "ended"}

(* The start of the press that transmits has the present generation, and   *)
(* no other one under way has, unless the convoy was left meanwhile.       *)
InOrder ==
  /\ \A p \in Press : /\ task[p].fgen <= repo.gen /\ task[p].lgen <= live.gen
                      /\ p > presses => task[p] = Idle
  /\ state = "transmitting" => presses \in Press /\ (Active(presses) => task[presses].fgen = repo.gen)
  /\ "roomGone" \notin odd =>
       /\ state = "transmitting" => inConvoy
       /\ \A p \in Press : Active(p) /\ task[p].fgen = repo.gen => p = presses /\ state = "transmitting"

(* LiveKit is used where it is configured, P2P after the fallback only.    *)
Sides ==
  /\ session.st = "room" \/ live.active # 0 \/ micCalls # {} => configured
  /\ \A p \in Press : task[p].at \in {"unmuting", "muting"} => configured
  /\ open # {} \/ stops # {} \/ SettingUp # {} \/ web.pc # 0 \/ web.dc # 0 => repo.fallback

(* A call that switches the microphone on for the present generation is    *)
(* about the active room.  At most one start of the present generation     *)
(* waits, and while it does no room is active.                             *)
MicOwned ==
  /\ \A m \in micCalls : /\ m.gen <= live.gen /\ (m.on <=> m.by = "start")
                         /\ m.on /\ m.gen = live.gen => live.active = m.room
  /\ \A p \in Press : task[p].at = "resolving" /\ task[p].lgen = live.gen =>
       /\ live.active = 0
       /\ \A q \in Press : task[q].at = "resolving" /\ task[q].lgen = live.gen => q = p

(* The room of a join that is not over is neither active nor heard nor     *)
(* talked about, and all that is belongs to a session there has been.      *)
Silent ==
  /\ live.active <= session.no
  /\ \A m \in micCalls : m.room <= session.no
  /\ \A j \in joins : /\ j.no \notin mic /\ live.active # j.no
                      /\ \A m \in micCalls : m.room # j.no

(* Unless a microphone call failed: a room is active, or a start waits for *)
(* one, only while its press transmits, and a microphone that is on is the *)
(* active room's or is about to be muted.                                  *)
MuteKept ==
  "micFailed" \notin odd =>
    /\ live.active \in rooms => state = "transmitting" /\ repo.tx = "livekit"
    /\ \A p \in Press :
         task[p].at = "resolving" /\ task[p].lgen = live.gen /\ task[p].got \in {"nothing", "room"}
           => state = "transmitting" /\ repo.tx = "livekit"
    /\ \A r \in mic : live.active = r \/ \E m \in micCalls : ~m.on /\ m.room = r

(* The present press transmits over P2P, and nothing is being stopped.     *)
Present(p) == p = presses /\ state = "transmitting" /\ repo.tx = "p2p" /\ stops = {}

(* Unless the convoy was left: the setup of an unspoilt press is the only  *)
(* one and the present press's; an unspoilt press's open peer connection   *)
(* is the one that the repository knows, and the present press's or about  *)
(* to be closed.                                                           *)
SetupKept ==
  \A p \in SettingUp \ spoilt :
    /\ Present(p) /\ SettingUp = {p}
    /\ task[p].at = "creating" => open \subseteq spoilt
    /\ task[p].at # "creating" => p \in open
    /\ task[p].at \in {"offering", "sending"} => web.dc = p
    /\ \A q \in Press : task[q].at # "resolving"

OpenKept ==
  \A p \in open \ spoilt :
    /\ web.pc = p /\ SettingUp \subseteq {p}
    /\ Present(p) \/ stops # {}
    /\ \A x \in stops : x.at = "channel" \/ (x.at = "peer" /\ x.pc = p)
    /\ \A q \in Press : task[q].at # "resolving"

PeerKept == "roomGone" \notin odd => SetupKept /\ OpenKept

HeldExcused == odd \cap {"micFailed", "roomGone", "lateMute", "lostEarly"} # {}

(* The press that transmits is heard or on its way to be.                  *)
Heard ==
  \/ task[presses].at = "resolving" /\ task[presses].lgen = live.gen
  \/ task[presses].at = "unmuting" /\ task[presses].lgen = live.gen /\ live.active # 0
  \/ session.no \in mic
  \/ presses \in SettingUp
  \/ web.dc = presses /\ presses \in open /\ Present(presses)

(* Unless a microphone call failed or came late, a room was lost early or  *)
(* the convoy left: an active room is the session's, earlier presses have  *)
(* earlier generations, and the press that transmits is heard or on its    *)
(* way to be, unless it is spoilt.                                         *)
HeldKept ==
  ~HeldExcused =>
    /\ live.active # 0 => /\ state = "transmitting" /\ repo.tx = "livekit"
                          /\ live.active = session.no /\ session.st = "room"
    /\ \A p \in Press : p < presses /\ task[p].at \in {"resolving", "unmuting", "muting"}
                          => task[p].lgen < live.gen
    /\ state = "transmitting" /\ configured => \A m \in micCalls : ~m.on => m.gen < live.gen
    /\ state = "transmitting" /\ presses \notin spoilt => Heard

AirKept ==
  Waits /\ InOrder /\ Sides /\ MicOwned /\ Silent /\ MuteKept /\ PeerKept /\ HeldKept
AirInv == SessionInv /\ TypeOK /\ AirKept

(* What leaves sessions, presses and transports alone.                     *)
LEMMA AirStable ==
  ASSUME AirKept, odd \subseteq odd',
         UNCHANGED <<presses, state, configured, inConvoy, session, joins, rooms, mic, micCalls,
                     live, repo, web, open, stops, task, spoilt>>
  PROVE  AirKept'
<1> USE DEF AirKept
<1>1. Waits' /\ Sides' /\ MicOwned' /\ Silent'
  BY DEF Waits, Sides, SettingUp, MicOwned, Silent
<1>2. InOrder'
  BY DEF InOrder, Active
<1>3. MuteKept' /\ PeerKept'
  BY DEF MuteKept, PeerKept, SetupKept, OpenKept, SettingUp, Present
<1>4. HeldKept'
  BY DEF HeldKept, HeldExcused, Heard, SettingUp, Present
<1> QED BY <1>1, <1>2, <1>3, <1>4

(* Only the session's room hears the microphone.                           *)
LEMMA OneHears ==
  ASSUME AirInv
  PROVE  /\ \A r \in mic : r \in rooms /\ session.st = "room" /\ session.no = r
         /\ 0 \notin rooms /\ 0 \notin mic
<1>1. 0 \notin rooms /\ mic \subseteq rooms
  BY DEF AirInv, TypeOK, Join
<1>2. \A r \in rooms : \/ session.st = "room" /\ session.no = r
                       \/ \E j \in joins : j.at = "muting" /\ j.no = r
  BY DEF AirInv, SessionInv, Joined, RoomKept
<1> QED BY <1>1, <1>2 DEF AirInv, AirKept, Silent

(* After the fallback nothing concerns LiveKit.                            *)
LEMMA FallbackOnly ==
  ASSUME AirInv, repo.fallback
  PROVE  /\ ~configured /\ live.active = 0 /\ micCalls = {} /\ mic = {} /\ session.st # "room"
         /\ \A p \in Press : /\ task[p].at \notin {"unmuting", "muting"}
                             /\ task[p].at = "resolving" => task[p].got = "p2p"
<1>1. ~configured
  BY DEF AirInv, SessionInv, Told, HeardRightly
<1>2. live.active = 0 /\ micCalls = {} /\ session.st # "room"
      /\ \A p \in Press : task[p].at \notin {"unmuting", "muting"}
  BY <1>1 DEF AirInv, AirKept, Sides
<1>3. mic = {}
  BY <1>2, OneHears
<1>4. \A p \in Press : task[p].at = "resolving" => task[p].got = "p2p"
  BY DEF AirInv, AirKept, Waits
<1> QED BY <1>1, <1>2, <1>3, <1>4

(* Who waits before an event has been told nothing, and a join is under    *)
(* way.                                                                    *)
LEMMA NobodyTold ==
  ASSUME AirInv, Resumed = {}
  PROVE  \A p \in Press : task[p].at = "resolving" =>
           task[p].got = "nothing" /\ session.st = "joining" /\ ~repo.fallback
<1> SUFFICES ASSUME NEW p \in Press, task[p].at = "resolving"
             PROVE  task[p].got = "nothing" /\ session.st = "joining" /\ ~repo.fallback
  OBVIOUS
<1>1. task[p].got = "nothing"
  BY DEF Resumed
<1>2. Waits
  BY DEF AirInv, AirKept
<1> QED BY <1>1, <1>2 DEF Waits

(* A new session concerns nobody who waits: there is no one.               *)
LEMMA AirNewSession ==
  ASSUME AirInv, NEW js, Rebuilt(js), \A k \in js : \E j \in joins : k.no = j.no,
         mic' = {}, live.active \in rooms' => live.active \in rooms, Resumed = {},
         session.st # "joining", odd \subseteq odd',
         state = "transmitting" => "roomGone" \in odd',
         UNCHANGED <<presses, state, configured, micCalls, live, repo, web, open, stops, task, spoilt>>,
         inConvoy'
  PROVE  AirKept'
<1>0. \A p \in Press : task[p].at # "resolving"
  BY NobodyTold
<1> USE DEF AirInv, AirKept
<1>1. session'.st = "joining" /\ session'.no = session.no + 1 /\ session.no \in Nat
      /\ live.active \in Nat
  BY NewJoin DEF SessionInv, Joined, Told, Lives
<1>2. PICK f \in JoinTypes : f.no = session.no + 1 /\ joins' = js \cup {f}
  BY NewJoin DEF SessionInv, Joined
<1>3. Waits'
  BY <1>0, <1>1 DEF Waits
<1>4. InOrder'
  BY DEF InOrder, Active
<1>5. Sides'
  BY <1>1 DEF Sides, SettingUp
<1>6. MicOwned'
  BY DEF MicOwned
<1>7. Silent'
  <2>1. \A m \in micCalls : m.room \in Nat /\ m.room <= session.no
    BY DEF TypeOK, Join, Silent
  <2>2. live.active <= session.no
    BY DEF Silent
  <2>3. live.active < session'.no /\ \A m \in micCalls : m.room < session'.no
    BY <1>1, <2>1, <2>2
  <2>4. \A k \in joins' : k.no = session'.no \/ \E j \in joins : k.no = j.no
    BY <1>1, <1>2
  <2>5. live.active <= session'.no /\ \A m \in micCalls : m.room <= session'.no
    BY <1>1, <2>1, <2>3
  <2>6. ASSUME NEW k \in joins'
        PROVE  live.active # k.no /\ \A m \in micCalls : m.room # k.no
    <3>1. CASE k.no = session'.no
      BY <1>1, <2>1, <2>3, <3>1
    <3>2. CASE \E j \in joins : k.no = j.no
      BY <3>2 DEF Silent
    <3> QED BY <2>4, <3>1, <3>2
  <2> QED BY <2>5, <2>6 DEF Silent
<1>8. MuteKept'
  BY <1>0 DEF MuteKept
<1>9. PeerKept'
  BY DEF PeerKept, SetupKept, OpenKept, SettingUp, Present
<1>10. HeldKept'
  BY <1>0, <1>1 DEF HeldKept, HeldExcused, TypeOK
<1> QED BY <1>3, <1>4, <1>5, <1>6, <1>7, <1>8, <1>9, <1>10

(* A join goes on: nobody hears anything else.                             *)
LEMMA AirGoesOn ==
  ASSUME AirInv, NEW j \in joins, Joins(j), GoesOn(j)
  PROVE  AirKept'
<1> USE DEF AirInv, AirKept
<1>0. UNCHANGED <<presses, state, configured, inConvoy, micCalls, live, repo, web, open, stops, spoilt,
                  session, task, odd>>
  BY JoinLeaves DEF GoesOn, JoinUnchanged, liveVars, webVars, notifierVars
<1>1. \A k \in joins' : \E l \in joins : k.no = l.no
  BY DEF GoesOn
<1>2. mic' = mic
  <2>1. j.no \notin mic
    BY DEF Silent
  <2>2. ~InRoom => mic = {}
    BY OneHears DEF InRoom
  <2> QED BY <2>1, <2>2 DEF GoesOn, Closed
<1>3. live.active \in rooms' => live.active \in rooms
  BY DEF GoesOn, Closed, Silent
<1>4. Waits' /\ Sides' /\ MicOwned'
  BY <1>0 DEF Waits, Sides, SettingUp, MicOwned
<1>5. InOrder'
  BY <1>0 DEF InOrder, Active
<1>6. Silent'
  BY <1>0, <1>1, <1>2 DEF Silent
<1>7. MuteKept'
  BY <1>0, <1>2, <1>3 DEF MuteKept
<1>8. PeerKept'
  BY <1>0 DEF PeerKept, SetupKept, OpenKept, SettingUp, Present
<1>9. HeldKept'
  BY <1>0, <1>2 DEF HeldKept, HeldExcused, Heard, SettingUp, Present
<1> QED BY <1>4, <1>5, <1>6, <1>7, <1>8, <1>9

(* A join that ends tells those who wait.                                  *)
LEMMA AirEnds ==
  ASSUME AirInv, NEW j \in joins, Joins(j), Ends(j)
  PROVE  AirKept'
<1> USE DEF AirInv, AirKept
<1>0. UNCHANGED <<presses, state, configured, inConvoy, micCalls, live, repo, web, open, stops, spoilt>>
      /\ odd \subseteq odd' /\ Resumed = {}
  BY JoinLeaves DEF JoinUnchanged, liveVars, webVars, notifierVars
<1>1. PICK outcome \in {"room", "p2p", "error"} :
        /\ Decided(j, outcome)
        /\ outcome = "p2p" => ~configured
        /\ outcome = "room" => configured
  BY DEF Ends
<1>2. joins' \subseteq joins /\ j \notin joins' /\ rooms' \subseteq rooms
  BY <1>1 DEF Decided, Ends, Closed
<1>3. mic' = mic
  <2>1. j.no \notin mic
    BY DEF Silent
  <2> QED BY <2>1 DEF Ends, Closed
<1>4. CASE session # [st |-> "joining", no |-> j.no]
  <2>1. UNCHANGED <<session, task>>
    BY <1>1, <1>4 DEF Decided
  <2>2. Waits' /\ Sides' /\ MicOwned'
    BY <1>0, <2>1 DEF Waits, Sides, SettingUp, MicOwned
  <2>3. InOrder'
    BY <1>0, <2>1 DEF InOrder, Active
  <2>4. Silent'
    BY <1>0, <1>2, <1>3, <2>1 DEF Silent
  <2>5. MuteKept'
    BY <1>0, <1>2, <1>3, <2>1 DEF MuteKept
  <2>6. PeerKept'
    BY <1>0, <2>1 DEF PeerKept, SetupKept, OpenKept, SettingUp, Present
  <2>7. HeldKept'
    BY <1>0, <1>3, <2>1 DEF HeldKept, HeldExcused, Heard, SettingUp, Present
  <2> QED BY <2>2, <2>3, <2>4, <2>5, <2>6, <2>7
<1>5. CASE session = [st |-> "joining", no |-> j.no]
  <2>1. session'.st = outcome /\ session'.no = session.no /\ session.st = "joining"
        /\ session.no = j.no
    BY <1>1, <1>5, DecidedTells
  <2>2. mic = {}
    BY <2>1, OneHears
  <2>3. \A p \in Press : task[p].at = "resolving" => task[p].got = "nothing" /\ ~repo.fallback
    BY <1>0, NobodyTold
  <2>4. \A p \in Press :
          IF task[p].at = "resolving"
          THEN /\ task'[p].at = "resolving" /\ task'[p].got = outcome /\ task'[p].room = session.no
               /\ task'[p].fgen = task[p].fgen /\ task'[p].lgen = task[p].lgen
          ELSE task'[p] = task[p]
    BY <1>1, <1>5, <2>1, <2>3, DecidedTells
  <2>5. \A p \in Press : /\ task'[p].at = task[p].at
                         /\ task'[p].fgen = task[p].fgen /\ task'[p].lgen = task[p].lgen
    BY <2>4
  <2>6. SettingUp' = SettingUp
    BY <2>5 DEF SettingUp
  <2>7. Waits'
    BY <1>0, <2>1, <2>3, <2>4 DEF Waits
  <2>8. InOrder'
    <3>1. \A p \in Press : p > presses => task'[p] = Idle
      BY <2>4 DEF InOrder, Idle
    <3> QED BY <1>0, <2>5, <3>1 DEF InOrder, Active
  <2>9. Sides'
    BY <1>0, <1>1, <2>1, <2>5, <2>6 DEF Sides
  <2>10. MicOwned'
    BY <1>0, <2>5 DEF MicOwned
  <2>11. Silent'
    BY <1>0, <1>2, <1>3, <2>1 DEF Silent
  <2>12. MuteKept'
    BY <1>0, <1>2, <1>3, <2>2, <2>3, <2>5 DEF MuteKept
  <2>13. PeerKept'
    <3> SUFFICES ASSUME "roomGone" \notin odd PROVE PeerKept'
      BY <1>0 DEF PeerKept
    <3>1. SetupKept'
      <4>1. ASSUME NEW q \in SettingUp \ spoilt
            PROVE  /\ Present(q)' /\ SettingUp' = {q}
                   /\ task'[q].at = "creating" => open' \subseteq spoilt'
                   /\ task'[q].at # "creating" => q \in open'
                   /\ task'[q].at \in {"offering", "sending"} => web'.dc = q
                   /\ \A r \in Press : task'[r].at # "resolving"
        <5>1. q \in Press
          BY DEF SettingUp
        <5>2. SetupKept
          BY DEF PeerKept
        <5> QED BY <1>0, <2>5, <2>6, <5>1, <5>2 DEF SetupKept, Present
      <4> QED BY <1>0, <2>6, <4>1 DEF SetupKept
    <3>2. OpenKept'
      BY <1>0, <2>5, <2>6 DEF PeerKept, OpenKept, Present
    <3> QED BY <3>1, <3>2 DEF PeerKept
  <2>14. HeldKept'
    <3> SUFFICES ASSUME ~HeldExcused PROVE HeldKept'
      BY <1>0 DEF HeldKept, HeldExcused
    <3>1. live.active = 0
      BY <2>1 DEF HeldKept
    <3>2. \A p \in Press : p < presses /\ task'[p].at \in {"resolving", "unmuting", "muting"}
                             => task'[p].lgen < live.gen
      BY <2>5 DEF HeldKept
    <3>3. state = "transmitting" /\ presses \notin spoilt => Heard'
      BY <1>0, <2>1, <2>2, <2>5, <2>6, <3>1 DEF HeldKept, Heard, InOrder, Present
    <3> QED BY <1>0, <3>1, <3>2, <3>3 DEF HeldKept
  <2> QED BY <2>7, <2>8, <2>9, <2>10, <2>11, <2>12, <2>13, <2>14
<1> QED BY <1>4, <1>5

(* Whatever the answer, a join keeps the air.                              *)
LEMMA AirJoins ==
  ASSUME AirInv, NEW j \in joins, Joins(j)
  PROVE  AirKept'
<1>1. CASE Kicks(j)
  <2>1. PICK k \in JoinTypes : k.no = j.no /\ Rebuilt((joins \ {j}) \cup {k})
    BY <1>1 DEF Kicks
  <2>2. PICK js : js = (joins \ {j}) \cup {k}
    OBVIOUS
  <2>3. Rebuilt(js) /\ \A l \in js : \E i \in joins : l.no = i.no
    BY <2>1, <2>2
  <2>4. UNCHANGED <<presses, state, configured, inConvoy, micCalls, live, repo, web, open, stops, spoilt>>
        /\ odd \subseteq odd' /\ Resumed = {}
    BY JoinLeaves DEF JoinUnchanged, liveVars, webVars, notifierVars
  <2>5. mic' = {} /\ (live.active \in rooms' => live.active \in rooms) /\ UNCHANGED task
    BY <1>1 DEF Kicks, AirInv, AirKept, Silent
  <2>6. session.st # "joining" /\ (state = "transmitting" => "roomGone" \in odd')
    BY <1>1 DEF Kicks, InRoom, Gone
  <2>7. inConvoy'
    BY <1>1, <2>4 DEF Kicks, InRoom, AirInv, SessionInv, Joined, RoomKept
  <2> QED BY <2>3, <2>4, <2>5, <2>6, <2>7, AirNewSession
<1> QED BY <1>1, AirGoesOn, AirEnds, JoinCases DEF AirInv, SessionInv

(* Who leaves tells those who wait that the session is gone.               *)
LEMMA AirLeave ==
  ASSUME AirInv, Leave
  PROVE  AirKept'
<1> USE DEF AirInv, AirKept
<1>0. UNCHANGED <<presses, state, configured, micCalls, live, repo, web, open, stops, spoilt, joins>>
      /\ Resumed = {}
  BY DEF Leave, liveVars, webVars, notifierVars
<1>1. /\ ~inConvoy' /\ session'.st = "none" /\ session'.no = session.no
      /\ rooms' \subseteq rooms /\ mic' = {}
  <2>1. session.st # "room" => mic = {}
    BY OneHears
  <2>2. session.st = "room" => mic \subseteq {session.no}
    BY OneHears
  <2> QED BY <2>1, <2>2 DEF Leave, Closed, SessionInv, Joined, Sessions
<1>2. /\ odd \subseteq odd'
      /\ "roomGone" \notin odd' => state = "idle"
  BY DEF Leave, Gone, TypeOK
<1>3. \A p \in Press : task[p].at = "resolving" => task[p].got = "nothing" /\ ~repo.fallback
  BY <1>0, NobodyTold
<1>4. \A p \in Press :
        /\ task'[p].at = task[p].at /\ task'[p].fgen = task[p].fgen /\ task'[p].lgen = task[p].lgen
        /\ task[p].at # "resolving" => task'[p] = task[p]
        /\ task[p].at = "resolving" => task'[p].got = "error"
  BY <1>3, LeaveTells DEF SessionInv
<1>5. SettingUp' = SettingUp
  BY <1>4 DEF SettingUp
<1>6. Waits'
  BY <1>0, <1>1, <1>3, <1>4 DEF Waits
<1>7. InOrder'
  <2>1. \A p \in Press : p > presses => task'[p] = Idle
    BY <1>4 DEF InOrder, Idle
  <2> QED BY <1>0, <1>2, <1>4, <2>1 DEF InOrder, Active
<1>8. Sides'
  BY <1>0, <1>1, <1>4, <1>5 DEF Sides
<1>9. MicOwned' /\ Silent'
  BY <1>0, <1>1, <1>4 DEF MicOwned, Silent
<1>10. MuteKept'
  BY <1>0, <1>1, <1>2, <1>4 DEF MuteKept
<1>11. PeerKept'
  BY <1>0, <1>2, <1>4, <1>5 DEF PeerKept, SetupKept, OpenKept, Present
<1>12. HeldKept'
  BY <1>0, <1>1, <1>2, <1>4 DEF HeldKept, HeldExcused
<1> QED BY <1>6, <1>7, <1>8, <1>9, <1>10, <1>11, <1>12

(* A room is lost: the session's, and it is joined anew, or another one,   *)
(* which nobody heard.                                                     *)
LEMMA AirLoseRoom ==
  ASSUME AirInv, LoseRoom
  PROVE  AirKept'
<1> USE DEF AirInv, AirKept
<1>0. UNCHANGED <<presses, state, configured, inConvoy, micCalls, live, repo, web, open, stops, spoilt, task>>
      /\ Resumed = {}
  BY DEF LoseRoom, liveVars, webVars, notifierVars
<1>1. PICK r \in rooms : /\ rooms' = rooms \ {r} /\ mic' = mic \ {r}
                         /\ IF session = [st |-> "room", no |-> r]
                            THEN NewSession /\ odd' = odd \cup Gone
                            ELSE UNCHANGED <<session, joins, odd>>
  BY DEF LoseRoom, Closed
<1>2. CASE session = [st |-> "room", no |-> r]
  <2>1. PICK js : js = joins
    OBVIOUS
  <2>2. Rebuilt(js) /\ (\A k \in js : \E j \in joins : k.no = j.no)
    BY <1>1, <1>2, <2>1 DEF NewSession
  <2>3. mic' = {} /\ session.st # "joining"
    BY <1>1, <1>2, OneHears
  <2>4. inConvoy'
    BY <1>0, <1>2 DEF SessionInv, Joined, RoomKept
  <2>5. odd \subseteq odd' /\ (state = "transmitting" => "roomGone" \in odd')
    BY <1>1, <1>2 DEF Gone
  <2> QED BY <1>0, <1>1, <2>2, <2>3, <2>4, <2>5, AirNewSession
<1>3. CASE session # [st |-> "room", no |-> r]
  <2>1. r \notin mic
    <3>1. session.st = "room" => session.no # r
      BY <1>3 DEF SessionInv, Joined, Sessions
    <3> QED BY <3>1, OneHears
  <2>2. UNCHANGED <<session, joins, odd, mic>> /\ rooms' \subseteq rooms
    BY <1>1, <1>3, <2>1
  <2>3. Waits' /\ Sides' /\ MicOwned' /\ Silent'
    BY <1>0, <2>2 DEF Waits, Sides, SettingUp, MicOwned, Silent
  <2>4. InOrder'
    BY <1>0, <2>2 DEF InOrder, Active
  <2>5. MuteKept'
    BY <1>0, <2>2 DEF MuteKept
  <2>6. PeerKept'
    BY <1>0, <2>2 DEF PeerKept, SetupKept, OpenKept, SettingUp, Present
  <2>7. HeldKept'
    BY <1>0, <2>2 DEF HeldKept, HeldExcused, Heard, SettingUp, Present
  <2> QED BY <2>3, <2>4, <2>5, <2>6, <2>7
<1> QED BY <1>2, <1>3

(* A start that goes on after an await, or has ended, waits for the        *)
(* session no more and keeps the order.                                    *)
LEMMA AirMoves ==
  ASSUME AirInv, NEW p \in Press, NEW a \in Places \ {"none", "resolving"}, MovesTo(p, a), Active(p),
         repo'.gen = repo.gen, live'.gen = live.gen,
         repo'.fallback => \A q \in Press : q # p /\ task[q].at = "resolving" => task[q].got = "p2p",
         UNCHANGED <<presses, state, configured, inConvoy, session>>, odd \subseteq odd'
  PROVE  Waits' /\ InOrder'
<1> USE DEF AirInv, AirKept
<1>1. /\ task'[p].at = a /\ a # "none" /\ a # "resolving"
      /\ \A q \in Press : q # p => task'[q] = task[q]
  BY DEF MovesTo
<1>2. Waits'
  BY <1>1 DEF Waits
<1>3. p <= presses /\ repo.gen \in Nat /\ live.gen \in Nat /\ presses \in Nat
  BY DEF InOrder, Active, Idle, SessionInv, Told, Counted, Press, Repos, Lives
<1>4. \A q \in Press : /\ task'[q].fgen <= repo.gen /\ task'[q].lgen <= live.gen
                       /\ q > presses => task'[q] = Idle
                       /\ Active(q)' /\ task'[q].fgen = repo.gen => Active(q) /\ task[q].fgen = repo.gen
  <2> SUFFICES ASSUME NEW q \in Press
               PROVE  /\ task'[q].fgen <= repo.gen /\ task'[q].lgen <= live.gen
                      /\ q > presses => task'[q] = Idle
                      /\ Active(q)' /\ task'[q].fgen = repo.gen => Active(q) /\ task[q].fgen = repo.gen
    OBVIOUS
  <2>1. CASE q = p
    <3>1. ~(q > presses)
      BY <1>3, <2>1 DEF Press
    <3>2. \/ a = "ended" /\ task'[q].fgen = 0 /\ task'[q].lgen = 0
          \/ task'[q].fgen = task[q].fgen /\ task'[q].lgen = task[q].lgen
      BY <2>1 DEF MovesTo
    <3> QED BY <1>1, <1>3, <2>1, <3>1, <3>2 DEF InOrder, Active
  <2>2. CASE q # p
    BY <1>1, <2>2 DEF InOrder, Active
  <2> QED BY <2>1, <2>2
<1>5. state = "transmitting" => presses \in Press /\ (Active(presses)' => task'[presses].fgen = repo.gen)
  <2> SUFFICES ASSUME state = "transmitting"
               PROVE  presses \in Press /\ (Active(presses)' => task'[presses].fgen = repo.gen)
    OBVIOUS
  <2>1. presses \in Press /\ (Active(presses) => task[presses].fgen = repo.gen)
    BY DEF InOrder
  <2>2. CASE presses = p
    BY <1>1, <2>1, <2>2 DEF MovesTo, Active
  <2>3. CASE presses # p
    BY <1>1, <2>1, <2>3 DEF Active
  <2> QED BY <2>1, <2>2, <2>3
<1>6. InOrder'
  BY <1>4, <1>5 DEF InOrder
<1> QED BY <1>2, <1>6

(* A start that was given a room unmutes it.                               *)
LEMMA AirUnmute ==
  ASSUME AirInv, NEW p \in Press, Resume(p), task[p].got = "room", Unmute(p), UNCHANGED <<repo, spoilt>>
  PROVE  AirKept'
<1> USE DEF AirInv, AirKept
<1>0. UNCHANGED <<presses, state, configured, inConvoy, session, joins, rooms, mic, repo, web, open,
                  stops, spoilt, odd>>
  BY DEF Resume, sessionVars, webVars, notifierVars
<1>1. task[p].at = "resolving" /\ Active(p)
  BY DEF Resume, Resumed, Active
<1>2. /\ session.st = "room" /\ task[p].room = session.no /\ configured /\ ~repo.fallback
      /\ p <= presses /\ session.no # 0 /\ 0 \notin rooms
      /\ \A j \in joins : j.no # session.no
      /\ \A r \in mic : r = session.no
  <2>1. session.st = "room" /\ task[p].room = session.no /\ ~repo.fallback
    BY <1>1 DEF Waits
  <2>2. configured
    BY <2>1 DEF Sides
  <2>3. p <= presses
    BY <1>1 DEF InOrder, Idle, SessionInv, Told, Counted, Press
  <2>4. \A j \in joins : j.no # session.no
    BY <2>1 DEF SessionInv, Joined, JoinsKept
  <2>5. \A r \in mic : r = session.no
    BY OneHears
  <2>6. 0 \notin rooms
    BY OneHears
  <2>7. session.no # 0
    BY <2>1 DEF SessionInv, Joined, JoinsKept
  <2> QED BY <2>1, <2>2, <2>3, <2>4, <2>5, <2>6, <2>7
<1>3. live \in Lives /\ task \in [Press -> Tasks]
  BY DEF SessionInv, Told
<1>4. CASE task[p].lgen = live.gen
  <2>1. /\ live' = [live EXCEPT !.active = session.no]
        /\ micCalls' = micCalls \cup {MicCall(session.no, TRUE, "start", live.gen)}
        /\ task' = [task EXCEPT ![p].at = "unmuting"]
    BY <1>2, <1>4 DEF Unmute
  <2>2. /\ live'.gen = live.gen /\ live'.active = session.no
    BY <1>3, <2>1 DEF Lives
  <2>3. MovesTo(p, "unmuting")
    BY <1>3, <2>1, TaskGoes DEF Places
  <2>4. /\ task'[p].at = "unmuting" /\ task'[p].lgen = live.gen
        /\ \A q \in Press : q # p => task'[q] = task[q]
    BY <1>4, <2>3 DEF MovesTo
  <2>5. \A m \in micCalls' :
          \/ m \in micCalls /\ ~(m.on /\ m.gen = live.gen)
          \/ m.on /\ m.by = "start" /\ m.gen = live.gen /\ m.room = session.no
    <3>1. \A m \in micCalls : ~(m.on /\ m.gen = live.gen)
      BY <1>1, <1>4 DEF MicOwned, TypeOK, Join
    <3> QED BY <2>1, <3>1 DEF MicCall
  <2>6. SettingUp' = SettingUp
    BY <1>1, <2>4 DEF SettingUp
  <2>7. Waits' /\ InOrder'
    BY <1>0, <1>1, <1>2, <2>2, <2>3, AirMoves DEF Places
  <2>8. Sides'
    BY <1>0, <1>2, <2>4, <2>6 DEF Sides
  <2>9. MicOwned'
    <3>1. \A q \in Press : ~(task'[q].at = "resolving" /\ task'[q].lgen = live.gen)
      BY <1>1, <1>4, <2>4 DEF MicOwned
    <3>2. \A m \in micCalls' : /\ m.gen <= live.gen /\ (m.on <=> m.by = "start")
                               /\ m.on /\ m.gen = live.gen => session.no = m.room
      BY <1>3, <2>5 DEF MicOwned, Lives
    <3> QED BY <2>2, <3>1, <3>2 DEF MicOwned
  <2>10. Silent'
    BY <1>0, <1>2, <2>2, <2>5 DEF Silent, SessionInv, Joined, Sessions
  <2>11. MuteKept'
    <3> SUFFICES ASSUME "micFailed" \notin odd
                 PROVE  MuteKept'
      BY <1>0 DEF MuteKept
    <3>1. state = "transmitting" /\ repo.tx = "livekit"
      BY <1>1, <1>4 DEF MuteKept
    <3>2. \A r \in mic : live'.active = r
      BY <1>2, <2>2
    <3> QED BY <1>0, <3>1, <3>2 DEF MuteKept
  <2>12. PeerKept'
    <3>1. SettingUp = {} /\ open = {}
      BY <1>2 DEF Sides
    <3> QED BY <1>0, <2>6, <3>1 DEF PeerKept, SetupKept, OpenKept
  <2>13. HeldKept'
    <3> SUFFICES ASSUME ~HeldExcused
                 PROVE  HeldKept'
      BY <1>0 DEF HeldKept, HeldExcused
    <3>1. state = "transmitting" /\ repo.tx = "livekit"
      BY <1>1, <1>4 DEF MuteKept, HeldExcused
    <3>2. p = presses
      <4>1. ~(p < presses)
        BY <1>1, <1>3, <1>4 DEF HeldKept, Lives
      <4> QED BY <1>2, <4>1 DEF Press, SessionInv, Told, Counted
    <3>3. \A q \in Press : q < presses /\ task'[q].at \in {"resolving", "unmuting", "muting"}
                             => task'[q].lgen < live.gen
      BY <2>4, <3>2 DEF HeldKept, Press
    <3>4. \A m \in micCalls' : ~m.on => m.gen < live.gen
      BY <1>2, <2>5, <3>1 DEF HeldKept
    <3>5. Heard'
      BY <1>0, <1>2, <2>2, <2>4, <3>2 DEF Heard
    <3> QED BY <1>0, <1>2, <2>2, <3>1, <3>3, <3>4, <3>5 DEF HeldKept
  <2> QED BY <2>7, <2>8, <2>9, <2>10, <2>11, <2>12, <2>13
<1>5. CASE task[p].lgen # live.gen
  <2>1. task' = [task EXCEPT ![p] = Ended] /\ UNCHANGED <<live, micCalls>>
    BY <1>5 DEF Unmute, liveVars
  <2>2. MovesTo(p, "ended")
    BY <1>3, <2>1, TaskEnds
  <2>3. task'[p].at = "ended" /\ \A q \in Press : q # p => task'[q] = task[q]
    BY <2>2 DEF MovesTo
  <2>4. SettingUp' = SettingUp
    BY <1>1, <2>3 DEF SettingUp
  <2>5. Waits' /\ InOrder'
    BY <1>0, <1>1, <1>2, <2>1, <2>2, AirMoves DEF Places
  <2>6. Sides'
    BY <1>0, <2>1, <2>3, <2>4 DEF Sides
  <2>7. MicOwned'
    BY <2>1, <2>3 DEF MicOwned
  <2>8. Silent'
    BY <1>0, <2>1 DEF Silent
  <2>9. MuteKept'
    BY <1>0, <2>1, <2>3 DEF MuteKept
  <2>10. PeerKept'
    <3>1. SettingUp = {} /\ open = {}
      BY <1>2 DEF Sides
    <3> QED BY <1>0, <2>4, <3>1 DEF PeerKept, SetupKept, OpenKept
  <2>11. HeldKept'
    <3> SUFFICES ASSUME ~HeldExcused
                 PROVE  HeldKept'
      BY <1>0 DEF HeldKept, HeldExcused
    <3>1. \A q \in Press : q < presses /\ task'[q].at \in {"resolving", "unmuting", "muting"}
                             => task'[q].lgen < live.gen
      BY <2>3 DEF HeldKept
    <3>2. state = "transmitting" /\ presses \notin spoilt => Heard'
      <4> SUFFICES ASSUME state = "transmitting", presses \notin spoilt
                   PROVE  Heard'
        OBVIOUS
      <4>1. presses \in Press /\ Heard
        BY DEF InOrder, HeldKept
      <4>2. p = presses \/ task'[presses] = task[presses]
        BY <2>3, <4>1
      <4> QED BY <1>0, <1>1, <1>5, <2>1, <2>4, <4>1, <4>2 DEF Heard, Present
    <3> QED BY <1>0, <2>1, <3>1, <3>2 DEF HeldKept
  <2> QED BY <2>5, <2>6, <2>7, <2>8, <2>9, <2>10, <2>11
<1> QED BY <1>4, <1>5

(* What concerns P2P only leaves LiveKit's part alone: after the fallback  *)
(* there is none.                                                          *)
LEMMA AirOverPeers ==
  ASSUME AirInv, repo'.fallback, ~configured, repo'.gen = repo.gen,
         session.st # "room", live.active = 0, micCalls = {}, mic = {},
         \/ task' = task
         \/ \E p \in Press, a \in Places \ {"none", "resolving", "unmuting", "muting"} :
              MovesTo(p, a) /\ Active(p),
         \A q \in Press : /\ task[q].at \notin {"unmuting", "muting"}
                          /\ task'[q].at = "resolving" => task[q].got = "p2p",
         UNCHANGED <<presses, state, configured, sessionVars, mic, liveVars, odd>>,
         PeerKept',
         ~HeldExcused /\ state = "transmitting" /\ presses \notin spoilt' => Heard'
  PROVE  AirKept'
<1> USE DEF AirInv, AirKept
<1>0. UNCHANGED <<session, joins, rooms, inConvoy, live, micCalls>>
  BY DEF sessionVars, liveVars
<1>1. \A q \in Press : \/ task'[q] = task[q]
                       \/ task'[q].at \notin {"none", "resolving", "unmuting", "muting"}
  BY DEF MovesTo
<1>2. Waits' /\ InOrder'
  <2>1. CASE task' = task
    <3>1. Waits'
      BY <1>0, <2>1 DEF Waits
    <3>2. InOrder'
      BY <1>0, <2>1 DEF InOrder, Active
    <3> QED BY <3>1, <3>2
  <2>2. CASE task' # task
    <3>1. PICK p \in Press, a \in Places \ {"none", "resolving", "unmuting", "muting"} :
            MovesTo(p, a) /\ Active(p)
      BY <2>2
    <3>2. \A q \in Press : q # p /\ task[q].at = "resolving" => task[q].got = "p2p"
      BY <3>1 DEF MovesTo
    <3> QED BY <1>0, <3>1, <3>2, AirMoves
  <2> QED BY <2>1, <2>2
<1>3. Sides'
  BY <1>0, <1>1 DEF Sides
<1>4. MicOwned'
  BY <1>0, <1>1 DEF MicOwned
<1>5. Silent'
  BY <1>0 DEF Silent
<1>6. MuteKept'
  <2>1. \A q \in Press : task'[q].at = "resolving" => task'[q].got \notin {"nothing", "room"}
    BY <1>1
  <2>2. live.active \notin rooms
    BY OneHears
  <2> QED BY <1>0, <2>1, <2>2 DEF MuteKept
<1>7. HeldKept'
  <2> SUFFICES ASSUME ~HeldExcused
               PROVE  HeldKept'
    BY DEF HeldKept, HeldExcused
  <2>1. \A q \in Press : q < presses /\ task'[q].at \in {"resolving", "unmuting", "muting"}
                           => task'[q].lgen < live.gen
    BY <1>1 DEF HeldKept
  <2> QED BY <1>0, <2>1 DEF HeldKept
<1> QED BY <1>2, <1>3, <1>4, <1>5, <1>6, <1>7

(* A start that hears that there is no LiveKit falls back.                 *)
LEMMA AirFallBack ==
  ASSUME AirInv, NEW p \in Press, Resume(p), task[p].got = "p2p", FallBack(p), UNCHANGED liveVars
  PROVE  AirKept'
<1> USE DEF AirInv, AirKept
<1>0. UNCHANGED <<presses, state, configured, sessionVars, mic, liveVars, odd, web, open, stops>>
  BY DEF Resume, webVars, notifierVars
<1>1. /\ task[p].at = "resolving" /\ Active(p)
      /\ \A q \in Press : task[q].at = "resolving" /\ task[q].got # "nothing" => p <= q
  BY DEF Resume, Resumed, Active
<1>2. session.st = "p2p" /\ ~configured
  BY <1>1 DEF Waits, SessionInv, Told, HeardRightly
<1>3. /\ live.active = 0 /\ micCalls = {} /\ mic = {}
      /\ \A q \in Press : task[q].at \notin {"unmuting", "muting"}
  BY <1>2, OneHears DEF Sides
<1>4. \A q \in Press : task[q].at = "resolving" => task[q].got = "p2p" /\ p <= q
  <2>1. \A q \in Press : task[q].got \in {"nothing", "room", "p2p", "error"}
    BY DEF SessionInv, Told, Tasks
  <2> QED BY <1>1, <1>2, <2>1 DEF Waits
<1>5. "roomGone" \notin odd => SettingUp \subseteq spoilt /\ open \subseteq spoilt
  BY <1>1 DEF PeerKept, SetupKept, OpenKept
<1>6. CASE task[p].fgen = repo.gen
  <2>1. /\ task' = [task EXCEPT ![p].at = "creating"] /\ spoilt' = spoilt \cup Beside(p)
        /\ repo' = [repo EXCEPT !.fallback = TRUE, !.tx = "p2p"]
    BY <1>6 DEF FallBack
  <2>2. MovesTo(p, "creating")
    BY <2>1, TaskGoes DEF Places, SessionInv, Told
  <2>3. task'[p].at = "creating" /\ \A q \in Press : q # p => task'[q] = task[q]
    BY <2>2 DEF MovesTo
  <2>4. repo'.fallback /\ repo'.gen = repo.gen /\ repo'.tx = "p2p"
    BY <2>1 DEF SessionInv, Told, Repos
  <2>5. SettingUp' = SettingUp \cup {p}
    BY <2>3 DEF SettingUp
  <2>6. "roomGone" \notin odd => p = presses /\ state = "transmitting"
    BY <1>1, <1>6 DEF InOrder
  <2>7. PeerKept'
    <3> SUFFICES ASSUME "roomGone" \notin odd
                 PROVE  SetupKept' /\ OpenKept'
      BY <1>0 DEF PeerKept
    <3>1. ASSUME NEW q \in SettingUp' \ spoilt'
          PROVE  q = p /\ SettingUp = {} /\ stops = {}
      BY <1>5, <2>1, <2>5, <3>1 DEF Beside, Press
    <3>2. \A r \in Press : task'[r].at # "resolving"
      <4> SUFFICES ASSUME NEW r \in Press, task'[r].at = "resolving"
                   PROVE  FALSE
        OBVIOUS
      <4>1. r # p /\ task[r].at = "resolving" /\ p <= r
        BY <1>4, <2>3
      <4>2. r <= presses
        BY <4>1 DEF InOrder, Idle, SessionInv, Told, Counted, Press
      <4> QED BY <2>6, <4>1, <4>2 DEF Press
    <3>3. SetupKept'
      BY <1>0, <1>5, <2>1, <2>3, <2>4, <2>5, <2>6, <3>1, <3>2 DEF SetupKept, Present
    <3>4. open' \subseteq spoilt'
      BY <1>0, <1>5, <2>1
    <3>5. OpenKept'
      BY <3>4 DEF OpenKept
    <3> QED BY <3>3, <3>5
  <2>8. ~HeldExcused => (state = "transmitting" => Heard')
    BY <1>0, <2>5, <2>6 DEF HeldExcused, Heard
  <2> QED BY <1>0, <1>1, <1>2, <1>3, <1>4, <2>2, <2>3, <2>4, <2>7, <2>8, AirOverPeers DEF Places
<1>7. CASE task[p].fgen # repo.gen
  <2>1. /\ task' = [task EXCEPT ![p] = Ended] /\ spoilt' = spoilt
        /\ repo' = [repo EXCEPT !.fallback = TRUE, !.tx = "none"]
    BY <1>7 DEF FallBack
  <2>2. MovesTo(p, "ended")
    BY <2>1, TaskEnds DEF SessionInv, Told
  <2>3. task'[p].at = "ended" /\ \A q \in Press : q # p => task'[q] = task[q]
    BY <2>2 DEF MovesTo
  <2>4. repo'.fallback /\ repo'.gen = repo.gen
    BY <2>1 DEF SessionInv, Told, Repos
  <2>5. SettingUp' = SettingUp
    BY <1>1, <2>3 DEF SettingUp
  <2>6. PeerKept'
    BY <1>0, <1>5, <2>1, <2>5 DEF PeerKept, SetupKept, OpenKept
  <2>7. ASSUME ~HeldExcused, state = "transmitting", presses \notin spoilt
        PROVE  Heard'
    <3>1. Heard /\ presses \in Press /\ p # presses
      BY <1>1, <1>7, <2>7 DEF HeldKept, InOrder
    <3>2. task'[presses] = task[presses] /\ presses \notin open
      BY <1>5, <2>3, <2>7, <3>1 DEF HeldExcused
    <3> QED BY <1>0, <2>5, <3>1, <3>2 DEF Heard, liveVars, sessionVars
  <2> QED BY <1>0, <1>1, <1>2, <1>3, <1>4, <2>1, <2>2, <2>3, <2>4, <2>6, <2>7, AirOverPeers DEF Places
<1> QED BY <1>6, <1>7

(* A start that is refused reports it and leaves the air alone.            *)
LEMMA AirRefused ==
  ASSUME AirInv, NEW p \in Press, Resume(p), task[p].got = "error", Reported(p), UNCHANGED liveVars
  PROVE  AirKept'
<1> USE DEF AirInv, AirKept
<1>0. UNCHANGED <<presses, state, configured, inConvoy, session, joins, rooms, mic, micCalls, live,
                  web, open, stops, odd>>
  BY DEF Resume, sessionVars, webVars, notifierVars, liveVars
<1>1. task[p].at = "resolving" /\ Active(p) /\ ~repo.fallback
  <2>1. task[p].at = "resolving"
    BY DEF Resume, Resumed
  <2> QED BY <2>1 DEF Waits, Active
<1>2. session.st \in {"none", "error"} /\ mic = {} /\ live.active \notin rooms
  <2>1. session.st \in {"none", "error"}
    BY <1>1 DEF Waits
  <2>2. \A r \in rooms : \E j \in joins : j.no = r
    BY <2>1 DEF SessionInv, Joined, RoomKept
  <2> QED BY <2>1, <2>2, OneHears DEF Silent
<1>3. \A q \in Press : task[q].at = "resolving" => task[q].got \notin {"nothing", "room"}
  BY <1>2 DEF Waits
<1>4. /\ MovesTo(p, "ended") /\ repo'.gen = repo.gen /\ repo'.fallback = repo.fallback
      /\ spoilt' = spoilt \cup {p, presses}
  BY Reports DEF SessionInv
<1>5. task'[p].at = "ended" /\ \A q \in Press : q # p => task'[q] = task[q]
  BY <1>4 DEF MovesTo
<1>6. SettingUp' = {} /\ open' = {}
  BY <1>0, <1>1, <1>5 DEF Sides, SettingUp
<1>7. Waits' /\ InOrder'
  BY <1>0, <1>1, <1>4, AirMoves DEF Places
<1>8. Sides'
  BY <1>0, <1>4, <1>5, <1>6 DEF Sides
<1>9. MicOwned' /\ Silent'
  BY <1>0, <1>5 DEF MicOwned, Silent
<1>10. MuteKept'
  BY <1>0, <1>2, <1>3, <1>5 DEF MuteKept
<1>11. PeerKept'
  BY <1>6 DEF PeerKept, SetupKept, OpenKept
<1>12. HeldKept'
  <2> SUFFICES ASSUME ~HeldExcused
               PROVE  HeldKept'
    BY <1>0 DEF HeldKept, HeldExcused
  <2>1. \A q \in Press : q < presses /\ task'[q].at \in {"resolving", "unmuting", "muting"}
                           => task'[q].lgen < live.gen
    BY <1>5 DEF HeldKept
  <2>2. live.active = 0
    BY <1>2 DEF HeldKept
  <2> QED BY <1>0, <1>4, <2>1, <2>2 DEF HeldKept
<1> QED BY <1>7, <1>8, <1>9, <1>10, <1>11, <1>12

(* Whatever a start was given, it goes on within the invariant.            *)
LEMMA AirResume ==
  ASSUME AirInv, NEW p \in Press, Resume(p)
  PROVE  AirKept'
BY AirUnmute, AirFallBack, AirRefused DEF Resume

(* The microphone is on, for a start that is still wanted or not.          *)
LEMMA AirUnmuted ==
  ASSUME AirInv, NEW m \in micCalls, MicDone(m), m.by = "start"
  PROVE  AirKept'
<1> USE DEF AirInv, AirKept
<1>0. /\ UNCHANGED <<presses, state, configured, inConvoy, session, joins, rooms, live, repo, web, open,
                     stops, spoilt>>
      /\ odd \subseteq odd'
      /\ state = "transmitting" /\ m.gen # live.gen => "lateMute" \in odd'
  BY DEF MicDone, sessionVars, webVars, notifierVars
<1>1. PICK p \in Press : task[p].at = "unmuting" /\ task[p].lgen = m.gen /\ Unmuted(p, m)
  BY DEF MicDone
<1>2. m.on /\ m.room \in Join /\ m.room # 0 /\ m.gen <= live.gen /\ m.gen \in Nat /\ live.gen \in Nat
  <2>1. m.room \in Join /\ m.gen \in Nat /\ live.gen \in Nat
    BY DEF TypeOK
  <2>2. m.on /\ m.gen <= live.gen
    BY DEF MicOwned
  <2> QED BY <2>1, <2>2 DEF Join
<1>3. mic' = IF m.room \in rooms THEN mic \cup {m.room} ELSE mic
  <2>1. mic \subseteq rooms
    BY DEF TypeOK
  <2>2. m.room \notin rooms => mic \ {m.room} = mic
    BY <2>1
  <2>3. mic' = IF m.on /\ m.room \in rooms THEN mic \cup {m.room} ELSE mic \ {m.room}
    BY DEF MicDone
  <2> QED BY <1>2, <2>2, <2>3
<1>4. configured /\ ~repo.fallback /\ Active(p) /\ SettingUp = {} /\ open = {}
  <2>1. configured /\ Active(p)
    BY <1>1 DEF Sides, Active
  <2>2. ~repo.fallback
    BY <2>1 DEF SessionInv, Told, HeardRightly
  <2> QED BY <2>1, <2>2 DEF Sides
<1>5. task \in [Press -> Tasks]
  BY DEF SessionInv, Told
<1>6. PICK a \in {"ended", "muting"} :
        /\ MovesTo(p, a)
        /\ a = "ended" => m.gen = live.gen
        /\ a = "ended" => micCalls' = micCalls \ {m}
        /\ a = "muting" => /\ m.gen # live.gen
                           /\ micCalls' = (micCalls \ {m}) \cup
                                            {MicCall(m.room, FALSE, "again", m.gen)}
  <2>1. CASE m.gen = live.gen
    <3>1. task' = [task EXCEPT ![p] = Ended] /\ micCalls' = micCalls \ {m}
      BY <1>1, <2>1 DEF Unmuted
    <3> QED BY <1>5, <2>1, <3>1, TaskEnds
  <2>2. CASE m.gen # live.gen
    <3>1. /\ task' = [task EXCEPT ![p].at = "muting"]
          /\ micCalls' = (micCalls \ {m}) \cup {MicCall(m.room, FALSE, "again", m.gen)}
      BY <1>1, <2>2 DEF Unmuted
    <3>2. MovesTo(p, "muting")
      BY <1>5, <3>1, TaskGoes DEF Places
    <3> QED BY <2>2, <3>1, <3>2
  <2> QED BY <2>1, <2>2
<1>7. /\ task'[p].at = a /\ a # "resolving" /\ (a = "muting" => task'[p].lgen = task[p].lgen)
      /\ \A q \in Press : q # p => task'[q] = task[q]
  BY <1>6 DEF MovesTo
<1>8. SettingUp' = {}
  BY <1>4, <1>7 DEF SettingUp
<1>9. /\ \A n \in micCalls' : \/ n \in micCalls
                              \/ /\ ~n.on /\ n.by = "again" /\ n.gen = m.gen /\ n.gen < live.gen
                                 /\ n.room = m.room
      /\ \A n \in micCalls : ~n.on => n \in micCalls'
  BY <1>2, <1>6 DEF MicCall
<1>10. Waits' /\ InOrder'
  BY <1>0, <1>4, <1>6, AirMoves DEF Places
<1>11. Sides'
  BY <1>0, <1>4, <1>8 DEF Sides
<1>12. MicOwned'
  <2>1. \A n \in micCalls' : /\ n.gen <= live.gen /\ (n.on <=> n.by = "start")
                             /\ n.on /\ n.gen = live.gen => live.active = n.room
    BY <1>2, <1>9 DEF MicOwned
  <2> QED BY <1>0, <1>7, <2>1 DEF MicOwned
<1>13. Silent'
  BY <1>0, <1>3, <1>9 DEF Silent
<1>14. MuteKept'
  <2> SUFFICES ASSUME "micFailed" \notin odd
               PROVE  MuteKept'
    BY <1>0 DEF MuteKept
  <2>1. m.gen = live.gen => live.active = m.room
    BY <1>2 DEF MicOwned
  <2>2. m.gen # live.gen => \E n \in micCalls' : ~n.on /\ n.room = m.room
    <3> DEFINE again == MicCall(m.room, FALSE, "again", m.gen)
    <3>1. ~again.on /\ again.room = m.room
      BY DEF MicCall
    <3>2. m.gen # live.gen => again \in micCalls'
      BY <1>6
    <3> HIDE DEF again
    <3> QED BY <3>1, <3>2
  <2>3. \A r \in mic' : live.active = r \/ \E n \in micCalls' : ~n.on /\ n.room = r
    BY <1>3, <1>9, <2>1, <2>2 DEF MuteKept
  <2> QED BY <1>0, <1>7, <2>3 DEF MuteKept
<1>15. PeerKept'
  BY <1>0, <1>4, <1>8 DEF PeerKept, SetupKept, OpenKept
<1>16. HeldKept'
  <2> SUFFICES ASSUME ~HeldExcused'
               PROVE  HeldKept'
    BY DEF HeldKept
  <2>0. ~HeldExcused /\ (state = "transmitting" => m.gen = live.gen)
    BY <1>0 DEF HeldExcused
  <2>1. \A q \in Press : q < presses /\ task'[q].at \in {"resolving", "unmuting", "muting"}
                           => task'[q].lgen < live.gen
    <3> SUFFICES ASSUME NEW q \in Press, q < presses, task'[q].at \in {"resolving", "unmuting", "muting"}
                 PROVE  task'[q].lgen < live.gen
      OBVIOUS
    <3>1. CASE q = p
      BY <1>1, <1>7, <2>0, <3>1 DEF HeldKept
    <3>2. CASE q # p
      BY <1>7, <2>0, <3>2 DEF HeldKept
    <3> QED BY <3>1, <3>2
  <2>2. state = "transmitting" => \A n \in micCalls' : ~n.on => n.gen < live.gen
    BY <1>4, <1>9, <2>0 DEF HeldKept
  <2>3. ASSUME state = "transmitting", presses \notin spoilt
        PROVE  Heard'
    <3>1. presses \in Press /\ Heard
      BY <2>0, <2>3 DEF InOrder, HeldKept
    <3>2. CASE p = presses
      <4>1. live.active = m.room /\ live.active # 0
        BY <1>2, <2>0, <2>3 DEF MicOwned
      <4>2. m.room = session.no /\ m.room \in rooms
        BY <2>0, <4>1 DEF HeldKept, HeldExcused, SessionInv, Joined, RoomKept
      <4> QED BY <1>0, <1>3, <4>2 DEF Heard
    <3>3. CASE p # presses
      <4>1. task'[presses] = task[presses] /\ mic \subseteq mic'
        BY <1>3, <1>7, <3>1, <3>3
      <4> QED BY <1>0, <1>4, <3>1, <4>1 DEF Heard
    <3> QED BY <3>2, <3>3
  <2> QED BY <1>0, <2>0, <2>1, <2>2, <2>3 DEF HeldKept
<1> QED BY <1>10, <1>11, <1>12, <1>13, <1>14, <1>15, <1>16

(* A room is muted, after a stop or a start that came too late.            *)
LEMMA AirMuted ==
  ASSUME AirInv, NEW m \in micCalls, MicDone(m), m.by # "start"
  PROVE  AirKept'
<1> USE DEF AirInv, AirKept
<1>0. /\ UNCHANGED <<presses, state, configured, inConvoy, session, joins, rooms, live, repo, web, open,
                     stops, spoilt>>
      /\ odd \subseteq odd'
      /\ state = "transmitting" /\ m.gen # live.gen => "lateMute" \in odd'
  BY DEF MicDone, sessionVars, webVars, notifierVars
<1>1. ~m.on /\ configured /\ SettingUp = {} /\ open = {}
  <2>1. ~m.on /\ configured
    BY DEF MicOwned, Sides
  <2>2. ~repo.fallback
    BY <2>1 DEF SessionInv, Told, HeardRightly
  <2> QED BY <2>1, <2>2 DEF Sides
<1>2. mic' = mic \ {m.room} /\ micCalls' = micCalls \ {m}
  BY <1>1 DEF MicDone
<1>3. \A q \in Press : \/ task'[q] = task[q]
                       \/ /\ task[q].at = "muting" /\ task'[q].at = "ended"
                          /\ task'[q].fgen = 0 /\ task'[q].lgen = 0
  BY DEF MicDone, Ended, Idle
<1>4. SettingUp' = {}
  BY <1>1, <1>3 DEF SettingUp
<1>5. Waits'
  BY <1>0, <1>3 DEF Waits
<1>6. InOrder'
  <2>1. repo.gen \in Nat /\ live.gen \in Nat
    BY DEF SessionInv, Told, Repos, Lives
  <2>2. \A q \in Press : /\ task'[q].fgen <= repo.gen /\ task'[q].lgen <= live.gen
                         /\ q > presses => task'[q] = Idle
                         /\ Active(q)' => task'[q] = task[q] /\ Active(q)
    BY <1>3, <2>1 DEF InOrder, Idle, Active
  <2> QED BY <1>0, <2>2 DEF InOrder
<1>7. Sides'
  BY <1>0, <1>1, <1>4 DEF Sides
<1>8. MicOwned' /\ Silent'
  BY <1>0, <1>2, <1>3 DEF MicOwned, Silent
<1>9. MuteKept'
  BY <1>0, <1>2, <1>3 DEF MuteKept
<1>10. PeerKept'
  BY <1>0, <1>1, <1>4 DEF PeerKept, SetupKept, OpenKept
<1>11. HeldKept'
  <2> SUFFICES ASSUME ~HeldExcused'
               PROVE  HeldKept'
    BY DEF HeldKept
  <2>0. ~HeldExcused /\ (state = "transmitting" => m.gen = live.gen)
    BY <1>0 DEF HeldExcused
  <2>1. state # "transmitting"
    <3>1. m.gen \in Nat /\ live.gen \in Nat
      BY DEF TypeOK
    <3> QED BY <1>1, <2>0, <3>1 DEF HeldKept
  <2>2. \A q \in Press : q < presses /\ task'[q].at \in {"resolving", "unmuting", "muting"}
                           => task'[q].lgen < live.gen
    BY <1>3, <2>0 DEF HeldKept
  <2> QED BY <1>0, <2>0, <2>1, <2>2 DEF HeldKept
<1> QED BY <1>5, <1>6, <1>7, <1>8, <1>9, <1>10, <1>11

(* A microphone call fails: from here on nothing is promised of the        *)
(* microphone, but the rest keeps.                                         *)
LEMMA AirMicFails ==
  ASSUME AirInv, NEW m \in micCalls, MicFails(m)
  PROVE  AirKept'
<1> USE DEF AirInv, AirKept
<1>0. /\ UNCHANGED <<presses, state, configured, inConvoy, session, joins, rooms, mic, live, web, open,
                     stops>>
      /\ odd' = odd \cup {"micFailed"} /\ micCalls' = micCalls \ {m}
  BY DEF MicFails, sessionVars, webVars, notifierVars
<1>1. MuteKept' /\ HeldKept' /\ Silent'
  BY <1>0 DEF MuteKept, HeldKept, HeldExcused, Silent
<1>2. configured /\ ~repo.fallback /\ SettingUp = {} /\ open = {}
  <2>1. configured
    BY DEF Sides
  <2>2. ~repo.fallback
    BY <2>1 DEF SessionInv, Told, HeardRightly
  <2> QED BY <2>1, <2>2 DEF Sides
<1>3. CASE UNCHANGED <<repo, task, spoilt>>
  <2>1. Waits' /\ Sides' /\ MicOwned'
    BY <1>0, <1>3 DEF Waits, Sides, SettingUp, MicOwned
  <2>2. InOrder'
    BY <1>0, <1>3 DEF InOrder, Active
  <2>3. PeerKept'
    BY <1>0, <1>2, <1>3 DEF PeerKept, SetupKept, OpenKept, SettingUp
  <2> QED BY <1>1, <2>1, <2>2, <2>3
<1>4. CASE ~UNCHANGED <<repo, task, spoilt>>
  <2>1. PICK p \in Press : task[p].at \in {"unmuting", "muting"} /\ Reported(p)
    BY <1>4 DEF MicFails
  <2>2. MovesTo(p, "ended") /\ repo'.gen = repo.gen /\ repo'.fallback = repo.fallback /\ Active(p)
    BY <2>1, Reports DEF SessionInv, Active
  <2>3. task'[p].at = "ended" /\ \A q \in Press : q # p => task'[q] = task[q]
    BY <2>2 DEF MovesTo
  <2>4. SettingUp' = {}
    BY <1>2, <2>3 DEF SettingUp
  <2>5. Waits' /\ InOrder'
    BY <1>0, <1>2, <2>2, AirMoves DEF Places
  <2>6. Sides'
    BY <1>0, <1>2, <2>2, <2>3, <2>4 DEF Sides
  <2>7. MicOwned'
    BY <1>0, <2>3 DEF MicOwned
  <2>8. PeerKept'
    BY <1>0, <1>2, <2>4 DEF PeerKept, SetupKept, OpenKept
  <2> QED BY <1>1, <2>5, <2>6, <2>7, <2>8
<1> QED BY <1>3, <1>4

(* The setup of a peer connection goes on, ends or fails.                  *)
LEMMA AirSetsUp ==
  ASSUME AirInv, NEW p \in Press, SetsUp(p)
  PROVE  AirKept'
<1> USE DEF AirInv, AirKept
<1>0. UNCHANGED <<presses, state, configured, sessionVars, mic, liveVars, odd, stops>>
  BY DEF SetsUp, SetupUnchanged, PeerCreated, ChannelCreated, PeerOffered, OfferSent, SetupFails, webVars,
         notifierVars
<1>1. /\ task[p].at \in {"creating", "channel", "offering", "sending"} /\ Active(p) /\ p \in SettingUp
      /\ \/ Reported(p)
         \/ PeerCreated(p) /\ MovesTo(p, "channel") /\ UNCHANGED repo
         \/ ChannelCreated(p) /\ MovesTo(p, "offering") /\ UNCHANGED repo
         \/ PeerOffered(p) /\ MovesTo(p, "sending") /\ UNCHANGED repo
         \/ OfferSent(p) /\ MovesTo(p, "ended") /\ UNCHANGED repo
  BY PeerMoves DEF SessionInv, Active, SettingUp
<1>2. repo.fallback
  BY <1>1 DEF Sides
<1>3. /\ ~configured /\ live.active = 0 /\ micCalls = {} /\ mic = {} /\ session.st # "room"
      /\ \A q \in Press : /\ task[q].at \notin {"unmuting", "muting"}
                          /\ task[q].at = "resolving" => task[q].got = "p2p"
  BY <1>2, FallbackOnly
<1>4. "roomGone" \notin odd => \A q \in SettingUp \ spoilt : q = p
  BY <1>1 DEF PeerKept, SetupKept
<1>5. "roomGone" \notin odd => \A q \in open \ spoilt : q = p /\ web.pc = p
  BY <1>1 DEF PeerKept, OpenKept
<1>6. ASSUME NEW a \in Places \ {"none", "resolving", "unmuting", "muting"}, MovesTo(p, a),
             repo'.fallback, repo'.gen = repo.gen,
             PeerKept', ~HeldExcused /\ state = "transmitting" /\ presses \notin spoilt' => Heard'
      PROVE  AirKept'
  <2>1. \A q \in Press : task'[q].at = "resolving" => task[q].got = "p2p"
    BY <1>3, <1>6 DEF MovesTo
  <2> QED BY <1>0, <1>1, <1>3, <1>6, <2>1, AirOverPeers
<1>7. CASE Reported(p)
  <2>1. /\ MovesTo(p, "ended") /\ repo'.gen = repo.gen /\ repo'.fallback
        /\ spoilt' = spoilt \cup {p, presses}
    BY <1>2, <1>7, Reports DEF SessionInv
  <2>2. SettingUp' \subseteq SettingUp
    BY <2>1 DEF MovesTo, SettingUp
  <2>3. open' \subseteq open \cup {p}
    BY DEF SetsUp, PeerCreated, ChannelCreated, PeerOffered, OfferSent, SetupFails, webVars
  <2>4. "roomGone" \notin odd => SettingUp' \subseteq spoilt' /\ open' \subseteq spoilt'
    BY <1>4, <1>5, <2>1, <2>2, <2>3
  <2>5. PeerKept'
    BY <1>0, <2>4 DEF PeerKept, SetupKept, OpenKept
  <2> QED BY <1>6, <2>1, <2>5 DEF Places
<1>8. CASE PeerCreated(p) /\ MovesTo(p, "channel") /\ UNCHANGED repo
  <2>1. /\ task'[p].at = "channel" /\ task[p].at = "creating" /\ spoilt' = spoilt
        /\ \A q \in Press : q # p => task'[q] = task[q]
        /\ web'.pc = p /\ web'.dc = web.dc /\ open' = open \cup {p}
    BY <1>8 DEF PeerCreated, MovesTo, TypeOK
  <2>2. SettingUp' = SettingUp
    BY <1>1, <2>1 DEF SettingUp
  <2>3. ASSUME "roomGone" \notin odd, p \notin spoilt
        PROVE  Present(p) /\ SettingUp = {p} /\ open \subseteq spoilt
               /\ \A q \in Press : task[q].at # "resolving"
    BY <1>1, <2>1, <2>3 DEF PeerKept, SetupKept
  <2>4. PeerKept'
    <3> SUFFICES ASSUME "roomGone" \notin odd
                 PROVE  SetupKept' /\ OpenKept'
      BY <1>0 DEF PeerKept
    <3>1. CASE p \in spoilt
      <4>1. SettingUp' \subseteq spoilt' /\ open' \subseteq spoilt'
        BY <1>4, <1>5, <2>1, <2>2, <3>1
      <4> QED BY <4>1 DEF SetupKept, OpenKept
    <3>2. CASE p \notin spoilt
      <4>1. Present(p)' /\ \A q \in Press : task'[q].at # "resolving"
        BY <1>0, <1>8, <2>1, <2>3, <3>2 DEF Present
      <4>2. SetupKept'
        BY <1>4, <2>1, <2>2, <2>3, <3>2, <4>1 DEF SetupKept
      <4>3. OpenKept'
        BY <2>1, <2>2, <2>3, <3>2, <4>1 DEF OpenKept, Present
      <4> QED BY <4>2, <4>3
    <3> QED BY <3>1, <3>2
  <2>5. ASSUME ~HeldExcused, state = "transmitting", presses \notin spoilt
        PROVE  Heard'
    <3>1. Heard /\ presses \in Press
      BY <2>5 DEF HeldKept, InOrder
    <3>2. presses # p => task'[presses] = task[presses]
      BY <2>1, <3>1
    <3> QED BY <1>0, <1>1, <1>3, <1>8, <2>1, <2>2, <3>1, <3>2 DEF Heard, Present, liveVars, sessionVars
  <2> QED BY <1>2, <1>6, <1>8, <2>1, <2>4, <2>5 DEF Places
<1>9. CASE ChannelCreated(p) /\ MovesTo(p, "offering") /\ UNCHANGED repo
  <2>1. /\ task'[p].at = "offering" /\ task[p].at = "channel" /\ spoilt' = spoilt
        /\ \A q \in Press : q # p => task'[q] = task[q]
        /\ web'.pc = web.pc /\ web'.dc = p /\ open' = open
    <3>1. task'[p].at = "offering" /\ \A q \in Press : q # p => task'[q] = task[q]
      BY <1>9 DEF MovesTo
    <3>2. ~Reported(p)
      <4>1. Reported(p) => MovesTo(p, "ended")
        BY Reports DEF SessionInv
      <4> QED BY <3>1, <4>1 DEF MovesTo
    <3> QED BY <1>9, <3>1, <3>2 DEF ChannelCreated, TypeOK
  <2>2. SettingUp' = SettingUp
    BY <1>1, <2>1 DEF SettingUp
  <2>3. ASSUME "roomGone" \notin odd, p \notin spoilt
        PROVE  Present(p) /\ SettingUp = {p} /\ p \in open
               /\ \A q \in Press : task[q].at # "resolving"
    BY <1>1, <2>1, <2>3 DEF PeerKept, SetupKept
  <2>4. PeerKept'
    <3> SUFFICES ASSUME "roomGone" \notin odd
                 PROVE  SetupKept' /\ OpenKept'
      BY <1>0 DEF PeerKept
    <3>1. CASE p \in spoilt
      <4>1. SettingUp' \subseteq spoilt' /\ open' \subseteq spoilt'
        BY <1>4, <1>5, <2>1, <2>2, <3>1
      <4> QED BY <4>1 DEF SetupKept, OpenKept
    <3>2. CASE p \notin spoilt
      <4>1. Present(p)' /\ \A q \in Press : task'[q].at # "resolving"
        BY <1>0, <1>9, <2>1, <2>3, <3>2 DEF Present
      <4>2. SetupKept'
        BY <1>4, <2>1, <2>2, <2>3, <3>2, <4>1 DEF SetupKept
      <4>3. OpenKept'
        BY <1>0, <1>5, <2>1, <2>2, <2>3, <3>2, <4>1 DEF OpenKept, Present
      <4> QED BY <4>2, <4>3
    <3> QED BY <3>1, <3>2
  <2>5. ASSUME ~HeldExcused, state = "transmitting", presses \notin spoilt
        PROVE  Heard'
    <3>1. Heard /\ presses \in Press
      BY <2>5 DEF HeldKept, InOrder
    <3>2. presses # p => task'[presses] = task[presses] /\ presses \notin open
      BY <1>5, <2>1, <2>5, <3>1 DEF HeldExcused
    <3> QED BY <1>0, <1>1, <1>3, <2>1, <2>2, <3>1, <3>2 DEF Heard, Present, liveVars, sessionVars
  <2> QED BY <1>2, <1>6, <1>9, <2>1, <2>4, <2>5 DEF Places
<1>10. CASE PeerOffered(p) /\ MovesTo(p, "sending") /\ UNCHANGED repo
  <2>1. /\ task'[p].at = "sending" /\ task[p].at = "offering" /\ spoilt' = spoilt
        /\ \A q \in Press : q # p => task'[q] = task[q]
        /\ web' = web /\ open' = open
    <3>1. task'[p].at = "sending" /\ \A q \in Press : q # p => task'[q] = task[q]
      BY <1>10 DEF MovesTo
    <3>2. ~Reported(p)
      <4>1. Reported(p) => MovesTo(p, "ended")
        BY Reports DEF SessionInv
      <4> QED BY <3>1, <4>1 DEF MovesTo
    <3> QED BY <1>10, <3>1, <3>2 DEF PeerOffered, webVars
  <2>2. SettingUp' = SettingUp
    BY <1>1, <2>1 DEF SettingUp
  <2>3. ASSUME "roomGone" \notin odd, p \notin spoilt
        PROVE  Present(p) /\ SettingUp = {p} /\ p \in open /\ web.dc = p
               /\ \A q \in Press : task[q].at # "resolving"
    BY <1>1, <2>1, <2>3 DEF PeerKept, SetupKept
  <2>4. PeerKept'
    <3> SUFFICES ASSUME "roomGone" \notin odd
                 PROVE  SetupKept' /\ OpenKept'
      BY <1>0 DEF PeerKept
    <3>1. CASE p \in spoilt
      <4>1. SettingUp' \subseteq spoilt' /\ open' \subseteq spoilt'
        BY <1>4, <1>5, <2>1, <2>2, <3>1
      <4> QED BY <4>1 DEF SetupKept, OpenKept
    <3>2. CASE p \notin spoilt
      <4>1. Present(p)' /\ \A q \in Press : task'[q].at # "resolving"
        BY <1>0, <1>10, <2>1, <2>3, <3>2 DEF Present
      <4>2. SetupKept'
        BY <1>4, <2>1, <2>2, <2>3, <3>2, <4>1 DEF SetupKept
      <4>3. OpenKept'
        BY <1>0, <1>5, <2>1, <2>2, <2>3, <3>2, <4>1 DEF OpenKept, Present
      <4> QED BY <4>2, <4>3
    <3> QED BY <3>1, <3>2
  <2>5. ASSUME ~HeldExcused, state = "transmitting", presses \notin spoilt
        PROVE  Heard'
    <3>1. Heard /\ presses \in Press
      BY <2>5 DEF HeldKept, InOrder
    <3>2. presses # p => task'[presses] = task[presses]
      BY <2>1, <3>1
    <3> QED BY <1>0, <1>1, <1>3, <1>10, <2>1, <2>2, <3>1, <3>2 DEF Heard, Present, liveVars, sessionVars
  <2> QED BY <1>2, <1>6, <1>10, <2>1, <2>4, <2>5 DEF Places
<1>11. CASE OfferSent(p) /\ MovesTo(p, "ended") /\ UNCHANGED repo
  <2>1. /\ task'[p].at = "ended" /\ task[p].at = "sending" /\ spoilt' = spoilt
        /\ \A q \in Press : q # p => task'[q] = task[q]
        /\ web' = web /\ open' = open
    BY <1>11 DEF OfferSent, MovesTo, webVars
  <2>2. SettingUp' = SettingUp \ {p}
    BY <2>1 DEF SettingUp
  <2>3. ASSUME "roomGone" \notin odd, p \notin spoilt
        PROVE  Present(p) /\ SettingUp = {p} /\ p \in open /\ web.dc = p
               /\ \A q \in Press : task[q].at # "resolving"
    BY <1>1, <2>1, <2>3 DEF PeerKept, SetupKept
  <2>4. PeerKept'
    <3> SUFFICES ASSUME "roomGone" \notin odd
                 PROVE  SetupKept' /\ OpenKept'
      BY <1>0 DEF PeerKept
    <3>1. SetupKept'
      BY <1>4, <2>1, <2>2 DEF SetupKept
    <3>2. CASE p \in spoilt
      <4>1. open' \subseteq spoilt'
        BY <1>5, <2>1, <3>2
      <4> QED BY <3>1, <4>1 DEF OpenKept
    <3>3. CASE p \notin spoilt
      <4>1. Present(p)' /\ \A q \in Press : task'[q].at # "resolving"
        BY <1>0, <1>11, <2>1, <2>3, <3>3 DEF Present
      <4>2. stops' = {} /\ SettingUp' = {} /\ web'.pc = p /\ \A q \in open' \ spoilt' : q = p
        BY <1>0, <1>5, <2>1, <2>2, <2>3, <3>3 DEF Present
      <4> QED BY <3>1, <4>1, <4>2 DEF OpenKept
    <3> QED BY <3>2, <3>3
  <2>5. ASSUME ~HeldExcused, state = "transmitting", presses \notin spoilt
        PROVE  Heard'
    <3>1. Heard /\ presses \in Press
      BY <2>5 DEF HeldKept, InOrder
    <3>2. presses # p => task'[presses] = task[presses]
      BY <2>1, <3>1
    <3>3. presses = p => web.dc = p /\ p \in open /\ Present(p)
      BY <2>3, <2>5 DEF HeldExcused
    <3> QED BY <1>0, <1>1, <1>3, <1>11, <2>1, <2>2, <3>1, <3>2, <3>3 DEF Heard, Present, liveVars, sessionVars
  <2> QED BY <1>2, <1>6, <1>11, <2>1, <2>4, <2>5 DEF Places
<1> QED BY <1>1, <1>7, <1>8, <1>9, <1>10, <1>11

(* A stop of the peer connection goes on or fails.                         *)
LEMMA AirStopsPeer ==
  ASSUME AirInv, NEW x \in stops, StopsPeer(x)
  PROVE  AirKept'
<1> USE DEF AirInv, AirKept
<1>0. UNCHANGED <<presses, state, configured, sessionVars, mic, liveVars, odd, task, repo>>
      /\ spoilt \subseteq spoilt' /\ open' \subseteq open
  BY DEF StopsPeer, SetupUnchanged, ChannelClosed, PeerClosed, PeerDisposed, StopFails, notifierVars
<1>1. repo.fallback
  BY DEF Sides
<1>2. /\ ~configured /\ live.active = 0 /\ micCalls = {} /\ mic = {} /\ session.st # "room"
      /\ \A q \in Press : /\ task[q].at \notin {"unmuting", "muting"}
                          /\ task[q].at = "resolving" => task[q].got = "p2p"
  BY <1>1, FallbackOnly
<1>3. SettingUp' = SettingUp /\ ("roomGone" \notin odd => SettingUp \subseteq spoilt)
  BY <1>0 DEF SettingUp, PeerKept, SetupKept, Present
<1>4. ASSUME "roomGone" \notin odd
      PROVE  OpenKept'
  <2>0. OpenKept
    BY <1>4 DEF PeerKept
  <2>1. CASE ChannelClosed(x)
    <3>1. web'.pc = web.pc /\ open' = open /\ spoilt' = spoilt
          /\ stops' = (stops \ {x}) \cup ClosesPeer(x.no)
      BY <2>1 DEF ChannelClosed, TypeOK
    <3> SUFFICES ASSUME NEW p \in open \ spoilt
                 PROVE  /\ web.pc = p /\ SettingUp \subseteq {p} /\ stops' # {}
                        /\ \A y \in stops' : y.at = "channel" \/ (y.at = "peer" /\ y.pc = p)
                        /\ \A q \in Press : task[q].at # "resolving"
      BY <1>0, <1>3, <3>1 DEF OpenKept
    <3>2. /\ web.pc = p /\ SettingUp \subseteq {p} /\ p \in Press
          /\ \A y \in stops : y.at = "channel" \/ (y.at = "peer" /\ y.pc = p)
          /\ \A q \in Press : task[q].at # "resolving"
      BY <2>0 DEF OpenKept, TypeOK
    <3>3. p # 0
      BY <3>2 DEF Press
    <3>4. ClosesPeer(x.no) = {[no |-> x.no, at |-> "peer", pc |-> p]}
      BY <3>2, <3>3 DEF ClosesPeer
    <3>5. PICK y : y = [no |-> x.no, at |-> "peer", pc |-> p]
      OBVIOUS
    <3>6. y.at = "peer" /\ y.pc = p /\ stops' = (stops \ {x}) \cup {y}
      BY <3>1, <3>4, <3>5
    <3> QED BY <3>2, <3>6
  <2>2. CASE PeerClosed(x)
    BY <2>0, <2>2 DEF PeerClosed, OpenKept
  <2>3. CASE PeerDisposed(x)
    BY <2>0, <2>3 DEF PeerDisposed, OpenKept
  <2>4. CASE StopFails(x)
    <3>1. spoilt' = spoilt \cup ({web.pc} \ {0}) /\ open' = open
      BY <2>4 DEF StopFails
    <3>2. \A p \in open \ spoilt : web.pc = p /\ p # 0
      BY <2>0 DEF OpenKept, TypeOK, Press
    <3> QED BY <3>1, <3>2 DEF OpenKept
  <2> QED BY <2>1, <2>2, <2>3, <2>4 DEF StopsPeer
<1>5. PeerKept'
  BY <1>0, <1>3, <1>4 DEF PeerKept, SetupKept
<1>6. ASSUME ~HeldExcused, state = "transmitting", presses \notin spoilt'
      PROVE  Heard'
  <2>1. Heard
    BY <1>0, <1>6 DEF HeldKept
  <2> QED BY <1>0, <1>2, <1>3, <2>1 DEF Heard, Present, liveVars, sessionVars
<1> QED BY <1>0, <1>1, <1>2, <1>5, <1>6, AirOverPeers

(* A press starts: with a new generation, whichever transport it takes.    *)
LEMMA AirStart ==
  ASSUME AirInv, Resumed = {}, state = "idle", inConvoy, NEW p \in Press, p = presses + 1,
         presses' = p, state' = "transmitting", Start(p),
         UNCHANGED <<configured, inConvoy, rooms, mic, odd>>
  PROVE  AirKept'
<1> USE DEF AirInv, AirKept
<1>1. /\ repo.gen \in Nat /\ live.gen \in Nat /\ live.active \in Nat /\ presses \in Nat
      /\ session.no \in Nat /\ session \in Sessions /\ Told
      /\ \A q \in Press : task[q].fgen \in Nat /\ task[q].lgen \in Nat
  BY DEF SessionInv, Joined, Told, Tasks, Repos, Lives, Sessions, Counted
<1>2. /\ repo'.gen = repo.gen + 1 /\ repo'.fallback = repo.fallback
      /\ repo'.tx = IF repo.fallback THEN "p2p" ELSE "livekit"
      /\ live'.active = live.active /\ \A q \in Press : q # p => task'[q] = task[q]
      /\ UNCHANGED <<micCalls, web, open, stops>>
  BY <1>1, Starts DEF webVars
<1>3. \/ /\ repo.fallback /\ task'[p].at = "creating"
         /\ task'[p].fgen = repo.gen + 1 /\ task'[p].lgen = 0 /\ live'.gen = live.gen
         /\ spoilt' = spoilt \cup Beside(p) /\ UNCHANGED <<session, joins>>
      \/ /\ ~repo.fallback /\ live.active # 0 /\ task'[p].at = "ended"
         /\ task'[p].fgen = 0 /\ task'[p].lgen = 0 /\ live'.gen = live.gen
         /\ UNCHANGED <<session, joins, spoilt>>
      \/ /\ ~repo.fallback /\ live.active = 0 /\ task'[p].at = "resolving" /\ live'.gen = live.gen + 1
         /\ task'[p].fgen = repo.gen + 1 /\ task'[p].lgen = live.gen + 1 /\ task'[p].room = session.no
         /\ task'[p].got = IF session.st \in {"room", "p2p"} THEN session.st ELSE "nothing"
         /\ Resolve /\ spoilt' = spoilt
  BY <1>1, Starts
<1>4. \/ UNCHANGED <<session, joins>>
      \/ /\ session.st = "error" /\ session'.st = "joining" /\ session'.no = session.no + 1
         /\ live.active = 0 /\ \A k \in joins' : k \in joins \/ k.no = session.no + 1
  <2>1. CASE UNCHANGED <<session, joins>>
    BY <2>1
  <2>2. CASE ~UNCHANGED <<session, joins>>
    <3>1. session.st = "error" /\ NewSession /\ live.active = 0
      BY <1>3, <2>2 DEF Resolve
    <3>2. PICK js : js = joins
      OBVIOUS
    <3>3. Rebuilt(js)
      BY <3>1, <3>2 DEF NewSession
    <3> QED BY <1>1, <3>1, <3>2, <3>3, NewJoin
  <2> QED BY <2>1, <2>2
<1>5. \A q \in Press : task[q].at = "resolving" =>
        task[q].got = "nothing" /\ session.st = "joining" /\ ~repo.fallback
  BY NobodyTold
<1>6. Waits'
  <2>1. session.st \in {"joining", "room", "p2p", "error"}
    BY <1>1 DEF Waits, Sessions
  <2>2. \A q \in Press : q # p /\ task'[q].at = "resolving" =>
          task'[q].got = "nothing" /\ session'.st = "joining" /\ ~repo'.fallback
    BY <1>2, <1>4, <1>5
  <2>3. task'[p].at = "resolving" =>
          /\ task'[p].got = "nothing" => session'.st = "joining"
          /\ task'[p].got = "room" => session'.st = "room" /\ task'[p].room = session'.no
          /\ task'[p].got = "p2p" => session'.st = "p2p"
          /\ task'[p].got # "error"
          /\ ~repo'.fallback
    <3> SUFFICES ASSUME task'[p].at = "resolving"
                 PROVE  /\ task'[p].got = "nothing" => session'.st = "joining"
                        /\ task'[p].got = "room" => session'.st = "room" /\ task'[p].room = session'.no
                        /\ task'[p].got = "p2p" => session'.st = "p2p"
                        /\ task'[p].got # "error"
                        /\ ~repo'.fallback
      OBVIOUS
    <3>1. /\ ~repo.fallback /\ task'[p].room = session.no /\ Resolve
          /\ task'[p].got = IF session.st \in {"room", "p2p"} THEN session.st ELSE "nothing"
      BY <1>3
    <3>2. session.st = "error" => session'.st = "joining"
      BY <3>1 DEF Resolve, NewSession, Rebuilt
    <3> QED BY <1>2, <1>4, <2>1, <3>1, <3>2
  <2>4. session'.st # "none"
    BY <1>4, <2>1
  <2> QED BY <2>2, <2>3, <2>4 DEF Waits
<1>7. InOrder'
  <2>1. \A q \in Press : /\ task'[q].fgen <= repo'.gen /\ task'[q].lgen <= live'.gen
                         /\ q # p => task'[q].fgen < repo'.gen
    <3>1. \A q \in Press : q # p => task'[q].fgen <= repo.gen /\ task'[q].lgen <= live.gen
      BY <1>2 DEF InOrder
    <3>2. \A q \in Press : q # p => task'[q].fgen \in Nat /\ task'[q].lgen \in Nat
      BY <1>1, <1>2
    <3>3. live'.gen = live.gen \/ live'.gen = live.gen + 1
      BY <1>3
    <3>4. task'[p].fgen <= repo'.gen /\ task'[p].lgen <= live'.gen
      BY <1>1, <1>2, <1>3
    <3> QED BY <1>1, <1>2, <3>1, <3>2, <3>3, <3>4
  <2>2. \A q \in Press : q > p => task'[q] = Idle
    BY <1>1, <1>2 DEF InOrder, Press
  <2>3. Active(p)' => task'[p].fgen = repo'.gen
    BY <1>2, <1>3 DEF Active
  <2>4. \A q \in Press : task'[q].fgen = repo'.gen => q = p
    BY <1>1, <1>2, <2>1
  <2> QED BY <2>1, <2>2, <2>3, <2>4 DEF InOrder
<1>8. SettingUp' = IF repo.fallback THEN SettingUp \cup {p} ELSE SettingUp \ {p}
  BY <1>2, <1>3 DEF SettingUp
<1>9. Sides'
  <2>1. \A q \in Press : task'[q].at \in {"unmuting", "muting"} => configured
    BY <1>2, <1>3 DEF Sides
  <2>2. session'.st = "room" => session.st = "room"
    BY <1>4
  <2> QED BY <1>2, <1>8, <2>1, <2>2 DEF Sides
<1>10. MicOwned'
  <2>1. \A m \in micCalls : /\ m.gen <= live'.gen /\ (m.on <=> m.by = "start")
                            /\ m.on /\ m.gen = live'.gen => live.active = m.room
    BY <1>1, <1>3 DEF MicOwned, TypeOK
  <2>2. ASSUME NEW q \in Press, task'[q].at = "resolving", task'[q].lgen = live'.gen
        PROVE  live.active = 0 /\ \A r \in Press : task'[r].at = "resolving"
                                                   /\ task'[r].lgen = live'.gen => r = q
    <3>1. CASE task'[p].at = "resolving"
      <4>1. live.active = 0 /\ live'.gen = live.gen + 1
        BY <1>3, <3>1
      <4>2. \A r \in Press : r # p => task'[r].lgen # live'.gen
        <5>1. \A r \in Press : task[r].lgen <= live.gen
          BY DEF InOrder
        <5>2. \A r \in Press : r # p => task'[r].lgen <= live.gen /\ task'[r].lgen \in Nat
          BY <1>1, <1>2, <5>1
        <5> QED BY <1>1, <4>1, <5>2
      <4> QED BY <2>2, <4>1, <4>2
    <3>2. CASE task'[p].at # "resolving"
      <4>1. live'.gen = live.gen
        BY <1>3, <3>2
      <4> QED BY <1>2, <2>2, <3>2, <4>1 DEF MicOwned
    <3> QED BY <3>1, <3>2
  <2> QED BY <1>2, <2>1, <2>2 DEF MicOwned
<1>11. Silent'
  <2>1. CASE UNCHANGED <<session, joins>>
    BY <1>2, <2>1 DEF Silent
  <2>2. CASE ~UNCHANGED <<session, joins>>
    <3>1. /\ session'.no = session.no + 1 /\ live.active = 0
          /\ \A k \in joins' : k \in joins \/ k.no = session.no + 1
      BY <1>4, <2>2
    <3>2. \A m \in micCalls : m.room \in Nat /\ m.room <= session.no
      BY DEF TypeOK, Join, Silent
    <3>3. mic = {}
      BY <1>4, <2>2, OneHears
    <3>4. \A m \in micCalls : m.room <= session'.no /\ m.room # session.no + 1
      BY <1>1, <3>1, <3>2
    <3>5. live'.active <= session'.no /\ live'.active # session.no + 1
      BY <1>1, <1>2, <3>1
    <3>6. \A k \in joins' : /\ live'.active # k.no
                            /\ \A m \in micCalls : m.room # k.no
      BY <1>2, <3>1, <3>4, <3>5 DEF Silent
    <3> QED BY <1>2, <3>3, <3>4, <3>5, <3>6 DEF Silent
  <2> QED BY <2>1, <2>2
<1>12. MuteKept'
  <2> SUFFICES ASSUME "micFailed" \notin odd
               PROVE  MuteKept'
    BY DEF MuteKept
  <2>1. live'.active \notin rooms
    BY <1>2 DEF MuteKept
  <2>2. \A q \in Press : task'[q].at = "resolving" => repo'.tx = "livekit"
    BY <1>2, <1>3, <1>5
  <2>3. \A r \in mic : live'.active = r \/ \E m \in micCalls : ~m.on /\ m.room = r
    BY <1>2 DEF MuteKept
  <2> QED BY <1>2, <2>1, <2>2, <2>3 DEF MuteKept
<1>13. PeerKept'
  <2> SUFFICES ASSUME "roomGone" \notin odd
               PROVE  SetupKept' /\ OpenKept'
    BY DEF PeerKept
  <2>1. SettingUp \subseteq spoilt /\ (open \subseteq spoilt \/ stops # {})
        /\ \A q \in open \ spoilt : web.pc = q
    BY DEF PeerKept, SetupKept, OpenKept, Present
  <2>2. CASE repo.fallback
    <3>1. /\ task'[p].at = "creating" /\ spoilt' = spoilt \cup Beside(p)
          /\ SettingUp' = SettingUp \cup {p}
      BY <1>3, <1>8, <2>2
    <3>2. ASSUME NEW q \in SettingUp' \ spoilt'
          PROVE  q = p /\ SettingUp = {} /\ stops = {}
      BY <2>1, <3>1, <3>2 DEF Beside, Press
    <3>3. \A q \in Press : task'[q].at # "resolving"
      BY <1>2, <1>5, <2>2, <3>1
    <3>4. SetupKept'
      BY <1>2, <2>1, <2>2, <3>1, <3>2, <3>3 DEF SetupKept, Present
    <3>5. open' \subseteq spoilt'
      <4>1. stops # {} => web.pc \in Beside(p) \/ web.pc = 0
        BY DEF Beside
      <4>2. 0 \notin open
        BY DEF TypeOK, Press
      <4> QED BY <1>2, <2>1, <3>1, <4>1, <4>2
    <3> QED BY <3>4, <3>5 DEF OpenKept
  <2>3. CASE ~repo.fallback
    <3>1. SettingUp' = {} /\ open' = {}
      BY <1>2, <1>8, <2>3 DEF Sides
    <3> QED BY <3>1 DEF SetupKept, OpenKept
  <2> QED BY <2>2, <2>3
<1>14. HeldKept'
  <2> SUFFICES ASSUME ~HeldExcused
               PROVE  HeldKept'
    BY DEF HeldKept, HeldExcused
  <2>1. live.active = 0
    BY DEF HeldKept
  <2>2. \A q \in Press : q < p /\ task'[q].at \in {"resolving", "unmuting", "muting"}
                           => task'[q].lgen < live'.gen
    <3> SUFFICES ASSUME NEW q \in Press, q < p, task'[q].at \in {"resolving", "unmuting", "muting"}
                 PROVE  task'[q].lgen < live'.gen
      OBVIOUS
    <3>1. task'[q] = task[q] /\ task[q].lgen <= live.gen
      BY <1>2 DEF InOrder, Press
    <3>2. ~repo.fallback
      <4>1. repo.fallback => task[q].at \notin {"unmuting", "muting"}
        BY FallbackOnly
      <4> QED BY <1>5, <3>1, <4>1
    <3>3. live'.gen = live.gen + 1
      BY <1>3, <2>1, <3>2
    <3> QED BY <1>1, <3>1, <3>3
  <2>3. configured => \A m \in micCalls : ~m.on => m.gen < live'.gen
    <3>1. configured => live'.gen = live.gen + 1
      BY <1>3, <2>1, FallbackOnly
    <3> QED BY <1>1, <3>1 DEF MicOwned, TypeOK
  <2>4. Heard'
    BY <1>1, <1>3, <1>8, <2>1 DEF Heard
  <2> QED BY <1>2, <2>1, <2>2, <2>3, <2>4 DEF HeldKept
<1> QED BY <1>6, <1>7, <1>9, <1>10, <1>11, <1>12, <1>13, <1>14

(* The state becomes idle: what transmits stops, and its generation is over.*)
LEMMA AirStop ==
  ASSUME AirInv, state = "transmitting", inConvoy, state' = "idle", Stop, odd \subseteq odd',
         UNCHANGED <<presses, configured, inConvoy, rooms, mic>>
  PROVE  AirKept'
<1> USE DEF AirInv, AirKept
<1>0. UNCHANGED <<task, session, joins, web, open>>
  BY DEF Stop
<1>1. /\ repo.gen \in Nat /\ live.gen \in Nat /\ live.active \in Nat
      /\ \A q \in Press : task[q].fgen \in Nat /\ task[q].lgen \in Nat
      /\ \A m \in micCalls : m.gen \in Nat
      /\ 0 \notin rooms /\ 0 \notin mic /\ 0 <= session.no /\ \A j \in joins : j.no # 0
  <2>1. \A q \in Press : task[q].fgen \in Nat /\ task[q].lgen \in Nat
    BY DEF SessionInv, Told, Tasks
  <2>2. session.no \in Nat
    BY DEF SessionInv, Joined, Sessions
  <2> QED BY <2>1, <2>2, OneHears DEF SessionInv, Told, Repos, Lives, TypeOK, Join
<1>2. repo'.gen = repo.gen + 1 /\ repo'.fallback = repo.fallback /\ repo'.tx = "none"
  BY DEF Stop, SessionInv, Told, Repos
<1>3. /\ live.gen <= live'.gen /\ live'.gen \in Nat /\ live'.active \in {0, live.active}
      /\ repo.tx = "livekit" => live'.active = 0 /\ live'.gen = live.gen + 1
      /\ repo.tx # "livekit" => live' = live /\ micCalls' = micCalls
      /\ micCalls \subseteq micCalls'
      /\ \A m \in micCalls' : \/ m \in micCalls
                              \/ /\ m.by = "stop" /\ ~m.on /\ m.gen = live'.gen
                                 /\ live.active # 0 /\ m.room = live.active
      /\ repo.tx = "livekit" /\ live.active # 0 =>
           \E m \in micCalls' : ~m.on /\ m.room = live.active
  <2>1. CASE repo.tx = "livekit"
    <3> DEFINE c == MicCall(live.active, FALSE, "stop", live.gen + 1)
    <3>1. /\ live' = [gen |-> live.gen + 1, active |-> 0]
          /\ micCalls' = IF live.active = 0 THEN micCalls ELSE micCalls \cup {c}
      BY <2>1 DEF Stop, LiveStop
    <3>2. c.by = "stop" /\ ~c.on /\ c.gen = live.gen + 1 /\ c.room = live.active
      BY DEF MicCall
    <3> HIDE DEF c
    <3>3. live'.gen = live.gen + 1 /\ live'.active = 0
      BY <3>1
    <3> QED BY <1>1, <2>1, <3>1, <3>2, <3>3
  <2>2. CASE repo.tx # "livekit"
    BY <1>1, <2>2 DEF Stop, liveVars
  <2> QED BY <2>1, <2>2
<1>4. /\ stops \subseteq stops' /\ spoilt \subseteq spoilt'
      /\ repo.tx # "p2p" => UNCHANGED <<stops, spoilt>>
      /\ repo.tx = "p2p" => SettingUp \subseteq spoilt'
      /\ stops' # {} => repo.fallback
      /\ repo.tx = "p2p" /\ web.pc # 0 => stops' # {}
      /\ \A y \in stops' : y \in stops \/ y.at = "channel" \/ (y.at = "peer" /\ y.pc = web.pc)
  <2>1. CASE repo.tx = "p2p"
    <3>1. PICK no : no = repo.gen + 1
      OBVIOUS
    <3>2. WebStop(no) /\ spoilt' = spoilt \cup SettingUp
      BY <2>1, <3>1 DEF Stop
    <3>3. PICK y : y = [no |-> no, at |-> "peer", pc |-> web.pc]
      OBVIOUS
    <3>4. PICK z : z = [no |-> no, at |-> "channel", pc |-> 0]
      OBVIOUS
    <3>5. stops' = IF web.dc # 0 THEN stops \cup {z} ELSE IF web.pc # 0 THEN stops \cup {y} ELSE stops
      BY <3>2, <3>3, <3>4 DEF WebStop, ClosesPeer
    <3>6. y.at = "peer" /\ y.pc = web.pc /\ z.at = "channel"
      BY <3>3, <3>4
    <3>7. stops # {} \/ web.pc # 0 \/ web.dc # 0 => repo.fallback
      BY DEF Sides
    <3> QED BY <2>1, <3>2, <3>5, <3>6, <3>7
  <2>2. CASE repo.tx # "p2p"
    BY <2>2 DEF Stop, Sides
  <2> QED BY <2>1, <2>2
<1>5. Waits'
  BY <1>0, <1>2 DEF Waits
<1>6. InOrder'
  <2>1. \A q \in Press : task[q].fgen <= repo'.gen /\ task[q].fgen # repo'.gen /\ task[q].lgen <= live'.gen
    BY <1>1, <1>2, <1>3 DEF InOrder
  <2> QED BY <1>0, <2>1 DEF InOrder
<1>7. SettingUp' = SettingUp
  BY <1>0 DEF SettingUp
<1>8. Sides'
  <2>1. live'.active # 0 \/ micCalls' # {} => live.active # 0 \/ micCalls # {}
    BY <1>3
  <2> QED BY <1>0, <1>2, <1>4, <1>7, <2>1 DEF Sides
<1>9. MicOwned'
  <2>1. CASE repo.tx = "livekit"
    <3>1. \A m \in micCalls' : /\ m.gen <= live'.gen /\ (m.on <=> m.by = "start")
                               /\ m.on => m.gen # live'.gen
      BY <1>1, <1>3, <2>1 DEF MicOwned
    <3>2. \A q \in Press : task[q].lgen # live'.gen
      BY <1>1, <1>3, <2>1 DEF InOrder
    <3> QED BY <1>0, <1>3, <2>1, <3>1, <3>2 DEF MicOwned
  <2>2. CASE repo.tx # "livekit"
    BY <1>0, <1>3, <2>2 DEF MicOwned
  <2> QED BY <2>1, <2>2
<1>10. Silent'
  BY <1>0, <1>1, <1>3 DEF Silent
<1>11. MuteKept'
  <2> SUFFICES ASSUME "micFailed" \notin odd
               PROVE  MuteKept'
    BY DEF MuteKept
  <2>1. live'.active \notin rooms
    BY <1>1, <1>3 DEF MuteKept
  <2>2. \A q \in Press : ~(task[q].at = "resolving" /\ task[q].lgen = live'.gen
                             /\ task[q].got \in {"nothing", "room"})
    BY <1>1, <1>3 DEF MuteKept, InOrder
  <2>3. \A r \in mic : live'.active = r \/ \E m \in micCalls' : ~m.on /\ m.room = r
    BY <1>1, <1>3 DEF MuteKept
  <2> QED BY <1>0, <2>1, <2>2, <2>3 DEF MuteKept
<1>12. PeerKept'
  <2> SUFFICES ASSUME "roomGone" \notin odd
               PROVE  SetupKept' /\ OpenKept'
    BY DEF PeerKept
  <2>1. SettingUp' \subseteq spoilt'
    BY <1>4, <1>7 DEF PeerKept, SetupKept, Present
  <2>2. ASSUME NEW q \in open \ spoilt'
        PROVE  /\ web.pc = q /\ SettingUp' \subseteq {q} /\ stops' # {}
               /\ \A x \in stops' : x.at = "channel" \/ (x.at = "peer" /\ x.pc = q)
               /\ \A r \in Press : task[r].at # "resolving"
    <3>1. /\ web.pc = q /\ SettingUp \subseteq {q} /\ (Present(q) \/ stops # {})
          /\ \A x \in stops : x.at = "channel" \/ (x.at = "peer" /\ x.pc = q)
          /\ \A r \in Press : task[r].at # "resolving"
      BY <1>4 DEF PeerKept, OpenKept
    <3>2. q # 0
      BY DEF TypeOK, Press
    <3> QED BY <1>4, <1>7, <3>1, <3>2 DEF Present
  <2>3. OpenKept'
    BY <1>0, <2>2 DEF OpenKept
  <2> QED BY <2>1, <2>3 DEF SetupKept
<1>13. HeldKept'
  <2> SUFFICES ASSUME ~HeldExcused'
               PROVE  HeldKept'
    BY DEF HeldKept
  <2>1. ~HeldExcused
    BY DEF HeldExcused
  <2>2. live'.active = 0
    BY <1>3, <2>1 DEF HeldKept
  <2>3. \A q \in Press : q < presses /\ task[q].at \in {"resolving", "unmuting", "muting"}
                           => task[q].lgen < live'.gen
    BY <1>1, <1>3, <2>1 DEF HeldKept
  <2> QED BY <1>0, <2>2, <2>3 DEF HeldKept
<1> QED BY <1>5, <1>6, <1>8, <1>9, <1>10, <1>11, <1>12, <1>13

(* After the convoy was left nothing is routed, and nothing is on the air. *)
LEMMA AirStopUnrouted ==
  ASSUME AirInv, Resumed = {}, state = "transmitting", ~inConvoy, state' = "idle",
         TransportUnchanged, odd \subseteq odd',
         UNCHANGED <<presses, configured, inConvoy, rooms, mic>>
  PROVE  AirKept'
<1> USE DEF AirInv, AirKept
<1>0. UNCHANGED <<micCalls, live, repo, web, open, stops, spoilt, task, session, joins>>
  BY DEF TransportUnchanged, liveVars, webVars
<1>1. "roomGone" \in odd /\ session.st = "none" /\ mic = {}
  BY OneHears DEF InOrder, SessionInv, Joined, RoomKept
<1>2. live.active \notin rooms
  BY <1>1 DEF SessionInv, Joined, RoomKept, Silent
<1>3. \A p \in Press : task[p].at # "resolving"
  BY <1>1, NobodyTold
<1>4. Waits' /\ Sides' /\ MicOwned' /\ Silent'
  BY <1>0, <1>1 DEF Waits, Sides, SettingUp, MicOwned, Silent
<1>5. InOrder'
  BY <1>0, <1>1 DEF InOrder, Active
<1>6. MuteKept' /\ PeerKept' /\ HeldKept'
  BY <1>0, <1>1, <1>2, <1>3 DEF MuteKept, PeerKept, HeldKept, HeldExcused
<1> QED BY <1>4, <1>5, <1>6

(* Who is on the air, initially: nobody.                                   *)
LEMMA AirInit ==
  ASSUME Init, PttAssumption
  PROVE  AirKept
<1> USE DEF Init
<1>1. \A p \in Press : task[p].at = "none" /\ task[p].fgen = 0 /\ task[p].lgen = 0 /\ task[p] = Idle
  BY DEF Idle
<1>2. SettingUp = {}
  BY <1>1 DEF SettingUp
<1>3. Waits /\ Sides /\ MicOwned /\ Silent
  BY <1>1, <1>2 DEF Waits, Sides, MicOwned, Silent
<1>4. InOrder
  BY <1>1 DEF InOrder, Press, Active
<1>5. MuteKept /\ PeerKept /\ HeldKept
  BY <1>1, <1>2 DEF MuteKept, PeerKept, SetupKept, OpenKept, HeldKept
<1> QED BY <1>3, <1>4, <1>5 DEF AirKept

(* Every step preserves who is on the air and who is about to be.          *)
LEMMA AirStep ==
  ASSUME AirInv, PttAssumption, [Next]_vars
  PROVE  AirKept'
<1> USE DEF AirInv
<1>1. CASE UNCHANGED vars
  BY <1>1, AirStable DEF vars, notifierVars, sessionVars, liveVars, webVars
<1>2. CASE Enter
  <2>1. /\ Resumed = {} /\ NewSession /\ inConvoy' /\ ~inConvoy
        /\ UNCHANGED <<presses, state, configured, micCalls, live, repo, web, open, stops, task, spoilt,
                       rooms, mic, odd>>
    BY <1>2 DEF Enter, notifierVars, liveVars, webVars
  <2>2. session.st # "joining" /\ mic' = {} /\ (state = "transmitting" => "roomGone" \in odd')
    BY <2>1, OneHears DEF SessionInv, Joined, RoomKept, AirKept, InOrder
  <2>3. PICK js : js = joins
    OBVIOUS
  <2>4. Rebuilt(js) /\ \A k \in js : \E j \in joins : k.no = j.no
    BY <2>1, <2>3 DEF NewSession
  <2> QED BY <2>1, <2>2, <2>4, AirNewSession
<1>3. CASE Leave \/ LoseRoom
  BY <1>3, AirLeave, AirLoseRoom
<1>4. CASE PressDown
  <2>1. CASE state = "transmitting"
    BY <1>4, <2>1, AirStable DEF PressDown, TransportUnchanged, liveVars, webVars
  <2>2. CASE state # "transmitting"
    <3>1. presses' = presses + 1 /\ presses' \in Press /\ state = "idle"
      BY <1>4, <2>2 DEF PressDown, SessionInv, Told, Counted, Press, PttAssumption, TypeOK
    <3>2. PICK p \in Press : p = presses + 1 /\ presses' = p
      BY <3>1
    <3>3. Start(p)
      <4>1. Start(presses')
        BY <1>4, <2>2 DEF PressDown
      <4> QED BY <3>2, <4>1
    <3> QED BY <1>4, <2>2, <3>1, <3>2, <3>3, AirStart DEF PressDown
  <2> QED BY <2>1, <2>2
<1>5. CASE Release \/ Interrupt \/ RecorderStarts
  BY <1>5, AirStable
     DEF Release, Interrupt, RecorderStarts, sessionVars, liveVars, webVars
<1>6. CASE RecorderRefuses \/ RecorderStops
  <2>1. /\ BecomesIdle /\ Resumed = {}
        /\ UNCHANGED <<presses, configured, inConvoy, rooms, mic>>
        /\ odd \subseteq odd'
    BY <1>6 DEF RecorderRefuses, RecorderStops
  <2>2. CASE state = "transmitting" /\ inConvoy
    BY <2>1, <2>2, AirStop DEF BecomesIdle
  <2>3. CASE state = "transmitting" /\ ~inConvoy
    BY <2>1, <2>3, AirStopUnrouted DEF BecomesIdle
  <2>4. CASE state # "transmitting"
    BY <2>1, <2>4, AirStable DEF BecomesIdle, TransportUnchanged, liveVars, webVars, TypeOK
  <2> QED BY <2>2, <2>3, <2>4
<1>7. CASE \E m \in micCalls : MicDone(m) \/ MicFails(m)
  BY <1>7, AirUnmuted, AirMuted, AirMicFails
<1>8. CASE \E p \in Press : Resume(p) \/ SetsUp(p)
  BY <1>8, AirResume, AirSetsUp
<1>9. CASE \E x \in stops : StopsPeer(x)
  BY <1>9, AirStopsPeer
<1>10. CASE \E j \in joins : Joins(j)
  BY <1>10, AirJoins
<1> QED
  BY <1>1, <1>2, <1>3, <1>4, <1>5, <1>6, <1>7, <1>8, <1>9, <1>10 DEF Next

-----------------------------------------------------------------------------
(* Types.                                                                  *)

(* The subscription that the notifier knows is alive.                      *)
FramesHeld == framesSub => subs > 0

DeviceInv == AirInv /\ FramesHeld

ButtonTyped ==
  /\ pressed \in BOOLEAN /\ touches \in 0 .. MaxPresses /\ presses \in 0 .. touches
  /\ state \in {"idle", "transmitting"} /\ recording \in BOOLEAN
  /\ configured \in BOOLEAN /\ inConvoy \in BOOLEAN
  /\ breaks \in 0 .. MaxBreaks /\ odd \subseteq Odd

FramesTyped ==
  /\ framesSub \in BOOLEAN /\ subs \in Nat
  /\ calls \in Seq([op : {"start", "stop"}, press : Press])
  /\ FramesHeld

SessionTypes == [st : {"none", "joining", "room", "p2p", "error"}, no : Join \cup {0}]
JoinsUnderWay == [no : Join, attempt : 1 .. MaxAttempts, at : {"token", "connecting", "muting"}]

RoomsTyped ==
  /\ session \in SessionTypes /\ joins \subseteq JoinsUnderWay
  /\ rooms \subseteq Join /\ mic \subseteq rooms

MicCallTypes == [room : Join, on : BOOLEAN, by : {"start", "stop", "again"}, gen : Nat]
StopTypes == [no : Nat, at : {"channel", "peer", "disposal"}, pc : Press \cup {0}]

LiveTyped == micCalls \subseteq MicCallTypes /\ live \in [gen : Nat, active : Join \cup {0}]

WebTyped ==
  /\ web \in [pc : Press \cup {0}, dc : Press \cup {0}] /\ open \subseteq Press
  /\ stops \subseteq StopTypes /\ spoilt \subseteq Press

(* Every step preserves the types of the button and its counters,          *)
LEMMA ButtonTypes ==
  ASSUME DeviceInv, PttAssumption, [Next]_vars
  PROVE  ButtonTyped'
<1>0. ButtonTyped /\ touches \in Nat /\ presses \in Nat /\ presses <= touches /\ breaks \in Nat
      /\ touches <= MaxPresses /\ MaxPresses \in Nat /\ MaxBreaks \in Nat
  BY DEF DeviceInv, AirInv, TypeOK, ButtonTyped, PttAssumption
<1>1. CASE UNCHANGED vars
  BY <1>0, <1>1 DEF vars, notifierVars, sessionVars, ButtonTyped
<1>2. CASE PressDown
  <2>1. /\ touches < MaxPresses /\ touches' = touches + 1 /\ pressed' = TRUE
        /\ presses' = presses \/ presses' = presses + 1
        /\ state' = state \/ state' = "transmitting"
        /\ recording' = recording /\ configured' = configured /\ inConvoy' = inConvoy
        /\ breaks' = breaks /\ odd' = odd
    BY <1>2 DEF PressDown
  <2>2. touches' \in 0 .. MaxPresses /\ presses' \in 0 .. touches'
    BY <1>0, <2>1
  <2>3. pressed' \in BOOLEAN /\ recording' \in BOOLEAN /\ configured' \in BOOLEAN
        /\ inConvoy' \in BOOLEAN
    BY <1>0, <2>1 DEF ButtonTyped
  <2>4. state' \in {"idle", "transmitting"}
    BY <1>0, <2>1 DEF ButtonTyped
  <2> QED BY <1>0, <2>1, <2>2, <2>3, <2>4 DEF ButtonTyped
<1>3. ASSUME UNCHANGED <<touches, presses, state, configured, inConvoy>>,
             pressed' = pressed \/ pressed' = FALSE, recording' \in BOOLEAN,
             breaks' = breaks \/ Break, odd' \subseteq odd \cup Odd
      PROVE  ButtonTyped'
  <2>1. breaks' \in 0 .. MaxBreaks
    BY <1>0, <1>3 DEF Break, ButtonTyped
  <2>2. pressed' \in BOOLEAN /\ odd' \subseteq Odd
    BY <1>0, <1>3 DEF ButtonTyped
  <2> QED BY <1>0, <1>3, <2>1, <2>2 DEF ButtonTyped
<1>4. recording \in BOOLEAN
  BY <1>0 DEF ButtonTyped
<1>5. CASE Release \/ Interrupt \/ RecorderStarts
  BY <1>3, <1>4, <1>5 DEF Release, Interrupt, RecorderStarts, sessionVars, Odd
<1>6. CASE RecorderRefuses \/ RecorderStops
  <2>1. state' = "idle" /\ UNCHANGED <<pressed, touches, presses, configured, inConvoy, breaks>>
        /\ recording' \in BOOLEAN /\ odd' \subseteq odd \cup Odd
    BY <1>4, <1>6 DEF RecorderRefuses, RecorderStops, BecomesIdle, Odd
  <2>2. odd' \subseteq Odd
    BY <1>0, <2>1 DEF ButtonTyped
  <2> QED BY <1>0, <2>1, <2>2 DEF ButtonTyped
<1>7. CASE Enter \/ Leave
  <2>1. /\ inConvoy' \in BOOLEAN /\ (breaks' = breaks \/ Break) /\ odd' \subseteq odd \cup Odd
        /\ UNCHANGED <<pressed, touches, presses, state, recording, configured>>
    BY <1>7 DEF Enter, Leave, notifierVars, Gone, Odd
  <2>2. breaks' \in 0 .. MaxBreaks /\ odd' \subseteq Odd
    BY <1>0, <2>1 DEF ButtonTyped, Break
  <2> QED BY <1>0, <2>1, <2>2 DEF ButtonTyped
<1>8. CASE LoseRoom
  BY <1>3, <1>4, <1>8 DEF LoseRoom, notifierVars, Gone, Odd
<1>9. CASE \E m \in micCalls : MicDone(m) \/ MicFails(m)
  BY <1>3, <1>4, <1>9 DEF MicDone, MicFails, notifierVars, sessionVars, Odd
<1>10. CASE \E p \in Press : Resume(p)
  BY <1>3, <1>4, <1>10 DEF Resume, notifierVars, sessionVars
<1>11. CASE (\E p \in Press : SetsUp(p)) \/ (\E x \in stops : StopsPeer(x))
  <2>1. breaks' = breaks \/ Break
    BY <1>11 DEF SetsUp, StopsPeer, PeerCreated, ChannelCreated, PeerOffered, OfferSent, SetupFails,
                 ChannelClosed, PeerClosed, PeerDisposed, StopFails
  <2> QED BY <1>3, <1>4, <1>11, <2>1, SetupLeaves DEF notifierVars, sessionVars
<1>12. CASE \E j \in joins : Joins(j)
  <2>1. PICK j \in joins : Joins(j)
    BY <1>12
  <2>2. odd' \subseteq odd \cup Odd
    BY <2>1 DEF Joins, TokenAnswered, Connected, ConnectFails, Muted, MuteFails, Gone, Odd
  <2> QED BY <1>3, <1>4, <2>1, <2>2, JoinLeaves DEF JoinUnchanged, notifierVars
<1> QED BY <1>1, <1>2, <1>5, <1>6, <1>7, <1>8, <1>9, <1>10, <1>11, <1>12 DEF Next

(* those of the recorder's calls and the frames,                           *)
LEMMA FramesTypes ==
  ASSUME DeviceInv, PttAssumption, [Next]_vars
  PROVE  FramesTyped'
<1> DEFINE C == [op : {"start", "stop"}, press : Press]
<1>0. FramesTyped
  BY DEF DeviceInv, AirInv, TypeOK, FramesTyped
<1>1. CASE UNCHANGED <<framesSub, subs, calls>>
  BY <1>0, <1>1 DEF FramesTyped, FramesHeld
<1>2. CASE PressDown /\ state # "transmitting"
  <2>1. UNCHANGED <<framesSub, subs>> /\ presses' \in Press
        /\ calls' = Append(calls, [op |-> "start", press |-> presses'])
    BY <1>2 DEF PressDown, DeviceInv, AirInv, SessionInv, Told, Counted, Press, PttAssumption
  <2>2. [op |-> "start", press |-> presses'] \in C
    BY <2>1
  <2> HIDE DEF C
  <2>3. calls' \in Seq(C)
    BY <1>0, <2>1, <2>2, AppendProperties DEF FramesTyped, C
  <2> QED BY <1>0, <2>1, <2>3 DEF FramesTyped, FramesHeld, C
<1>3. CASE StopTransmitting /\ state = "transmitting"
  <2>1. /\ framesSub' = FALSE
        /\ subs' = IF framesSub THEN subs - 1 ELSE subs
        /\ calls' = Append(calls, [op |-> "stop", press |-> presses])
    BY <1>3 DEF StopTransmitting
  <2>2. [op |-> "stop", press |-> presses] \in C
    BY <1>3 DEF DeviceInv, AirInv, AirKept, InOrder
  <2> HIDE DEF C
  <2>3. calls' \in Seq(C)
    BY <1>0, <2>1, <2>2, AppendProperties DEF FramesTyped, C
  <2>4. subs' \in Nat
    BY <1>0, <2>1 DEF FramesTyped, FramesHeld
  <2> QED BY <2>1, <2>3, <2>4 DEF FramesTyped, FramesHeld, C
<1>4. CASE calls # <<>> /\ calls' = Tail(calls) /\ framesSub' \in BOOLEAN
           /\ (UNCHANGED <<framesSub, subs>> \/ (framesSub' = TRUE /\ subs' = subs + 1))
  <2>1. calls' \in Seq(C)
    BY <1>0, <1>4, HeadTailProperties DEF FramesTyped
  <2> QED BY <1>0, <1>4, <2>1 DEF FramesTyped, FramesHeld
<1>5. CASE RecorderStarts \/ RecorderRefuses \/ RecorderStops
  BY <1>0, <1>4, <1>5 DEF RecorderStarts, RecorderRefuses, RecorderStops, FramesTyped
<1>6. CASE PressDown
  BY <1>1, <1>2, <1>6 DEF PressDown
<1>7. CASE Release \/ Interrupt
  BY <1>1, <1>3, <1>7 DEF Release, Interrupt, StopTransmitting
<1>8. CASE UNCHANGED vars
  BY <1>1, <1>8 DEF vars, notifierVars
<1>9. CASE Enter \/ Leave \/ LoseRoom
  BY <1>1, <1>9 DEF Enter, Leave, LoseRoom, notifierVars
<1>10. CASE \E m \in micCalls : MicDone(m) \/ MicFails(m)
  BY <1>1, <1>10 DEF MicDone, MicFails, notifierVars
<1>11. CASE \E p \in Press : Resume(p)
  BY <1>1, <1>11 DEF Resume, notifierVars
<1>12. CASE (\E p \in Press : SetsUp(p)) \/ (\E x \in stops : StopsPeer(x))
  BY <1>1, <1>12, SetupLeaves DEF notifierVars
<1>13. CASE \E j \in joins : Joins(j)
  BY <1>1, <1>13, JoinLeaves DEF JoinUnchanged, notifierVars
<1> QED BY <1>5, <1>6, <1>7, <1>8, <1>9, <1>10, <1>11, <1>12, <1>13 DEF Next

(* those of sessions, joins and rooms: whose provider is built anew,       *)
LEMMA RebuiltTyped ==
  ASSUME session \in SessionTypes, PttAssumption, NEW js, js \subseteq JoinsUnderWay, Rebuilt(js)
  PROVE  session' \in SessionTypes /\ joins' \subseteq JoinsUnderWay
<1>1. session.no < MaxJoins /\ session.no \in Nat
  BY DEF SessionTypes, Join, Rebuilt
<1>2. PICK n : n = session.no + 1
  OBVIOUS
<1>3. n \in Join /\ 1 \in 1 .. MaxAttempts
  BY <1>1, <1>2 DEF Join, PttAssumption
<1>4. PICK f : f = [no |-> n, attempt |-> 1, at |-> "token"]
  OBVIOUS
<1>5. f \in JoinsUnderWay /\ session' = [st |-> "joining", no |-> n] /\ joins' = js \cup {f}
  BY <1>2, <1>3, <1>4 DEF Rebuilt, JoinsUnderWay
<1> QED BY <1>3, <1>5 DEF SessionTypes

(* or one of whose joins has an answer,                                    *)
LEMMA JoinsTyped ==
  ASSUME RoomsTyped, PttAssumption, NEW j \in joins, Joins(j)
  PROVE  RoomsTyped'
<1>0. j \in JoinsUnderWay /\ session \in SessionTypes /\ joins \subseteq JoinsUnderWay /\ j.no \in Join
  BY DEF RoomsTyped, JoinsUnderWay
<1>1. ASSUME NEW a \in {"token", "connecting", "muting"}
      PROVE  Goes(j, a) \subseteq JoinsUnderWay
  <2>1. [j EXCEPT !.at = a] \in JoinsUnderWay
    BY <1>0 DEF JoinsUnderWay
  <2> QED BY <1>0, <2>1 DEF Goes
<1>2. ASSUME NEW outcome \in {"room", "p2p", "error"}, Decided(j, outcome)
      PROVE  session' \in SessionTypes /\ joins' \subseteq JoinsUnderWay
  BY <1>0, <1>2 DEF Decided, SessionTypes
<1>3. ASSUME Retry(j)
      PROVE  session' \in SessionTypes /\ joins' \subseteq JoinsUnderWay
  <2>1. CASE j.attempt < MaxAttempts
    <3>1. PICK n : n = j.attempt + 1
      OBVIOUS
    <3>2. n \in 1 .. MaxAttempts
      BY <1>0, <2>1, <3>1 DEF JoinsUnderWay, PttAssumption
    <3>3. PICK k : k = [j EXCEPT !.attempt = n, !.at = "token"]
      OBVIOUS
    <3>4. k \in JoinsUnderWay
      BY <1>0, <3>2, <3>3 DEF JoinsUnderWay
    <3>5. joins' = (joins \ {j}) \cup {k} /\ session' = session
      BY <1>3, <2>1, <3>1, <3>3 DEF Retry
    <3> QED BY <1>0, <3>4, <3>5
  <2>2. CASE ~(j.attempt < MaxAttempts)
    BY <1>2, <1>3, <2>2 DEF Retry
  <2> QED BY <2>1, <2>2
<1>4. session' \in SessionTypes /\ joins' \subseteq JoinsUnderWay
  <2>1. CASE TokenAnswered(j)
    <3>1. \/ Retry(j)
          \/ Decided(j, "p2p")
          \/ Decided(j, "error")
          \/ joins' = Goes(j, "connecting") /\ UNCHANGED <<session, task>>
      BY <2>1 DEF TokenAnswered
    <3> QED BY <1>0, <1>1, <1>2, <1>3, <3>1
  <2>2. CASE Connected(j)
    <3>1. PICK js : js = Goes(j, "muting")
      OBVIOUS
    <3>2. js \subseteq JoinsUnderWay
      BY <1>1, <3>1
    <3>3. Rebuilt(js) \/ (joins' = js /\ UNCHANGED session)
      BY <2>2, <3>1 DEF Connected
    <3> QED BY <1>0, <3>2, <3>3, RebuiltTyped
  <2>3. CASE ConnectFails(j) \/ MuteFails(j)
    BY <1>3, <2>3 DEF ConnectFails, MuteFails
  <2>4. CASE Muted(j)
    BY <1>2, <2>4 DEF Muted
  <2> QED BY <2>1, <2>2, <2>3, <2>4 DEF Joins
<1>5. rooms' \subseteq Join /\ mic' \subseteq rooms'
  <2>1. \/ UNCHANGED <<rooms, mic>>
        \/ rooms' = {j.no} /\ mic' = {}
        \/ rooms' = rooms \ {j.no} /\ mic' = mic \ {j.no}
    BY DEF Joins, TokenAnswered, Connected, ConnectFails, Muted, MuteFails, Closed
  <2> QED BY <1>0, <2>1 DEF RoomsTyped
<1> QED BY <1>4, <1>5 DEF RoomsTyped

(* or whatever else happens,                                               *)
LEMMA RoomsTypes ==
  ASSUME DeviceInv, PttAssumption, [Next]_vars
  PROVE  RoomsTyped'
<1>0. RoomsTyped
  BY DEF DeviceInv, AirInv, TypeOK, RoomsTyped, SessionTypes, JoinsUnderWay
<1>1. ASSUME NewSession, rooms' \subseteq rooms, mic' \subseteq mic, mic' \subseteq rooms'
      PROVE  RoomsTyped'
  <2>1. PICK js : js = joins
    OBVIOUS
  <2>2. Rebuilt(js) /\ js \subseteq JoinsUnderWay
    BY <1>0, <1>1, <2>1 DEF NewSession, RoomsTyped
  <2> QED BY <1>0, <1>1, <2>2, RebuiltTyped DEF RoomsTyped
<1>2. CASE UNCHANGED <<session, joins, rooms, mic>>
  BY <1>0, <1>2 DEF RoomsTyped
<1>3. CASE UNCHANGED vars \/ Release \/ Interrupt \/ RecorderStarts
  BY <1>2, <1>3 DEF vars, sessionVars, Release, Interrupt, RecorderStarts
<1>4. CASE RecorderRefuses \/ RecorderStops
  BY <1>2, <1>4 DEF RecorderRefuses, RecorderStops, BecomesIdle, Stop, TransportUnchanged
<1>5. CASE PressDown
  <2>1. UNCHANGED <<session, joins>> \/ NewSession
    BY <1>5 DEF PressDown, TransportUnchanged, Start, LiveStart, Resolve
  <2> QED BY <1>0, <1>1, <1>2, <1>5, <2>1 DEF PressDown, RoomsTyped
<1>6. CASE Enter
  BY <1>0, <1>1, <1>6 DEF Enter, RoomsTyped
<1>7. CASE Leave
  <2>1. session' = [session EXCEPT !.st = "none"] /\ joins' = joins
        /\ \/ UNCHANGED <<rooms, mic>>
           \/ rooms' = rooms \ {session.no} /\ mic' = mic \ {session.no}
    BY <1>7 DEF Leave, Closed
  <2> QED BY <1>0, <2>1 DEF RoomsTyped, SessionTypes
<1>8. CASE LoseRoom
  <2>1. PICK r \in rooms : /\ rooms' = rooms \ {r} /\ mic' = mic \ {r}
                           /\ NewSession \/ UNCHANGED <<session, joins>>
    BY <1>8 DEF LoseRoom, Closed
  <2>2. rooms' \subseteq rooms /\ mic' \subseteq mic /\ mic' \subseteq rooms'
    BY <1>0, <2>1 DEF RoomsTyped
  <2> QED BY <1>0, <1>1, <2>1, <2>2 DEF RoomsTyped
<1>9. CASE \E m \in micCalls : MicDone(m) \/ MicFails(m)
  <2>1. UNCHANGED <<session, joins, rooms>> /\ mic' \subseteq rooms
    BY <1>0, <1>9 DEF MicDone, MicFails, sessionVars, RoomsTyped
  <2> QED BY <1>0, <2>1 DEF RoomsTyped
<1>10. CASE \E p \in Press : Resume(p)
  BY <1>2, <1>10 DEF Resume, sessionVars
<1>11. CASE (\E p \in Press : SetsUp(p)) \/ (\E x \in stops : StopsPeer(x))
  BY <1>2, <1>11, SetupLeaves DEF sessionVars
<1>12. CASE \E j \in joins : Joins(j)
  BY <1>0, <1>12, JoinsTyped
<1> QED BY <1>3, <1>4, <1>5, <1>6, <1>7, <1>8, <1>9, <1>10, <1>11, <1>12 DEF Next

(* those of LiveKit's transport,                                           *)
LEMMA LiveTypes ==
  ASSUME DeviceInv, PttAssumption, [Next]_vars
  PROVE  LiveTyped'
<1>0. LiveTyped
  BY DEF DeviceInv, AirInv, TypeOK, LiveTyped, MicCallTypes
<1>1. CASE micCalls' \subseteq micCalls /\ live' = live
  BY <1>0, <1>1 DEF LiveTyped
<1>2. CASE UNCHANGED vars \/ Release \/ Interrupt \/ RecorderStarts \/ Enter \/ Leave \/ LoseRoom
  BY <1>1, <1>2 DEF vars, liveVars, Release, Interrupt, RecorderStarts, Enter, Leave, LoseRoom
<1>3. CASE RecorderRefuses \/ RecorderStops
  <2>1. CASE UNCHANGED liveVars
    BY <1>1, <2>1 DEF liveVars
  <2>2. CASE LiveStop
    <3>1. PICK g : g = live.gen + 1
      OBVIOUS
    <3>2. g \in Nat /\ live.active \in Join \cup {0}
      BY <1>0, <3>1 DEF LiveTyped
    <3>3. /\ live' = [gen |-> g, active |-> 0]
          /\ micCalls' = IF live.active = 0 THEN micCalls
                         ELSE micCalls \cup {MicCall(live.active, FALSE, "stop", g)}
      BY <2>2, <3>1 DEF LiveStop
    <3>4. live.active # 0 => MicCall(live.active, FALSE, "stop", g) \in MicCallTypes
      BY <3>2 DEF MicCall, MicCallTypes
    <3> QED BY <1>0, <3>2, <3>3, <3>4 DEF LiveTyped
  <2> QED BY <1>3, <2>1, <2>2 DEF RecorderRefuses, RecorderStops, BecomesIdle, Stop, TransportUnchanged
<1>4. CASE PressDown
  <2>1. UNCHANGED micCalls
    BY <1>4 DEF PressDown, Start, TransportUnchanged, liveVars
  <2>2. live' = live \/ live' = [live EXCEPT !.gen = @ + 1]
    BY <1>4 DEF PressDown, Start, LiveStart, TransportUnchanged, liveVars
  <2> QED BY <1>0, <2>1, <2>2 DEF LiveTyped
<1>5. CASE \E m \in micCalls : MicDone(m) \/ MicFails(m)
  <2>1. PICK m \in micCalls : MicDone(m) \/ MicFails(m)
    BY <1>5
  <2>2. live' = live
    BY <2>1 DEF MicDone, MicFails
  <2>3. MicCall(m.room, FALSE, "again", m.gen) \in MicCallTypes
    BY <1>0 DEF LiveTyped, MicCall, MicCallTypes
  <2>4. micCalls' \subseteq micCalls \cup {MicCall(m.room, FALSE, "again", m.gen)}
    BY <2>1 DEF MicDone, MicFails, Unmuted
  <2> QED BY <1>0, <2>2, <2>3, <2>4 DEF LiveTyped
<1>6. CASE \E p \in Press : Resume(p)
  <2>1. PICK p \in Press : Resume(p)
    BY <1>6
  <2>2. CASE UNCHANGED liveVars
    BY <1>1, <2>2 DEF liveVars
  <2>3. CASE ~UNCHANGED liveVars
    <3>1. /\ task[p].got = "room" /\ task[p].lgen = live.gen
          /\ live' = [live EXCEPT !.active = task[p].room]
          /\ micCalls' = micCalls \cup {MicCall(task[p].room, TRUE, "start", task[p].lgen)}
      BY <2>1, <2>3 DEF Resume, Unmute
    <3>2. session.st = "room" /\ task[p].room = session.no
      BY <2>1, <3>1 DEF Resume, Resumed, DeviceInv, AirInv, AirKept, Waits
    <3>3. task[p].room \in Join
      BY <3>2 DEF DeviceInv, AirInv, TypeOK, SessionInv, Joined, JoinsKept
    <3>4. live' \in [gen : Nat, active : Join \cup {0}] /\ live.gen \in Nat
      BY <1>0, <3>1, <3>3 DEF LiveTyped
    <3>5. MicCall(task[p].room, TRUE, "start", task[p].lgen) \in MicCallTypes
      BY <3>1, <3>3, <3>4 DEF MicCall, MicCallTypes
    <3> QED BY <1>0, <3>1, <3>4, <3>5 DEF LiveTyped
  <2> QED BY <2>2, <2>3
<1>7. CASE (\E p \in Press : SetsUp(p)) \/ (\E x \in stops : StopsPeer(x))
  BY <1>1, <1>7, SetupLeaves DEF liveVars
<1>8. CASE \E j \in joins : Joins(j)
  BY <1>1, <1>8, JoinLeaves DEF JoinUnchanged, liveVars
<1> QED BY <1>2, <1>3, <1>4, <1>5, <1>6, <1>7, <1>8 DEF Next

(* and those of P2P's.                                                     *)
LEMMA WebTypes ==
  ASSUME DeviceInv, PttAssumption, [Next]_vars
  PROVE  WebTyped'
<1>0. WebTyped /\ SettingUp \subseteq Press
  BY DEF DeviceInv, AirInv, TypeOK, WebTyped, StopTypes, SettingUp
<1>1. CASE UNCHANGED <<webVars, spoilt>>
  BY <1>0, <1>1 DEF WebTyped, webVars
<1>2. CASE UNCHANGED vars \/ Release \/ Interrupt \/ RecorderStarts \/ Enter \/ Leave \/ LoseRoom
  BY <1>1, <1>2 DEF vars, Release, Interrupt, RecorderStarts, Enter, Leave, LoseRoom
<1>3. ASSUME NEW p \in Press, task[p].at # "none", Reported(p)
      PROVE  spoilt' \subseteq Press
  <2>1. p <= presses /\ presses \in Nat /\ presses <= touches /\ touches \in Nat /\ touches <= MaxPresses
    BY <1>3, PttAssumption DEF DeviceInv, AirInv, AirKept, InOrder, Idle, SessionInv, Told, Counted,
       Press, TypeOK
  <2>2. presses \in Press
    BY <2>1, PttAssumption DEF Press
  <2> QED BY <1>0, <1>3, <2>2 DEF Reported, WebTyped
<1>4. ASSUME NEW no \in Nat
      PROVE  ClosesPeer(no) \subseteq StopTypes
  BY <1>0 DEF WebTyped, ClosesPeer, StopTypes
<1>5. ASSUME NEW p \in Press
      PROVE  Beside(p) \subseteq Press
  BY <1>0 DEF Beside, WebTyped
<1>6. CASE RecorderRefuses \/ RecorderStops
  <2>1. CASE UNCHANGED <<stops, spoilt>> /\ UNCHANGED <<web, open>>
    BY <1>1, <2>1 DEF webVars
  <2>2. CASE WebStop(repo.gen + 1) /\ spoilt' = spoilt \cup SettingUp /\ UNCHANGED <<web, open>>
    <3>1. PICK no : no = repo.gen + 1
      OBVIOUS
    <3>2. no \in Nat
      BY <3>1 DEF DeviceInv, AirInv, TypeOK
    <3>3. PICK x : x = [no |-> no, at |-> "channel", pc |-> 0]
      OBVIOUS
    <3>4. x \in StopTypes
      BY <3>2, <3>3 DEF StopTypes
    <3>5. stops' = stops \cup ClosesPeer(no) \/ stops' = stops \cup {x}
      BY <2>2, <3>1, <3>3 DEF WebStop
    <3>6. stops' \subseteq StopTypes
      BY <1>0, <1>4, <3>2, <3>4, <3>5 DEF WebTyped
    <3> QED BY <1>0, <2>2, <3>6 DEF WebTyped
  <2> QED
    BY <1>6, <2>1, <2>2
       DEF RecorderRefuses, RecorderStops, BecomesIdle, Stop, TransportUnchanged, webVars
<1>7. CASE PressDown
  <2>1. CASE UNCHANGED spoilt
    BY <1>1, <1>7, <2>1 DEF PressDown, Start, TransportUnchanged
  <2>2. CASE ~UNCHANGED spoilt
    <3>1. UNCHANGED webVars /\ spoilt' = spoilt \cup Beside(presses') /\ presses' \in Press
      BY <1>7, <2>2, PttAssumption
         DEF PressDown, Start, TransportUnchanged, Press, DeviceInv, AirInv, SessionInv, Told, Counted
    <3>2. PICK p \in Press : p = presses'
      BY <3>1
    <3>3. spoilt' = spoilt \cup Beside(p)
      BY <3>1, <3>2
    <3> QED BY <1>0, <1>5, <3>1, <3>3 DEF WebTyped, webVars
  <2> QED BY <2>1, <2>2
<1>8. CASE \E m \in micCalls : MicDone(m)
  BY <1>1, <1>8 DEF MicDone
<1>9. CASE \E m \in micCalls : MicFails(m)
  <2>1. PICK m \in micCalls : MicFails(m)
    BY <1>9
  <2>2. \/ UNCHANGED spoilt
        \/ \E p \in Press : task[p].at \in {"unmuting", "muting"} /\ Reported(p)
    BY <2>1 DEF MicFails
  <2>3. spoilt' \subseteq Press
    BY <1>0, <1>3, <2>2 DEF WebTyped
  <2> QED BY <1>0, <2>1, <2>3 DEF MicFails, WebTyped, webVars
<1>10. CASE \E p \in Press : Resume(p)
  <2>1. PICK p \in Press : Resume(p)
    BY <1>10
  <2>2. spoilt' = spoilt \/ spoilt' = spoilt \cup Beside(p) \/ Reported(p)
    BY <2>1 DEF Resume, FallBack
  <2>3. task[p].at # "none"
    BY <2>1 DEF Resume, Resumed
  <2>4. spoilt' \subseteq Press
    BY <1>0, <1>3, <1>5, <2>2, <2>3 DEF WebTyped
  <2> QED BY <1>0, <2>1, <2>4 DEF Resume, WebTyped, webVars
<1>11. CASE \E p \in Press : SetsUp(p)
  <2>1. PICK p \in Press : SetsUp(p)
    BY <1>11
  <2>2. /\ web' \in {web, [web EXCEPT !.pc = p], [web EXCEPT !.dc = p]}
        /\ open' \subseteq open \cup {p} /\ stops' = stops
        /\ UNCHANGED spoilt \/ Reported(p)
    BY <2>1
       DEF SetsUp, PeerCreated, ChannelCreated, PeerOffered, OfferSent, SetupFails, webVars
  <2>3. task[p].at # "none"
    BY <2>1 DEF SetsUp, PeerCreated, ChannelCreated, PeerOffered, OfferSent, SetupFails, SettingUp
  <2>4. spoilt' \subseteq Press
    BY <1>0, <1>3, <2>2, <2>3 DEF WebTyped
  <2>5. web' \in [pc : Press \cup {0}, dc : Press \cup {0}]
    BY <1>0, <2>2 DEF WebTyped
  <2> QED BY <1>0, <2>2, <2>4, <2>5 DEF WebTyped
<1>12. CASE \E x \in stops : StopsPeer(x)
  <2>1. PICK x \in stops : StopsPeer(x)
    BY <1>12
  <2>2. x \in StopTypes /\ x.no \in Nat /\ web.pc \in Press \cup {0}
    BY <1>0 DEF WebTyped, StopTypes
  <2>3. PICK y : y = [x EXCEPT !.at = "disposal", !.pc = web.pc]
    OBVIOUS
  <2>4. y \in StopTypes
    BY <2>2, <2>3 DEF StopTypes
  <2>5. /\ web' \in {web, [web EXCEPT !.pc = 0], [web EXCEPT !.dc = 0]}
        /\ open' \subseteq open
        /\ stops' \subseteq stops \cup ClosesPeer(x.no) \cup {y}
        /\ spoilt' \subseteq spoilt \cup ({web.pc} \ {0})
    BY <2>1, <2>3 DEF StopsPeer, ChannelClosed, PeerClosed, PeerDisposed, StopFails
  <2>6. web' \in [pc : Press \cup {0}, dc : Press \cup {0}]
    BY <1>0, <2>5 DEF WebTyped
  <2>7. stops' \subseteq StopTypes
    BY <1>0, <1>4, <2>2, <2>4, <2>5 DEF WebTyped
  <2> QED BY <1>0, <2>2, <2>5, <2>6, <2>7 DEF WebTyped
<1>13. CASE \E j \in joins : Joins(j)
  BY <1>1, <1>13, JoinLeaves DEF JoinUnchanged
<1> QED BY <1>2, <1>6, <1>7, <1>8, <1>9, <1>10, <1>11, <1>12, <1>13 DEF Next

(* The whole invariant holds initially.                                    *)
LEMMA DeviceInit ==
  ASSUME Init, PttAssumption
  PROVE  DeviceInv
<1>1. TypeOK
  <2>1. calls \in Seq([op : {"start", "stop"}, press : Press])
    BY DEF Init
  <2>2. \A p \in Press : task[p] = Idle
    BY DEF Init
  <2>3. session \in [st : {"none", "joining", "room", "p2p", "error"}, no : Join \cup {0}]
    BY DEF Init
  <2>4. /\ repo \in [gen : Nat, tx : {"none", "livekit", "p2p"}, fallback : BOOLEAN]
        /\ live \in [gen : Nat, active : Join \cup {0}]
        /\ web \in [pc : Press \cup {0}, dc : Press \cup {0}]
    BY DEF Init
  <2>5. touches \in 0 .. MaxPresses /\ presses \in 0 .. touches /\ breaks \in 0 .. MaxBreaks
    BY DEF Init, PttAssumption
  <2>6. joins = {} /\ rooms = {} /\ mic = {} /\ micCalls = {} /\ open = {} /\ stops = {}
        /\ spoilt = {} /\ odd = {}
    BY DEF Init
  <2> QED BY <2>1, <2>2, <2>3, <2>4, <2>5, <2>6 DEF Init, TypeOK
<1> QED BY <1>1, SessionInvInit, AirInit DEF DeviceInv, AirInv, FramesHeld, Init

(* Every step preserves it.                                                *)
LEMMA DeviceStep ==
  ASSUME DeviceInv, PttAssumption, [Next]_vars
  PROVE  DeviceInv'
<1>1. SessionInv' /\ AirKept'
  BY SessionStep, AirStep DEF DeviceInv, AirInv
<1>2. ButtonTyped' /\ FramesTyped' /\ RoomsTyped' /\ LiveTyped' /\ WebTyped'
  BY ButtonTypes, FramesTypes, RoomsTypes, LiveTypes, WebTypes
<1>3. TypeOK'
  <2>1. repo' \in Repos /\ \A p \in Press : p > presses' => task'[p] = Idle
    BY <1>1 DEF SessionInv, Told, AirKept, InOrder
  <2> QED
    BY <1>2, <2>1
       DEF TypeOK, ButtonTyped, FramesTyped, RoomsTyped, SessionTypes, JoinsUnderWay, LiveTyped,
           MicCallTypes, WebTyped, StopTypes, Repos
<1> QED BY <1>1, <1>2, <1>3 DEF DeviceInv, AirInv, FramesTyped

(* Whatever happens, every variable of the device keeps its type: there is *)
(* never less than no subscription, every microphone call is about a room  *)
(* that was joined and only rooms hear the microphone.                     *)
THEOREM DeviceTypeCorrect == Spec => []TypeOK
<1>1. DeviceInv => TypeOK
  BY DEF DeviceInv, AirInv
<1> QED BY <1>1, PttAssumption, DeviceInit, DeviceStep, PTL DEF Spec

(* Once everything is answered no room hears an idle device, unless a      *)
(* microphone call failed: a release that overtakes the session or the     *)
(* microphone still mutes, in whichever order the calls are answered.      *)
THEOREM IdleIsMuted == Spec => []MutedWhenIdle
<1>1. DeviceInv => MutedWhenIdle
  <2> SUFFICES ASSUME DeviceInv, Settled, state = "idle", "micFailed" \notin odd
               PROVE  mic = {}
    BY DEF MutedWhenIdle
  <2>1. live.active \notin rooms /\ micCalls = {}
    BY DEF DeviceInv, AirInv, AirKept, MuteKept, Settled
  <2>2. \A r \in mic : live.active = r /\ r \in rooms
    BY <2>1 DEF DeviceInv, AirInv, AirKept, MuteKept, TypeOK
  <2> QED BY <2>1, <2>2
<1> QED BY <1>1, PttAssumption, DeviceInit, DeviceStep, PTL DEF Spec

(* Once everything is answered an idle device has no peer connection open: *)
(* the stop that runs call by call closes the one of its press, unless the *)
(* press failed, was set up beside another setup or a stop, or the convoy  *)
(* was left meanwhile.                                                     *)
THEOREM IdleHasNoPeer == Spec => []PeersClosed
<1>1. DeviceInv => PeersClosed
  <2> SUFFICES ASSUME DeviceInv, Settled, state = "idle", "roomGone" \notin odd
               PROVE  open \subseteq spoilt
    BY DEF PeersClosed
  <2>1. OpenKept /\ stops = {}
    BY DEF DeviceInv, AirInv, AirKept, PeerKept, Settled
  <2>2. \A p \in open : p \in spoilt
    BY <2>1 DEF OpenKept, Present
  <2> QED BY <2>2
<1> QED BY <1>1, PttAssumption, DeviceInit, DeviceStep, PTL DEF Spec

(* Once everything is answered who holds the button is heard, in the room  *)
(* or over the data channel of the press itself, unless the press is       *)
(* spoilt, a microphone call failed or came late, or a room was lost early *)
(* or left.                                                                *)
THEOREM HolderIsHeard == Spec => []HeldIsHeard
<1>1. DeviceInv => HeldIsHeard
  <2> SUFFICES ASSUME DeviceInv, Settled, state = "transmitting", ~HeldExcused, presses \notin spoilt
               PROVE  session.no \in mic \/ (web.dc = presses /\ presses \in open)
    BY DEF HeldIsHeard, HeldExcused
  <2>1. presses \in Press /\ ~Waiting(presses)
    BY DEF DeviceInv, AirInv, AirKept, InOrder, Settled
  <2>2. Heard
    BY DEF DeviceInv, AirInv, AirKept, HeldKept
  <2> QED BY <2>1, <2>2 DEF Heard, Waiting
<1> QED BY <1>1, PttAssumption, DeviceInit, DeviceStep, PTL DEF Spec

(* A press that waits for the session always has a join under way whose    *)
(* end will tell it, whatever is left, lost or built anew meanwhile.       *)
THEOREM WaitersAreServed == Spec => []WaitersServed
<1>1. DeviceInv => WaitersServed
  BY DEF DeviceInv, AirInv, AirKept, Waits, SessionInv, Joined, JoinsKept, WaitersServed
<1> QED BY <1>1, PttAssumption, DeviceInit, DeviceStep, PTL DEF Spec

=============================================================================

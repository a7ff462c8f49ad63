----------------------------- MODULE PushToTalk -----------------------------
(***************************************************************************)
(* Push-to-talk of one device: the button, PttStateNotifier, the native    *)
(* recorder behind the platform channel, the choice of a transport         *)
(* (FallbackPttRepository), LiveKit's shared room and the P2P prototype.   *)
(*                                                                         *)
(* Every await is a gap.  The platform channel answers in the order of the *)
(* calls; LiveKit's microphone calls, external, in any order.  A press is  *)
(* known by its number, a room by the number of the join that made it.     *)
(***************************************************************************)
EXTENDS Naturals, Sequences, FiniteSets, SequencesExt

CONSTANTS
  MaxPresses,    \* bound: presses of the button
  MaxJoins,      \* bound: joins of a room that are begun
  MaxBreaks,     \* bound: interruptions, departures, lost rooms and failed
                 \* microphone calls
  MaxAttempts    \* _maxJoinAttempts

ASSUME PttAssumption ==
  MaxPresses \in Nat /\ MaxJoins \in Nat /\ MaxBreaks \in Nat /\ MaxAttempts \in Nat \ {0}

Press == 1 .. MaxPresses
Join == 1 .. MaxJoins

VARIABLES
  pressed,    \* a finger is on the button
  touches,    \* presses so far
  presses,    \* those of them that started a transmission
  state,      \* PttSessionState: "idle" or "transmitting"
  framesSub,  \* the notifier holds a subscription to the frames
  subs,       \* subscriptions to the frames that are alive
  recording,  \* the native recorder runs
  calls,      \* calls under way on the platform channel
  configured, \* the backend has a LiveKit configuration
  inConvoy,   \* the convoy screen is up: it routes states and keeps a session
  session,    \* livekitPttSessionProvider: st, and the number of its join
  joins,      \* joins under way, disposed ones too: no, attempt, at (the
              \* request that is under way)
  rooms,      \* rooms this device is connected to
  mic,        \* rooms that hear the microphone
  micCalls,   \* setMicrophoneEnabled calls under way
  repo,       \* FallbackPttRepository: gen, tx, fallback
  live,       \* LiveKitPttRepository: gen, active (a room or 0)
  web,        \* WebRtcDataChannelPttRepository: pc, dc (presses or 0)
  open,       \* peer connections that are open, by press
  stops,      \* its stops under way: no, at, pc (what is being closed)
  task,       \* task[p]: where the startTransmitting of press p is
  breaks,     \* how many of those happened so far
  spoilt,     \* presses that failed, or whose peer connection was set up
              \* beside another setup or a stop
  odd         \* what went wrong so far, out of Odd

notifierVars == <<state, framesSub, subs, recording, calls>>
sessionVars == <<inConvoy, session, joins, rooms>>
liveVars == <<live, micCalls>>
webVars == <<web, open, stops>>
vars == <<pressed, touches, presses, notifierVars, configured, sessionVars, mic, liveVars, repo,
          webVars, task, breaks, spoilt, odd>>

(* The stop of an earlier press answered after a later one began; a        *)
(* release before the recorder had started; a microphone call that failed; *)
(* a room lost before its join was over; a room lost or left, or a         *)
(* microphone call of an earlier press answered, while transmitting.       *)
Odd == {"crossed", "tapped", "micFailed", "lostEarly", "roomGone", "lateMute"}

Break == breaks < MaxBreaks /\ breaks' = breaks + 1

Idle == [at |-> "none", fgen |-> 0, lgen |-> 0, got |-> "nothing", room |-> 0]
Ended == [Idle EXCEPT !.at = "ended"]

(* Starts whose session is known: they run before the next event, in the   *)
(* order in which they asked for it.                                       *)
Resumed == {p \in Press : task[p].at = "resolving" /\ task[p].got # "nothing"}

(* Presses whose peer connection is being set up.                          *)
SettingUp == {p \in Press : task[p].at \in {"creating", "channel", "offering", "sending"}}

Waiting(p) == task[p].at \in {"resolving", "unmuting", "muting"} \/ p \in SettingUp

-----------------------------------------------------------------------------
(* The session: one muted join when the convoy is entered.                 *)

(* POST /convoys/:id/ptt-token.                                            *)
TokenRoute(hasLiveKit, member) ==
  IF ~hasLiveKit THEN 503 ELSE IF ~member THEN 404 ELSE 200

(* The provider is built anew and its join begins, beside those of js.     *)
Rebuilt(js) ==
  /\ session.no < MaxJoins
  /\ session' = [st |-> "joining", no |-> session.no + 1]
  /\ joins' = js \cup {[no |-> session.no + 1, attempt |-> 1, at |-> "token"]}

NewSession == Rebuilt(joins)

(* The session has a room whose loss it is told of.                        *)
InRoom == session.st = "room" /\ session.no \in rooms

Gone == IF state = "transmitting" THEN {"roomGone"} ELSE {}

Closed(r) == rooms' = rooms \ {r} /\ mic' = mic \ {r}

(* The join goes on to its next request.                                   *)
Goes(j, request) == (joins \ {j}) \cup {[j EXCEPT !.at = request]}

(* A join ends; those who wait for the session are told, unless it has     *)
(* been disposed of.                                                       *)
Decided(j, outcome) ==
  /\ joins' = joins \ {j}
  /\ IF session = [st |-> "joining", no |-> j.no]
     THEN /\ session' = [session EXCEPT !.st = outcome]
          /\ task' = [p \in Press |-> IF task[p].at = "resolving" /\ task[p].got = "nothing"
                                      THEN [task[p] EXCEPT !.got = outcome, !.room = j.no]
                                      ELSE task[p]]
     ELSE UNCHANGED <<session, task>>

(* A transient failure: again after a pause, MaxAttempts times at most.    *)
Retry(j) ==
  IF j.attempt < MaxAttempts
  THEN /\ joins' = (joins \ {j}) \cup {[j EXCEPT !.attempt = @ + 1, !.at = "token"]}
       /\ UNCHANGED <<session, task>>
  ELSE Decided(j, "error")

(* The requests of joinLiveKitPttSession, one after the other.             *)
Answered(j, request) == Resumed = {} /\ j.at = request
JoinUnchanged ==
  UNCHANGED <<pressed, touches, presses, notifierVars, configured, inConvoy, liveVars, repo,
              webVars, breaks, spoilt>>

TokenAnswered(j) ==
  /\ Answered(j, "token")
  /\ \/ Retry(j)
     \/ \E member \in BOOLEAN :
          CASE TokenRoute(configured, member) = 503 -> Decided(j, "p2p")
            [] TokenRoute(configured, member) = 404 -> Decided(j, "error")
            [] OTHER -> joins' = Goes(j, "connecting") /\ UNCHANGED <<session, task>>
  /\ UNCHANGED <<rooms, mic, odd>> /\ JoinUnchanged

(* The room is entered, even by a join that was disposed of.  The server   *)
(* ends the other connections of the identity; the session is told and     *)
(* joins anew.                                                             *)
Connected(j) ==
  /\ Answered(j, "connecting")
  /\ rooms' = {j.no} /\ mic' = {}
  /\ IF InRoom THEN Rebuilt(Goes(j, "muting")) ELSE joins' = Goes(j, "muting") /\ UNCHANGED session
  /\ odd' = odd \cup IF InRoom THEN Gone ELSE {}
  /\ UNCHANGED task /\ JoinUnchanged

ConnectFails(j) ==
  /\ Answered(j, "connecting")
  /\ Retry(j)
  /\ UNCHANGED <<rooms, mic, odd>> /\ JoinUnchanged

(* Slip: a join that was disposed of keeps its room.                       *)
MutedKeepsRoom(j) ==
  /\ Answered(j, "muting")
  /\ Decided(j, "room")
  /\ UNCHANGED <<rooms, mic>>
  /\ odd' = odd \cup IF j.no \in rooms THEN {} ELSE {"lostEarly"}
  /\ JoinUnchanged

(* The room is muted and the join over.  Its room, whose loss is heeded    *)
(* from now on, is the session's, or closed if the join was disposed of.   *)
Muted(j) ==
  /\ Answered(j, "muting")
  /\ Decided(j, "room")
  /\ IF session = [st |-> "joining", no |-> j.no]
     THEN /\ UNCHANGED <<rooms, mic>>
          /\ odd' = odd \cup IF j.no \in rooms THEN {} ELSE {"lostEarly"}
     ELSE Closed(j.no) /\ UNCHANGED odd
  /\ JoinUnchanged

(* A room that cannot be muted is closed within the attempt.               *)
MuteFails(j) ==
  /\ Answered(j, "muting")
  /\ Retry(j)
  /\ Closed(j.no)
  /\ UNCHANGED odd /\ JoinUnchanged

Enter ==
  /\ Resumed = {}
  /\ ~inConvoy /\ inConvoy' = TRUE
  /\ NewSession
  /\ UNCHANGED <<pressed, touches, presses, notifierVars, configured, rooms, mic, liveVars, repo,
                 webVars, task, breaks, spoilt, odd>>

(* Slip: who waits for the session is not told.                            *)
LeaveUntold ==
  /\ Resumed = {}
  /\ Break
  /\ inConvoy /\ inConvoy' = FALSE
  /\ session' = [session EXCEPT !.st = "none"]
  /\ IF session.st = "room" THEN Closed(session.no) ELSE UNCHANGED <<rooms, mic>>
  /\ odd' = odd \cup Gone
  /\ UNCHANGED <<pressed, touches, presses, notifierVars, configured, joins, liveVars, repo,
                 webVars, task, spoilt>>

(* onDispose closes the room; who still waits for the session is told that *)
(* it is gone.  Nobody routes the notifier's states any more.              *)
Leave ==
  /\ Resumed = {}
  /\ Break
  /\ inConvoy /\ inConvoy' = FALSE
  /\ session' = [session EXCEPT !.st = "none"]
  /\ IF session.st = "room" THEN Closed(session.no) ELSE UNCHANGED <<rooms, mic>>
  /\ task' = [p \in Press |-> IF task[p].at = "resolving" /\ task[p].got = "nothing"
                              THEN [task[p] EXCEPT !.got = "error"] ELSE task[p]]
  /\ odd' = odd \cup Gone
  /\ UNCHANGED <<pressed, touches, presses, notifierVars, configured, joins, liveVars, repo,
                 webVars, spoilt>>

(* A room is lost for good.  onDisconnected invalidates the provider: a    *)
(* new join; but it is set only once the join is over.                     *)
LoseRoom ==
  /\ Resumed = {}
  /\ Break
  /\ \E r \in rooms :
       /\ Closed(r)
       /\ IF session = [st |-> "room", no |-> r]
          THEN NewSession /\ odd' = odd \cup Gone
          ELSE UNCHANGED <<session, joins, odd>>
  /\ UNCHANGED <<pressed, touches, presses, notifierVars, configured, inConvoy, liveVars, repo,
                 webVars, task, spoilt>>

-----------------------------------------------------------------------------
(* Transports.                                                             *)

MicCall(r, on, by, gen) == [room |-> r, on |-> on, by |-> by, gen |-> gen]

(* resolveLiveKitPttSession: a failed session is tried once more.          *)
Resolve ==
  IF session.st = "error" THEN NewSession ELSE UNCHANGED <<session, joins>>

LiveStart(p, t) ==
  IF live.active # 0
  THEN /\ task' = [task EXCEPT ![p] = Ended]
       /\ UNCHANGED <<live, session, joins>>
  ELSE /\ live' = [live EXCEPT !.gen = @ + 1]
       /\ Resolve
       /\ task' = [task EXCEPT ![p] =
            [t EXCEPT !.at = "resolving", !.lgen = live.gen + 1, !.room = session.no,
                      !.got = IF session.st \in {"room", "p2p"} THEN session.st ELSE "nothing"]]

(* Slip: the room stays the active one.                                    *)
StopKeepsActive ==
  /\ live' = [live EXCEPT !.gen = @ + 1]
  /\ micCalls' = IF live.active = 0 THEN micCalls
                 ELSE micCalls \cup {MicCall(live.active, FALSE, "stop", live.gen + 1)}

LiveStop ==
  /\ live' = [gen |-> live.gen + 1, active |-> 0]
  /\ micCalls' = IF live.active = 0 THEN micCalls
                 ELSE micCalls \cup {MicCall(live.active, FALSE, "stop", live.gen + 1)}

(* Presses that are spoilt when press p sets up its peer connection: all   *)
(* that are beside another setup or a stop, the one being stopped too.     *)
Beside(p) ==
  IF SettingUp = {} /\ stops = {} THEN {} ELSE SettingUp \cup ({p, web.pc} \ {0})

(* FallbackPttRepository.startTransmitting up to its first await.          *)
Start(p) ==
  LET t == [Idle EXCEPT !.fgen = repo.gen + 1] IN
  /\ repo' = [repo EXCEPT !.gen = @ + 1, !.tx = IF repo.fallback THEN "p2p" ELSE "livekit"]
  /\ IF repo.fallback
     THEN /\ task' = [task EXCEPT ![p] = [t EXCEPT !.at = "creating"]]
          /\ spoilt' = spoilt \cup Beside(p)
          /\ UNCHANGED <<live, session, joins>>
     ELSE LiveStart(p, t) /\ UNCHANGED spoilt
  /\ UNCHANGED <<micCalls, webVars>>

(* A stop, no, goes on with the peer connection, if there is one then.     *)
ClosesPeer(no) == IF web.pc = 0 THEN {} ELSE {[no |-> no, at |-> "peer", pc |-> web.pc]}

(* WebRtcDataChannelPttRepository.stopTransmitting up to its first await.  *)
WebStop(no) ==
  IF web.dc = 0
  THEN stops' = stops \cup ClosesPeer(no)
  ELSE stops' = stops \cup {[no |-> no, at |-> "channel", pc |-> 0]}

(* stopTransmitting: of what transmits, if anything does.                  *)
Stop ==
  /\ repo' = [repo EXCEPT !.gen = @ + 1, !.tx = "none"]
  /\ IF repo.tx = "livekit" THEN LiveStop ELSE UNCHANGED liveVars
  /\ IF repo.tx = "p2p"
     THEN WebStop(repo.gen + 1) /\ spoilt' = spoilt \cup SettingUp
     ELSE UNCHANGED <<stops, spoilt>>
  /\ UNCHANGED <<task, session, joins, web, open>>

(* Slip: whether the button was released meanwhile is not looked at.       *)
FallBackAnyway(p) ==
  /\ repo' = [repo EXCEPT !.fallback = TRUE, !.tx = "p2p"]
  /\ task' = [task EXCEPT ![p].at = "creating"]
  /\ spoilt' = spoilt \cup Beside(p)

(* LiveKit is not configured: from now on P2P, this press included unless  *)
(* it was released meanwhile.                                              *)
FallBack(p) ==
  IF task[p].fgen = repo.gen
  THEN /\ repo' = [repo EXCEPT !.fallback = TRUE, !.tx = "p2p"]
       /\ task' = [task EXCEPT ![p].at = "creating"]
       /\ spoilt' = spoilt \cup Beside(p)
  ELSE /\ repo' = [repo EXCEPT !.fallback = TRUE, !.tx = "none"]
       /\ task' = [task EXCEPT ![p] = Ended]
       /\ UNCHANGED spoilt

(* Any other failure is reported; from then on nothing transmits, although *)
(* it may be a later press that does.                                      *)
Reported(p) ==
  /\ repo' = [repo EXCEPT !.tx = "none"]
  /\ task' = [task EXCEPT ![p] = Ended]
  /\ spoilt' = spoilt \cup {p, presses}

(* The session is there: the microphone goes on, unless the button was     *)
(* released meanwhile.                                                     *)
Unmute(p) ==
  IF task[p].lgen = live.gen
  THEN /\ live' = [live EXCEPT !.active = task[p].room]
       /\ micCalls' = micCalls \cup {MicCall(task[p].room, TRUE, "start", task[p].lgen)}
       /\ task' = [task EXCEPT ![p].at = "unmuting"]
  ELSE task' = [task EXCEPT ![p] = Ended] /\ UNCHANGED liveVars

(* Slip: any failure falls back.                                           *)
ResumeWithFallback(p) ==
  /\ p \in Resumed /\ \A q \in Resumed : p <= q
  /\ IF task[p].got = "room" THEN Unmute(p) /\ UNCHANGED <<repo, spoilt>>
                            ELSE FallBack(p) /\ UNCHANGED liveVars
  /\ UNCHANGED <<pressed, touches, presses, notifierVars, configured, sessionVars, mic, webVars, breaks,
                 odd>>

(* The start of press p goes on once the session is known.                 *)
Resume(p) ==
  /\ p \in Resumed /\ \A q \in Resumed : p <= q
  /\ \/ task[p].got = "room" /\ Unmute(p) /\ UNCHANGED <<repo, spoilt>>
     \/ task[p].got = "p2p" /\ FallBack(p) /\ UNCHANGED liveVars
     \/ task[p].got = "error" /\ Reported(p) /\ UNCHANGED liveVars
  /\ UNCHANGED <<pressed, touches, presses, notifierVars, configured, sessionVars, mic, webVars, breaks,
                 odd>>

(* Slip: a release while the microphone went on is not noticed.            *)
UnmutedAnyway(p, m) ==
  /\ task' = [task EXCEPT ![p] = Ended]
  /\ micCalls' = micCalls \ {m}

(* The microphone is on; a start overtaken by its release mutes again.     *)
Unmuted(p, m) ==
  IF m.gen = live.gen
  THEN /\ task' = [task EXCEPT ![p] = Ended]
       /\ micCalls' = micCalls \ {m}
  ELSE /\ task' = [task EXCEPT ![p].at = "muting"]
       /\ micCalls' = (micCalls \ {m}) \cup {MicCall(m.room, FALSE, "again", m.gen)}

(* A microphone call is answered, in any order.                            *)
MicDone(m) ==
  /\ Resumed = {}
  /\ mic' = IF m.on /\ m.room \in rooms THEN mic \cup {m.room} ELSE mic \ {m.room}
  /\ IF m.by = "start"
     THEN \E p \in Press :
            task[p].at = "unmuting" /\ task[p].lgen = m.gen /\ Unmuted(p, m)
     ELSE /\ micCalls' = micCalls \ {m}
          /\ task' = [p \in Press |-> IF m.by = "again" /\ task[p].at = "muting"
                                           /\ task[p].lgen = m.gen
                                      THEN Ended ELSE task[p]]
  /\ odd' = odd \cup IF state = "transmitting" /\ m.gen # live.gen THEN {"lateMute"} ELSE {}
  /\ UNCHANGED <<pressed, touches, presses, notifierVars, configured, sessionVars, live, repo, webVars,
                 breaks, spoilt>>

(* It fails: a start's failure is reported, a stop's is awaited by nobody. *)
MicFails(m) ==
  /\ Resumed = {}
  /\ Break
  /\ micCalls' = micCalls \ {m}
  /\ IF m.by = "stop"
     THEN UNCHANGED <<repo, task, spoilt>>
     ELSE \E p \in Press : /\ task[p].at \in {"unmuting", "muting"} /\ task[p].lgen = m.gen
                           /\ Reported(p)
  /\ odd' = odd \cup {"micFailed"}
  /\ UNCHANGED <<pressed, touches, presses, notifierVars, configured, sessionVars, mic, live, webVars>>

(* The setup of a peer connection goes on: its next await.                 *)
SetupUnchanged ==
  UNCHANGED <<pressed, touches, presses, notifierVars, configured, sessionVars, mic, liveVars, odd>>

(* createPeerConnection returns and _pc is assigned, released or not.      *)
PeerCreated(p) ==
  /\ Resumed = {}
  /\ task[p].at = "creating"
  /\ web' = [web EXCEPT !.pc = p] /\ open' = open \cup {p}
  /\ task' = [task EXCEPT ![p].at = "channel"]
  /\ UNCHANGED <<stops, repo, breaks, spoilt>> /\ SetupUnchanged

(* createDataChannel and createOffer return; _pc is read again after each, *)
(* and without one that is an error.                                       *)
ChannelCreated(p) ==
  /\ Resumed = {}
  /\ task[p].at = "channel"
  /\ web' = [web EXCEPT !.dc = p]
  /\ IF web.pc = 0
     THEN Reported(p)
     ELSE task' = [task EXCEPT ![p].at = "offering"] /\ UNCHANGED <<repo, spoilt>>
  /\ UNCHANGED <<open, stops, breaks>> /\ SetupUnchanged

PeerOffered(p) ==
  /\ Resumed = {}
  /\ task[p].at = "offering"
  /\ IF web.pc = 0
     THEN Reported(p)
     ELSE task' = [task EXCEPT ![p].at = "sending"] /\ UNCHANGED <<repo, spoilt>>
  /\ UNCHANGED <<webVars, breaks>> /\ SetupUnchanged

(* The offer is set and written to the database; nothing is read between.  *)
OfferSent(p) ==
  /\ Resumed = {}
  /\ task[p].at = "sending"
  /\ task' = [task EXCEPT ![p] = Ended]
  /\ UNCHANGED <<webVars, repo, breaks, spoilt>> /\ SetupUnchanged

(* Any of them fails: what has been set up is left as it is.               *)
SetupFails(p) ==
  /\ Resumed = {}
  /\ Break
  /\ p \in SettingUp
  /\ Reported(p)
  /\ UNCHANGED webVars /\ SetupUnchanged

(* A stop of the peer connection goes on: the data channel is closed, then *)
(* _pc is closed, then disposed of, then it is null: each time the one     *)
(* that is there by then.                                                  *)
ChannelClosed(x) ==
  /\ Resumed = {}
  /\ x.at = "channel"
  /\ web' = [web EXCEPT !.dc = 0]
  /\ stops' = (stops \ {x}) \cup ClosesPeer(x.no)
  /\ UNCHANGED <<open, task, repo, breaks, spoilt>> /\ SetupUnchanged

PeerClosed(x) ==
  /\ Resumed = {}
  /\ x.at = "peer"
  /\ open' = open \ {x.pc}
  /\ stops' = (stops \ {x}) \cup
       IF web.pc = 0 THEN {} ELSE {[x EXCEPT !.at = "disposal", !.pc = web.pc]}
  /\ UNCHANGED <<web, task, repo, breaks, spoilt>> /\ SetupUnchanged

PeerDisposed(x) ==
  /\ Resumed = {}
  /\ x.at = "disposal"
  /\ open' = open \ {x.pc}
  /\ web' = [web EXCEPT !.pc = 0]
  /\ stops' = stops \ {x}
  /\ UNCHANGED <<task, repo, breaks, spoilt>> /\ SetupUnchanged

(* One of these calls fails: the rest of the stop is left out.             *)
StopFails(x) ==
  /\ Resumed = {}
  /\ Break
  /\ stops' = stops \ {x}
  /\ spoilt' = spoilt \cup ({web.pc} \ {0})
  /\ UNCHANGED <<web, open, task, repo>> /\ SetupUnchanged

-----------------------------------------------------------------------------
(* The button, the notifier and the native recorder.                       *)

TransportUnchanged == UNCHANGED <<liveVars, repo, webVars, task, session, joins, spoilt>>

(* startTransmitting: the state changes and is routed before the recorder  *)
(* is asked to start.                                                      *)
PressDown ==
  /\ Resumed = {}
  /\ inConvoy /\ ~pressed /\ pressed' = TRUE
  /\ touches < MaxPresses /\ touches' = touches + 1
  /\ IF state = "transmitting"
     THEN UNCHANGED <<presses, state, calls>> /\ TransportUnchanged
     ELSE /\ presses' = presses + 1
          /\ state' = "transmitting"
          /\ calls' = Append(calls, [op |-> "start", press |-> presses'])
          /\ Start(presses')
  /\ UNCHANGED <<framesSub, subs, recording, configured, inConvoy, rooms, mic, breaks, odd>>

(* Slip: the subscription is forgotten, not cancelled.                     *)
StopForgetsFrames ==
  IF state = "transmitting"
  THEN /\ framesSub' = FALSE
       /\ calls' = Append(calls, [op |-> "stop", press |-> presses])
       /\ UNCHANGED subs
  ELSE UNCHANGED <<framesSub, subs, calls>>

(* Slip: a cancelled subscription is not forgotten.                        *)
StopKeepsFrames ==
  IF state = "transmitting"
  THEN /\ subs' = IF framesSub THEN subs - 1 ELSE subs
       /\ calls' = Append(calls, [op |-> "stop", press |-> presses])
       /\ UNCHANGED framesSub
  ELSE UNCHANGED <<framesSub, subs, calls>>

(* stopTransmitting up to its await of stopRecording.                      *)
StopTransmitting ==
  IF state = "transmitting"
  THEN /\ framesSub' = FALSE
       /\ subs' = IF framesSub THEN subs - 1 ELSE subs
       /\ calls' = Append(calls, [op |-> "stop", press |-> presses])
  ELSE UNCHANGED <<framesSub, subs, calls>>

(* Up or cancelled; the convoy screen may be gone by then.                 *)
Release ==
  /\ Resumed = {}
  /\ pressed /\ pressed' = FALSE
  /\ StopTransmitting
  /\ UNCHANGED <<touches, presses, state, recording, configured, sessionVars, mic, liveVars, repo,
                 webVars, task, breaks, spoilt, odd>>

(* Slip: the session's events are not listened to.                         *)
InterruptUnheard ==
  /\ Resumed = {}
  /\ Break
  /\ recording /\ recording' = FALSE
  /\ UNCHANGED <<pressed, touches, presses, state, framesSub, subs, calls, configured, sessionVars, mic,
                 liveVars, repo, webVars, task, spoilt, odd>>

(* The audio focus is lost: the recorder stops and tells.                  *)
Interrupt ==
  /\ Resumed = {}
  /\ Break
  /\ recording /\ recording' = FALSE
  /\ StopTransmitting
  /\ UNCHANGED <<pressed, touches, presses, state, configured, sessionVars, mic, liveVars, repo,
                 webVars, task, spoilt, odd>>

(* The state becomes idle; a change is routed while the screen is up.      *)
BecomesIdle ==
  /\ state' = "idle"
  /\ IF state = "transmitting" /\ inConvoy THEN Stop ELSE TransportUnchanged

(* The recorder starts or runs already: the frames are listened to.        *)
RecorderStarts ==
  /\ Resumed = {}
  /\ calls # <<>> /\ Head(calls).op = "start"
  /\ calls' = Tail(calls)
  /\ recording' = TRUE
  /\ framesSub' = TRUE /\ subs' = subs + 1
  /\ odd' = odd \cup IF Tail(calls) # <<>> THEN {"tapped"} ELSE {}
  /\ UNCHANGED <<pressed, touches, presses, state, configured, sessionVars, mic, liveVars, repo,
                 webVars, task, breaks, spoilt>>

(* No permission, or no microphone.                                        *)
RecorderRefuses ==
  /\ Resumed = {}
  /\ calls # <<>> /\ Head(calls).op = "start" /\ ~recording
  /\ calls' = Tail(calls)
  /\ BecomesIdle
  /\ UNCHANGED <<pressed, touches, presses, framesSub, subs, recording, configured, inConvoy, rooms, mic,
                 breaks, odd>>

RecorderStops ==
  /\ Resumed = {}
  /\ calls # <<>> /\ Head(calls).op = "stop"
  /\ calls' = Tail(calls)
  /\ recording' = FALSE
  /\ BecomesIdle
  /\ odd' = odd \cup IF state = "transmitting" /\ Head(calls).press # presses THEN {"crossed"} ELSE {}
  /\ UNCHANGED <<pressed, touches, presses, framesSub, subs, configured, inConvoy, rooms, mic, breaks>>

-----------------------------------------------------------------------------
Init ==
  /\ pressed = FALSE /\ touches = 0 /\ presses = 0
  /\ state = "idle" /\ framesSub = FALSE /\ subs = 0 /\ recording = FALSE /\ calls = <<>>
  /\ configured \in BOOLEAN /\ inConvoy = FALSE
  /\ session = [st |-> "none", no |-> 0] /\ joins = {} /\ rooms = {}
  /\ mic = {} /\ micCalls = {}
  /\ repo = [gen |-> 0, tx |-> "none", fallback |-> FALSE]
  /\ live = [gen |-> 0, active |-> 0]
  /\ web = [pc |-> 0, dc |-> 0] /\ open = {} /\ stops = {} /\ task = [p \in Press |-> Idle]
  /\ breaks = 0 /\ spoilt = {} /\ odd = {}

(* Answers to what is under way.                                           *)
Joins(j) ==
  TokenAnswered(j) \/ Connected(j) \/ ConnectFails(j) \/ Muted(j) \/ MuteFails(j)
SetsUp(p) == PeerCreated(p) \/ ChannelCreated(p) \/ PeerOffered(p) \/ OfferSent(p) \/ SetupFails(p)
StopsPeer(x) == ChannelClosed(x) \/ PeerClosed(x) \/ PeerDisposed(x) \/ StopFails(x)

Next ==
  \/ Enter \/ Leave \/ LoseRoom \/ PressDown \/ Release \/ Interrupt
  \/ RecorderStarts \/ RecorderRefuses \/ RecorderStops
  \/ \E j \in joins : Joins(j)
  \/ \E m \in micCalls : MicDone(m) \/ MicFails(m)
  \/ \E p \in Press : Resume(p) \/ SetsUp(p)
  \/ \E x \in stops : StopsPeer(x)

Spec == Init /\ [][Next]_vars

-----------------------------------------------------------------------------
(* Properties.                                                             *)

TypeOK ==
  /\ pressed \in BOOLEAN /\ touches \in 0 .. MaxPresses /\ presses \in 0 .. touches
  /\ state \in {"idle", "transmitting"} /\ framesSub \in BOOLEAN /\ subs \in Nat
  /\ recording \in BOOLEAN /\ calls \in Seq([op : {"start", "stop"}, press : Press])
  /\ configured \in BOOLEAN /\ inConvoy \in BOOLEAN
  /\ session \in [st : {"none", "joining", "room", "p2p", "error"}, no : Join \cup {0}]
  /\ joins \subseteq [no : Join, attempt : 1 .. MaxAttempts, at : {"token", "connecting", "muting"}]
  /\ rooms \subseteq Join /\ mic \subseteq rooms
  /\ micCalls \subseteq
       [room : Join, on : BOOLEAN, by : {"start", "stop", "again"}, gen : Nat]
  /\ repo \in [gen : Nat, tx : {"none", "livekit", "p2p"}, fallback : BOOLEAN]
  /\ live \in [gen : Nat, active : Join \cup {0}]
  /\ web \in [pc : Press \cup {0}, dc : Press \cup {0}] /\ open \subseteq Press
  /\ stops \subseteq [no : Nat, at : {"channel", "peer", "disposal"}, pc : Press \cup {0}]
  /\ \A p \in Press : p > presses => task[p] = Idle
  /\ breaks \in 0 .. MaxBreaks /\ spoilt \subseteq Press /\ odd \subseteq Odd

(* Nothing is under way.                                                   *)
Settled ==
  calls = <<>> /\ micCalls = {} /\ joins = {} /\ stops = {} /\ \A p \in Press : ~Waiting(p)

(* Once everything is answered the recorder runs if and only if the button *)
(* shows it, unless the answer to an earlier stop cut off a later press    *)
(* (interruption and release of one press, then the next one at once).     *)
RecorderFollows ==
  Settled /\ "crossed" \notin odd => (recording <=> state = "transmitting")

(* Frames are forwarded once: there is one subscription at most, unless a  *)
(* tap was released before the recorder had started, or as above.          *)
OneSubscription == odd \cap {"tapped", "crossed"} = {} => subs <= 1

(* The room never hears an idle device: a release overtakes the session,   *)
(* the microphone or both, and still mutes.                                *)
MutedWhenIdle ==
  Settled /\ state = "idle" /\ "micFailed" \notin odd => mic = {}

(* No room is left open: a room is the session's or that of a join which   *)
(* is not over, and will be closed if the session is left or built anew in *)
(* the meantime.  The session's room is the one the device is in, unless   *)
(* it was lost before its join was over.                                   *)
NoStrayRoom ==
  /\ rooms \subseteq {j.no : j \in {k \in joins : k.at = "muting"}}
                     \cup IF session.st = "room" THEN {session.no} ELSE {}
  /\ session.st = "room" /\ "lostEarly" \notin odd => session.no \in rooms

(* Only a backend without LiveKit makes a device fall back, no other error *)
(* does, even when it comes late.                                          *)
FallbackOnlyUnconfigured == repo.fallback => ~configured

(* No peer connection outlives its press, unless the press failed, was set *)
(* up beside another one or a stop, or the convoy was left meanwhile.      *)
PeersClosed ==
  Settled /\ state = "idle" /\ "roomGone" \notin odd => open \subseteq spoilt

(* Who holds the button is heard once everything is answered, through the  *)
(* session's room or the press's own data channel, with the like excuses.  *)
HeldIsHeard ==
  Settled /\ state = "transmitting" /\ odd \cap {"micFailed", "roomGone", "lateMute", "lostEarly"} = {}
    => presses \in spoilt \/ session.no \in mic \/ (web.dc = presses /\ presses \in open)

(* A press that waits for the session waits for a join that is under way:  *)
(* neither a departure, a lost room nor a failed session leaves it waiting *)
(* for one that nobody will tell it about.                                 *)
WaitersServed ==
  \A p \in Press : task[p].at = "resolving" /\ task[p].got = "nothing" =>
    session.st = "joining" /\ \E j \in joins : j.no = session.no

=============================================================================

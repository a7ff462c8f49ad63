-------------------------- MODULE LocationPipeline --------------------------
(***************************************************************************)
(* Positions, from the GPS of one member (the mover) to the map and the    *)
(* proximity warnings of another (the watcher): LocationPublisher          *)
(* (throttle and flush), the gateway (relay at once, save in the           *)
(* background), the position store (saves on pooled connections, done in   *)
(* any order) and its replay, ConvoySession and ProximityWarningService.   *)
(*                                                                         *)
(* A timer fires in the second it is due.  A fix is known by its number;   *)
(* its speed decides how often it may be sent, and its place is the        *)
(* distance to the watcher: near (within the threshold), band (up to 1.2   *)
(* times that) or far.  Two sockets keep the order of what they carry, so  *)
(* a frame that is sent is relayed and taken in one step.                  *)
(***************************************************************************)
EXTENDS Naturals, Sequences, FiniteSetsExt

CONSTANTS
  Interval,   \* adaptiveGpsInterval, by speed
  MaxAge,     \* maxPositionAge
  Track,      \* bound: where each fix of the mover may be
  MaxTime,    \* bound: time of the last fix
  SelfTimes,  \* bound: when the watcher's own GPS may deliver
  MaxFaults   \* bound: lost sockets, failed saves and failed replays

Speed == DOMAIN Interval
Place == {"near", "band", "far"}

ASSUME LocationAssumption ==
  /\ Speed # {} /\ \A v \in Speed : Interval[v] \in Nat \ {0}
  /\ Track \in Seq(SUBSET Place) /\ MaxAge \in Nat /\ MaxTime \in Nat /\ MaxFaults \in Nat
  /\ SelfTimes \subseteq Nat

VARIABLES
  now,
  fixes,      \* the mover's fixes
  lastEmit,   \* _lastEmitAt, 0 for none
  prevEmit,   \* history: when the fix before that was sent
  pending,    \* _pendingFlush, 0 for none
  due,        \* when _flushTimer fires, 0 for no timer
  emitted,    \* the fix that went to the sink last
  online,     \* whose socket is connected and registered
  saves,      \* saves under way
  stored,     \* lastKnownPosition, 0 for none
  reading,    \* replay to the watcher's socket: "no", "asked" or "read"
  snap,       \* the position it read
  map,        \* _latestPositions of the watcher's session
  latest,     \* _latestByMember of the proximity service
  selfAt,     \* time of the watcher's own last fix, 0 for none
  warned,     \* the mover is in _warned
  warnings,   \* warnings since the mover was last measured far away
  faults,
  odd         \* what went wrong since the newest fix was sent, out of Odd

publisherVars == <<lastEmit, prevEmit, pending, due, emitted>>
storeVars == <<saves, stored>>
watcherVars == <<map, latest, warned, warnings, selfAt>>
vars == <<now, fixes, publisherVars, online, storeVars, reading, snap, watcherVars, faults, odd>>

(* A fix given to a sink that is offline; a position saved after a newer   *)
(* one, because the saves swapped or because the older fix was sent later; *)
(* a save or a replay that failed; a replay that read before a save.       *)
Odd == {"lost", "older", "failed", "unread", "unsaved"}

LastFix == Len(fixes)
Fault == faults < MaxFaults /\ faults' = faults + 1

-----------------------------------------------------------------------------
(* The watcher.                                                            *)

IsStale(at) == now > at + MaxAge

(* Slip: a warning is released at the threshold, not at 1.2 times that.    *)
EvaluatedAtOnce(was, place) == place = "near"

(* _evaluateAgainstSelf: who was warned stays so within the release band.  *)
Evaluated(was, place) == place = "near" \/ (was /\ place = "band")

(* Fix k of the mover (0 for none), measured against an own fix of time t; *)
(* a stale one on either side changes nothing.                             *)
Measure(k, fix, t) ==
  IF k = 0 \/ t = 0 \/ IsStale(t) \/ IsStale(fix.at)
  THEN UNCHANGED <<warned, warnings>>
  ELSE /\ warned' = Evaluated(warned, fix.place)
       /\ warnings' = CASE fix.place = "far" -> 0
                          [] ~warned /\ warned' -> warnings + 1
                          [] OTHER -> warnings

(* ConvoySession._onUpdate: the proximity service takes every position,    *)
(* the map only one that is not older than its own.                        *)
Take(k, fix) ==
  /\ latest' = k
  /\ Measure(k, fix, selfAt)
  /\ map' = Max({k, map})
  /\ UNCHANGED selfAt

(* ingest of an own fix: everyone is measured again.                       *)
SelfFix ==
  /\ now \in SelfTimes /\ selfAt # now
  /\ selfAt' = now
  /\ Measure(latest, fixes[Max({latest, 1})], now)
  /\ UNCHANGED <<now, fixes, publisherVars, online, storeVars, reading, snap, map, latest, faults,
                 odd>>

-----------------------------------------------------------------------------
(* The mover's publisher and the gateway.                                  *)

(* Slip: a save waits for no other, but is skipped while one runs.         *)
SaveUnlessBusy(k) == saves' = IF saves = {} THEN {k} ELSE saves

(* positionStore.save, not awaited.                                        *)
Save(k) == saves' = saves \cup {k}

(* handleFrame of a position: relayed to who is registered, then saved.    *)
Relay(k, fix) ==
  /\ IF "watcher" \in online THEN Take(k, fix) ELSE UNCHANGED watcherVars
  /\ Save(k)

(* _emit: the sink of an offline socket drops the frame without an error,  *)
(* so the window opens all the same.                                       *)
Emit(k, fix) ==
  /\ lastEmit' = now /\ prevEmit' = lastEmit
  /\ emitted' = k
  /\ IF "mover" \in online
     THEN /\ Relay(k, fix)
          /\ odd' = IF k > emitted THEN {} ELSE odd
     ELSE /\ UNCHANGED <<watcherVars, saves>>
          /\ odd' = odd \cup {"lost"}

(* Slip: a fix within the window waits for the next fix.                   *)
WithholdOnly(k, window) == pending' = k /\ UNCHANGED due

(* Within the window: remember the newest, keep the timer that runs.       *)
Withhold(k, window) ==
  /\ pending' = k
  /\ due' = IF due # 0 THEN due ELSE lastEmit + window

(* Slip: a window ends a second early.                                     *)
EndsEarly(window) == lastEmit = 0 \/ now + 1 - lastEmit >= window

WindowOver(window) == lastEmit = 0 \/ now - lastEmit >= window

(* _onUpdate: the window is that of the new fix.  Sending it leaves an     *)
(* older one pending, with its timer.                                      *)
Fix(speed, place) ==
  LET k == LastFix + 1
      fix == [at |-> now, place |-> place]
      window == Interval[speed] IN
  /\ k <= Len(Track) /\ place \in Track[k] /\ now <= MaxTime
  /\ fixes' = Append(fixes, fix)
  /\ IF WindowOver(window)
     THEN Emit(k, fix) /\ UNCHANGED <<pending, due>>
     ELSE /\ Withhold(k, window)
          /\ UNCHANGED <<lastEmit, prevEmit, emitted, saves, watcherVars, odd>>
  /\ UNCHANGED <<now, online, stored, reading, snap, faults>>

(* Slip: the timer field is not cleared when it has fired.                 *)
FlushOnceOnly == pending' = 0 /\ UNCHANGED due

(* What _flushPending clears.                                              *)
Flushed == pending' = 0 /\ due' = 0

FlushPending ==
  /\ due = now
  /\ Flushed
  /\ Emit(pending, fixes[pending])
  /\ UNCHANGED <<now, fixes, online, stored, reading, snap, faults>>

-----------------------------------------------------------------------------
(* The position store.                                                     *)

(* An UPDATE is done: whichever is done last stays.                        *)
Saved(k) ==
  /\ k \in saves
  /\ saves' = saves \ {k}
  /\ stored' = k
  /\ odd' = IF k < stored THEN odd \cup {"older"} ELSE odd
  /\ UNCHANGED <<now, fixes, publisherVars, online, reading, snap, watcherVars, faults>>

(* 'position persist failed': logged.                                      *)
SaveFails(k) ==
  /\ Fault /\ k \in saves
  /\ saves' = saves \ {k}
  /\ odd' = odd \cup {"failed"}
  /\ UNCHANGED <<now, fixes, publisherVars, online, stored, reading, snap, watcherVars>>

(* loadSnapshot reads the rows...                                          *)
Read ==
  /\ reading = "asked"
  /\ reading' = "read" /\ snap' = stored
  /\ odd' = IF \E k \in saves : k > Max({stored, map}) THEN odd \cup {"unsaved"} ELSE odd
  /\ UNCHANGED <<now, fixes, publisherVars, online, storeVars, watcherVars, faults>>

(* ...and the socket gets them later, after what was relayed meanwhile.    *)
Replay ==
  /\ reading = "read"
  /\ reading' = "no" /\ snap' = 0
  /\ IF snap = 0 THEN UNCHANGED watcherVars ELSE Take(snap, fixes[snap])
  /\ UNCHANGED <<now, fixes, publisherVars, online, storeVars, faults, odd>>

(* 'position snapshot failed': logged.                                     *)
ReadFails ==
  /\ Fault /\ reading = "asked"
  /\ reading' = "no"
  /\ odd' = odd \cup {"unread"}
  /\ UNCHANGED <<now, fixes, publisherVars, online, storeVars, snap, watcherVars>>

-----------------------------------------------------------------------------
(* Sockets.                                                                *)

(* The connection handler registers the socket and asks for the replay.    *)
Connect(m) ==
  /\ m \notin online
  /\ online' = online \cup {m}
  /\ reading' = IF m = "watcher" THEN "asked" ELSE reading
  /\ UNCHANGED <<now, fixes, publisherVars, storeVars, snap, watcherVars, faults, odd>>

(* A replay under way finds the socket closed.                             *)
Drop(m) ==
  /\ Fault /\ m \in online
  /\ online' = online \ {m}
  /\ IF m = "watcher" THEN reading' = "no" /\ snap' = 0 ELSE UNCHANGED <<reading, snap>>
  /\ UNCHANGED <<now, fixes, publisherVars, storeVars, watcherVars, odd>>

Tick ==
  /\ due # now /\ (now <= MaxTime \/ due # 0)
  /\ now' = now + 1
  /\ UNCHANGED <<fixes, publisherVars, online, storeVars, reading, snap, watcherVars, faults,
                 odd>>

-----------------------------------------------------------------------------
Init ==
  /\ now = 1 /\ fixes = <<>>
  /\ lastEmit = 0 /\ prevEmit = 0 /\ pending = 0 /\ due = 0 /\ emitted = 0
  /\ online = {"mover"}
  /\ saves = {} /\ stored = 0 /\ reading = "no" /\ snap = 0
  /\ map = 0 /\ latest = 0 /\ selfAt = 0 /\ warned = FALSE /\ warnings = 0
  /\ faults = 0 /\ odd = {}

Next ==
  \/ \E v \in Speed, p \in Place : Fix(v, p)
  \/ FlushPending
  \/ \E k \in saves : Saved(k) \/ SaveFails(k)
  \/ Read \/ Replay \/ ReadFails
  \/ \E m \in {"mover", "watcher"} : Connect(m) \/ Drop(m)
  \/ SelfFix
  \/ Tick

Spec == Init /\ [][Next]_vars

-----------------------------------------------------------------------------
(* Every variable has its type; a fix waits exactly while a timer runs,    *)
(* and no timer is late.                                                   *)
TypeOK ==
  /\ now \in Nat \ {0}
  /\ fixes \in Seq([at : 1..now, place : Place])
  /\ {pending, emitted, stored, snap, map, latest} \subseteq 0..LastFix
  /\ saves \subseteq 1..LastFix
  /\ lastEmit \in 0..now /\ prevEmit \in 0..lastEmit /\ selfAt \in 0..now
  /\ due \in Nat /\ (due = 0 \/ due >= now)
  /\ (pending = 0) = (due = 0)
  /\ online \subseteq {"mover", "watcher"}
  /\ reading \in {"no", "asked", "read"}
  /\ warned \in BOOLEAN /\ warnings \in Nat
  /\ faults \in 0..MaxFaults /\ odd \subseteq Odd

(* The throttle: no third fix is sent within a window, whatever the speeds.*)
(* A second one may be: the flush of a timer that was armed before.        *)
Throttled ==
  [][emitted' # emitted /\ prevEmit # 0
       => \E v \in Speed : now - prevEmit >= Interval[v]]_vars

(* No watcher is stuck on a stale position: once nothing is under way, the *)
(* map of a connected watcher shows the last fix, unless since the newest  *)
(* was sent a fix was lost, an older one was saved over it, or a save or   *)
(* replay failed or raced.  The next fix sent makes up for each of these.  *)
LatestShown ==
  due = 0 /\ saves = {} /\ reading = "no" /\ "watcher" \in online /\ odd = {} => map = LastFix

(* What a joiner will be shown: once nothing is under way the store holds  *)
(* the last fix, whatever happened to the watcher.                         *)
StoredIsLatest ==
  due = 0 /\ saves = {} /\ odd \cap {"lost", "older", "failed"} = {}
    => stored = LastFix

(* While both positions are fresh, the mover is warned of when near and    *)
(* released when far; no two warnings without a far position between; and  *)
(* the warnings are never about a newer position than the map's.           *)
WarningsFollow ==
  /\ latest # 0 /\ selfAt # 0 /\ ~IsStale(selfAt) /\ ~IsStale(fixes[latest].at)
       => /\ fixes[latest].place = "near" => warned
          /\ fixes[latest].place = "far" => ~warned
  /\ warnings <= 1
  /\ latest <= map
=============================================================================

---------------------------- MODULE RedisGateway ----------------------------
(***************************************************************************)
(* The gateway as several instances that share Redis (REDIS_URL is set):   *)
(* RedisFanout relays live frames through a channel, RedisSnapshotStore    *)
(* keeps what a late joiner is replayed in a hash.  One convoy.            *)
(*                                                                         *)
(* An instance has three connections to Redis, each a FIFO: one publishes, *)
(* one subscribes and is pushed the messages, one stores.  Nothing orders  *)
(* commands on different connections, and no call is awaited by the frame  *)
(* handler that makes it, except for the two checks before a relay.        *)
(*                                                                         *)
(* A frame writes one field of the snapshot: hazard:<id>, or the tour (the *)
(* waypoint is handled alike); None as its value is hazard_remove, an      *)
(* empty stop list or a null waypoint.                                     *)
(***************************************************************************)
EXTENDS Naturals, SequencesExt

CONSTANTS
  Instance,   \* gateway processes behind the load balancer
  Conn,       \* sockets that may exist at a time
  Who,        \* Who[c]: the member at the other end of c
  Hazard,     \* hazard ids, each reported once
  Tour,       \* the leader's field
  Author,     \* Author[f]: reporter of a hazard, leader for the tour
  Plan,       \* non-empty stop lists
  Pin,        \* the payload of a hazard
  None,       \* no value, no instance
  MaxFrames,  \* bound: frames sent by the devices
  MaxFaults   \* bound: sockets closed, processes ended, connections broken
              \* and hazards expired, together

Field == Hazard \cup {Tour}
ValueOf(f) == IF f = Tour THEN Plan \cup {None} ELSE {Pin, None}
Value == Plan \cup {Pin, None}

ASSUME RedisAssumption ==
  /\ Tour \notin Hazard
  /\ None \notin Instance \cup Plan \cup {Pin}
  /\ DOMAIN Who = Conn /\ DOMAIN Author = Field
  /\ MaxFrames \in Nat /\ MaxFaults \in Nat

VARIABLES
  at,        \* at[c]: instance c is registered at (localConns), or None
  subs,      \* instances subscribed to the channel in Redis
  subOut,    \* subOut[i]: SUBSCRIBE and UNSUBSCRIBE under way to Redis
  subIn,     \* subIn[i]: messages pushed to i and not handled yet
  pubOut,    \* pubOut[i]: PUBLISH under way
  storeOut,  \* storeOut[i]: commands under way on the store's connection
  storeIn,   \* storeIn[i]: their replies
  asked,     \* frames whose handler waits for resolveLeader
  hash,      \* the snapshot in Redis
  shown,     \* shown[c]: what the device at c shows
  expired,   \* hazards whose expiresAt has passed
  log,       \* frames relayed so far; queues hold positions in log
  heard,     \* heard[c]: live frames sent to c
  resent,    \* frames that were published again
  replayed,  \* sockets that were sent the snapshot
  dirty,     \* dirty[c]: fields written while c was joining
  torn,      \* fields whose writes went through two instances at once or
             \* were under way when an instance or a connection failed
  failed,    \* instances whose SUBSCRIBE or HGETALL was given up
  frames,    \* frames sent so far
  faults     \* faults so far

redisVars == <<subs, hash>>
queueVars == <<subOut, subIn, pubOut, storeOut, storeIn, asked>>
deviceVars == <<shown, heard, replayed>>
histVars == <<log, resent, dirty, torn, failed>>
counts == <<frames, faults>>
vars == <<at, redisVars, queueVars, deviceVars, histVars, expired, counts>>

Empty == [f \in Field |-> None]
Present(s) == {f \in Field : s[f] # None}

Frame == frames < MaxFrames /\ frames' = frames + 1 /\ UNCHANGED faults
Fault == faults < MaxFaults /\ faults' = faults + 1 /\ UNCHANGED frames

Local(i) == {c \in Conn : at[c] = i}

(* The replay of a socket is not sent, or its instance is not subscribed   *)
(* for good: an UNSUBSCRIBE of the last leaver may still come before the   *)
(* SUBSCRIBE of the next joiner, both after the socket was replayed.       *)
Joining(c) ==
  at[c] # None /\ (c \notin replayed \/ at[c] \notin subs \/ subOut[at[c]] # <<>>)

(* Frames in the queues of instance i.                                     *)
Queued(i) ==
  ToSet(pubOut[i]) \cup ToSet(subIn[i]) \cup {x.n : x \in {y \in ToSet(storeOut[i]) : y.op = "write"}}

Fields(ns) == {log[n].field : n \in ns}

UnderWay == UNION {Queued(i) : i \in Instance}

(* Frames that went into another instance and are not everywhere yet.      *)
ComingFromElsewhere(i) == {n \in UnderWay : log[n].via # i}

-----------------------------------------------------------------------------
(* RedisFanout.                                                            *)

(* Sends frame number n to the sockets of instance i, its origin left out. *)
Sent(i, n, relayed) ==
  LET f == relayed[n]
      to == {c \in Local(i) : Who[c] # f.from}
  IN /\ shown' = [c \in Conn |-> IF c \in to
                                 THEN [shown[c] EXCEPT ![f.field] = f.value]
                                 ELSE shown[c]]
     /\ heard' = [c \in Conn |-> IF c \in to THEN Append(heard[c], n) ELSE heard[c]]

(* publish and record, called one after the other by handleFrame: local    *)
(* sockets at once, Redis by two commands on two connections.              *)
Relay(i, f) ==
  LET n == Len(log) + 1 IN
  /\ log' = Append(log, [field |-> f.field, value |-> f.value, from |-> f.from, via |-> i])
  /\ Sent(i, n, log')
  /\ pubOut' = [pubOut EXCEPT ![i] = Append(@, n)]
  /\ storeOut' = [storeOut EXCEPT ![i] = Append(@, [op |-> "write", n |-> n])]
  /\ dirty' = [c \in Conn |-> dirty[c] \cup IF Joining(c) THEN {f.field} ELSE {}]
  /\ torn' = torn \cup ({f.field} \cap Fields(ComingFromElsewhere(i)))

(* Redis takes the next PUBLISH of i and pushes it to every subscriber, i  *)
(* itself included; the instance reads the answer.                         *)
RedisPublish(i) ==
  /\ pubOut[i] # <<>>
  /\ pubOut' = [pubOut EXCEPT ![i] = Tail(@)]
  /\ subIn' = [j \in Instance |-> IF j \in subs THEN Append(subIn[j], Head(pubOut[i]))
                                                ELSE subIn[j]]
  /\ UNCHANGED <<at, redisVars, subOut, storeOut, storeIn, asked, deviceVars,
                 histVars, expired, counts>>

(* The publisher's connection breaks: Redis has executed the first k of    *)
(* the commands under way, but their answers are lost.  ioredis reconnects *)
(* and sends everything that was not answered again.                       *)
PublisherBlip(i) ==
  /\ Fault
  /\ \E k \in 1 .. Len(pubOut[i]) :
       /\ subIn' = [j \in Instance |-> IF j \in subs THEN subIn[j] \o SubSeq(pubOut[i], 1, k)
                                                     ELSE subIn[j]]
       /\ resent' = resent \cup ToSet(SubSeq(pubOut[i], 1, k))
  /\ UNCHANGED <<at, redisVars, subOut, pubOut, storeOut, storeIn, asked, deviceVars,
                 log, dirty, torn, failed, expired>>

(* Slip: the instanceId of a message is not compared.                      *)
OnEveryMessage(i) ==
  /\ subIn[i] # <<>>
  /\ subIn' = [subIn EXCEPT ![i] = Tail(@)]
  /\ Sent(i, Head(subIn[i]), log)
  /\ UNCHANGED <<at, redisVars, subOut, pubOut, storeOut, storeIn, asked, replayed,
                 histVars, expired, counts>>

(* sub.on('message'): frames of other instances go to the local sockets,   *)
(* the own ones were delivered when they were published.                   *)
OnMessage(i) ==
  /\ subIn[i] # <<>>
  /\ subIn' = [subIn EXCEPT ![i] = Tail(@)]
  /\ IF log[Head(subIn[i])].via = i
     THEN UNCHANGED <<shown, heard>>
     ELSE Sent(i, Head(subIn[i]), log)
  /\ UNCHANGED <<at, redisVars, subOut, pubOut, storeOut, storeIn, asked, replayed,
                 histVars, expired, counts>>

RedisSubscribe(i) ==
  /\ subOut[i] # <<>>
  /\ subOut' = [subOut EXCEPT ![i] = Tail(@)]
  /\ subs' = IF Head(subOut[i]) = "subscribe" THEN subs \cup {i} ELSE subs \ {i}
  /\ UNCHANGED <<at, hash, subIn, pubOut, storeOut, storeIn, asked, deviceVars,
                 histVars, expired, counts>>

-----------------------------------------------------------------------------
(* Frames that arrive at an instance.                                      *)

(* A hazard is relayed at once.                                            *)
HandleHazard(c, h) ==
  /\ Frame
  /\ at[c] # None /\ Author[h] = Who[c]
  /\ \A n \in DOMAIN log : log[n].field # h
  /\ Relay(at[c], [field |-> h, value |-> Pin, from |-> Who[c]])
  /\ UNCHANGED <<at, redisVars, subOut, subIn, storeIn, asked, replayed, resent, failed, expired>>

(* A removal first asks the store who reported the hazard.  The reporter   *)
(* sends it, or anybody who sees the pin.                                  *)
HandleRemove(c, h) ==
  /\ Frame
  /\ at[c] # None
  /\ \/ Author[h] = Who[c] /\ \E n \in DOMAIN log : log[n].field = h
     \/ shown[c][h] # None
  /\ storeOut' = [storeOut EXCEPT ![at[c]] = Append(@, [op |-> "get", field |-> h, from |-> Who[c]])]
  /\ torn' = torn \cup ({h} \cap Fields(ComingFromElsewhere(at[c])))
  /\ UNCHANGED <<at, redisVars, subOut, subIn, pubOut, storeIn, asked, deviceVars,
                 log, resent, dirty, failed, expired>>

(* A tour first asks the database whether its sender is the leader.        *)
HandleTour(c, v) ==
  /\ Frame
  /\ at[c] # None /\ Author[Tour] = Who[c]
  /\ asked' = asked \cup {[via |-> at[c], from |-> Who[c], value |-> v, no |-> frames']}
  /\ UNCHANGED <<at, redisVars, subOut, subIn, pubOut, storeOut, storeIn, deviceVars,
                 histVars, expired>>

(* The database answers one of them, in any order.                         *)
ResumeTour(x) ==
  /\ asked' = asked \ {x}
  /\ IF Author[Tour] = x.from
     THEN Relay(x.via, [field |-> Tour, value |-> x.value, from |-> x.from])
     ELSE UNCHANGED <<shown, heard, log, pubOut, storeOut, dirty, torn>>
  /\ UNCHANGED <<at, redisVars, subOut, subIn, storeIn, replayed, resent, failed, expired, counts>>

-----------------------------------------------------------------------------
(* RedisSnapshotStore.                                                     *)

(* Slip: only writes that set a field reach the hash.                      *)
StoredIfSet(x) ==
  IF log[x.n].value = None THEN hash ELSE [hash EXCEPT ![log[x.n].field] = log[x.n].value]

(* HSET or HDEL of a recorded frame.                                       *)
Stored(x) == [hash EXCEPT ![log[x.n].field] = log[x.n].value]

(* The next command on the store's connection of i, and its reply.         *)
Executes(i, op) ==
  /\ storeOut[i] # <<>> /\ Head(storeOut[i]).op = op
  /\ storeOut' = [storeOut EXCEPT ![i] = Tail(@)]
Replies(i, y) == storeIn' = [storeIn EXCEPT ![i] = Append(@, y)]
ElsewhereUnchanged ==
  UNCHANGED <<at, subs, subOut, subIn, pubOut, asked, deviceVars, histVars, expired, counts>>

(* The time to live that record renews is left out: it outlives any drive. *)
RedisWrite(i) ==
  /\ Executes(i, "write")
  /\ hash' = Stored(Head(storeOut[i]))
  /\ UNCHANGED storeIn /\ ElsewhereUnchanged

RedisGet(i) ==
  LET x == Head(storeOut[i]) IN
  /\ Executes(i, "get")
  /\ Replies(i, [op |-> "got", field |-> x.field, from |-> x.from,
                 tracked |-> hash[x.field] # None])
  /\ UNCHANGED <<hash>> /\ ElsewhereUnchanged

RedisGetAll(i) ==
  /\ Executes(i, "getall")
  /\ Replies(i, [op |-> "fields", conn |-> Head(storeOut[i]).conn, snap |-> hash])
  /\ UNCHANGED <<hash>> /\ ElsewhereUnchanged

RedisPrune(i) ==
  LET x == Head(storeOut[i]) IN
  /\ Executes(i, "prune")
  /\ hash' = [hash EXCEPT ![x.field] = None]
  /\ Replies(i, [op |-> "pruned", conn |-> x.conn, snap |-> x.snap, stale |-> x.stale])
  /\ ElsewhereUnchanged

(* The next reply is of kind op; the instance goes on where it awaited it. *)
Resumes(i, op) ==
  /\ storeIn[i] # <<>> /\ Head(storeIn[i]).op = op
  /\ storeIn' = [storeIn EXCEPT ![i] = Tail(@)]

(* Slip: whoever asks may remove.                                          *)
ResumeAnyRemove(i) ==
  LET x == Head(storeIn[i]) IN
  /\ Resumes(i, "got")
  /\ Relay(i, [field |-> x.field, value |-> None, from |-> x.from])
  /\ UNCHANGED <<at, redisVars, subOut, subIn, asked, replayed, resent, failed, expired, counts>>

(* A tracked hazard is removed by its reporter only.                       *)
ResumeRemove(i) ==
  LET x == Head(storeIn[i]) IN
  /\ Resumes(i, "got")
  /\ IF x.tracked /\ x.from # Author[x.field]
     THEN UNCHANGED <<shown, heard, log, pubOut, storeOut, dirty, torn>>
     ELSE Relay(i, [field |-> x.field, value |-> None, from |-> x.from])
  /\ UNCHANGED <<at, redisVars, subOut, subIn, asked, replayed, resent, failed, expired, counts>>

Prune(i, c, snap, stale) ==
  /\ \E h \in stale : storeOut' =
       [storeOut EXCEPT ![i] = Append(@, [op |-> "prune", conn |-> c, field |-> h,
                             snap |-> [snap EXCEPT ![h] = None], stale |-> stale \ {h}])]
  /\ UNCHANGED <<shown, replayed>>

Send(c, snap) ==
  /\ replayed' = replayed \cup {c}
  /\ shown' = [shown EXCEPT ![c] = [f \in Field |-> IF snap[f] # None THEN snap[f] ELSE @[f]]]

(* Slip: whether the socket is still open is not looked at.                *)
ReplayBlindly(i, c, snap, stale) ==
  IF stale # {} THEN Prune(i, c, snap, stale) ELSE UNCHANGED storeOut /\ Send(c, snap)

(* Slip: hazards only.                                                     *)
ReplayHazards(i, c, snap, stale) ==
  IF stale # {}
  THEN Prune(i, c, snap, stale)
  ELSE /\ UNCHANGED storeOut
       /\ IF at[c] = i THEN Send(c, [snap EXCEPT ![Tour] = None])
                       ELSE UNCHANGED <<shown, replayed>>

(* Expired hazards are pruned one HDEL after another; then what is left is *)
(* sent, provided that the socket is still open.                           *)
Replay(i, c, snap, stale) ==
  IF stale # {}
  THEN Prune(i, c, snap, stale)
  ELSE /\ UNCHANGED storeOut
       /\ IF at[c] = i THEN Send(c, snap) ELSE UNCHANGED <<shown, replayed>>

ReplayBegins(i) ==
  LET x == Head(storeIn[i]) IN
  /\ Resumes(i, "fields")
  /\ Replay(i, x.conn, x.snap, expired \cap Present(x.snap))
  /\ UNCHANGED <<at, redisVars, subOut, subIn, pubOut, asked, heard, histVars, expired, counts>>

(* Slip: a pruned hazard ends the replay.                                  *)
ReplayStops(i) ==
  /\ Resumes(i, "pruned")
  /\ UNCHANGED <<at, redisVars, subOut, subIn, pubOut, storeOut, asked, deviceVars,
                 histVars, expired, counts>>

ReplayGoesOn(i) ==
  LET x == Head(storeIn[i]) IN
  /\ Resumes(i, "pruned")
  /\ Replay(i, x.conn, x.snap, x.stale)
  /\ UNCHANGED <<at, redisVars, subOut, subIn, pubOut, asked, heard, histVars, expired, counts>>

-----------------------------------------------------------------------------
(* Sockets and instances.                                                  *)

(* An HGETALL or its replay is under way for c.                            *)
Reading(c) == \E i \in Instance :
  \E x \in ToSet(storeOut[i]) \cup ToSet(storeIn[i]) :
    x.op \in {"getall", "fields", "prune", "pruned"} /\ x.conn = c

(* The connection handler: register, subscribe when it is the instance's   *)
(* first socket, ask for the snapshot.  The device has just entered.       *)
Connect(c, i) ==
  /\ at[c] = None /\ ~Reading(c)
  /\ at' = [at EXCEPT ![c] = i]
  /\ subOut' = IF Local(i) = {} THEN [subOut EXCEPT ![i] = Append(@, "subscribe")] ELSE subOut
  /\ storeOut' = [storeOut EXCEPT ![i] = Append(@, [op |-> "getall", conn |-> c])]
  /\ dirty' = [dirty EXCEPT ![c] = Fields(UnderWay)]
  /\ UNCHANGED <<redisVars, subIn, pubOut, storeIn, asked, deviceVars, log, resent, torn,
                 failed, expired, counts>>

(* What is left of sockets that are closed.                                *)
Drop(closed) ==
  /\ at' = [c \in Conn |-> IF c \in closed THEN None ELSE at[c]]
  /\ shown' = [c \in Conn |-> IF c \in closed THEN Empty ELSE shown[c]]
  /\ heard' = [c \in Conn |-> IF c \in closed THEN <<>> ELSE heard[c]]
  /\ replayed' = replayed \ closed

(* Slip: every close unsubscribes.                                         *)
CloseUnsubscribes(c) ==
  /\ Fault
  /\ at[c] # None
  /\ Drop({c})
  /\ subOut' = [subOut EXCEPT ![at[c]] = Append(@, "unsubscribe")]
  /\ UNCHANGED <<redisVars, subIn, pubOut, storeOut, storeIn, asked, histVars, expired>>

(* A socket closes: unregister, unsubscribe when it was the last one.      *)
Close(c) ==
  /\ Fault
  /\ at[c] # None
  /\ Drop({c})
  /\ subOut' = IF Local(at[c]) = {c}
               THEN [subOut EXCEPT ![at[c]] = Append(@, "unsubscribe")] ELSE subOut
  /\ UNCHANGED <<redisVars, subIn, pubOut, storeOut, storeIn, asked, histVars, expired>>

(* The process of i ends, with its sockets, handlers and connections, and  *)
(* is started again: buildApp connects to Redis before it accepts sockets. *)
Exit(i) ==
  /\ Drop(Local(i))
  /\ subs' = subs \ {i}
  /\ subOut' = [subOut EXCEPT ![i] = <<>>] /\ subIn' = [subIn EXCEPT ![i] = <<>>]
  /\ pubOut' = [pubOut EXCEPT ![i] = <<>>]
  /\ storeOut' = [storeOut EXCEPT ![i] = <<>>] /\ storeIn' = [storeIn EXCEPT ![i] = <<>>]
  /\ asked' = {x \in asked : x.via # i}
  /\ torn' = torn \cup Fields(Queued(i))
  /\ failed' = failed \ {i}

Crash(i) ==
  /\ Fault
  /\ Exit(i)
  /\ UNCHANGED <<hash, log, resent, dirty, expired>>

(* The subscriber's connection breaks and comes back: what was pushed in   *)
(* between is lost; ioredis subscribes again, then sends what was pending. *)
SubscriberReconnects(i) ==
  /\ subs' = subs \ {i}
  /\ subIn' = [subIn EXCEPT ![i] = <<>>]
  /\ dirty' = [c \in Conn |-> dirty[c] \cup IF at[c] = i THEN Fields(UnderWay) ELSE {}]

Blip(i) ==
  /\ Fault
  /\ SubscriberReconnects(i)
  /\ subOut' = [subOut EXCEPT ![i] = (IF i \in subs THEN <<"subscribe">> ELSE <<>>) \o @]
  /\ UNCHANGED <<at, hash, pubOut, storeOut, storeIn, asked, deviceVars, log, resent,
                 torn, failed, expired>>

(* ioredis gives up what is pending after maxRetriesPerRequest attempts.   *)
(* A rejected SUBSCRIBE, HGETALL, HSET or HDEL is logged and that is all;  *)
(* a rejected PUBLISH or HGET is awaited by nobody and ends the process.   *)
Outage(i) ==
  /\ Fault
  /\ IF pubOut[i] # <<>> \/ \E x \in ToSet(storeOut[i]) : x.op = "get"
     THEN Exit(i) /\ UNCHANGED dirty
     ELSE /\ SubscriberReconnects(i)
          /\ subOut' = [subOut EXCEPT ![i] = IF i \in subs THEN <<"subscribe">> ELSE <<>>]
          /\ storeOut' = [storeOut EXCEPT ![i] = <<>>]
          /\ torn' = torn \cup Fields(Queued(i))
          /\ failed' = failed \cup {i}
          /\ UNCHANGED <<at, pubOut, storeIn, asked, deviceVars>>
  /\ UNCHANGED <<hash, log, resent, expired>>

Expire(h) ==
  /\ Fault
  /\ h \notin expired /\ \E n \in DOMAIN log : log[n].field = h
  /\ expired' = expired \cup {h}
  /\ UNCHANGED <<at, redisVars, queueVars, deviceVars, histVars>>

-----------------------------------------------------------------------------
Init ==
  /\ at = [c \in Conn |-> None]
  /\ subs = {} /\ hash = Empty
  /\ subOut = [i \in Instance |-> <<>>] /\ subIn = [i \in Instance |-> <<>>]
  /\ pubOut = [i \in Instance |-> <<>>]
  /\ storeOut = [i \in Instance |-> <<>>] /\ storeIn = [i \in Instance |-> <<>>]
  /\ asked = {}
  /\ shown = [c \in Conn |-> Empty] /\ heard = [c \in Conn |-> <<>>] /\ replayed = {}
  /\ log = <<>> /\ resent = {} /\ dirty = [c \in Conn |-> {}] /\ torn = {} /\ failed = {}
  /\ expired = {} /\ frames = 0 /\ faults = 0

(* Steps of Redis, of the connections to it, and of the event loops.       *)
Redis(i) ==
  RedisPublish(i) \/ RedisSubscribe(i) \/ RedisWrite(i) \/ RedisGet(i)
    \/ RedisGetAll(i) \/ RedisPrune(i)
Loop(i) == OnMessage(i) \/ ResumeRemove(i) \/ ReplayBegins(i) \/ ReplayGoesOn(i)

Next ==
  \/ \E i \in Instance : Redis(i) \/ Loop(i) \/ Crash(i) \/ Blip(i) \/ PublisherBlip(i) \/ Outage(i)
  \/ \E x \in asked : ResumeTour(x)
  \/ \E c \in Conn, i \in Instance : Connect(c, i)
  \/ \E c \in Conn : Close(c)
  \/ \E c \in Conn, h \in Hazard : HandleHazard(c, h) \/ HandleRemove(c, h)
  \/ \E c \in Conn, v \in Plan \cup {None} : HandleTour(c, v)
  \/ \E h \in Hazard : Expire(h)

Spec == Init /\ [][Next]_vars

-----------------------------------------------------------------------------
(* Properties.                                                             *)

TypeOK ==
  /\ at \in [Conn -> Instance \cup {None}]
  /\ subs \subseteq Instance
  /\ hash \in [Field -> Value]
  /\ subOut \in [Instance -> Seq({"subscribe", "unsubscribe"})]
  /\ \A i \in Instance : \A n \in ToSet(subIn[i]) \cup ToSet(pubOut[i]) : n \in DOMAIN log
  /\ \A i \in Instance : \A x \in ToSet(storeOut[i]) :
       x.op = "write" => x.n \in DOMAIN log
  /\ shown \in [Conn -> [Field -> Value]]
  /\ resent \subseteq DOMAIN log
  /\ replayed \subseteq {c \in Conn : at[c] # None}
  /\ dirty \in [Conn -> SUBSET Field] /\ torn \subseteq Field /\ failed \subseteq Instance
  /\ expired \subseteq Hazard /\ frames \in 0 .. MaxFrames /\ faults \in 0 .. MaxFaults

(* A socket is sent the frames of one instance in the order in which they  *)
(* were relayed there, and none twice: local delivery and the echo of the  *)
(* own message in the channel do not add up.  The exception is a frame of  *)
(* another instance that was published again.                              *)
LiveOrder ==
  \A c \in Conn : \A j, k \in DOMAIN heard[c] :
    LET m == heard[c][j]
        n == heard[c][k]
    IN j < k /\ log[m].via = log[n].via => m < n \/ (n \in resent /\ log[n].via # at[c])

(* What Redis will have been told last about an instance is whether it has *)
(* sockets: leaving and joining in any order, or a broken connection, does *)
(* not leave it deaf, nor subscribed for nobody.                           *)
SubscriptionFollows ==
  \A i \in Instance \ failed :
    (IF subOut[i] = <<>> THEN i \in subs ELSE Last(subOut[i]) = "subscribe") <=> Local(i) # {}

Quiet ==
  /\ asked = {}
  /\ \A i \in Instance :
       /\ subOut[i] = <<>> /\ subIn[i] = <<>> /\ pubOut[i] = <<>>
       /\ storeOut[i] = <<>> /\ storeIn[i] = <<>>

(* Once nothing is on its way, the snapshot holds the latest relayed value *)
(* of each field, unless the writes of that field overlapped on two        *)
(* instances or fell into a failure.                                       *)
SnapshotIsLatest ==
  Quiet => \A n \in DOMAIN log :
    \/ log[n].field \in torn \cup expired
    \/ \E m \in n + 1 .. Len(log) : log[m].field = log[n].field
    \/ hash[log[n].field] = log[n].value

(* Once nothing is on its way, a socket shows what a late joiner would be  *)
(* replayed, wherever it is connected; only fields written while it was    *)
(* joining (before its snapshot and its instance's subscription) can have  *)
(* been missed or brought back.                                            *)
JoinersAgree ==
  Quiet => \A c \in Conn : at[c] # None /\ ~Joining(c) =>
    \A f \in Field \ (dirty[c] \cup torn \cup expired) :
      Author[f] # Who[c] => shown[c][f] = hash[f]

(* A tracked hazard leaves the snapshot because its reporter removed it or *)
(* because it expired: reporter-only removal works across instances,       *)
(* unless the removal overtakes the report on another instance's           *)
(* connection.                                                             *)
ReporterRemoves ==
  [][\A i \in Instance : \A h \in Hazard \ (torn \cup expired) :
       hash[h] # None /\ hash'[h] = None /\ storeOut'[i] # storeOut[i]
         => LET x == Head(storeOut[i]) IN x.op = "write" /\ log[x.n].from = Author[h]]_vars

(* Once nothing is on its way, every socket has been sent the snapshot,    *)
(* with expired hazards in it or not, and its instance is subscribed,      *)
(* unless the instance was given up a SUBSCRIBE or an HGETALL.             *)
JoinersSettle ==
  Quiet => \A c \in Conn : at[c] \in Instance \ failed => ~Joining(c)

=============================================================================

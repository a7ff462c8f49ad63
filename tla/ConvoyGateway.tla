--------------------------- MODULE ConvoyGateway ---------------------------
(***************************************************************************)
(* The realtime pipeline of one convoy on a single backend process         *)
(* (InProcessFanout + in-memory SnapshotStore), together with the clients  *)
(* at the other end of its sockets.                                        *)
(*                                                                         *)
(* Shared data are the "world state" frames: hazard pins (hazard /         *)
(* hazard_remove) and the leader's route plan (tour; the waypoint slot is  *)
(* handled by the same code paths and is not told apart here).  A device   *)
(* applies its own edit at once and sends it; the gateway relays it to     *)
(* every other member and folds it into the snapshot that is replayed to   *)
(* a socket when it connects.                                              *)
(***************************************************************************)
EXTENDS Naturals, Sequences

CONSTANTS
  Member,     \* users that may be members of the convoy
  Owner,      \* the member whose convoy_members.role is 'owner'
  HazardId,   \* hazard ids; an id is minted once, by one device
  Reporter,   \* Reporter[h]: the member whose id is part of hazard id h
  Plan,       \* non-empty stop lists
  NoPlan,     \* the empty stop list
  Conn,       \* WebSocket connections that may exist at a time
  None,       \* "no connection" / "no member"
  Budget      \* Budget[k]: how often an event of kind k may happen

Kind == {"edit", "cut", "silence", "rebuild", "appRestart", "serverRestart", "leave", "expire"}

ASSUME GatewayAssumption ==
  /\ Owner \in Member
  /\ Reporter \in [HazardId -> Member]
  /\ NoPlan \notin Plan
  /\ None \notin Conn
  /\ None \notin Member
  /\ Budget \in [Kind -> Nat]

VARIABLES
  active,     \* members with a convoy_members row whose leftAt is null
  pool,       \* pool[c]: member the fanout registered c for, or None
  storeHaz,   \* snapshot store: tracked hazards
  storePlan,  \* snapshot store: tour
  pending,    \* handleFrame calls waiting for resolveLeader
  cut,        \* connections in use whose transport is gone
  up,         \* up[c]: frames on their way to the gateway
  down,       \* down[c]: frames on their way to the device
  link,       \* link[m]: connection of m's socket client, or None
  ready,      \* members whose channel.ready has completed
  armed,      \* members whose inbound watchdog runs on their connection
  roster,     \* roster[m]: members in m's currentConvoyProvider
  queue,      \* queue[m]: OutboundFrameQueue of m's socket client
  seenHaz,    \* seenHaz[m]: hazardPingsProvider on m's device
  seenPlan,   \* seenPlan[m]: tourProvider on m's device
  reported,   \* hazard ids already minted
  expired,    \* hazards whose expiresAt has passed
  used        \* used[k]: events of kind k so far

serverVars == <<pool, storeHaz, storePlan, pending>>
netVars    == <<cut, up, down>>
clientVars == <<link, ready, armed, roster, queue, seenHaz, seenPlan>>
envVars    == <<active, reported, expired, used>>
vars == <<serverVars, netVars, clientVars, envVars>>

PlanOrNone == Plan \cup {NoPlan}

(* Frames a device sends, and what a device is sent: the same frames plus  *)
(* the replay, the burst of snapshot frames the connection handler sends.  *)
UpFrame == [type : {"hazard", "hazard_remove"}, arg : HazardId]
             \cup [type : {"tour"}, arg : PlanOrNone]
Replay == [type : {"replay"}, arg : [hazards : SUBSET HazardId, plan : PlanOrNone]]
DownFrame == UpFrame \cup Replay
Lookup == [from : Member, plan : PlanOrNone, leader : {"asked", "yes", "no"}]

-----------------------------------------------------------------------------
(* What a frame does to the state of the device that receives it.          *)

Adds(f, h)   == \/ f.type = "hazard" /\ f.arg = h
                \/ f.type = "replay" /\ h \in f.arg.hazards
Drops(f, h)  == f.type = "hazard_remove" /\ f.arg = h
SetsPlan(f)  == \/ f.type = "tour"
                \/ f.type = "replay" /\ f.arg.plan # NoPlan
PlanIn(f)    == IF f.type = "tour" THEN f.arg ELSE f.arg.plan

HazardsAfter(f, S) == {h \in HazardId : Adds(f, h) \/ (h \in S /\ ~Drops(f, h))}
PlanAfter(f, p)    == IF SetsPlan(f) THEN PlanIn(f) ELSE p

-----------------------------------------------------------------------------
(* The connection is registered, its transport works and the device at the *)
(* other end still uses it: what the gateway sends on it arrives.          *)
Live(c) == pool[c] # None /\ c \notin cut /\ link[pool[c]] = c

Free(c) == pool[c] = None /\ \A m \in Member : link[m] # c

(* An event of kind k happens; the bound keeps the state space finite.     *)
Spend(k) == /\ used[k] < Budget[k]
            /\ used' = [used EXCEPT ![k] = @ + 1]

(* Slip: the origin member is not left out.                                *)
RelayedToAll(from, f) == [c \in Conn |-> IF Live(c) THEN Append(down[c], f) ELSE down[c]]

(* fanout.publish: to every registered connection but the origin member's. *)
Relayed(from, f) ==
  [c \in Conn |-> IF Live(c) /\ pool[c] # from THEN Append(down[c], f) ELSE down[c]]

(* Slip: without a channel the frame is dropped, as it is for gps frames.  *)
SendOrDrop(m, f) ==
  /\ up' = IF m \notin ready \/ link[m] \in cut THEN up
           ELSE [up EXCEPT ![link[m]] = Append(@, f)]
  /\ UNCHANGED queue

(* _sendCritical: straight into the sink when there is a channel, into the *)
(* offline queue otherwise.  A sink whose transport is gone takes the      *)
(* frame and it is lost.                                                   *)
SendCritical(m, f) ==
  IF m \in ready
  THEN /\ up' = IF link[m] \in cut THEN up ELSE [up EXCEPT ![link[m]] = Append(@, f)]
       /\ UNCHANGED queue
  ELSE /\ queue' = [queue EXCEPT ![m] = Append(@, f)]
       /\ UNCHANGED up

-----------------------------------------------------------------------------
(* Edits on a device.                                                      *)

Report(m, h) ==
  /\ Spend("edit")
  /\ m \in active /\ Reporter[h] = m /\ h \notin reported
  /\ reported' = reported \cup {h}
  /\ seenHaz' = [seenHaz EXCEPT ![m] = @ \cup {h}]
  /\ SendCritical(m, [type |-> "hazard", arg |-> h])
  /\ UNCHANGED <<serverVars, cut, down, link, ready, armed, roster, seenPlan, active, expired>>

Remove(m, h) ==
  /\ Spend("edit")
  /\ m \in active /\ Reporter[h] = m /\ h \in seenHaz[m]
  /\ seenHaz' = [seenHaz EXCEPT ![m] = @ \ {h}]
  /\ SendCritical(m, [type |-> "hazard_remove", arg |-> h])
  /\ UNCHANGED <<serverVars, cut, down, link, ready, armed, roster, seenPlan, active, reported, expired>>

EditPlan(m, p) ==
  /\ Spend("edit")
  /\ m \in active /\ m = Owner /\ p # seenPlan[m]
  /\ seenPlan' = [seenPlan EXCEPT ![m] = p]
  /\ SendCritical(m, [type |-> "tour", arg |-> p])
  /\ UNCHANGED <<serverVars, cut, down, link, ready, armed, roster, seenHaz, active, reported, expired>>

-----------------------------------------------------------------------------
(* The connection handler and the client's side of a connect.              *)

(* Slip: the replay carries the plan only.                                 *)
ConnectWithoutHazards(m, c) ==
  /\ m \in active /\ link[m] = None /\ Free(c)
  /\ pool' = [pool EXCEPT ![c] = m]
  /\ storeHaz' = storeHaz \ expired
  /\ down' = [down EXCEPT ![c] =
                <<[type |-> "replay", arg |-> [hazards |-> {}, plan |-> storePlan]]>>]
  /\ link' = [link EXCEPT ![m] = c]
  /\ UNCHANGED <<storePlan, pending, cut, up, ready, armed, roster, queue, seenHaz, seenPlan, envVars>>

(* resolveMember accepts an active member; the handler registers the       *)
(* socket in the fanout and replays the snapshot, pruning what expired.    *)
(* The in-memory store answers in the same turn of the event loop.         *)
Connect(m, c) ==
  /\ m \in active /\ link[m] = None /\ Free(c)
  /\ pool' = [pool EXCEPT ![c] = m]
  /\ storeHaz' = storeHaz \ expired
  /\ down' = [down EXCEPT ![c] =
                <<[type |-> "replay",
                   arg  |-> [hazards |-> storeHaz \ expired, plan |-> storePlan]]>>]
  /\ link' = [link EXCEPT ![m] = c]
  /\ UNCHANGED <<storePlan, pending, cut, up, ready, armed, roster, queue, seenHaz, seenPlan, envVars>>

(* channel.ready completes: the client listens and drains the queue.       *)
ClientReady(m) ==
  /\ link[m] # None /\ m \notin ready /\ link[m] \notin cut
  /\ ready' = ready \cup {m}
  /\ up' = [up EXCEPT ![link[m]] = queue[m]]
  /\ queue' = [queue EXCEPT ![m] = <<>>]
  /\ UNCHANGED <<serverVars, cut, down, link, armed, roster, seenHaz, seenPlan, envVars>>

(* An empty snapshot is replayed without a frame.                          *)
Audible(f) == f.type = "replay" => f.arg.hazards # {} \/ f.arg.plan # NoPlan

(* The device handles the next inbound frame, which arms its watchdog for  *)
(* this connection.                                                        *)
ClientReceive(m) ==
  LET f == Head(down[link[m]]) IN
  /\ m \in ready /\ down[link[m]] # <<>>
  /\ down' = [down EXCEPT ![link[m]] = Tail(@)]
  /\ seenHaz' = [seenHaz EXCEPT ![m] = HazardsAfter(f, @)]
  /\ seenPlan' = [seenPlan EXCEPT ![m] = PlanAfter(f, @)]
  /\ armed' = IF Audible(f) THEN armed \cup {m} ELSE armed
  /\ UNCHANGED <<serverVars, cut, up, link, ready, roster, queue, envVars>>

(* _pruneExpired on the device.                                            *)
PruneExpired(m) ==
  /\ seenHaz[m] \cap expired # {}
  /\ seenHaz' = [seenHaz EXCEPT ![m] = @ \ expired]
  /\ UNCHANGED <<serverVars, netVars, link, ready, armed, roster, queue, seenPlan, envVars>>

-----------------------------------------------------------------------------
(* handleFrame.                                                            *)

(* Slip: a removal is recorded but not relayed.                            *)
HandleHazardQuietly(c) ==
  LET f == Head(up[c]) IN
  /\ pool[c] # None /\ up[c] # <<>> /\ f.type # "tour"
  /\ up' = [up EXCEPT ![c] = Tail(@)]
  /\ down' = IF f.type = "hazard" THEN Relayed(pool[c], f) ELSE down
  /\ storeHaz' = HazardsAfter(f, storeHaz)
  /\ UNCHANGED <<pool, storePlan, pending, cut, clientVars, envVars>>

(* hazard and hazard_remove are relayed and recorded in one turn.  The     *)
(* removal of a tracked hazard is dropped unless its reporter sent it.     *)
(* (The store answers hazardReporter in a microtask: a frame of the same   *)
(* read may overtake a removal, but none of them is about the same id.)    *)
HandleHazard(c) ==
  LET f == Head(up[c])
      m == pool[c]
      foreign == f.type = "hazard_remove" /\ f.arg \in storeHaz /\ Reporter[f.arg] # m
  IN
  /\ pool[c] # None /\ up[c] # <<>> /\ f.type # "tour"
  /\ up' = [up EXCEPT ![c] = Tail(@)]
  /\ IF foreign
     THEN UNCHANGED <<down, storeHaz>>
     ELSE /\ down' = Relayed(m, f)
          /\ storeHaz' = HazardsAfter(f, storeHaz)
  /\ UNCHANGED <<pool, storePlan, pending, cut, clientVars, envVars>>

(* A tour frame waits for resolveLeader, one database round trip per frame *)
(* on whichever pooled connection is idle.                                 *)
HandleTour(c) ==
  LET f == Head(up[c]) IN
  /\ pool[c] # None /\ up[c] # <<>> /\ f.type = "tour"
  /\ up' = [up EXCEPT ![c] = Tail(@)]
  /\ pending' = Append(pending, [from |-> pool[c], plan |-> f.arg, leader |-> "asked"])
  /\ UNCHANGED <<pool, storeHaz, storePlan, cut, down, clientVars, envVars>>

(* The database evaluates the query: owner role and still a member.        *)
ResolveLeader(i) ==
  /\ pending[i].leader = "asked"
  /\ pending' = [pending EXCEPT ![i].leader =
                   IF pending[i].from = Owner /\ pending[i].from \in active
                   THEN "yes" ELSE "no"]
  /\ UNCHANGED <<pool, storeHaz, storePlan, netVars, clientVars, envVars>>

Without(s, i) == [j \in 1 .. Len(s) - 1 |-> IF j < i THEN s[j] ELSE s[j + 1]]

(* Slip: an empty stop list does not clear the recorded plan.              *)
ResumeTourKeepsPlan(i) ==
  LET f == [type |-> "tour", arg |-> pending[i].plan] IN
  /\ pending[i].leader # "asked"
  /\ pending' = Without(pending, i)
  /\ IF pending[i].leader = "yes"
     THEN /\ down' = Relayed(pending[i].from, f)
          /\ storePlan' = IF pending[i].plan = NoPlan THEN storePlan ELSE pending[i].plan
     ELSE UNCHANGED <<down, storePlan>>
  /\ UNCHANGED <<pool, storeHaz, cut, up, clientVars, envVars>>

(* The awaiting handler resumes: relay and record, or drop.                *)
ResumeTour(i) ==
  LET f == [type |-> "tour", arg |-> pending[i].plan] IN
  /\ pending[i].leader # "asked"
  /\ pending' = Without(pending, i)
  /\ IF pending[i].leader = "yes"
     THEN down' = Relayed(pending[i].from, f) /\ storePlan' = pending[i].plan
     ELSE UNCHANGED <<down, storePlan>>
  /\ UNCHANGED <<pool, storeHaz, cut, up, clientVars, envVars>>

-----------------------------------------------------------------------------
(* Failures, restarts and membership.                                      *)

(* The transport of a connection breaks.  What had already crossed it to   *)
(* the gateway is still handled there.                                     *)
Cut(c) ==
  /\ Spend("cut")
  /\ c \notin cut /\ ~Free(c)
  /\ cut' = cut \cup {c}
  /\ \E i \in 0 .. Len(up[c]) : up' = [up EXCEPT ![c] = SubSeq(@, 1, i)]
  /\ down' = [down EXCEPT ![c] = <<>>]
  /\ UNCHANGED <<serverVars, clientVars, active, reported, expired>>

(* Slip: the lost channel still counts as ready.                           *)
UnlinkStaysReady(m) ==
  LET gone == {c \in Conn : link[m] = c /\ pool[c] = None} IN
  /\ link' = [link EXCEPT ![m] = None]
  /\ ready' = ready /\ armed' = armed \ {m}
  /\ cut' = cut \ gone
  /\ down' = [c \in Conn |-> IF link[m] = c THEN <<>> ELSE down[c]]
  /\ up' = [c \in Conn |-> IF c \in gone THEN <<>> ELSE up[c]]

(* The device stops using its connection; unread inbound frames are gone,  *)
(* frames already sent stay on their way while the gateway holds its end.  *)
Unlink(m) ==
  LET gone == {c \in Conn : link[m] = c /\ pool[c] = None} IN
  /\ link' = [link EXCEPT ![m] = None]
  /\ ready' = ready \ {m} /\ armed' = armed \ {m}
  /\ cut' = cut \ gone
  /\ down' = [c \in Conn |-> IF link[m] = c THEN <<>> ELSE down[c]]
  /\ up' = [c \in Conn |-> IF c \in gone THEN <<>> ELSE up[c]]

(* Slip: _onInboundSilence closes the sink and dials no more.              *)
ChannelLostByErrorOnly(m) ==
  /\ link[m] # None /\ link[m] \in cut /\ m \notin armed
  /\ Unlink(m)
  /\ UNCHANGED <<serverVars, roster, queue, seenHaz, seenPlan, envVars>>

(* _onChannelLost: error, done or inbound silence on a broken transport.   *)
(* Only a watchdog that runs is sure to fire: without one, while           *)
(* channel.ready is awaited or before the first inbound frame, a half-dead *)
(* link may stay unnoticed.                                                *)
ChannelLost(m) ==
  /\ link[m] # None /\ link[m] \in cut
  /\ Unlink(m)
  /\ UNCHANGED <<serverVars, roster, queue, seenHaz, seenPlan, envVars>>

(* _onInboundSilence on a sound transport: the peers are merely quiet.     *)
(* Position frames, which are left out here, arm the watchdog as well.     *)
InboundSilence(m) ==
  /\ Spend("silence")
  /\ m \in ready /\ link[m] \notin cut /\ down[link[m]] = <<>>
  /\ Unlink(m)
  /\ UNCHANGED <<serverVars, roster, queue, seenHaz, seenPlan, active, reported, expired>>

(* Slip: a pong does not reset isAlive, so healthy sockets are closed.     *)
CloseAnySocket(c) ==
  /\ pool[c] # None /\ up[c] = <<>>
  /\ pool' = [pool EXCEPT ![c] = None]
  /\ cut' = IF link[pool[c]] = c THEN cut ELSE cut \ {c}
  /\ UNCHANGED <<storeHaz, storePlan, pending, up, down, clientVars, envVars>>

(* The gateway's end closes: heartbeat on a dead transport, or the close   *)
(* frame of a device that has moved on, after everything sent before it.   *)
CloseSocket(c) ==
  /\ pool[c] # None /\ up[c] = <<>>
  /\ c \in cut \/ link[pool[c]] # c
  /\ pool' = [pool EXCEPT ![c] = None]
  /\ cut' = IF link[pool[c]] = c THEN cut ELSE cut \ {c}
  /\ UNCHANGED <<storeHaz, storePlan, pending, up, down, clientVars, envVars>>

(* The roster poll finds another member set and replaces the convoy:       *)
(* convoySocketProvider disposes the socket client, queue included, and    *)
(* builds a new one; hazards and plan stay on the device.                  *)
RosterChange(m) ==
  /\ Spend("rebuild")
  /\ m \in active /\ roster[m] # active
  /\ roster' = [roster EXCEPT ![m] = active]
  /\ Unlink(m)
  /\ queue' = [queue EXCEPT ![m] = <<>>]
  /\ UNCHANGED <<serverVars, seenHaz, seenPlan, active, reported, expired>>

(* A device without socket, queue and state, and the convoy it then shows. *)
Reset(m, members) ==
  /\ Unlink(m)
  /\ roster' = [roster EXCEPT ![m] = members]
  /\ queue' = [queue EXCEPT ![m] = <<>>]
  /\ seenHaz' = [seenHaz EXCEPT ![m] = {}]
  /\ seenPlan' = [seenPlan EXCEPT ![m] = NoPlan]

(* The app is killed and reopened on the same convoy.                      *)
AppRestart(m) ==
  /\ Spend("appRestart")
  /\ m \in active
  /\ Reset(m, active)
  /\ UNCHANGED <<serverVars, active, reported, expired>>

(* Leaving: leftAt is set, then the app drops convoy, socket and state.    *)
Leave(m) ==
  /\ Spend("leave")
  /\ m \in active
  /\ active' = active \ {m}
  /\ Reset(m, {})
  /\ UNCHANGED <<serverVars, reported, expired>>

Join(m) ==
  /\ m \notin active
  /\ active' = active \cup {m}
  /\ roster' = [roster EXCEPT ![m] = active']
  /\ UNCHANGED <<serverVars, netVars, link, ready, armed, queue, seenHaz, seenPlan,
                 reported, expired, used>>

(* The process restarts: sockets, registry, snapshots and handlers go.     *)
ServerRestart ==
  /\ Spend("serverRestart")
  /\ pool' = [c \in Conn |-> None]
  /\ storeHaz' = {} /\ storePlan' = NoPlan /\ pending' = <<>>
  /\ cut' = {c \in Conn : \E m \in Member : link[m] = c}
  /\ up' = [c \in Conn |-> <<>>]
  /\ down' = [c \in Conn |-> <<>>]
  /\ UNCHANGED <<clientVars, active, reported, expired>>

Expire(h) ==
  /\ Spend("expire")
  /\ h \in reported \ expired
  /\ expired' = expired \cup {h}
  /\ UNCHANGED <<serverVars, netVars, clientVars, active, reported>>

-----------------------------------------------------------------------------
Init ==
  /\ active = {Owner}
  /\ pool = [c \in Conn |-> None]
  /\ storeHaz = {} /\ storePlan = NoPlan /\ pending = <<>>
  /\ cut = {}
  /\ up = [c \in Conn |-> <<>>] /\ down = [c \in Conn |-> <<>>]
  /\ link = [m \in Member |-> None] /\ ready = {} /\ armed = {}
  /\ roster = [m \in Member |-> IF m = Owner THEN {Owner} ELSE {}]
  /\ queue = [m \in Member |-> <<>>]
  /\ seenHaz = [m \in Member |-> {}] /\ seenPlan = [m \in Member |-> NoPlan]
  /\ reported = {} /\ expired = {}
  /\ used = [k \in Kind |-> 0]

(* Steps the running system takes by itself.                               *)
System ==
  \/ \E m \in Member, c \in Conn : Connect(m, c)
  \/ \E m \in Member : ClientReady(m) \/ ClientReceive(m) \/ PruneExpired(m) \/ ChannelLost(m)
  \/ \E c \in Conn : HandleHazard(c) \/ HandleTour(c) \/ CloseSocket(c)
  \/ \E i \in DOMAIN pending : ResolveLeader(i) \/ ResumeTour(i)

(* Steps of users, networks and operators.                                 *)
Environment ==
  \/ \E m \in Member, h \in HazardId : Report(m, h) \/ Remove(m, h)
  \/ \E m \in Member, p \in PlanOrNone : EditPlan(m, p)
  \/ \E c \in Conn : Cut(c)
  \/ \E m \in Member : RosterChange(m) \/ AppRestart(m) \/ Leave(m) \/ Join(m)
  \/ \E m \in Member : InboundSilence(m)
  \/ \E h \in HazardId : Expire(h)
  \/ ServerRestart

Next == System \/ Environment

Spec == Init /\ [][Next]_vars

(* The event loops of gateway and devices keep running, the network moves  *)
(* what a working transport holds, and the client redials (backoff is      *)
(* bounded by 30 s).  A broken link is noticed for sure only by a watchdog *)
(* that a frame of the same connection has armed.  Users, failures and     *)
(* restarts are under no obligation.                                       *)
Fairness ==
  /\ \A m \in Member :
       /\ WF_vars(\E c \in Conn : Connect(m, c))
       /\ WF_vars(ClientReady(m)) /\ WF_vars(ClientReceive(m))
       /\ WF_vars(PruneExpired(m)) /\ WF_vars(m \in armed /\ ChannelLost(m))
  /\ \A c \in Conn :
       WF_vars(HandleHazard(c)) /\ WF_vars(HandleTour(c)) /\ WF_vars(CloseSocket(c))
  /\ WF_vars(\E i \in DOMAIN pending : ResolveLeader(i))
  /\ WF_vars(\E i \in DOMAIN pending : ResumeTour(i))

FairSpec == Spec /\ Fairness

-----------------------------------------------------------------------------
(* Properties.                                                             *)

TypeOK ==
  /\ active \subseteq Member
  /\ pool \in [Conn -> Member \cup {None}]
  /\ storeHaz \subseteq HazardId /\ storePlan \in PlanOrNone
  /\ pending \in Seq(Lookup)
  /\ cut \subseteq Conn
  /\ up \in [Conn -> Seq(UpFrame)] /\ down \in [Conn -> Seq(DownFrame)]
  /\ link \in [Member -> Conn \cup {None}]
  /\ armed \subseteq ready /\ ready \subseteq {m \in Member : link[m] # None}
  /\ roster \in [Member -> SUBSET Member]
  /\ queue \in [Member -> Seq(UpFrame)]
  /\ seenHaz \in [Member -> SUBSET HazardId] /\ seenPlan \in [Member -> PlanOrNone]
  /\ reported \subseteq HazardId /\ expired \subseteq HazardId
  /\ used \in [Kind -> Nat]

(* What a device that shows S and plan q ends with once it has handled the *)
(* frames in: h is among the hazards, p is the plan.                       *)
Shows(S, in, h) ==
  /\ \/ h \in S
     \/ \E i \in 1 .. Len(in) : Adds(in[i], h)
  /\ \A i \in 1 .. Len(in) : Drops(in[i], h) => \E j \in i + 1 .. Len(in) : Adds(in[j], h)

HasPlan(q, in, p) ==
  \/ q = p /\ \A i \in 1 .. Len(in) : ~SetsPlan(in[i])
  \/ \E i \in 1 .. Len(in) :
       /\ SetsPlan(in[i]) /\ PlanIn(in[i]) = p
       /\ \A j \in i + 1 .. Len(in) : ~SetsPlan(in[j])

WillShow(m, h)     == Shows(seenHaz[m], down[link[m]], h)
WillHavePlan(m, p) == HasPlan(seenPlan[m], down[link[m]], p)

Tuned(m) == link[m] # None /\ Live(link[m])

(* Who sent a frame: hazards and their removals name their reporter's id.  *)
SentBy(m, f) == f.type # "tour" => Reporter[f.arg] = m

LinksAgree ==
  /\ \A m, n \in Member : link[m] # None /\ link[m] = link[n] => m = n
  /\ \A m \in Member : link[m] # None =>
       pool[link[m]] = m \/ (pool[link[m]] = None /\ link[m] \in cut)

OwnFrames ==
  /\ \A c \in Conn : pool[c] = None => up[c] = <<>>
  /\ \A c \in Conn : \A i \in 1 .. Len(up[c]) : SentBy(pool[c], up[c][i])
  /\ \A m \in Member : \A i \in 1 .. Len(queue[m]) : SentBy(m, queue[m][i])

LeaderOnly == \A i \in 1 .. Len(pending) : pending[i].leader = "yes" => pending[i].from = Owner

(* The two ends of a connection.  A device's connection is its own; it is  *)
(* registered for that device unless the gateway has given up on it, which *)
(* it only does when the transport is gone; whatever the gateway is still  *)
(* to handle on a connection was sent by the member it is registered for,  *)
(* so that no frame is taken for another member's; and only the leader's   *)
(* plans get past the role check.                                          *)
EndsAgree == LinksAgree /\ OwnFrames /\ LeaderOnly

(* Whoever is connected shows, or is about to be sent, every hazard the    *)
(* gateway tracks that somebody else reported: registering a socket and    *)
(* replaying the snapshot leave no gap in which a report could slip past,  *)
(* whatever was in flight when it connected.                               *)
PeersLearnHazards ==
  \A m \in Member : Tuned(m) =>
    \A h \in storeHaz \ expired : Reporter[h] # m => WillShow(m, h)

(* Whoever is connected, the leader apart, ends with the plan a late       *)
(* joiner would be given: relays and snapshot never disagree about the     *)
(* order in which the leader's plans took effect.                          *)
PeersLearnPlan ==
  \A m \in Member \ {Owner} :
    Tuned(m) /\ storePlan # NoPlan => WillHavePlan(m, storePlan)

(* A connected device shows no pin and no plan of somebody else that the   *)
(* gateway does not track: removals and cleared plans reach everybody.     *)
NoGhosts ==
  \A m \in Member : Tuned(m) =>
    /\ \A h \in HazardId \ expired : Reporter[h] # m /\ WillShow(m, h) => h \in storeHaz
    /\ m # Owner => WillHavePlan(m, storePlan)

(* Everybody is connected and nothing is on its way.                       *)
Quiet ==
  /\ \A m \in active : m \in ready /\ Tuned(m)
  /\ \A m \in Member : queue[m] = <<>>
  /\ \A c \in Conn : up[c] = <<>> /\ down[c] = <<>>
  /\ pending = <<>>

(* A report its author still sees has reached the gateway once nothing is  *)
(* on its way: no critical frame is dropped silently.                      *)
NoReportLost ==
  Quiet => \A m \in active : \A h \in seenHaz[m] \ expired :
             Reporter[h] = m => h \in storeHaz

(* A pin that is gone from its reporter's device comes back there only     *)
(* with the replay of a new connection, whose snapshot may be older than   *)
(* the removal: removed offline and still queued, lost with a broken link, *)
(* or on its way when the snapshot was taken.  No frame of a connection    *)
(* that is up brings it back: own reports are not echoed, however          *)
(* connections are cut, replaced and overlap.                              *)
RemovedPinOnlyReplayed ==
  [][\A m \in Member : \A h \in seenHaz'[m] \ seenHaz[m] :
       Reporter[h] = m /\ h \in reported =>
         /\ m \in ready /\ down[link[m]] # <<>>
         /\ Head(down[link[m]]).type = "replay"]_vars

(* The plan that every peer and late joiner ends with is the leader's      *)
(* latest edit, the one the leader's own device shows.                     *)
LatestEditWins == Quiet /\ Owner \in active => storePlan = seenPlan[Owner]

(* No inbound frame changes the leader's own plan, so that none can undo a *)
(* later edit: edits are not echoed to the member that made them.          *)
LeaderPlanUndisturbed ==
  [][seenPlan'[Owner] # seenPlan[Owner] => used'["edit"] # used["edit"]]_vars

(* The device waits on a link that is gone, and no watchdog runs: only an  *)
(* error of the transport can tell it.                                     *)
HangsUnnoticed(m) == link[m] # None /\ link[m] \in cut /\ m \notin armed

(* A hazard the gateway tracks is eventually shown to everybody in the     *)
(* convoy, or no longer current, however connections come and go; only a   *)
(* device that hangs for good on a link that broke before the first        *)
(* inbound frame may miss it.                                              *)
HazardReachesAll ==
  \A h \in HazardId, m \in Member :
    \/ (h \in storeHaz) ~> (\/ h \notin storeHaz \/ h \in expired
                            \/ m \notin active \/ h \in seenHaz[m] \/ Reporter[h] = m)
    \/ <>[]HangsUnnoticed(m)

=============================================================================

-------------------- MODULE ConvoyGatewayUnbroken_proofs --------------------
(***************************************************************************)
(* What the single-process gateway guarantees as long as nothing breaks:   *)
(* no connection is cut or given up, nothing restarts and nobody leaves.   *)
(* People join, edit and remove, hazards expire, and frames and handlers   *)
(* interleave as they may.  The runs show that each of these guarantees is *)
(* lost once something breaks.                                             *)
(***************************************************************************)
EXTENDS ConvoyGatewayBoard_proofs

(* Nothing has broken so far.                                              *)
Unbroken == \A k \in Kind \ {"edit", "expire"} : used[k] = 0

(* Connections stay, and both ends use them.                               *)
LastingLinks ==
  /\ cut = {}
  /\ \A c \in Conn : pool[c] # None => link[pool[c]] = c

(* Nothing is sent on a connection before its device is ready.             *)
SilentUntilReady == \A m \in Member : link[m] # None /\ m \notin ready => up[link[m]] = <<>>

(* Of a member that has not connected yet the gateway knows nothing, and   *)
(* its device knows nothing of the others.                                 *)
NothingYet(m) ==
  /\ \A h \in storeHaz : Reporter[h] # m
  /\ \A h \in seenHaz[m] : Reporter[h] = m
  /\ m # Owner => seenPlan[m] = NoPlan
  /\ m = Owner => storePlan = NoPlan /\ \A i \in 1 .. Len(pending) : pending[i].from # Owner

Newcomers == \A m \in Member : link[m] = None => NothingYet(m)

(* No frame on its way to a device brings back what the device itself      *)
(* reported or, to the leader's, a plan.                                   *)
Foreign(m, f) ==
  /\ \A h \in HazardId : Adds(f, h) => Reporter[h] # m
  /\ m = Owner => ~SetsPlan(f)

NoEcho ==
  \A m \in Member : link[m] # None =>
    \A i \in 1 .. Len(down[link[m]]) : Foreign(m, down[link[m]][i])

(* What a device has sent or queued and the gateway has not handled yet:   *)
(* with it, the gateway ends with every current report of the device.      *)
Out(m) == IF m \in ready THEN up[link[m]] ELSE queue[m]

ReportsOnTheirWay ==
  \A m \in Member : \A h \in seenHaz[m] \ expired :
    Reporter[h] = m => Shows(storeHaz, Out(m), h)

(* The inductive invariant, on top of that of the gateway and the board.   *)
UnbrokenInv ==
  /\ LastingLinks /\ SilentUntilReady /\ Newcomers /\ NoEcho /\ ReportsOnTheirWay /\ NoGhosts

-----------------------------------------------------------------------------
(* The steps that are left when nothing breaks.                            *)
UnbrokenStep ==
  \/ \E m \in Member, h \in HazardId : Report(m, h) \/ Remove(m, h)
  \/ \E m \in Member, p \in PlanOrNone : EditPlan(m, p)
  \/ \E m \in Member, c \in Conn : Connect(m, c)
  \/ \E m \in Member : ClientReady(m) \/ ClientReceive(m) \/ PruneExpired(m) \/ Join(m)
  \/ \E c \in Conn : HandleHazard(c) \/ HandleTour(c)
  \/ \E i \in DOMAIN pending : ResolveLeader(i) \/ ResumeTour(i)
  \/ \E h \in HazardId : Expire(h)
  \/ UNCHANGED vars

(* A device or the gateway gives a connection up only when something broke.*)
LEMMA NothingElseHappens ==
  ASSUME TypeOK, LastingLinks, Unbroken', [Next]_vars
  PROVE  UnbrokenStep
<1>1. ASSUME NEW k \in Kind \ {"edit", "expire"}, Spend(k)
      PROVE  FALSE
  <2>1. used'[k] = used[k] + 1 /\ used[k] \in Nat
    BY <1>1 DEF Spend, TypeOK
  <2> QED BY <1>1, <2>1 DEF Unbroken
<1>2. \A c \in Conn : ~Cut(c)
  BY <1>1 DEF Cut, Kind
<1>3. \A m \in Member : ~RosterChange(m) /\ ~AppRestart(m) /\ ~Leave(m) /\ ~InboundSilence(m)
  BY <1>1 DEF RosterChange, AppRestart, Leave, InboundSilence, Kind
<1>4. ~ServerRestart
  BY <1>1 DEF ServerRestart, Kind
<1>5. \A m \in Member : ~ChannelLost(m)
  BY DEF ChannelLost, LastingLinks
<1>6. \A c \in Conn : ~CloseSocket(c)
  BY DEF CloseSocket, LastingLinks
<1> QED BY <1>2, <1>3, <1>4, <1>5, <1>6 DEF Next, System, Environment, UnbrokenStep

(* A connected device is tuned in.                                         *)
LEMMA LinkedIsTuned ==
  ASSUME TypeOK, LinksAgree, LastingLinks, NEW m \in Member
  PROVE  link[m] # None <=> Tuned(m)
BY GatewayAssumption DEF LinksAgree, LastingLinks, Tuned, Live, TypeOK

(* Only a connect changes links and registry.                              *)
LEMMA LinksKept ==
  ASSUME UnbrokenStep
  PROVE  \/ \E m \in Member, c \in Conn : Connect(m, c)
         \/ UNCHANGED <<pool, link, cut>>
BY DEF UnbrokenStep, vars, serverVars, netVars, clientVars, envVars, Report, Remove, EditPlan,
       ClientReady, ClientReceive, PruneExpired, Join, HandleHazard, HandleTour,
       ResolveLeader, ResumeTour, Expire

(* Connections are made and stay.                                          *)
LEMMA LinksLast ==
  ASSUME TypeOK, LastingLinks, UnbrokenStep
  PROVE  LastingLinks'
<1>1. ASSUME NEW m \in Member, NEW c \in Conn, Connect(m, c)
      PROVE  LastingLinks'
  <2>1. /\ link[m] = None /\ pool' = [pool EXCEPT ![c] = m] /\ link' = [link EXCEPT ![m] = c]
        /\ cut' = cut
    BY <1>1 DEF Connect
  <2>2. ASSUME NEW d \in Conn, pool'[d] # None
        PROVE  link'[pool'[d]] = d
    BY <2>1, <2>2, GatewayAssumption DEF LastingLinks, TypeOK
  <2> QED BY <2>1, <2>2 DEF LastingLinks
<1> QED BY <1>1, LinksKept DEF LastingLinks

-----------------------------------------------------------------------------
(* What devices send.                                                      *)

(* An edit is put behind what its author has sent, and nowhere else.       *)
LEMMA SendOut ==
  ASSUME TypeOK, LinksAgree, LastingLinks, NEW m \in Member, NEW f,
         SendCritical(m, f), UNCHANGED <<link, ready>>
  PROVE  /\ Out(m)' = Append(Out(m), f)
         /\ \A n \in Member \ {m} : Out(n)' = Out(n)
         /\ \A n \in Member \ ready : link[n] # None => up'[link[n]] = up[link[n]]
<1>1. CASE m \in ready
  <2>1. link[m] \in Conn /\ up' = [up EXCEPT ![link[m]] = Append(up[link[m]], f)] /\ queue' = queue
    BY <1>1 DEF SendCritical, LastingLinks, TypeOK
  <2>2. \A n \in Member \ {m} : link[n] # None => link[n] # link[m]
    BY DEF LinksAgree
  <2>3. \A n \in ready : link[n] # None
    BY DEF TypeOK
  <2> QED BY <1>1, <2>1, <2>2, <2>3 DEF Out, TypeOK
<1>2. CASE m \notin ready
  BY <1>2 DEF SendCritical, Out, TypeOK
<1> QED BY <1>1, <1>2

(* Nothing is sent before a device is ready.                               *)
LEMMA SilenceKept ==
  ASSUME TypeOK, LinksAgree, OwnFrames, LastingLinks, SilentUntilReady, UnbrokenStep
  PROVE  SilentUntilReady'
<1> USE DEF serverVars, netVars, clientVars, envVars
<1>1. ASSUME NEW m \in Member, NEW h \in HazardId, Report(m, h) \/ Remove(m, h)
      PROVE  SilentUntilReady'
  BY <1>1, SendOut DEF Report, Remove, SilentUntilReady
<1>2. ASSUME NEW m \in Member, NEW p \in PlanOrNone, EditPlan(m, p)
      PROVE  SilentUntilReady'
  BY <1>2, SendOut DEF EditPlan, SilentUntilReady
<1>3. ASSUME NEW m \in Member, NEW c \in Conn, Connect(m, c)
      PROVE  SilentUntilReady'
  <2>1. /\ link' = [link EXCEPT ![m] = c] /\ UNCHANGED <<up, ready>> /\ pool[c] = None
    BY <1>3 DEF Connect, Free
  <2>2. up[c] = <<>>
    BY <2>1 DEF OwnFrames
  <2> QED BY <2>1, <2>2 DEF SilentUntilReady, TypeOK
<1>4. ASSUME NEW m \in Member, ClientReady(m)
      PROVE  SilentUntilReady'
  <2>1. /\ link[m] # None /\ link[m] \in Conn /\ link' = link /\ ready' = ready \cup {m}
        /\ up' = [up EXCEPT ![link[m]] = queue[m]]
    BY <1>4 DEF ClientReady, TypeOK
  <2>2. \A n \in Member \ {m} : link[n] # None => link[n] \in Conn /\ link[n] # link[m]
    BY DEF LinksAgree, TypeOK
  <2> QED BY <2>1, <2>2 DEF SilentUntilReady, TypeOK
<1>5. ASSUME NEW c \in Conn, HandleHazard(c) \/ HandleTour(c)
      PROVE  SilentUntilReady'
  <2>1. UNCHANGED <<link, ready>> /\ up[c] # <<>> /\ up' = [up EXCEPT ![c] = Tail(@)]
    BY <1>5 DEF HandleHazard, HandleTour
  <2> QED BY <2>1 DEF SilentUntilReady, TypeOK
<1>6. CASE UNCHANGED <<link, ready, up>>
  BY <1>6 DEF SilentUntilReady
<1> QED
  BY <1>1, <1>2, <1>3, <1>4, <1>5, <1>6
  DEF UnbrokenStep, vars, ClientReceive, PruneExpired, Join, ResolveLeader, ResumeTour, Expire

-----------------------------------------------------------------------------
(* What the gateway knows of a device before it connects, and the device   *)
(* of the others.                                                          *)
LEMMA NewcomersKept ==
  ASSUME TypeOK, LinksAgree, OwnFrames, LeaderOnly, LastingLinks, Newcomers, UnbrokenStep
  PROVE  Newcomers'
<1> USE DEF serverVars, netVars, clientVars, envVars
<1>1. ASSUME NEW n \in Member, link'[n] = None
      PROVE  link[n] = None /\ NothingYet(n)
  <2>1. ASSUME NEW m \in Member, NEW c \in Conn, Connect(m, c)
        PROVE  link[n] = None
    BY <1>1, <2>1, GatewayAssumption DEF Connect, TypeOK
  <2>2. link[n] = None
    BY <1>1, <2>1, LinksKept
  <2> QED BY <2>2 DEF Newcomers
<1> SUFFICES ASSUME NEW n \in Member, link[n] = None, NothingYet(n)
             PROVE  NothingYet(n)'
  BY <1>1 DEF Newcomers
<1>2. ASSUME NEW m \in Member, \/ \E h \in HazardId : Report(m, h) \/ Remove(m, h)
                               \/ \E p \in PlanOrNone : EditPlan(m, p)
      PROVE  NothingYet(n)'
  <2>1. /\ UNCHANGED <<storeHaz, storePlan, pending>>
        /\ \/ seenHaz' = seenHaz
           \/ \E h \in HazardId : /\ Reporter[h] = m
                                  /\ \/ seenHaz' = [seenHaz EXCEPT ![m] = @ \cup {h}]
                                     \/ seenHaz' = [seenHaz EXCEPT ![m] = @ \ {h}]
        /\ seenPlan' = seenPlan \/ (m = Owner /\ \E p : seenPlan' = [seenPlan EXCEPT ![m] = p])
    BY <1>2 DEF Report, Remove, EditPlan
  <2>2. \A h \in seenHaz'[n] : Reporter[h] = n
    <3>1. CASE n = m
      BY <2>1, <3>1 DEF NothingYet, TypeOK
    <3>2. CASE n # m
      BY <2>1, <3>2 DEF NothingYet, TypeOK
    <3> QED BY <3>1, <3>2
  <2> QED BY <2>1, <2>2 DEF NothingYet, TypeOK
<1>3. ASSUME NEW m \in Member, NEW c \in Conn, Connect(m, c)
      PROVE  NothingYet(n)'
  BY <1>3 DEF Connect, NothingYet
<1>4. ASSUME NEW m \in Member, ClientReceive(m)
      PROVE  NothingYet(n)'
  <2>1. n # m
    BY <1>4 DEF ClientReceive, TypeOK
  <2> QED BY <1>4, <2>1 DEF ClientReceive, NothingYet, TypeOK
<1>5. ASSUME NEW m \in Member, PruneExpired(m)
      PROVE  NothingYet(n)'
  <2>1. seenHaz'[n] \subseteq seenHaz[n]
    BY <1>5 DEF PruneExpired, TypeOK
  <2> QED BY <1>5, <2>1 DEF PruneExpired, NothingYet
<1>6. ASSUME NEW c \in Conn, HandleHazard(c) \/ HandleTour(c)
      PROVE  NothingYet(n)'
  <2> DEFINE f == Head(up[c])
  <2>1. pool[c] # n /\ up[c] # <<>> /\ up[c] \in Seq(UpFrame)
    BY <1>6, GatewayAssumption DEF HandleHazard, HandleTour, LastingLinks, TypeOK
  <2>2. f \in UpFrame /\ SentBy(pool[c], f)
    BY <2>1 DEF OwnFrames
  <2> HIDE DEF f
  <2>3. \A h \in HazardsAfter(f, storeHaz) : Reporter[h] # n
    BY <2>1, <2>2 DEF NothingYet, HazardsAfter, Adds, SentBy, UpFrame
  <2>4. \A h \in storeHaz' : Reporter[h] # n
    BY <1>6, <2>3 DEF HandleHazard, HandleTour, NothingYet, f
  <2>5. n = Owner => \A i \in 1 .. Len(pending') : pending'[i].from # Owner
    <3>1. CASE pending' = pending
      BY <3>1 DEF NothingYet
    <3>2. CASE pending' = Append(pending, [from |-> pool[c], plan |-> f.arg, leader |-> "asked"])
      BY <2>1, <3>2 DEF NothingYet, TypeOK
    <3> QED BY <1>6, <3>1, <3>2 DEF HandleHazard, HandleTour, f
  <2> QED BY <1>6, <2>4, <2>5 DEF HandleHazard, HandleTour, NothingYet
<1>7. ASSUME NEW i \in DOMAIN pending, ResolveLeader(i)
      PROVE  NothingYet(n)'
  <2>1. /\ Len(pending') = Len(pending)
        /\ \A j \in 1 .. Len(pending) : pending'[j].from = pending[j].from
    BY <1>7 DEF ResolveLeader, TypeOK, Lookup
  <2> QED BY <1>7, <2>1 DEF ResolveLeader, NothingYet
<1>8. ASSUME NEW i \in DOMAIN pending, ResumeTour(i)
      PROVE  NothingYet(n)'
  <2>1. pending' = Without(pending, i) /\ UNCHANGED <<storeHaz, seenHaz, seenPlan>>
        /\ (storePlan' = storePlan \/ pending[i].from = Owner)
    BY <1>8 DEF ResumeTour, LeaderOnly, TypeOK
  <2>2. Len(pending) \in Nat /\ i \in 1 .. Len(pending)
    BY DEF TypeOK
  <2>3. ASSUME n = Owner
        PROVE  \A j \in 1 .. Len(pending') : pending'[j].from # Owner
    <3>1. Len(pending) - 1 \in Nat
      BY <2>2
    <3>2. Len(pending') = Len(pending) - 1
      BY <2>1, <2>2, <3>1 DEF Without
    <3>3. \A j \in 1 .. Len(pending) - 1 :
            /\ j \in 1 .. Len(pending) /\ j + 1 \in 1 .. Len(pending)
            /\ pending'[j] = pending[j] \/ pending'[j] = pending[j + 1]
      BY <2>1, <2>2 DEF Without
    <3> QED BY <2>3, <3>2, <3>3 DEF NothingYet
  <2> QED BY <2>1, <2>2, <2>3 DEF NothingYet
<1>9. CASE UNCHANGED <<storeHaz, storePlan, pending, seenHaz, seenPlan>>
  BY <1>9 DEF NothingYet
<1> QED
  BY <1>2, <1>3, <1>4, <1>5, <1>6, <1>7, <1>8, <1>9
  DEF UnbrokenStep, vars, ClientReady, Join, Expire

(* Nothing that is relayed or replayed returns to where it came from.      *)
LEMMA EchoesNever ==
  ASSUME TypeOK, LinksAgree, OwnFrames, LeaderOnly, LastingLinks, Newcomers, NoEcho,
         UnbrokenStep
  PROVE  NoEcho'
<1> USE DEF serverVars, netVars, clientVars, envVars
<1>1. CASE UNCHANGED <<link, down>>
  BY <1>1 DEF NoEcho, Foreign
<1>2. ASSUME NEW m \in Member, NEW c \in Conn, Connect(m, c)
      PROVE  NoEcho'
  <2> DEFINE f == [type |-> "replay",
                   arg |-> [hazards |-> storeHaz \ expired, plan |-> storePlan]]
  <2>1. /\ link[m] = None /\ link' = [link EXCEPT ![m] = c] /\ down' = [down EXCEPT ![c] = <<f>>]
        /\ \A n \in Member : link[n] # c
    BY <1>2 DEF Connect, Free
  <2>2. Foreign(m, f)
    BY <2>1 DEF Foreign, Adds, SetsPlan, Newcomers, NothingYet
  <2>3. Len(<<f>>) = 1 /\ <<f>>[1] = f
    OBVIOUS
  <2> HIDE DEF f
  <2>4. ASSUME NEW n \in Member, link'[n] # None, NEW i \in 1 .. Len(down'[link'[n]])
        PROVE  Foreign(n, down'[link'[n]][i])
    <3>1. CASE n = m
      BY <2>1, <2>2, <2>3, <2>4, <3>1 DEF TypeOK
    <3>2. CASE n # m
      BY <2>1, <2>4, <3>2 DEF NoEcho, TypeOK
    <3> QED BY <3>1, <3>2
  <2> QED BY <2>4 DEF NoEcho, Foreign
<1>3. ASSUME NEW m \in Member, ClientReceive(m)
      PROVE  NoEcho'
  <2>1. /\ link' = link /\ link[m] \in Conn /\ link[m] # None
        /\ down' = [down EXCEPT ![link[m]] = Tail(@)] /\ down[link[m]] # <<>>
        /\ down[link[m]] \in Seq(DownFrame)
    BY <1>3 DEF ClientReceive, TypeOK
  <2>2. ASSUME NEW n \in Member, link[n] # None, NEW i \in 1 .. Len(down'[link[n]])
        PROVE  Foreign(n, down'[link[n]][i])
    <3>1. CASE n = m
      <4>1. down'[link[m]] = Tail(down[link[m]])
        BY <2>1 DEF TypeOK
      <4> HIDE <1>3
      <4>2. i + 1 \in 1 .. Len(down[link[m]]) /\ down'[link[m]][i] = down[link[m]][i + 1]
        BY ZenonT(40), <2>1, <2>2, <3>1, <4>1, TailElements
      <4> QED BY <2>1, <3>1, <4>2 DEF NoEcho
    <3>2. CASE n # m
      BY <2>1, <2>2, <3>2 DEF NoEcho, LinksAgree, TypeOK
    <3> QED BY <3>1, <3>2
  <2> QED BY <2>1, <2>2 DEF NoEcho, Foreign
<1>4. ASSUME NEW m, NEW f \in DownFrame, down' = Relayed(m, f), link' = link,
             \A n \in Member : n # m => Foreign(n, f)
      PROVE  NoEcho'
  <2>1. ASSUME NEW n \in Member, link[n] # None, NEW i \in 1 .. Len(down'[link[n]])
        PROVE  Foreign(n, down'[link[n]][i])
    <3>1. Tuned(n)
      BY <2>1, LinkedIsTuned
    <3>2. /\ down[link[n]] \in Seq(DownFrame)
          /\ \/ down'[link[n]] = down[link[n]]
             \/ n # m /\ down'[link[n]] = Append(down[link[n]], f)
      BY <1>4, <3>1, RelayReaches
    <3>3. ASSUME NEW s \in Seq(DownFrame), NEW j \in 1 .. Len(Append(s, f))
          PROVE  (j \in 1 .. Len(s) /\ Append(s, f)[j] = s[j]) \/ Append(s, f)[j] = f
      BY <1>4, <3>3
    <3>4. \/ i \in 1 .. Len(down[link[n]]) /\ down'[link[n]][i] = down[link[n]][i]
          \/ n # m /\ down'[link[n]][i] = f
      BY <2>1, <3>2, <3>3
    <3> QED BY <1>4, <2>1, <3>4 DEF NoEcho
  <2> QED BY <1>4, <2>1 DEF NoEcho, Foreign
<1>5. ASSUME NEW c \in Conn, HandleHazard(c)
      PROVE  NoEcho'
  <2> DEFINE f == Head(up[c])
  <2>1. /\ link' = link /\ up[c] # <<>> /\ f.type # "tour"
        /\ down' = down \/ down' = Relayed(pool[c], f)
    BY <1>5 DEF HandleHazard
  <2>2. f \in UpFrame /\ f \in DownFrame /\ SentBy(pool[c], f)
    BY <2>1, FrameTypes DEF TypeOK, OwnFrames
  <2> HIDE DEF f
  <2>3. \A n \in Member : n # pool[c] => Foreign(n, f)
    BY <2>1, <2>2 DEF Foreign, Adds, SetsPlan, SentBy, UpFrame
  <2> QED BY <1>1, <1>4, <2>1, <2>2, <2>3
<1>6. ASSUME NEW i \in DOMAIN pending, ResumeTour(i)
      PROVE  NoEcho'
  <2> DEFINE f == [type |-> "tour", arg |-> pending[i].plan]
  <2>1. /\ link' = link
        /\ down' = down \/ (pending[i].leader = "yes" /\ down' = Relayed(pending[i].from, f))
    BY <1>6 DEF ResumeTour
  <2>2. pending[i] \in Lookup /\ i \in 1 .. Len(pending)
    BY DEF TypeOK
  <2>3. f \in DownFrame
    BY <2>2, FrameTypes DEF Lookup
  <2>4. \A n \in Member : n # Owner => Foreign(n, f)
    BY DEF Foreign, Adds
  <2> HIDE DEF f
  <2> QED BY <1>1, <1>4, <2>1, <2>2, <2>3, <2>4 DEF LeaderOnly
<1>7. ASSUME NEW m \in Member, NEW h \in HazardId, Report(m, h) \/ Remove(m, h)
      PROVE  NoEcho'
  BY <1>1, <1>7 DEF Report, Remove
<1>8. ASSUME NEW m \in Member, \/ ClientReady(m) \/ PruneExpired(m) \/ Join(m)
                               \/ \E p \in PlanOrNone : EditPlan(m, p)
      PROVE  NoEcho'
  BY <1>1, <1>8 DEF ClientReady, PruneExpired, Join, EditPlan
<1> QED
  BY <1>1, <1>2, <1>3, <1>5, <1>6, <1>7, <1>8
  DEF UnbrokenStep, vars, HandleTour, ResolveLeader, Expire

-----------------------------------------------------------------------------
(* Reports.                                                                *)

(* What a device has sent or queued are frames.                            *)
LEMMA OutFrames ==
  ASSUME TypeOK, NEW m \in Member
  PROVE  Out(m) \in Seq(DownFrame) /\ (m \in ready => link[m] \in Conn)
<1>1. Out(m) \in Seq(UpFrame) /\ (m \in ready => link[m] \in Conn)
  BY DEF TypeOK, Out
<1> QED BY <1>1, FrameTypes

(* An edit of m goes behind m's earlier edits.                             *)
LEMMA EditOnItsWay ==
  ASSUME TypeOK, LinksAgree, LastingLinks, ReportsOnTheirWay, NEW m \in Member,
         NEW f \in UpFrame, SendCritical(m, f),
         UNCHANGED <<link, ready, storeHaz, expired>>,
         \A n \in Member \ {m} : seenHaz'[n] = seenHaz[n],
         \A h \in seenHaz'[m] \ expired : Reporter[h] = m =>
           h \in HazardId /\ (Adds(f, h) \/ (h \in seenHaz[m] /\ ~Drops(f, h)))
  PROVE  ReportsOnTheirWay'
<1>1. Out(m)' = Append(Out(m), f) /\ \A n \in Member \ {m} : Out(n)' = Out(n)
  BY SendOut
<1>2. storeHaz \in SUBSET HazardId /\ Out(m) \in Seq(DownFrame) /\ f \in DownFrame
  BY FrameTypes, OutFrames DEF TypeOK
<1>3. ASSUME NEW h \in seenHaz'[m] \ expired, Reporter[h] = m
      PROVE  Shows(storeHaz, Out(m)', h)
  <2>1. h \in HazardId /\ (Adds(f, h) \/ (Shows(storeHaz, Out(m), h) /\ ~Drops(f, h)))
    BY <1>3 DEF ReportsOnTheirWay
  <2>2. Shows(storeHaz, Append(Out(m), f), h)
    BY <1>2, <2>1, ShowsAppend
  <2> QED BY <1>1, <2>2
<1>4. ASSUME NEW n \in Member, NEW h \in seenHaz'[n] \ expired, Reporter[h] = n
      PROVE  Shows(storeHaz, Out(n)', h)
  BY <1>1, <1>3, <1>4 DEF ReportsOnTheirWay
<1> QED BY <1>4 DEF ReportsOnTheirWay, Shows

(* When nobody sends and the gateway handles nothing, reports stay on      *)
(* their way: at most, a device shows fewer and the gateway drops expired  *)
(* ones.                                                                   *)
LEMMA StillOnTheirWay ==
  ASSUME ReportsOnTheirWay, expired \subseteq expired', storeHaz \ expired \subseteq storeHaz',
         \A n \in Member : /\ Out(n)' = Out(n)
                           /\ \A h \in seenHaz'[n] \ expired' :
                                Reporter[h] = n => h \in seenHaz[n]
  PROVE  ReportsOnTheirWay'
<1>1. ASSUME NEW n \in Member, NEW h \in seenHaz'[n] \ expired', Reporter[h] = n
      PROVE  Shows(storeHaz', Out(n)', h)
  <2>1. h \in seenHaz[n] \ expired /\ Shows(storeHaz, Out(n), h)
    BY <1>1 DEF ReportsOnTheirWay
  <2>2. Shows(storeHaz', Out(n), h)
    BY <2>1 DEF Shows
  <2> QED BY <1>1, <2>2
<1> QED BY <1>1 DEF ReportsOnTheirWay, Shows

(* Handling a frame brings its sender's reports nearer and leaves those of *)
(* the others where they are.                                              *)
LEMMA HandlingBringsNearer ==
  ASSUME TypeOK, LinksAgree, OwnFrames, LastingLinks, SilentUntilReady, ReportsOnTheirWay,
         NEW c \in Conn, HandleHazard(c) \/ HandleTour(c)
  PROVE  ReportsOnTheirWay'
<1> USE DEF serverVars, netVars, clientVars, envVars
<1> DEFINE f == Head(up[c])
<1>1. /\ UNCHANGED <<link, ready, queue, seenHaz, expired>> /\ up' = [up EXCEPT ![c] = Tail(@)]
      /\ pool[c] # None /\ up[c] # <<>> /\ up[c] \in Seq(UpFrame)
  BY DEF HandleHazard, HandleTour, TypeOK
<1>2. PICK m \in Member : m = pool[c] /\ link[m] = c /\ m \in ready
  <2>1. pool[c] \in Member /\ link[pool[c]] = c
    BY <1>1 DEF TypeOK, LastingLinks
  <2> QED BY <1>1, <2>1, GatewayAssumption DEF SilentUntilReady
<1>3. f \in UpFrame /\ SentBy(m, f)
  BY <1>1, <1>2 DEF OwnFrames
<1>4. storeHaz' = HazardsAfter(f, storeHaz)
  <2>1. CASE HandleTour(c)
    BY <2>1 DEF HandleTour, HazardsAfter, Adds, Drops, TypeOK
  <2>2. CASE HandleHazard(c)
    BY <1>2, <1>3, <2>2 DEF HandleHazard, SentBy
  <2> QED BY <2>1, <2>2
<1>5. Out(m) = up[c] /\ Out(m)' = Tail(up[c])
  BY <1>1, <1>2 DEF Out, TypeOK
<1>6. ASSUME NEW n \in Member \ {m}
      PROVE  Out(n)' = Out(n)
  <2>1. n \in ready => link[n] # c
    BY <1>2, GatewayAssumption DEF LinksAgree
  <2> QED BY <1>1, <2>1 DEF Out, TypeOK
<1> HIDE DEF f
<1>7. ASSUME NEW h \in seenHaz[m] \ expired, Reporter[h] = m
      PROVE  Shows(HazardsAfter(f, storeHaz), Tail(up[c]), h)
  <2>1. h \in HazardId /\ Shows(storeHaz, up[c], h)
    BY <1>2, <1>5, <1>7 DEF ReportsOnTheirWay, TypeOK
  <2>2. storeHaz \in SUBSET HazardId /\ up[c] \in Seq(DownFrame)
    BY <1>1, FrameTypes DEF TypeOK
  <2> QED BY <1>1, <2>1, <2>2, ShowsTail DEF f
<1>8. ASSUME NEW n \in Member \ {m}, NEW h \in seenHaz[n] \ expired, Reporter[h] = n
      PROVE  Shows(HazardsAfter(f, storeHaz), Out(n), h)
  <2>1. h \in HazardId /\ Shows(storeHaz, Out(n), h)
    BY <1>8 DEF ReportsOnTheirWay, TypeOK
  <2>2. ~Drops(f, h)
    BY <1>3, <1>8 DEF Drops, SentBy
  <2>3. h \in storeHaz => h \in HazardsAfter(f, storeHaz)
    BY <2>1, <2>2 DEF HazardsAfter
  <2> QED BY <2>1, <2>3 DEF Shows
<1>9. ASSUME NEW n \in Member, NEW h \in seenHaz'[n] \ expired', Reporter[h] = n
      PROVE  Shows(storeHaz', Out(n)', h)
  <2>1. CASE n = m
    BY <1>1, <1>4, <1>5, <1>7, <1>9, <2>1
  <2>2. CASE n # m
    BY <1>1, <1>4, <1>6, <1>8, <1>9, <2>2
  <2> QED BY <2>1, <2>2
<1> QED BY <1>9 DEF ReportsOnTheirWay, Shows

(* No report is lost on its way.                                           *)
LEMMA OnTheirWayKept ==
  ASSUME TypeOK, LinksAgree, OwnFrames, LastingLinks, SilentUntilReady, NoEcho,
         ReportsOnTheirWay, UnbrokenStep
  PROVE  ReportsOnTheirWay'
<1> USE DEF serverVars, netVars, clientVars, envVars
<1>1. ASSUME NEW m \in Member, NEW h \in HazardId, Report(m, h)
      PROVE  ReportsOnTheirWay'
  <2> DEFINE f == [type |-> "hazard", arg |-> h]
  <2>1. /\ seenHaz' = [seenHaz EXCEPT ![m] = @ \cup {h}] /\ SendCritical(m, f)
        /\ UNCHANGED <<link, ready, storeHaz, expired>>
    BY <1>1 DEF Report
  <2>2. f \in UpFrame /\ \A g : ~Drops(f, g) /\ Adds(f, h)
    BY FrameTypes DEF Drops, Adds
  <2> HIDE DEF f
  <2>3. \A g \in seenHaz'[m] : g \in HazardId /\ (Adds(f, g) \/ (g \in seenHaz[m] /\ ~Drops(f, g)))
    BY <2>1, <2>2 DEF TypeOK
  <2>4. \A n \in Member \ {m} : seenHaz'[n] = seenHaz[n]
    BY <2>1 DEF TypeOK
  <2> QED BY <2>1, <2>2, <2>3, <2>4, EditOnItsWay
<1>2. ASSUME NEW m \in Member, NEW h \in HazardId, Remove(m, h)
      PROVE  ReportsOnTheirWay'
  <2> DEFINE f == [type |-> "hazard_remove", arg |-> h]
  <2>1. /\ seenHaz' = [seenHaz EXCEPT ![m] = @ \ {h}] /\ SendCritical(m, f)
        /\ UNCHANGED <<link, ready, storeHaz, expired>>
    BY <1>2 DEF Remove
  <2>2. f \in UpFrame /\ \A g : g # h => ~Drops(f, g)
    BY FrameTypes DEF Drops
  <2> HIDE DEF f
  <2>3. \A g \in seenHaz'[m] : g \in HazardId /\ g \in seenHaz[m] /\ ~Drops(f, g)
    BY <2>1, <2>2 DEF TypeOK
  <2>4. \A n \in Member \ {m} : seenHaz'[n] = seenHaz[n]
    BY <2>1 DEF TypeOK
  <2> QED BY <2>1, <2>2, <2>3, <2>4, EditOnItsWay
<1>3. ASSUME NEW m \in Member, NEW p \in PlanOrNone, EditPlan(m, p)
      PROVE  ReportsOnTheirWay'
  <2> DEFINE f == [type |-> "tour", arg |-> p]
  <2>1. seenHaz' = seenHaz /\ SendCritical(m, f) /\ UNCHANGED <<link, ready, storeHaz, expired>>
    BY <1>3 DEF EditPlan
  <2>2. f \in UpFrame /\ \A g : ~Drops(f, g)
    BY FrameTypes DEF Drops
  <2> HIDE DEF f
  <2>3. \A g \in seenHaz'[m] : g \in HazardId /\ g \in seenHaz[m]
    BY <2>1 DEF TypeOK
  <2> QED BY <2>1, <2>2, <2>3, EditOnItsWay
<1>4. ASSUME NEW m \in Member, NEW c \in Conn, Connect(m, c)
      PROVE  ReportsOnTheirWay'
  <2>1. /\ UNCHANGED <<ready, up, queue, seenHaz, expired>> /\ link[m] = None
        /\ link' = [link EXCEPT ![m] = c] /\ storeHaz' = storeHaz \ expired
    BY <1>4 DEF Connect
  <2>2. \A n \in Member : Out(n)' = Out(n)
    BY <2>1 DEF Out, TypeOK
  <2> QED BY <2>1, <2>2, StillOnTheirWay
<1>5. ASSUME NEW m \in Member, ClientReady(m)
      PROVE  ReportsOnTheirWay'
  <2>1. /\ UNCHANGED <<storeHaz, seenHaz, expired, link>>
        /\ m \notin ready /\ ready' = ready \cup {m} /\ link[m] # None /\ link[m] \in Conn
        /\ up' = [up EXCEPT ![link[m]] = queue[m]] /\ queue' = [queue EXCEPT ![m] = <<>>]
    BY <1>5 DEF ClientReady, TypeOK
  <2>2. ASSUME NEW n \in Member
        PROVE  Out(n)' = Out(n)
    <3>1. CASE n = m
      BY <2>1, <3>1 DEF Out, TypeOK
    <3>2. CASE n # m
      BY <2>1, <3>2 DEF Out, LinksAgree, TypeOK
    <3> QED BY <3>1, <3>2
  <2> QED BY <2>1, <2>2, StillOnTheirWay
<1>6. ASSUME NEW m \in Member, ClientReceive(m)
      PROVE  ReportsOnTheirWay'
  <2> DEFINE f == Head(down[link[m]])
  <2>1. /\ UNCHANGED <<storeHaz, expired, link, ready, up, queue>>
        /\ link[m] # None /\ down[link[m]] # <<>> /\ down[link[m]] \in Seq(DownFrame)
        /\ seenHaz' = [seenHaz EXCEPT ![m] = HazardsAfter(f, @)]
    BY <1>6 DEF ClientReceive, TypeOK
  <2>2. Foreign(m, f)
    BY <2>1 DEF NoEcho
  <2> HIDE DEF f
  <2>3. ASSUME NEW n \in Member, NEW h \in seenHaz'[n], Reporter[h] = n
        PROVE  h \in seenHaz[n]
    BY <2>1, <2>2, <2>3 DEF HazardsAfter, Foreign, TypeOK
  <2>4. \A n \in Member : Out(n)' = Out(n)
    BY <2>1 DEF Out
  <2> QED BY <2>1, <2>3, <2>4, StillOnTheirWay
<1>7. ASSUME NEW m \in Member, PruneExpired(m)
      PROVE  ReportsOnTheirWay'
  <2>1. /\ UNCHANGED <<storeHaz, expired, link, ready, up, queue>>
        /\ \A n \in Member : seenHaz'[n] \subseteq seenHaz[n]
    BY <1>7 DEF PruneExpired, TypeOK
  <2>2. \A n \in Member : Out(n)' = Out(n)
    BY <2>1 DEF Out
  <2> QED BY <2>1, <2>2, StillOnTheirWay
<1>8. ASSUME UNCHANGED <<storeHaz, link, ready, up, queue, seenHaz>>, expired \subseteq expired'
      PROVE  ReportsOnTheirWay'
  <2>1. \A n \in Member : Out(n)' = Out(n)
    BY <1>8 DEF Out
  <2> QED BY <1>8, <2>1, StillOnTheirWay
<1>9. ASSUME NEW i \in DOMAIN pending, ResolveLeader(i) \/ ResumeTour(i)
      PROVE  ReportsOnTheirWay'
  BY <1>8, <1>9 DEF ResolveLeader, ResumeTour
<1>10. ASSUME NEW m \in Member, Join(m)
       PROVE  ReportsOnTheirWay'
  BY <1>8, <1>10 DEF Join
<1>11. ASSUME NEW h \in HazardId, Expire(h)
       PROVE  ReportsOnTheirWay'
  BY <1>8, <1>11 DEF Expire
<1>12. CASE UNCHANGED vars
  BY <1>8, <1>12 DEF vars
<1> QED
  BY <1>1, <1>2, <1>3, <1>4, <1>5, <1>6, <1>7, <1>9, <1>10, <1>11, <1>12, HandlingBringsNearer
  DEF UnbrokenStep

-----------------------------------------------------------------------------
(* Ghosts, seen on the board: nobody is due what is not on it.             *)
GhostFree ==
  \A m \in TunedIn : /\ DueOf(m).hazards \subseteq storeHaz \ expired
                     /\ m # Owner => DueOf(m).plan = storePlan

(* The board without ghosts is the gateway without them.                   *)
LEMMA GhostFreeIs == TypeOK /\ LinksAgree /\ Decided => (NoGhosts <=> GhostFree)
<1> SUFFICES ASSUME TypeOK, LinksAgree, Decided
             PROVE  NoGhosts <=> GhostFree
  OBVIOUS
<1>1. ASSUME NEW m \in TunedIn
      PROVE  /\ m \in Member /\ Tuned(m)
             /\ DueOf(m).hazards = {h \in HazardId \ expired : Reporter[h] # m /\ WillShow(m, h)}
             /\ m # Owner => (DueOf(m).plan = storePlan <=> WillHavePlan(m, storePlan))
  <2>1. m \in Member /\ Tuned(m)
    BY DEF TunedIn
  <2>2. DueOf(m).hazards = {h \in HazardId \ expired : Reporter[h] # m /\ WillShow(m, h)}
    BY <2>1 DEF DueOf
  <2>3. ASSUME m # Owner
        PROVE  DueOf(m).plan = storePlan <=> WillHavePlan(m, storePlan)
    <3>1. PICK p \in PlanOrNone : WillHavePlan(m, p)
      BY <2>1, <2>3 DEF Decided
    <3>2. down[link[m]] \in Seq(DownFrame)
      BY <2>1, TunedEnds DEF TypeOK
    <3>3. DueOf(m).plan = EndPlan(seenPlan[m], down[link[m]])
      BY <2>1, <2>3 DEF DueOf, EndPlan, WillHavePlan
    <3>4. DueOf(m).plan = p
      BY <3>1, <3>2, <3>3, EndPlanIs DEF WillHavePlan
    <3>5. WillHavePlan(m, storePlan) => storePlan = p
      BY <3>1, <3>2, OnePlan DEF WillHavePlan
    <3> QED BY <3>1, <3>4, <3>5
  <2> QED BY <2>1, <2>2, <2>3
<1>2. NoGhosts => GhostFree
  <2> SUFFICES ASSUME NoGhosts, NEW m \in TunedIn
               PROVE  /\ DueOf(m).hazards \subseteq storeHaz \ expired
                      /\ m # Owner => DueOf(m).plan = storePlan
    BY DEF GhostFree
  <2> QED BY <1>1 DEF NoGhosts
<1>3. GhostFree => NoGhosts
  <2> SUFFICES ASSUME GhostFree, NEW m \in Member, Tuned(m)
               PROVE  /\ \A h \in HazardId \ expired :
                           Reporter[h] # m /\ WillShow(m, h) => h \in storeHaz
                      /\ m # Owner => WillHavePlan(m, storePlan)
    BY DEF NoGhosts
  <2>1. m \in TunedIn
    BY DEF TunedIn
  <2> QED BY <1>1, <2>1 DEF GhostFree
<1> QED BY <1>2, <1>3

(* A change to the board is the same change to what is due, and no step    *)
(* but a connect tunes anybody in.                                         *)
LEMMA BoardKeepsGhostFree ==
  ASSUME GhostFree, [Board!Next]_(Board!boardVars),
         NEW m \in TunedIn', m \in TunedIn
  PROVE  /\ DueOf(m)'.hazards \subseteq storeHaz' \ expired'
         /\ m # Owner => DueOf(m)'.plan = storePlan'
<1> DEFINE hazards == storeHaz \ expired
<1>1. m \in Member /\ DueOf(m).hazards \subseteq hazards /\ (m # Owner => DueOf(m).plan = storePlan)
  BY DEF GhostFree, TunedIn
<1>2. DueOf(m) = [hazards |-> DueOf(m).hazards, plan |-> DueOf(m).plan]
  BY DEF DueOf
<1>3. CASE \E h \in HazardId : Board!Report(h)
  <2>1. PICK h \in HazardId : Board!Report(h)
    BY <1>3
  <2>2. /\ storeHaz' \ expired' = hazards \cup {h} /\ storePlan' = storePlan
        /\ DueOf(m)' = DueOf(m) \/ DueOf(m)' = [DueOf(m) EXCEPT !.hazards = @ \cup {h}]
    BY <1>1, <2>1 DEF Board!Report
  <2> QED BY <1>1, <1>2, <2>2
<1>4. CASE \E h \in HazardId : Board!Withdraw(h)
  <2>1. PICK h \in HazardId : Board!Withdraw(h)
    BY <1>4
  <2>2. /\ storeHaz' \ expired' = hazards \ {h} /\ storePlan' = storePlan
        /\ DueOf(m)' = [DueOf(m) EXCEPT !.hazards = @ \ {h}]
    BY <1>1, <2>1 DEF Board!Withdraw
  <2> QED BY <1>1, <1>2, <2>2
<1>5. CASE \E p \in Board!PlanOrNone : Board!SetPlan(p)
  <2>1. PICK p \in Board!PlanOrNone : Board!SetPlan(p)
    BY <1>5
  <2>2. /\ storeHaz' \ expired' = hazards /\ storePlan' = p
        /\ DueOf(m)' = IF m # Owner THEN [DueOf(m) EXCEPT !.plan = p] ELSE DueOf(m)
    BY <1>1, <2>1 DEF Board!SetPlan
  <2> QED BY <1>1, <1>2, <2>2
<1>6. CASE \E n \in Member : Board!TuneIn(n) \/ Board!TuneOut(n)
  <2>1. PICK n \in Member : Board!TuneIn(n) \/ Board!TuneOut(n)
    BY <1>6
  <2>2. n # m
    BY <2>1 DEF Board!TuneIn, Board!TuneOut
  <2>3. storeHaz' \ expired' = hazards /\ storePlan' = storePlan /\ DueOf(m)' = DueOf(m)
    BY <1>1, <2>1, <2>2 DEF Board!TuneIn, Board!TuneOut
  <2> QED BY <1>1, <2>3
<1>7. CASE Board!Wipe
  BY <1>7 DEF Board!Wipe
<1>8. CASE UNCHANGED Board!boardVars
  <2>1. storeHaz' \ expired' = hazards /\ storePlan' = storePlan /\ DueOf(m)' = DueOf(m)
    BY <1>1, <1>8 DEF Board!boardVars
  <2> QED BY <1>1, <2>1
<1> QED BY <1>3, <1>4, <1>5, <1>6, <1>7, <1>8 DEF Board!Next

(* Nobody is due a ghost: who connects has nothing from before.            *)
LEMMA GhostsNever ==
  ASSUME DeliveryInv, Decided, LastingLinks, Newcomers, NoGhosts, UnbrokenStep, [Next]_vars,
         DeliveryInv'
  PROVE  NoGhosts'
<1>1. TypeOK /\ LinksAgree /\ TypeOK' /\ LinksAgree' /\ BoardStep
  BY StepsMap DEF DeliveryInv, EndsAgree
<1>2. GhostFree
  BY <1>1, GhostFreeIs
<1>3. ASSUME NEW m \in TunedIn', m \in TunedIn
      PROVE  /\ DueOf(m)'.hazards \subseteq storeHaz' \ expired'
             /\ m # Owner => DueOf(m)'.plan = storePlan'
  BY <1>1, <1>2, <1>3, BoardKeepsGhostFree DEF BoardStep
<1>4. ASSUME NEW n \in TunedIn', n \notin TunedIn
      PROVE  /\ DueOf(n)'.hazards \subseteq storeHaz' \ expired'
             /\ n # Owner => DueOf(n)'.plan = storePlan'
  <2>1. PICK m \in Member, c \in Conn : Connect(m, c)
    <3>1. ~UNCHANGED <<pool, link, cut>>
      BY <1>4, TunedUnchanged DEF TunedIn
    <3> QED BY <3>1, LinksKept
  <2> DEFINE f == [type |-> "replay",
                   arg |-> [hazards |-> storeHaz \ expired, plan |-> storePlan]]
  <2>2. /\ link[m] = None /\ link' = [link EXCEPT ![m] = c] /\ down' = [down EXCEPT ![c] = <<f>>]
        /\ UNCHANGED <<expired, seenHaz, seenPlan, storePlan>> /\ storeHaz' = storeHaz \ expired
    BY <2>1 DEF Connect, clientVars, envVars
  <2>3. n = m
    <3>1. n \in Member /\ link[n] = None
      BY <1>1, <1>4, LinkedIsTuned DEF TunedIn
    <3>2. link'[n] # None
      BY <1>4 DEF TunedIn, Tuned
    <3> QED BY <1>1, <2>2, <3>1, <3>2 DEF TypeOK
  <2>4. /\ \A h \in seenHaz[m] : Reporter[h] = m
        /\ m # Owner => seenPlan[m] = NoPlan
    BY <2>2 DEF Newcomers, NothingYet
  <2>5. down'[link'[m]] = <<f>> /\ Tuned(m)'
    BY <1>1, <1>4, <2>2, <2>3 DEF TypeOK, TunedIn
  <2>6. Len(<<f>>) = 1 /\ <<f>>[1] = f
    OBVIOUS
  <2>7. \A h : /\ Adds(f, h) <=> h \in storeHaz \ expired
               /\ ~Drops(f, h)
               /\ SetsPlan(f) <=> storePlan # NoPlan
               /\ PlanIn(f) = storePlan
    BY DEF Adds, Drops, SetsPlan, PlanIn
  <2> HIDE DEF f
  <2>8. DueOf(m)'.hazards \subseteq storeHaz' \ expired'
    <3>1. ASSUME NEW h, Reporter[h] # m, WillShow(m, h)'
          PROVE  h \in storeHaz \ expired
      <4>1. h \notin seenHaz'[m]
        BY <2>2, <2>4, <3>1
      <4> QED BY <2>5, <2>6, <2>7, <3>1, <4>1 DEF WillShow, Shows
    <3>2. DueOf(m)'.hazards = {h \in HazardId \ expired' : Reporter[h] # m /\ WillShow(m, h)'}
      BY <2>5 DEF DueOf
    <3> QED BY <2>2, <3>1, <3>2
  <2>9. ASSUME m # Owner
        PROVE  DueOf(m)'.plan = storePlan'
    <3>1. HasPlan(NoPlan, <<f>>, storePlan)
      BY <2>6, <2>7 DEF HasPlan
    <3>2. storePlan \in PlanOrNone /\ <<f>> \in Seq(DownFrame)
      <4>1. down'[link'[m]] \in Seq(DownFrame)
        <5>1. link'[m] \in Conn
          BY <1>1, <2>2 DEF TypeOK
        <5> QED BY <1>1, <5>1 DEF TypeOK
      <4> QED BY <1>1, <2>5, <4>1 DEF TypeOK
    <3>3. EndPlan(NoPlan, <<f>>) = storePlan
      BY <3>1, <3>2, EndPlanIs
    <3>4. DueOf(m)'.plan = EndPlan(seenPlan'[m], down'[link'[m]])
      BY <2>5, <2>9 DEF DueOf, EndPlan, WillHavePlan
    <3> QED BY <2>2, <2>4, <2>5, <2>9, <3>3, <3>4
  <2> QED BY <2>3, <2>8, <2>9
<1>5. GhostFree'
  BY <1>3, <1>4 DEF GhostFree
<1>6. (TypeOK /\ LinksAgree /\ Decided => (NoGhosts <=> GhostFree))'
  BY GhostFreeIs, PTL
<1> QED BY <1>1, <1>5, <1>6 DEF BoardStep

-----------------------------------------------------------------------------
(* The invariant at first, and over every step of an unbroken run.         *)
LEMMA UnbrokenInit == Init => UnbrokenInv
<1> SUFFICES ASSUME Init
             PROVE  UnbrokenInv
  OBVIOUS
<1> USE DEF Init
<1>1. LastingLinks /\ SilentUntilReady /\ NoEcho
  BY DEF LastingLinks, SilentUntilReady, NoEcho
<1>2. Newcomers /\ ReportsOnTheirWay
  BY DEF Newcomers, NothingYet, ReportsOnTheirWay
<1>3. NoGhosts
  BY DEF NoGhosts, Tuned
<1> QED BY <1>1, <1>2, <1>3 DEF UnbrokenInv

(* Every step that breaks nothing keeps it.                                *)
LEMMA UnbrokenKept ==
  DeliveryInv /\ Decided /\ UnbrokenInv /\ [Next]_vars /\ DeliveryInv' /\ Unbroken'
    => UnbrokenInv' /\ UnbrokenStep
<1> SUFFICES ASSUME DeliveryInv, Decided, UnbrokenInv, [Next]_vars, DeliveryInv', Unbroken'
             PROVE  UnbrokenInv' /\ UnbrokenStep
  OBVIOUS
<1>1. TypeOK /\ LinksAgree /\ OwnFrames /\ LeaderOnly
  BY DEF DeliveryInv, EndsAgree
<1>2. /\ LastingLinks /\ SilentUntilReady /\ Newcomers /\ NoEcho
      /\ ReportsOnTheirWay /\ NoGhosts
  BY DEF UnbrokenInv
<1>3. UnbrokenStep
  BY <1>1, <1>2, NothingElseHappens
<1>4. LastingLinks' /\ SilentUntilReady'
  BY <1>1, <1>2, <1>3, LinksLast, SilenceKept
<1>5. Newcomers' /\ NoEcho'
  BY <1>1, <1>2, <1>3, NewcomersKept, EchoesNever
<1>6. ReportsOnTheirWay'
  BY <1>1, <1>2, <1>3, OnTheirWayKept
<1>7. NoGhosts'
  BY <1>2, <1>3, GhostsNever
<1> QED BY <1>3, <1>4, <1>5, <1>6, <1>7 DEF UnbrokenInv

(* It holds as long as nothing breaks.                                     *)
LEMMA UnbrokenInvariant == Spec /\ []Unbroken => [](DeliveryInv /\ Decided /\ UnbrokenInv)
<1>1. Init => Decided /\ UnbrokenInv
  BY BoardInit, UnbrokenInit
<1>2. DeliveryInv /\ Decided /\ [Next]_vars => Decided'
  BY StepsMap DEF BoardStep
<1> QED BY <1>1, <1>2, UnbrokenKept, DeliveryInvariant, PTL DEF Spec

(* As long as nothing breaks, no connected device shows a pin or a plan    *)
(* the gateway does not track: removals and cleared plans reach everybody, *)
(* whatever was in flight when somebody joined.                            *)
THEOREM NoGhostsUnlessBroken == Spec /\ []Unbroken => []NoGhosts
<1>1. UnbrokenInv => NoGhosts
  BY DEF UnbrokenInv
<1> QED BY <1>1, UnbrokenInvariant, PTL

(* As long as nothing breaks, no report is lost: once nothing is on its    *)
(* way the gateway tracks everything a device shows of its own.            *)
THEOREM NoReportLostUnlessBroken == Spec /\ []Unbroken => []NoReportLost
<1>1. DeliveryInv /\ UnbrokenInv => NoReportLost
  <2> SUFFICES ASSUME TypeOK, ReportsOnTheirWay, Quiet, NEW m \in active,
                      NEW h \in seenHaz[m] \ expired, Reporter[h] = m
               PROVE  h \in storeHaz
    BY DEF DeliveryInv, UnbrokenInv, NoReportLost
  <2>1. m \in Member /\ m \in ready /\ link[m] \in Conn
    BY DEF Quiet, TypeOK
  <2>2. Out(m) = <<>>
    BY <2>1 DEF Out, Quiet
  <2>3. Shows(storeHaz, <<>>, h)
    BY <2>1, <2>2 DEF ReportsOnTheirWay
  <2> QED BY <2>3 DEF Shows
<1> QED BY <1>1, UnbrokenInvariant, PTL

(* As long as nothing breaks, only the leader's own edits change the plan  *)
(* on the leader's device.                                                 *)
THEOREM LeaderUndisturbedUnlessBroken == Spec /\ []Unbroken => LeaderPlanUndisturbed
<1>1. DeliveryInv /\ UnbrokenInv /\ UnbrokenStep
        => (seenPlan'[Owner] # seenPlan[Owner] => used'["edit"] # used["edit"])
  <2> SUFFICES ASSUME TypeOK, NoEcho, UnbrokenStep, seenPlan'[Owner] # seenPlan[Owner]
               PROVE  used'["edit"] # used["edit"]
    BY DEF DeliveryInv, UnbrokenInv
  <2>1. ASSUME NEW n \in Member, NEW p \in PlanOrNone, EditPlan(n, p)
        PROVE  used'["edit"] # used["edit"]
    BY <2>1 DEF EditPlan, Spend, TypeOK, Kind
  <2>2. ASSUME NEW n \in Member, ClientReceive(n)
        PROVE  FALSE
    <3> DEFINE f == Head(down[link[n]])
    <3>1. /\ link[n] # None /\ down[link[n]] # <<>> /\ down[link[n]] \in Seq(DownFrame)
          /\ seenPlan' = [seenPlan EXCEPT ![n] = PlanAfter(f, @)]
      BY <2>2 DEF ClientReceive, TypeOK
    <3>2. Foreign(n, f)
      BY <3>1 DEF NoEcho
    <3> HIDE DEF f
    <3> QED BY <3>1, <3>2, GatewayAssumption DEF PlanAfter, Foreign, TypeOK
  <2> QED
    BY <2>1, <2>2
    DEF UnbrokenStep, vars, clientVars, Report, Remove, Connect, ClientReady, PruneExpired, Join,
        HandleHazard, HandleTour, ResolveLeader, ResumeTour, Expire
<1> QED BY <1>1, UnbrokenInvariant, UnbrokenKept, PTL DEF Spec, LeaderPlanUndisturbed
=============================================================================

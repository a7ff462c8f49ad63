----------------------- MODULE ConvoyGateway_proofs -----------------------
(***************************************************************************)
(* Proofs about ConvoyGateway: types, the two ends of a connection, and    *)
(* the delivery of hazards and plans to everybody who is connected.  The   *)
(* delivery properties are inductive together with the two others          *)
(* (DeliveryInv).                                                          *)
(***************************************************************************)
EXTENDS ConvoyGateway, TLAPS

(* A device still ends with hazard h when a frame that adds h, or leaves it*)
(* alone, is put behind what is on its way.                                *)
LEMMA ShowsAppend ==
  ASSUME NEW S \in SUBSET HazardId, NEW in \in Seq(DownFrame), NEW f \in DownFrame,
         NEW h \in HazardId,
         \/ Adds(f, h)
         \/ Shows(S, in, h) /\ ~Drops(f, h)
  PROVE  Shows(S, Append(in, f), h)
<1> DEFINE s == Append(in, f)
<1>1. Len(s) = Len(in) + 1 /\ s[Len(s)] = f /\ \A i \in 1 .. Len(in) : s[i] = in[i]
  OBVIOUS
<1>2. Len(in) \in Nat
  OBVIOUS
<1>3. CASE Adds(f, h)
  <2>1. ~Drops(f, h)
    BY <1>3 DEF Adds, Drops
  <2> QED BY <1>1, <1>2, <1>3, <2>1 DEF Shows
<1>4. CASE Shows(S, in, h) /\ ~Drops(f, h)
  BY <1>1, <1>2, <1>4 DEF Shows
<1> QED BY <1>3, <1>4

(* What is left of a sequence without its head.                            *)
LEMMA TailElements ==
  ASSUME NEW L, NEW s \in Seq(L), s # <<>>
  PROVE  /\ Len(Tail(s)) = Len(s) - 1
         /\ \A i \in 1 .. Len(Tail(s)) : i + 1 \in 1 .. Len(s) /\ Tail(s)[i] = s[i + 1]
OBVIOUS

(* Handling the next inbound frame does not change what a device ends with.*)
LEMMA ShowsTail ==
  ASSUME NEW S \in SUBSET HazardId, NEW in \in Seq(DownFrame), in # <<>>,
         NEW h \in HazardId, Shows(S, in, h)
  PROVE  Shows(HazardsAfter(Head(in), S), Tail(in), h)
<1> DEFINE s == Tail(in)
<1>1. Len(in) \in Nat /\ Len(in) > 0 /\ Head(in) = in[1]
  OBVIOUS
<1>2. Len(s) = Len(in) - 1 /\ \A i \in 1 .. Len(s) : s[i] = in[i + 1]
  OBVIOUS
<1>3. h \in HazardsAfter(in[1], S) <=> Adds(in[1], h) \/ (h \in S /\ ~Drops(in[1], h))
  BY DEF HazardsAfter
<1>a. \A i \in 2 .. Len(in) : s[i - 1] = in[i]
  BY <1>1, <1>2
<1>4. \A i \in 1 .. Len(s) : Drops(s[i], h) => \E j \in i + 1 .. Len(s) : Adds(s[j], h)
  <2> TAKE i \in 1 .. Len(s)
  <2> HAVE Drops(s[i], h)
  <2>1. PICK j \in i + 2 .. Len(in) : Adds(in[j], h)
    BY <1>1, <1>2 DEF Shows
  <2>2. j - 1 \in i + 1 .. Len(s) /\ s[j - 1] = in[j]
    BY <1>1, <1>2, <1>a
  <2> QED BY <2>1, <2>2
<1>5. h \in HazardsAfter(in[1], S) \/ \E i \in 1 .. Len(s) : Adds(s[i], h)
  <2>1. CASE \E i \in 2 .. Len(in) : Adds(in[i], h)
    <3>1. PICK i \in 2 .. Len(in) : Adds(in[i], h)
      BY <2>1
    <3>2. i - 1 \in 1 .. Len(s) /\ s[i - 1] = in[i]
      BY <1>1, <1>2, <1>a
    <3> QED BY <3>1, <3>2
  <2>2. CASE ~ \E i \in 2 .. Len(in) : Adds(in[i], h)
    BY <1>1, <1>3, <2>2 DEF Shows
  <2> QED BY <2>1, <2>2
<1> QED BY <1>1, <1>4, <1>5 DEF Shows

-----------------------------------------------------------------------------
(* Types.                                                                  *)

(* The frames the actions build are frames, and a device may be sent any   *)
(* frame that a device sends.                                              *)
LEMMA FrameTypes ==
  /\ \A h \in HazardId : [type |-> "hazard", arg |-> h] \in UpFrame
  /\ \A h \in HazardId : [type |-> "hazard_remove", arg |-> h] \in UpFrame
  /\ \A p \in PlanOrNone : [type |-> "tour", arg |-> p] \in UpFrame
  /\ UpFrame \subseteq DownFrame
BY DEF UpFrame, DownFrame

(* Applying a frame to hazards and plan stays within hazards and plans.    *)
LEMMA AfterTypes ==
  ASSUME NEW f \in DownFrame, NEW S, NEW p \in PlanOrNone
  PROVE  /\ HazardsAfter(f, S) \in SUBSET HazardId
         /\ PlanAfter(f, p) \in PlanOrNone
BY DEF DownFrame, UpFrame, Replay, HazardsAfter, PlanAfter, PlanIn, SetsPlan

(* Sending or queueing an edit keeps the types of channels and queues.     *)
LEMMA SendTypes ==
  ASSUME TypeOK, NEW m \in Member, NEW f \in UpFrame, SendCritical(m, f)
  PROVE  /\ up' \in [Conn -> Seq(UpFrame)]
         /\ queue' \in [Member -> Seq(UpFrame)]
<1>1. CASE m \in ready
  <2>1. queue' = queue /\ (up' = up \/ up' = [up EXCEPT ![link[m]] = Append(up[link[m]], f)])
    BY <1>1 DEF SendCritical
  <2>2. ASSUME NEW c \in Conn
        PROVE  Append(up[c], f) \in Seq(UpFrame)
    BY DEF TypeOK
  <2>3. link[m] \in Conn
    BY <1>1 DEF TypeOK
  <2>4. up' \in [Conn -> Seq(UpFrame)]
    BY <2>1, <2>2, <2>3 DEF TypeOK
  <2> QED BY <2>1, <2>4 DEF TypeOK
<1>2. CASE m \notin ready
  <2>1. Append(queue[m], f) \in Seq(UpFrame)
    BY DEF TypeOK
  <2> QED BY <1>2, <2>1 DEF TypeOK, SendCritical
<1> QED BY <1>1, <1>2

(* A relay appends a frame to channels and to nothing else.                *)
LEMMA RelayTypes ==
  ASSUME TypeOK, NEW m, NEW f \in DownFrame
  PROVE  Relayed(m, f) \in [Conn -> Seq(DownFrame)]
BY DEF TypeOK, Relayed

(* Counting an event keeps the counters numbers.                           *)
LEMMA SpendTypes ==
  ASSUME TypeOK, NEW k \in Kind, Spend(k)
  PROVE  used' \in [Kind -> Nat]
BY DEF TypeOK, Spend

(* A device that drops its connection keeps the types of the links.        *)
LEMMA UnlinkTypes ==
  ASSUME TypeOK, NEW m \in Member, Unlink(m)
  PROVE  /\ link' \in [Member -> Conn \cup {None}]
         /\ armed' \subseteq ready' /\ ready' \subseteq {n \in Member : link'[n] # None}
         /\ cut' \subseteq Conn
         /\ up' \in [Conn -> Seq(UpFrame)] /\ down' \in [Conn -> Seq(DownFrame)]
BY DEF TypeOK, Unlink

(* So does one that loses its state with it.                               *)
LEMMA ResetTypes ==
  ASSUME TypeOK, NEW m \in Member, NEW S \in SUBSET Member, Reset(m, S)
  PROVE  /\ link' \in [Member -> Conn \cup {None}]
         /\ armed' \subseteq ready' /\ ready' \subseteq {n \in Member : link'[n] # None}
         /\ cut' \subseteq Conn
         /\ up' \in [Conn -> Seq(UpFrame)] /\ down' \in [Conn -> Seq(DownFrame)]
         /\ roster' \in [Member -> SUBSET Member]
         /\ queue' \in [Member -> Seq(UpFrame)]
         /\ seenHaz' \in [Member -> SUBSET HazardId]
         /\ seenPlan' \in [Member -> PlanOrNone]
<1>1. Unlink(m)
  BY DEF Reset
<1>2. /\ roster' \in [Member -> SUBSET Member]
      /\ queue' \in [Member -> Seq(UpFrame)]
      /\ seenHaz' \in [Member -> SUBSET HazardId]
      /\ seenPlan' \in [Member -> PlanOrNone]
  BY DEF Reset, TypeOK, PlanOrNone
<1> QED BY <1>1, <1>2, UnlinkTypes

(* Removing an entry of a sequence leaves a sequence of such entries.      *)
LEMMA WithoutType ==
  ASSUME NEW L, NEW s \in Seq(L), NEW i \in 1 .. Len(s)
  PROVE  Without(s, i) \in Seq(L)
<1>1. Len(s) - 1 \in Nat
  OBVIOUS
<1>2. \A j \in 1 .. Len(s) - 1 : (IF j < i THEN s[j] ELSE s[j + 1]) \in L
  OBVIOUS
<1> QED BY <1>1, <1>2 DEF Without

(* The initial state is well typed.                                        *)
LEMMA TypeInit == Init => TypeOK
BY GatewayAssumption DEF Init, TypeOK, PlanOrNone, Kind

(* Every step of gateway, devices and environment keeps the types.         *)
LEMMA TypeStep == TypeOK /\ [Next]_vars => TypeOK'
<1> SUFFICES ASSUME TypeOK, [Next]_vars
             PROVE  TypeOK'
  OBVIOUS
<1> USE DEF serverVars, netVars, clientVars, envVars
<1>1. ASSUME NEW m \in Member, NEW h \in HazardId, Report(m, h)
      PROVE  TypeOK'
  <2>1. Spend("edit") /\ SendCritical(m, [type |-> "hazard", arg |-> h])
    BY <1>1 DEF Report
  <2>2. up' \in [Conn -> Seq(UpFrame)] /\ queue' \in [Member -> Seq(UpFrame)]
    BY <2>1, SendTypes, FrameTypes
  <2>3. used' \in [Kind -> Nat]
    BY <2>1, SpendTypes DEF Kind
  <2> QED BY <1>1, <2>2, <2>3 DEF Report, TypeOK
<1>2. ASSUME NEW m \in Member, NEW h \in HazardId, Remove(m, h)
      PROVE  TypeOK'
  <2>1. Spend("edit") /\ SendCritical(m, [type |-> "hazard_remove", arg |-> h])
    BY <1>2 DEF Remove
  <2>2. up' \in [Conn -> Seq(UpFrame)] /\ queue' \in [Member -> Seq(UpFrame)]
    BY <2>1, SendTypes, FrameTypes
  <2>3. used' \in [Kind -> Nat]
    BY <2>1, SpendTypes DEF Kind
  <2> QED BY <1>2, <2>2, <2>3 DEF Remove, TypeOK
<1>3. ASSUME NEW m \in Member, NEW p \in PlanOrNone, EditPlan(m, p)
      PROVE  TypeOK'
  <2>1. Spend("edit") /\ SendCritical(m, [type |-> "tour", arg |-> p])
    BY <1>3 DEF EditPlan
  <2>2. up' \in [Conn -> Seq(UpFrame)] /\ queue' \in [Member -> Seq(UpFrame)]
    BY <2>1, SendTypes, FrameTypes
  <2>3. used' \in [Kind -> Nat]
    BY <2>1, SpendTypes DEF Kind
  <2> QED BY <1>3, <2>2, <2>3 DEF EditPlan, TypeOK
<1>4. ASSUME NEW m \in Member, NEW c \in Conn, Connect(m, c)
      PROVE  TypeOK'
  <2>1. [type |-> "replay", arg |-> [hazards |-> storeHaz \ expired, plan |-> storePlan]]
          \in DownFrame
    BY DEF TypeOK, DownFrame, Replay
  <2>2. down' \in [Conn -> Seq(DownFrame)]
    BY <1>4, <2>1 DEF Connect, TypeOK
  <2> QED BY <1>4, <2>2 DEF Connect, TypeOK
<1>5. ASSUME NEW m \in Member, ClientReady(m)
      PROVE  TypeOK'
  BY <1>5 DEF ClientReady, TypeOK
<1>6. ASSUME NEW m \in Member, ClientReceive(m)
      PROVE  TypeOK'
  <2> DEFINE f == Head(down[link[m]])
  <2>1. link[m] \in Conn /\ f \in DownFrame /\ Tail(down[link[m]]) \in Seq(DownFrame)
    BY <1>6 DEF ClientReceive, TypeOK
  <2>2. seenHaz' \in [Member -> SUBSET HazardId]
    BY <1>6 DEF ClientReceive, TypeOK, HazardsAfter
  <2> QED BY <1>6, <2>1, <2>2, AfterTypes DEF ClientReceive, TypeOK
<1>7. ASSUME NEW m \in Member, PruneExpired(m)
      PROVE  TypeOK'
  BY <1>7 DEF PruneExpired, TypeOK
<1>8. ASSUME NEW c \in Conn, HandleHazard(c)
      PROVE  TypeOK'
  <2> DEFINE f == Head(up[c])
  <2>1. f \in DownFrame /\ Tail(up[c]) \in Seq(UpFrame)
    BY <1>8, FrameTypes DEF HandleHazard, TypeOK
  <2>2. down' = down \/ down' = Relayed(pool[c], f)
    BY <1>8 DEF HandleHazard
  <2>3. down' \in [Conn -> Seq(DownFrame)]
    BY <2>1, <2>2, RelayTypes DEF TypeOK
  <2>4. storeHaz' \subseteq HazardId
    BY <1>8 DEF HandleHazard, TypeOK, HazardsAfter
  <2> QED BY <1>8, <2>1, <2>3, <2>4 DEF HandleHazard, TypeOK
<1>9. ASSUME NEW c \in Conn, HandleTour(c)
      PROVE  TypeOK'
  <2> DEFINE f == Head(up[c])
             call == [from |-> pool[c], plan |-> f.arg, leader |-> "asked"]
  <2>1. f \in UpFrame /\ Tail(up[c]) \in Seq(UpFrame)
    BY <1>9 DEF HandleTour, TypeOK
  <2>2. call \in Lookup
    BY <1>9, <2>1 DEF HandleTour, TypeOK, UpFrame, Lookup
  <2>3. pending' \in Seq(Lookup)
    BY <1>9, <2>2 DEF HandleTour, TypeOK
  <2> QED BY <1>9, <2>1, <2>3 DEF HandleTour, TypeOK
<1>10. ASSUME NEW i \in DOMAIN pending, ResolveLeader(i)
       PROVE  TypeOK'
  <2>1. i \in 1 .. Len(pending) /\ pending[i] \in Lookup
    BY DEF TypeOK
  <2>2. PICK answer \in {"yes", "no"} : pending' = [pending EXCEPT ![i].leader = answer]
    BY <1>10 DEF ResolveLeader
  <2>3. [pending[i] EXCEPT !.leader = answer] \in Lookup
    BY <2>1 DEF Lookup
  <2>4. pending' \in Seq(Lookup)
    BY <2>1, <2>2, <2>3 DEF TypeOK
  <2> QED BY <1>10, <2>4 DEF ResolveLeader, TypeOK
<1>11. ASSUME NEW i \in DOMAIN pending, ResumeTour(i)
       PROVE  TypeOK'
  <2> DEFINE f == [type |-> "tour", arg |-> pending[i].plan]
  <2>1. i \in 1 .. Len(pending) /\ pending[i] \in Lookup
    BY DEF TypeOK
  <2>2. f \in DownFrame /\ pending[i].plan \in PlanOrNone
    BY <2>1, FrameTypes DEF Lookup
  <2>3. pending' \in Seq(Lookup)
    BY <1>11, <2>1, WithoutType DEF ResumeTour, TypeOK
  <2>4. down' \in [Conn -> Seq(DownFrame)] /\ storePlan' \in PlanOrNone
    BY <1>11, <2>2, RelayTypes DEF ResumeTour, TypeOK
  <2> QED BY <1>11, <2>3, <2>4 DEF ResumeTour, TypeOK
<1>12. ASSUME NEW c \in Conn, Cut(c)
       PROVE  TypeOK'
  <2>1. used' \in [Kind -> Nat]
    BY <1>12, SpendTypes DEF Cut, Kind
  <2>2. PICK i \in 0 .. Len(up[c]) : up' = [up EXCEPT ![c] = SubSeq(@, 1, i)]
    BY <1>12 DEF Cut
  <2>3. SubSeq(up[c], 1, i) \in Seq(UpFrame)
    BY <2>2 DEF TypeOK
  <2>4. <<>> \in Seq(DownFrame)
    OBVIOUS
  <2> QED BY <1>12, <2>1, <2>2, <2>3, <2>4 DEF Cut, TypeOK
<1>13. ASSUME NEW m \in Member, ChannelLost(m)
       PROVE  TypeOK'
  <2>1. Unlink(m)
    BY <1>13 DEF ChannelLost
  <2> QED BY <1>13, <2>1, UnlinkTypes DEF ChannelLost, TypeOK
<1>14. ASSUME NEW c \in Conn, CloseSocket(c)
       PROVE  TypeOK'
  BY <1>14 DEF CloseSocket, TypeOK
<1>15. ASSUME NEW m \in Member, RosterChange(m)
       PROVE  TypeOK'
  <2>1. Unlink(m) /\ used' \in [Kind -> Nat]
    BY <1>15, SpendTypes DEF RosterChange, Kind
  <2>2. queue' \in [Member -> Seq(UpFrame)] /\ roster' \in [Member -> SUBSET Member]
    BY <1>15 DEF RosterChange, TypeOK
  <2> QED BY <1>15, <2>1, <2>2, UnlinkTypes DEF RosterChange, TypeOK
<1>16. ASSUME NEW m \in Member, AppRestart(m)
       PROVE  TypeOK'
  <2>1. Reset(m, active) /\ active \in SUBSET Member /\ used' \in [Kind -> Nat]
    BY <1>16, SpendTypes DEF AppRestart, Kind, TypeOK
  <2> QED BY <1>16, <2>1, ResetTypes DEF AppRestart, TypeOK
<1>17. ASSUME NEW m \in Member, Leave(m)
       PROVE  TypeOK'
  <2>1. Reset(m, {}) /\ used' \in [Kind -> Nat]
    BY <1>17, SpendTypes DEF Leave, Kind
  <2> QED BY <1>17, <2>1, ResetTypes DEF Leave, TypeOK
<1>18. ASSUME NEW m \in Member, Join(m)
       PROVE  TypeOK'
  BY <1>18 DEF Join, TypeOK
<1>19. ASSUME ServerRestart
       PROVE  TypeOK'
  <2>1. used' \in [Kind -> Nat]
    BY <1>19, SpendTypes DEF ServerRestart, Kind
  <2> QED BY <1>19, <2>1 DEF ServerRestart, TypeOK, PlanOrNone
<1>20. ASSUME NEW h \in HazardId, Expire(h)
       PROVE  TypeOK'
  <2>1. used' \in [Kind -> Nat]
    BY <1>20, SpendTypes DEF Expire, Kind
  <2> QED BY <1>20, <2>1 DEF Expire, TypeOK
<1>21. CASE UNCHANGED vars
  BY <1>21 DEF vars, TypeOK
<1>22. ASSUME NEW m \in Member, InboundSilence(m)
       PROVE  TypeOK'
  <2>1. Unlink(m) /\ used' \in [Kind -> Nat]
    BY <1>22, SpendTypes DEF InboundSilence, Kind
  <2> QED BY <1>22, <2>1, UnlinkTypes DEF InboundSilence, TypeOK
<1> QED
  BY <1>1, <1>2, <1>3, <1>4, <1>5, <1>6, <1>7, <1>8, <1>9, <1>10, <1>11, <1>12, <1>13,
     <1>14, <1>15, <1>16, <1>17, <1>18, <1>19, <1>20, <1>21, <1>22 DEF Next, System, Environment

(* Every variable keeps its type, and only a device with a connection is   *)
(* ready, for any members, connections, hazards, plans and budgets.        *)
THEOREM TypeCorrect == Spec => []TypeOK
<1>1. Init => TypeOK
  BY TypeInit
<1>2. TypeOK /\ [Next]_vars => TypeOK'
  BY TypeStep
<1> QED BY <1>1, <1>2, PTL DEF Spec

-----------------------------------------------------------------------------
(* The two ends of a connection.                                           *)

(* What a device sends or queues is its own, wherever it ends up.          *)
LEMMA SendEnds ==
  ASSUME TypeOK, LinksAgree, OwnFrames, NEW m \in Member, NEW f \in UpFrame, SentBy(m, f),
         SendCritical(m, f), UNCHANGED <<pool, link, cut>>
  PROVE  OwnFrames'
<1>1. CASE m \in ready
  <2>1. link[m] \in Conn /\ queue' = queue
    BY <1>1 DEF TypeOK, SendCritical
  <2>2. CASE link[m] \in cut
    BY <1>1, <2>1, <2>2 DEF OwnFrames, SentBy, SendCritical
  <2>3. CASE link[m] \notin cut
    <3>1. pool[link[m]] = m /\ m # None
      BY <2>1, <2>3, GatewayAssumption DEF LinksAgree
    <3>2. up' = [up EXCEPT ![link[m]] = Append(up[link[m]], f)]
      BY <1>1, <2>3 DEF SendCritical
    <3>3. up'[link[m]] = Append(up[link[m]], f) /\ \A c \in Conn \ {link[m]} : up'[c] = up[c]
      BY <2>1, <3>2 DEF TypeOK
    <3>4. \A i \in 1 .. Len(up'[link[m]]) : SentBy(m, up'[link[m]][i])
      <4>1. up[link[m]] \in Seq(UpFrame) /\ \A i \in 1 .. Len(up[link[m]]) : SentBy(m, up[link[m]][i])
        BY <2>1, <3>1 DEF TypeOK, OwnFrames
      <4> QED BY <3>3, <4>1
    <3>5. \A c \in Conn : \A i \in 1 .. Len(up'[c]) : SentBy(pool[c], up'[c][i])
      <4>1. ASSUME NEW c \in Conn, c # link[m]
            PROVE  \A i \in 1 .. Len(up'[c]) : SentBy(pool[c], up'[c][i])
        BY <3>3, <4>1 DEF OwnFrames
      <4> QED BY <3>1, <3>4, <4>1
    <3>6. \A c \in Conn : pool[c] = None => up'[c] = <<>>
      BY <3>1, <3>3 DEF OwnFrames
    <3> QED BY <2>1, <3>5, <3>6 DEF OwnFrames, SentBy
  <2> QED BY <2>2, <2>3
<1>2. CASE m \notin ready
  <2>1. queue[m] \in Seq(UpFrame) /\ \A i \in 1 .. Len(queue[m]) : SentBy(m, queue[m][i])
    BY DEF TypeOK, OwnFrames
  <2>2. up' = up /\ queue' = [queue EXCEPT ![m] = Append(queue[m], f)]
    BY <1>2 DEF SendCritical
  <2>3. queue'[m] = Append(queue[m], f) /\ \A n \in Member \ {m} : queue'[n] = queue[n]
    BY <2>2 DEF TypeOK
  <2>4. \A i \in 1 .. Len(queue'[m]) : SentBy(m, queue'[m][i])
    BY <2>1, <2>3
  <2> QED BY <2>2, <2>3, <2>4 DEF OwnFrames, SentBy
<1> QED BY <1>1, <1>2

(* Dropping a connection leaves the two ends of every connection agreed.   *)
LEMMA UnlinkEnds ==
  ASSUME TypeOK, LinksAgree, OwnFrames, NEW m \in Member, Unlink(m),
         UNCHANGED pool, queue' = queue \/ queue' = [queue EXCEPT ![m] = <<>>]
  PROVE  LinksAgree' /\ OwnFrames'
<1> DEFINE gone == {c \in Conn : link[m] = c /\ pool[c] = None}
<1>1. /\ link' = [link EXCEPT ![m] = None] /\ cut' = cut \ gone
      /\ up' = [c \in Conn |-> IF c \in gone THEN <<>> ELSE up[c]]
  BY DEF Unlink
<1>2. \A n \in Member : link'[n] # None => n # m /\ link'[n] = link[n] /\ link[n] \notin gone
  BY <1>1 DEF TypeOK, LinksAgree
<1>3. LinksAgree'
  BY <1>1, <1>2 DEF LinksAgree
<1>4. OwnFrames'
  <2>1. \A n \in Member : queue'[n] = queue[n] \/ queue'[n] = <<>>
    BY DEF TypeOK
  <2>2. \A n \in Member : \A i \in 1 .. Len(queue'[n]) : SentBy(n, queue'[n][i])
    BY <2>1 DEF OwnFrames
  <2>3. \A c \in Conn : up'[c] = <<>> \/ (up'[c] = up[c] /\ c \notin gone)
    BY <1>1
  <2>4. \A c \in Conn : \A i \in 1 .. Len(up'[c]) : SentBy(pool[c], up'[c][i])
    BY <2>3 DEF OwnFrames
  <2>5. \A c \in Conn : pool[c] = None => up'[c] = <<>>
    BY <2>3 DEF OwnFrames
  <2> QED BY <2>2, <2>4, <2>5 DEF OwnFrames, SentBy
<1> QED BY <1>3, <1>4

(* Nobody is connected and nothing is queued in the initial state.         *)
LEMMA EndsInit == Init => EndsAgree
BY GatewayAssumption DEF Init, EndsAgree, LinksAgree, OwnFrames, LeaderOnly

(* Every step keeps the two ends of every connection agreed.               *)
LEMMA EndsStep == TypeOK /\ EndsAgree /\ [Next]_vars => EndsAgree'
<1> SUFFICES ASSUME TypeOK, LinksAgree, OwnFrames, LeaderOnly, [Next]_vars
             PROVE  LinksAgree' /\ OwnFrames' /\ LeaderOnly'
  BY DEF EndsAgree
<1> USE DEF serverVars, netVars, clientVars, envVars
<1>1. ASSUME NEW m \in Member, NEW h \in HazardId, Report(m, h)
      PROVE  LinksAgree' /\ OwnFrames' /\ LeaderOnly'
  <2>1. SentBy(m, [type |-> "hazard", arg |-> h])
    BY <1>1 DEF Report, SentBy
  <2>2. OwnFrames'
    BY <1>1, <2>1, SendEnds, FrameTypes DEF Report
  <2> QED BY <1>1, <2>2 DEF Report, LinksAgree, LeaderOnly
<1>2. ASSUME NEW m \in Member, NEW h \in HazardId, Remove(m, h)
      PROVE  LinksAgree' /\ OwnFrames' /\ LeaderOnly'
  <2>1. SentBy(m, [type |-> "hazard_remove", arg |-> h])
    BY <1>2 DEF Remove, SentBy
  <2>2. OwnFrames'
    BY <1>2, <2>1, SendEnds, FrameTypes DEF Remove
  <2> QED BY <1>2, <2>2 DEF Remove, LinksAgree, LeaderOnly
<1>3. ASSUME NEW m \in Member, NEW p \in PlanOrNone, EditPlan(m, p)
      PROVE  LinksAgree' /\ OwnFrames' /\ LeaderOnly'
  <2>1. SentBy(m, [type |-> "tour", arg |-> p])
    BY DEF SentBy
  <2>2. OwnFrames'
    BY <1>3, <2>1, SendEnds, FrameTypes DEF EditPlan
  <2> QED BY <1>3, <2>2 DEF EditPlan, LinksAgree, LeaderOnly
<1>4. ASSUME NEW m \in Member, NEW c \in Conn, Connect(m, c)
      PROVE  LinksAgree' /\ OwnFrames' /\ LeaderOnly'
  <2>1. LinksAgree'
    BY <1>4, GatewayAssumption DEF Connect, Free, LinksAgree, TypeOK
  <2>2. up[c] = <<>>
    BY <1>4 DEF Connect, Free, OwnFrames
  <2>3. OwnFrames'
    BY <1>4, <2>2 DEF Connect, OwnFrames, SentBy, TypeOK
  <2> QED BY <1>4, <2>1, <2>3 DEF Connect, LeaderOnly
<1>5. ASSUME NEW m \in Member, ClientReady(m)
      PROVE  LinksAgree' /\ OwnFrames' /\ LeaderOnly'
  <2>1. link[m] \in Conn /\ pool[link[m]] = m /\ m # None
    BY <1>5, GatewayAssumption DEF ClientReady, LinksAgree, TypeOK
  <2>2. OwnFrames'
    BY <1>5, <2>1 DEF ClientReady, OwnFrames, SentBy, TypeOK
  <2> QED BY <1>5, <2>2 DEF ClientReady, LinksAgree, LeaderOnly
<1>6. ASSUME NEW m \in Member, ClientReceive(m) \/ PruneExpired(m)
      PROVE  LinksAgree' /\ OwnFrames' /\ LeaderOnly'
  BY <1>6 DEF ClientReceive, PruneExpired, LinksAgree, OwnFrames, SentBy, LeaderOnly
<1>7. ASSUME NEW c \in Conn, pool[c] # None, up[c] # <<>>,
             up' = [up EXCEPT ![c] = Tail(@)], UNCHANGED <<pool, queue>>
      PROVE  OwnFrames'
  <2>1. up[c] \in Seq(UpFrame) /\ up'[c] = Tail(up[c]) /\ \A d \in Conn \ {c} : up'[d] = up[d]
    BY <1>7 DEF TypeOK
  <2>2. \A i \in 1 .. Len(up'[c]) : i + 1 \in 1 .. Len(up[c]) /\ up'[c][i] = up[c][i + 1]
    <3>1. \A i \in 1 .. Len(Tail(up[c])) : /\ i + 1 \in 1 .. Len(up[c])
                                           /\ Tail(up[c])[i] = up[c][i + 1]
      BY <1>7, <2>1, TailElements, Zenon
    <3> QED BY <2>1, <3>1, Zenon
  <2>3. \A d \in Conn : \A i \in 1 .. Len(up'[d]) : SentBy(pool[d], up'[d][i])
    BY <2>1, <2>2 DEF OwnFrames
  <2> QED BY <1>7, <2>1, <2>3 DEF OwnFrames, SentBy
<1>8. ASSUME NEW c \in Conn, HandleHazard(c)
      PROVE  LinksAgree' /\ OwnFrames' /\ LeaderOnly'
  <2>1. OwnFrames'
    BY <1>7, <1>8 DEF HandleHazard
  <2> QED BY <1>8, <2>1 DEF HandleHazard, LinksAgree, LeaderOnly
<1>9. ASSUME NEW c \in Conn, HandleTour(c)
      PROVE  LinksAgree' /\ OwnFrames' /\ LeaderOnly'
  <2>1. OwnFrames'
    BY <1>7, <1>9 DEF HandleTour
  <2>2. PICK call : call.leader = "asked" /\ pending' = Append(pending, call)
    BY <1>9 DEF HandleTour
  <2>3. LeaderOnly'
    BY <2>2 DEF LeaderOnly, TypeOK
  <2> QED BY <1>9, <2>1, <2>3 DEF HandleTour, LinksAgree
<1>10. ASSUME NEW i \in DOMAIN pending, ResolveLeader(i)
       PROVE  LinksAgree' /\ OwnFrames' /\ LeaderOnly'
  <2>1. i \in 1 .. Len(pending) /\ pending \in Seq(Lookup)
    BY DEF TypeOK
  <2>2. PICK answer : /\ answer = "yes" => pending[i].from = Owner
                      /\ pending' = [pending EXCEPT ![i].leader = answer]
    BY <1>10 DEF ResolveLeader
  <2>3. /\ Len(pending') = Len(pending)
        /\ \A j \in 1 .. Len(pending) :
             pending'[j] = IF j = i THEN [pending[i] EXCEPT !.leader = answer] ELSE pending[j]
    BY <2>1, <2>2
  <2>4. pending[i] \in Lookup
    BY <2>1
  <2>5. pending'[i].leader = answer /\ pending'[i].from = pending[i].from
    BY <2>1, <2>3, <2>4 DEF Lookup
  <2>6. LeaderOnly'
    BY <2>1, <2>2, <2>3, <2>5 DEF LeaderOnly
  <2> QED BY <1>10, <2>6 DEF ResolveLeader, LinksAgree, OwnFrames, SentBy
<1>11. ASSUME NEW i \in DOMAIN pending, ResumeTour(i)
       PROVE  LinksAgree' /\ OwnFrames' /\ LeaderOnly'
  <2>1. i \in 1 .. Len(pending) /\ pending \in Seq(Lookup)
    BY DEF TypeOK
  <2>2. /\ Len(pending') = Len(pending) - 1
        /\ \A j \in 1 .. Len(pending) - 1 :
             pending'[j] = IF j < i THEN pending[j] ELSE pending[j + 1]
    BY <1>11, <2>1 DEF ResumeTour, Without
  <2>3. LeaderOnly'
    BY <2>1, <2>2 DEF LeaderOnly
  <2> QED BY <1>11, <2>3 DEF ResumeTour, LinksAgree, OwnFrames, SentBy
<1>12. ASSUME NEW c \in Conn, Cut(c)
       PROVE  LinksAgree' /\ OwnFrames' /\ LeaderOnly'
  <2>1. PICK n \in 0 .. Len(up[c]) : up' = [up EXCEPT ![c] = SubSeq(up[c], 1, n)]
    BY <1>12 DEF Cut
  <2>2. up[c] \in Seq(UpFrame)
    BY DEF TypeOK
  <2>3. /\ Len(up'[c]) = n /\ \A i \in 1 .. n : up'[c][i] = up[c][i]
        /\ up[c] = <<>> => up'[c] = <<>>
    BY <2>1, <2>2 DEF TypeOK
  <2>4. \A i \in 1 .. Len(up'[c]) : SentBy(pool[c], up'[c][i])
    BY <2>1, <2>2, <2>3 DEF OwnFrames
  <2>5. \A d \in Conn \ {c} : up'[d] = up[d]
    BY <2>1 DEF TypeOK
  <2>6. OwnFrames'
    BY <1>12, <2>3, <2>4, <2>5 DEF Cut, OwnFrames, SentBy
  <2> QED BY <1>12, <2>6 DEF Cut, LinksAgree, LeaderOnly
<1>13. ASSUME NEW m \in Member, \/ ChannelLost(m) \/ InboundSilence(m)
                              \/ RosterChange(m) \/ AppRestart(m) \/ Leave(m)
       PROVE  LinksAgree' /\ OwnFrames' /\ LeaderOnly'
  <2>1. /\ Unlink(m) /\ UNCHANGED <<pool, pending>>
        /\ queue' = queue \/ queue' = [queue EXCEPT ![m] = <<>>]
    BY <1>13 DEF ChannelLost, InboundSilence, RosterChange, AppRestart, Leave, Reset
  <2> QED BY <2>1, UnlinkEnds DEF LeaderOnly
<1>14. ASSUME NEW c \in Conn, CloseSocket(c)
       PROVE  LinksAgree' /\ OwnFrames' /\ LeaderOnly'
  <2>1. LinksAgree'
    BY <1>14 DEF CloseSocket, LinksAgree, TypeOK
  <2>2. /\ up[c] = <<>> /\ up' = up /\ queue' = queue
        /\ pool'[c] = None /\ \A d \in Conn \ {c} : pool'[d] = pool[d]
    BY <1>14 DEF CloseSocket, TypeOK
  <2>3. \A d \in Conn : \A i \in 1 .. Len(up'[d]) : SentBy(pool'[d], up'[d][i])
    BY <2>2 DEF OwnFrames
  <2>4. OwnFrames'
    BY <2>2, <2>3 DEF OwnFrames, SentBy
  <2> QED BY <1>14, <2>1, <2>4 DEF CloseSocket, LeaderOnly
<1>15. ASSUME ServerRestart
       PROVE  LinksAgree' /\ OwnFrames' /\ LeaderOnly'
  <2>1. LinksAgree'
    BY <1>15 DEF ServerRestart, LinksAgree, TypeOK
  <2>2. OwnFrames'
    BY <1>15 DEF ServerRestart, OwnFrames, SentBy
  <2> QED BY <1>15, <2>1, <2>2 DEF ServerRestart, LeaderOnly
<1>16. CASE UNCHANGED <<pool, pending, cut, up, link, queue>>
  BY <1>16 DEF LinksAgree, OwnFrames, SentBy, LeaderOnly
<1>17. ASSUME NEW m \in Member, Join(m)
       PROVE  LinksAgree' /\ OwnFrames' /\ LeaderOnly'
  BY <1>16, <1>17 DEF Join
<1>18. ASSUME NEW h \in HazardId, Expire(h)
       PROVE  LinksAgree' /\ OwnFrames' /\ LeaderOnly'
  BY <1>16, <1>18 DEF Expire
<1>19. CASE UNCHANGED vars
  BY <1>16, <1>19 DEF vars
<1> QED
  BY <1>1, <1>2, <1>3, <1>4, <1>5, <1>6, <1>8, <1>9, <1>10, <1>11, <1>12, <1>13,
     <1>14, <1>15, <1>17, <1>18, <1>19 DEF Next, System, Environment

(* A device's connection is registered for that device, and what waits on  *)
(* it was sent by that device, in every convoy and for every budget.       *)
THEOREM EndsAlwaysAgree == Spec => []EndsAgree
<1>1. TypeOK /\ EndsAgree /\ [Next]_vars => (TypeOK /\ EndsAgree)'
  BY TypeStep, EndsStep
<1> QED BY <1>1, TypeInit, EndsInit, PTL DEF Spec

-----------------------------------------------------------------------------
(* What a connected device is going to show.                               *)

(* What a frame put behind the others does to the plan a device ends with. *)
LEMMA HasPlanAppend ==
  ASSUME NEW q, NEW in \in Seq(DownFrame), NEW f \in DownFrame, NEW p,
         \/ SetsPlan(f) /\ PlanIn(f) = p
         \/ HasPlan(q, in, p) /\ ~SetsPlan(f)
  PROVE  HasPlan(q, Append(in, f), p)
<1> DEFINE s == Append(in, f)
<1>1. Len(s) = Len(in) + 1 /\ s[Len(s)] = f /\ \A i \in 1 .. Len(in) : s[i] = in[i]
  OBVIOUS
<1>2. Len(in) \in Nat
  OBVIOUS
<1>3. CASE SetsPlan(f) /\ PlanIn(f) = p
  <2>1. Len(s) \in 1 .. Len(s) /\ \A j \in Len(s) + 1 .. Len(s) : FALSE
    BY <1>1, <1>2
  <2> QED BY <1>1, <1>3, <2>1 DEF HasPlan
<1>4. CASE HasPlan(q, in, p) /\ ~SetsPlan(f)
  <2>1. CASE q = p /\ \A i \in 1 .. Len(in) : ~SetsPlan(in[i])
    BY <1>1, <1>2, <1>4, <2>1 DEF HasPlan
  <2>2. CASE \E i \in 1 .. Len(in) : /\ SetsPlan(in[i]) /\ PlanIn(in[i]) = p
                                     /\ \A j \in i + 1 .. Len(in) : ~SetsPlan(in[j])
    BY <1>1, <1>2, <1>4, <2>2 DEF HasPlan
  <2> QED BY <1>4, <2>1, <2>2 DEF HasPlan
<1> QED BY <1>3, <1>4

(* Handling the next frame does not change the plan a device ends with.    *)
LEMMA HasPlanTail ==
  ASSUME NEW q, NEW in \in Seq(DownFrame), in # <<>>, NEW p, HasPlan(q, in, p)
  PROVE  HasPlan(PlanAfter(Head(in), q), Tail(in), p)
<1> DEFINE s == Tail(in)
<1>1. Len(in) \in Nat /\ Len(in) > 0 /\ Head(in) = in[1] /\ Len(s) = Len(in) - 1
  OBVIOUS
<1>2. \A i \in 1 .. Len(s) : i + 1 \in 1 .. Len(in) /\ s[i] = in[i + 1]
  OBVIOUS
<1>3. CASE q = p /\ \A i \in 1 .. Len(in) : ~SetsPlan(in[i])
  <2>1. PlanAfter(in[1], q) = p
    BY <1>1, <1>3 DEF PlanAfter
  <2>2. \A i \in 1 .. Len(s) : ~SetsPlan(s[i])
    BY <1>2, <1>3
  <2> QED BY <1>1, <2>1, <2>2 DEF HasPlan
<1>4. ASSUME NEW i \in 1 .. Len(in), SetsPlan(in[i]), PlanIn(in[i]) = p,
             \A j \in i + 1 .. Len(in) : ~SetsPlan(in[j])
      PROVE  HasPlan(PlanAfter(Head(in), q), s, p)
  <2>1. CASE i = 1
    <3>1. PlanAfter(in[1], q) = p
      BY <1>4, <2>1 DEF PlanAfter
    <3>2. \A j \in 1 .. Len(s) : ~SetsPlan(s[j])
      BY <1>1, <1>2, <1>4, <2>1
    <3> QED BY <1>1, <3>1, <3>2 DEF HasPlan
  <2>2. CASE i # 1
    <3>1. i - 1 \in 1 .. Len(s) /\ s[i - 1] = in[i]
      BY <1>1, <1>2, <2>2
    <3>2. \A j \in (i - 1) + 1 .. Len(s) : ~SetsPlan(s[j])
      BY <1>1, <1>2, <1>4
    <3> QED BY <1>4, <3>1, <3>2 DEF HasPlan
  <2> QED BY <2>1, <2>2
<1> QED BY <1>3, <1>4 DEF HasPlan

(* Whoever is tuned in after the step already was, and has nothing new on  *)
(* its way.                                                                *)
KeepsTuned == \A m \in Member : Tuned(m)' =>
  Tuned(m) /\ link'[m] = link[m] /\ down'[link[m]] = down[link[m]]

(* Whoever is tuned in still has the hazards of others it had.             *)
KeepsHazards == \A m \in Member : Tuned(m)' =>
  \A h \in storeHaz' \ expired' : Reporter[h] # m /\ h \in seenHaz[m] => h \in seenHaz'[m]

KeepsPlan == \A m \in Member \ {Owner} : Tuned(m)' => seenPlan'[m] = seenPlan[m]

(* A step that leaves store, channels and device state alone keeps what    *)
(* connected devices are going to show.                                    *)
LEMMA QuietStep ==
  ASSUME PeersLearnHazards, PeersLearnPlan, KeepsTuned, KeepsHazards, KeepsPlan,
         storePlan' = storePlan, storeHaz' \ expired' \subseteq storeHaz \ expired
  PROVE  PeersLearnHazards' /\ PeersLearnPlan'
<1>1. ASSUME NEW m \in Member, Tuned(m)', NEW h \in storeHaz' \ expired', Reporter[h] # m
      PROVE  Shows(seenHaz'[m], down'[link'[m]], h)
  <2>1. Tuned(m) /\ h \in storeHaz \ expired /\ down'[link'[m]] = down[link[m]]
    BY <1>1 DEF KeepsTuned
  <2>2. Shows(seenHaz[m], down[link[m]], h)
    BY <1>1, <2>1 DEF PeersLearnHazards, WillShow
  <2>3. h \in seenHaz[m] => h \in seenHaz'[m]
    BY <1>1 DEF KeepsHazards
  <2> QED BY <2>1, <2>2, <2>3 DEF Shows
<1>2. ASSUME NEW m \in Member \ {Owner}, Tuned(m)', storePlan' # NoPlan
      PROVE  HasPlan(seenPlan'[m], down'[link'[m]], storePlan')
  <2>1. Tuned(m) /\ down'[link'[m]] = down[link[m]] /\ seenPlan'[m] = seenPlan[m]
    BY <1>2 DEF KeepsTuned, KeepsPlan
  <2> QED BY <1>2, <2>1 DEF PeersLearnPlan, WillHavePlan
<1> QED BY <1>1, <1>2 DEF PeersLearnHazards, PeersLearnPlan, WillShow, WillHavePlan

(* A tuned-in device's connection is registered for it and works.          *)
LEMMA TunedEnds ==
  ASSUME TypeOK, LinksAgree, NEW m \in Member, Tuned(m)
  PROVE  link[m] \in Conn /\ pool[link[m]] = m /\ Live(link[m])
BY GatewayAssumption DEF TypeOK, LinksAgree, Tuned, Live

(* Nobody becomes tuned in because somebody dropped a connection.          *)
LEMMA UnlinkTuned ==
  ASSUME TypeOK, LinksAgree, NEW m \in Member, Unlink(m), UNCHANGED pool
  PROVE  KeepsTuned /\ ~Tuned(m)'
<1> DEFINE gone == {c \in Conn : link[m] = c /\ pool[c] = None}
<1>1. /\ link' = [link EXCEPT ![m] = None] /\ cut' = cut \ gone
      /\ down' = [c \in Conn |-> IF link[m] = c THEN <<>> ELSE down[c]]
  BY DEF Unlink
<1>2. ~Tuned(m)'
  BY <1>1 DEF Tuned, TypeOK
<1>3. ASSUME NEW n \in Member, n # m, Tuned(n)'
      PROVE  Tuned(n) /\ link'[n] = link[n] /\ down'[link[n]] = down[link[n]]
  <2>1. link'[n] = link[n] /\ link[n] \in Conn
    BY <1>1, <1>3 DEF Tuned, TypeOK
  <2>2. link[n] # link[m] /\ link[n] \notin gone /\ link[n] \notin cut
    BY <1>1, <1>3, <2>1, GatewayAssumption DEF LinksAgree, Tuned, Live
  <2>3. pool[link[n]] = n
    BY <2>1, <2>2, GatewayAssumption DEF LinksAgree
  <2>4. Tuned(n)
    BY <2>1, <2>2, <2>3, GatewayAssumption DEF Tuned, Live
  <2> QED BY <1>1, <2>1, <2>2, <2>4
<1> QED BY <1>2, <1>3 DEF KeepsTuned

(* What a device that is tuned in and did not send f finds appended.       *)
LEMMA RelayReaches ==
  ASSUME TypeOK, LinksAgree, NEW m \in Member, NEW n, NEW f, Tuned(m),
         down' = Relayed(n, f)
  PROVE  /\ down[link[m]] \in Seq(DownFrame)
         /\ m # n => down'[link[m]] = Append(down[link[m]], f)
         /\ m = n => down'[link[m]] = down[link[m]]
BY TunedEnds DEF Relayed, TypeOK

(* Who is tuned in depends on links, registry and transports only.         *)
LEMMA TunedUnchanged ==
  ASSUME NEW m, UNCHANGED <<pool, link, cut>>
  PROVE  Tuned(m)' <=> Tuned(m)
BY DEF Tuned, Live

(* Nobody is tuned in at first.                                            *)
LEMMA DeliveryInit == Init => PeersLearnHazards /\ PeersLearnPlan
BY DEF Init, PeersLearnHazards, PeersLearnPlan

(* Every step keeps every connected device on its way to all tracked       *)
(* hazards and to the recorded plan.                                       *)
LEMMA DeliveryStep ==
  TypeOK /\ EndsAgree /\ PeersLearnHazards /\ PeersLearnPlan /\ [Next]_vars
    => PeersLearnHazards' /\ PeersLearnPlan'
<1> SUFFICES ASSUME TypeOK, LinksAgree, OwnFrames, LeaderOnly,
                    PeersLearnHazards, PeersLearnPlan, [Next]_vars
             PROVE  PeersLearnHazards' /\ PeersLearnPlan'
  BY DEF EndsAgree
<1> USE DEF serverVars, netVars, clientVars, envVars
<1>1. ASSUME NEW m \in Member, NEW h \in HazardId, Report(m, h) \/ Remove(m, h)
      PROVE  PeersLearnHazards' /\ PeersLearnPlan'
  <2>1. /\ UNCHANGED <<pool, link, cut, down, storeHaz, storePlan, expired, seenPlan>>
        /\ Reporter[h] = m
        /\ \/ seenHaz' = [seenHaz EXCEPT ![m] = @ \cup {h}]
           \/ seenHaz' = [seenHaz EXCEPT ![m] = @ \ {h}]
    BY <1>1 DEF Report, Remove
  <2>2. KeepsTuned /\ KeepsPlan
    BY <2>1, TunedUnchanged DEF KeepsTuned, KeepsPlan
  <2>3. ASSUME NEW n \in Member, NEW g, Reporter[g] # n, g \in seenHaz[n]
        PROVE  g \in seenHaz'[n]
    <3>1. CASE n = m
      <4>1. g # h
        BY <2>1, <2>3, <3>1
      <4> QED BY <2>1, <2>3, <3>1, <4>1 DEF TypeOK
    <3>2. CASE n # m
      BY <2>1, <2>3, <3>2 DEF TypeOK
    <3> QED BY <3>1, <3>2
  <2>4. KeepsHazards
    BY <2>3 DEF KeepsHazards
  <2> QED BY <2>1, <2>2, <2>4, QuietStep
<1>2. ASSUME NEW m \in Member, NEW p \in PlanOrNone, EditPlan(m, p)
      PROVE  PeersLearnHazards' /\ PeersLearnPlan'
  <2>1. /\ UNCHANGED <<pool, link, cut, down, storeHaz, storePlan, expired, seenHaz>>
        /\ m = Owner /\ seenPlan' = [seenPlan EXCEPT ![m] = p]
    BY <1>2 DEF EditPlan
  <2>2. KeepsTuned /\ KeepsHazards
    BY <2>1, TunedUnchanged DEF KeepsTuned, KeepsHazards
  <2>3. KeepsPlan
    BY <2>1 DEF KeepsPlan, TypeOK
  <2> QED BY <2>1, <2>2, <2>3, QuietStep
<1>3. ASSUME NEW m \in Member, NEW c \in Conn, Connect(m, c)
      PROVE  PeersLearnHazards' /\ PeersLearnPlan'
  <2> DEFINE f == [type |-> "replay",
                   arg |-> [hazards |-> storeHaz \ expired, plan |-> storePlan]]
  <2>1. /\ link'[m] = c /\ down'[c] = <<f>> /\ storeHaz' \ expired' = storeHaz \ expired
        /\ UNCHANGED <<storePlan, seenHaz, seenPlan, cut>>
    BY <1>3 DEF Connect, TypeOK
  <2>2. ASSUME NEW n \in Member, n # m, Tuned(n)'
        PROVE  /\ link'[n] = link[n] /\ Tuned(n)
               /\ down'[link[n]] = down[link[n]]
    <3>1. link'[n] = link[n] /\ link[n] \in Conn /\ link[n] # c
      BY <1>3, <2>2 DEF Connect, TypeOK, Tuned, Free
    <3>2. pool'[link[n]] = pool[link[n]] /\ down'[link[n]] = down[link[n]]
      BY <1>3, <3>1 DEF Connect, TypeOK
    <3>3. pool[link[n]] = n
      BY <2>2, <3>1, <3>2 DEF LinksAgree, Tuned, Live
    <3> QED BY <2>1, <2>2, <3>1, <3>2, <3>3, GatewayAssumption DEF Tuned, Live
  <2>3. ASSUME NEW n \in Member, Tuned(n)', NEW h \in storeHaz' \ expired', Reporter[h] # n
        PROVE  Shows(seenHaz'[n], down'[link'[n]], h)
    <3>1. CASE n = m
      <4>1. Adds(f, h) /\ ~Drops(f, h)
        BY <2>1, <2>3 DEF Adds, Drops
      <4> QED BY <2>1, <3>1, <4>1 DEF Shows
    <3>2. CASE n # m
      BY <2>1, <2>2, <2>3, <3>2 DEF PeersLearnHazards, WillShow
    <3> QED BY <3>1, <3>2
  <2>4. ASSUME NEW n \in Member \ {Owner}, Tuned(n)', storePlan' # NoPlan
        PROVE  HasPlan(seenPlan'[n], down'[link'[n]], storePlan')
    <3>1. CASE n = m
      <4>1. SetsPlan(f) /\ PlanIn(f) = storePlan'
        BY <2>1, <2>4 DEF SetsPlan, PlanIn
      <4> QED BY <2>1, <3>1, <4>1 DEF HasPlan
    <3>2. CASE n # m
      BY <2>1, <2>2, <2>4, <3>2 DEF PeersLearnPlan, WillHavePlan
    <3> QED BY <3>1, <3>2
  <2> QED BY <2>3, <2>4 DEF PeersLearnHazards, PeersLearnPlan, WillShow, WillHavePlan
<1>4. ASSUME NEW m \in Member, ClientReceive(m)
      PROVE  PeersLearnHazards' /\ PeersLearnPlan'
  <2> DEFINE in == down[link[m]]
  <2>1. /\ link[m] \in Conn /\ in \in Seq(DownFrame) /\ in # <<>>
        /\ down'[link[m]] = Tail(in) /\ seenHaz'[m] = HazardsAfter(Head(in), seenHaz[m])
        /\ seenPlan'[m] = PlanAfter(Head(in), seenPlan[m])
        /\ UNCHANGED <<pool, link, cut, storeHaz, storePlan, expired>>
    BY <1>4 DEF ClientReceive, TypeOK
  <2>2. ASSUME NEW n \in Member, n # m, Tuned(n)'
        PROVE  /\ Tuned(n) /\ down'[link[n]] = down[link[n]]
               /\ seenHaz'[n] = seenHaz[n] /\ seenPlan'[n] = seenPlan[n]
    <3>1. Tuned(n)
      BY <2>1, <2>2, TunedUnchanged
    <3>2. link[n] \in Conn /\ link[n] # link[m]
      BY <2>2, <3>1, TunedEnds DEF LinksAgree, Tuned
    <3> QED BY <1>4, <3>1, <3>2, <2>2 DEF ClientReceive, TypeOK
  <2>3. ASSUME NEW n \in Member, Tuned(n)', NEW h \in storeHaz' \ expired', Reporter[h] # n
        PROVE  Shows(seenHaz'[n], down'[link'[n]], h)
    <3>1. Tuned(n) /\ h \in HazardId /\ Shows(seenHaz[n], down[link[n]], h)
      BY <2>1, <2>3, TunedUnchanged DEF PeersLearnHazards, WillShow, TypeOK
    <3>2. CASE n = m
      <4>1. seenHaz[m] \in SUBSET HazardId
        BY DEF TypeOK
      <4> QED BY <2>1, <3>1, <3>2, <4>1, ShowsTail
    <3>3. CASE n # m
      BY <2>1, <2>2, <2>3, <3>1, <3>3
    <3> QED BY <3>2, <3>3
  <2>4. ASSUME NEW n \in Member \ {Owner}, Tuned(n)', storePlan' # NoPlan
        PROVE  HasPlan(seenPlan'[n], down'[link'[n]], storePlan')
    <3>1. Tuned(n) /\ HasPlan(seenPlan[n], down[link[n]], storePlan)
      BY <2>1, <2>4, TunedUnchanged DEF PeersLearnPlan, WillHavePlan
    <3>2. CASE n = m
      BY <2>1, <3>1, <3>2, HasPlanTail
    <3>3. CASE n # m
      BY <2>1, <2>2, <2>4, <3>1, <3>3
    <3> QED BY <3>2, <3>3
  <2> QED BY <2>3, <2>4 DEF PeersLearnHazards, PeersLearnPlan, WillShow, WillHavePlan
<1>5. ASSUME NEW m \in Member, PruneExpired(m)
      PROVE  PeersLearnHazards' /\ PeersLearnPlan'
  <2>1. /\ UNCHANGED <<pool, link, cut, down, storeHaz, storePlan, expired, seenPlan>>
        /\ seenHaz' = [seenHaz EXCEPT ![m] = @ \ expired]
    BY <1>5 DEF PruneExpired
  <2>2. KeepsTuned /\ KeepsPlan
    BY <2>1, TunedUnchanged DEF KeepsTuned, KeepsPlan
  <2>3. KeepsHazards
    BY <2>1 DEF KeepsHazards, TypeOK
  <2> QED BY <2>1, <2>2, <2>3, QuietStep
<1>6. ASSUME NEW c \in Conn, HandleHazard(c)
      PROVE  PeersLearnHazards' /\ PeersLearnPlan'
  <2> DEFINE f == Head(up[c])
  <2>1. /\ UNCHANGED <<pool, link, cut, storePlan, expired, seenHaz, seenPlan>>
        /\ up[c] # <<>> /\ f.type # "tour"
        /\ \/ down' = down /\ storeHaz' = storeHaz
           \/ down' = Relayed(pool[c], f) /\ storeHaz' = HazardsAfter(f, storeHaz)
    BY <1>6 DEF HandleHazard
  <2>2. f \in UpFrame /\ f \in DownFrame /\ SentBy(pool[c], f)
    BY <2>1, FrameTypes DEF TypeOK, OwnFrames
  <2>3. CASE down' = down /\ storeHaz' = storeHaz
    <3>1. KeepsTuned /\ KeepsHazards /\ KeepsPlan
      BY <2>1, <2>3, TunedUnchanged DEF KeepsTuned, KeepsHazards, KeepsPlan
    <3> QED BY <2>1, <2>3, <3>1, QuietStep
  <2>4. CASE down' = Relayed(pool[c], f) /\ storeHaz' = HazardsAfter(f, storeHaz)
    <3>1. ASSUME NEW n \in Member, Tuned(n)', NEW h \in storeHaz' \ expired', Reporter[h] # n
          PROVE  Shows(seenHaz'[n], down'[link'[n]], h)
      <4>1. Tuned(n) /\ h \in HazardId /\ h \notin expired
        BY <2>1, <2>4, <3>1, TunedUnchanged DEF HazardsAfter
      <4>2. Adds(f, h) \/ (h \in storeHaz /\ ~Drops(f, h))
        BY <2>4, <3>1 DEF HazardsAfter
      <4>3. h \in storeHaz => Shows(seenHaz[n], down[link[n]], h)
        BY <3>1, <4>1 DEF PeersLearnHazards, WillShow
      <4>4. CASE n = pool[c]
        <5>1. ~Adds(f, h)
          BY <2>2, <3>1, <4>4 DEF Adds, SentBy, UpFrame
        <5> QED BY <2>1, <2>4, <4>1, <4>2, <4>3, <4>4, <5>1, RelayReaches
      <4>5. CASE n # pool[c]
        <5>1. /\ down'[link[n]] = Append(down[link[n]], f)
              /\ down[link[n]] \in Seq(DownFrame) /\ seenHaz[n] \in SUBSET HazardId
          BY <2>4, <4>1, <4>5, RelayReaches DEF TypeOK
        <5>2. Shows(seenHaz[n], Append(down[link[n]], f), h)
          BY <2>2, <4>1, <4>2, <4>3, <5>1, ShowsAppend
        <5> QED BY <2>1, <5>1, <5>2
      <4> QED BY <4>4, <4>5
    <3>2. ASSUME NEW n \in Member \ {Owner}, Tuned(n)', storePlan' # NoPlan
          PROVE  HasPlan(seenPlan'[n], down'[link'[n]], storePlan')
      <4>1. Tuned(n) /\ HasPlan(seenPlan[n], down[link[n]], storePlan)
        BY <2>1, <3>2, TunedUnchanged DEF PeersLearnPlan, WillHavePlan
      <4>2. ~SetsPlan(f)
        BY <2>1, <2>2 DEF SetsPlan, UpFrame
      <4>3. /\ down[link[n]] \in Seq(DownFrame)
            /\ \/ down'[link[n]] = down[link[n]]
               \/ down'[link[n]] = Append(down[link[n]], f)
        BY <2>4, <4>1, RelayReaches
      <4>4. HasPlan(seenPlan[n], Append(down[link[n]], f), storePlan)
        BY <2>2, <4>1, <4>2, <4>3, HasPlanAppend
      <4> QED BY <2>1, <4>1, <4>3, <4>4
    <3> QED BY <3>1, <3>2 DEF PeersLearnHazards, PeersLearnPlan, WillShow, WillHavePlan
  <2> QED BY <2>1, <2>3, <2>4
<1>7. ASSUME NEW i \in DOMAIN pending, ResumeTour(i)
      PROVE  PeersLearnHazards' /\ PeersLearnPlan'
  <2> DEFINE f == [type |-> "tour", arg |-> pending[i].plan]
  <2>1. /\ UNCHANGED <<pool, link, cut, storeHaz, expired, seenHaz, seenPlan>>
        /\ \/ down' = down /\ storePlan' = storePlan
           \/ /\ pending[i].leader = "yes" /\ storePlan' = pending[i].plan
              /\ down' = Relayed(pending[i].from, f)
    BY <1>7 DEF ResumeTour
  <2>2. i \in 1 .. Len(pending) /\ pending[i] \in Lookup
    BY DEF TypeOK
  <2>3. f \in DownFrame
    BY <2>2, FrameTypes DEF Lookup
  <2>4. CASE down' = down /\ storePlan' = storePlan
    <3>1. KeepsTuned /\ KeepsHazards /\ KeepsPlan
      BY <2>1, <2>4, TunedUnchanged DEF KeepsTuned, KeepsHazards, KeepsPlan
    <3> QED BY <2>1, <2>4, <3>1, QuietStep
  <2>5. CASE /\ pending[i].leader = "yes" /\ storePlan' = pending[i].plan
             /\ down' = Relayed(pending[i].from, f)
    <3>1. pending[i].from = Owner
      BY <2>2, <2>5 DEF LeaderOnly
    <3>2. ASSUME NEW n \in Member, Tuned(n)', NEW h \in storeHaz' \ expired', Reporter[h] # n
          PROVE  Shows(seenHaz'[n], down'[link'[n]], h)
      <4>1. Tuned(n) /\ h \in HazardId /\ Shows(seenHaz[n], down[link[n]], h)
        BY <2>1, <3>2, TunedUnchanged DEF PeersLearnHazards, WillShow, TypeOK
      <4>2. /\ down[link[n]] \in Seq(DownFrame) /\ seenHaz[n] \in SUBSET HazardId
            /\ \/ down'[link[n]] = down[link[n]]
               \/ down'[link[n]] = Append(down[link[n]], f)
        BY <2>5, <4>1, RelayReaches DEF TypeOK
      <4>3. ~Drops(f, h)
        BY DEF Drops
      <4>4. Shows(seenHaz[n], Append(down[link[n]], f), h)
        BY <2>3, <4>1, <4>2, <4>3, ShowsAppend
      <4> QED BY <2>1, <4>1, <4>2, <4>4
    <3>3. ASSUME NEW n \in Member \ {Owner}, Tuned(n)', storePlan' # NoPlan
          PROVE  HasPlan(seenPlan'[n], down'[link'[n]], storePlan')
      <4>1. Tuned(n)
        BY <2>1, <3>3, TunedUnchanged
      <4>2. /\ down'[link[n]] = Append(down[link[n]], f)
            /\ down[link[n]] \in Seq(DownFrame)
        BY <2>5, <3>1, <3>3, <4>1, RelayReaches
      <4>3. SetsPlan(f) /\ PlanIn(f) = storePlan'
        BY <2>5 DEF SetsPlan, PlanIn
      <4>4. HasPlan(seenPlan[n], Append(down[link[n]], f), storePlan')
        BY <2>3, <4>2, <4>3, HasPlanAppend
      <4> QED BY <2>1, <4>2, <4>4
    <3> QED BY <3>2, <3>3 DEF PeersLearnHazards, PeersLearnPlan, WillShow, WillHavePlan
  <2> QED BY <2>1, <2>4, <2>5
<1>8. ASSUME NEW c \in Conn, Cut(c)
      PROVE  PeersLearnHazards' /\ PeersLearnPlan'
  <2>1. /\ UNCHANGED <<pool, link, storeHaz, storePlan, expired, seenHaz, seenPlan>>
        /\ cut' = cut \cup {c} /\ down' = [down EXCEPT ![c] = <<>>]
    BY <1>8 DEF Cut
  <2>2. KeepsTuned
    BY <2>1 DEF KeepsTuned, Tuned, Live, TypeOK
  <2>3. KeepsHazards /\ KeepsPlan
    BY <2>1 DEF KeepsHazards, KeepsPlan
  <2> QED BY <2>1, <2>2, <2>3, QuietStep
<1>9. ASSUME NEW m \in Member, \/ ChannelLost(m) \/ InboundSilence(m)
                              \/ RosterChange(m) \/ AppRestart(m) \/ Leave(m)
      PROVE  PeersLearnHazards' /\ PeersLearnPlan'
  <2>1. /\ Unlink(m) /\ UNCHANGED <<pool, storeHaz, storePlan, expired>>
        /\ seenHaz' = seenHaz \/ seenHaz' = [seenHaz EXCEPT ![m] = {}]
        /\ seenPlan' = seenPlan \/ seenPlan' = [seenPlan EXCEPT ![m] = NoPlan]
    BY <1>9 DEF ChannelLost, InboundSilence, RosterChange, AppRestart, Leave, Reset
  <2>2. KeepsTuned /\ ~Tuned(m)'
    BY <2>1, UnlinkTuned
  <2>3. KeepsHazards /\ KeepsPlan
    BY <2>1, <2>2 DEF KeepsHazards, KeepsPlan, TypeOK
  <2> QED BY <2>1, <2>2, <2>3, QuietStep
<1>10. ASSUME NEW c \in Conn, CloseSocket(c)
       PROVE  PeersLearnHazards' /\ PeersLearnPlan'
  <2>1. /\ UNCHANGED <<link, down, storeHaz, storePlan, expired, seenHaz, seenPlan>>
        /\ c \in cut \/ link[pool[c]] # c
        /\ pool' = [pool EXCEPT ![c] = None] /\ cut' \subseteq cut /\ cut \subseteq cut' \cup {c}
    BY <1>10 DEF CloseSocket
  <2>2. KeepsTuned
    <3> SUFFICES ASSUME NEW n \in Member, Tuned(n)'
                 PROVE  Tuned(n)
      BY <2>1 DEF KeepsTuned
    <3>1. link[n] \in Conn /\ link[n] # c
      BY <2>1 DEF Tuned, Live, TypeOK
    <3>2. pool'[link[n]] = pool[link[n]] /\ link[n] \notin cut
      BY <2>1, <3>1 DEF TypeOK, Tuned, Live
    <3> QED BY <2>1, <3>2 DEF Tuned, Live
  <2>3. KeepsHazards /\ KeepsPlan
    BY <2>1 DEF KeepsHazards, KeepsPlan
  <2> QED BY <2>1, <2>2, <2>3, QuietStep
<1>11. ASSUME ServerRestart
       PROVE  PeersLearnHazards' /\ PeersLearnPlan'
  <2>1. \A n \in Member : ~Tuned(n)'
    BY <1>11 DEF ServerRestart, Tuned, Live, TypeOK
  <2> QED BY <2>1 DEF PeersLearnHazards, PeersLearnPlan
<1>12. ASSUME UNCHANGED <<pool, link, cut, down, storeHaz, storePlan, seenHaz, seenPlan>>,
              expired \subseteq expired'
       PROVE  PeersLearnHazards' /\ PeersLearnPlan'
  <2>1. KeepsTuned /\ KeepsHazards /\ KeepsPlan
    BY <1>12, TunedUnchanged DEF KeepsTuned, KeepsHazards, KeepsPlan
  <2> QED BY <1>12, <2>1, QuietStep
<1>13. ASSUME NEW m \in Member, ClientReady(m) \/ Join(m)
       PROVE  PeersLearnHazards' /\ PeersLearnPlan'
  BY <1>12, <1>13 DEF ClientReady, Join
<1>14. ASSUME NEW c \in Conn, HandleTour(c)
       PROVE  PeersLearnHazards' /\ PeersLearnPlan'
  BY <1>12, <1>14 DEF HandleTour
<1>15. ASSUME NEW i \in DOMAIN pending, ResolveLeader(i)
       PROVE  PeersLearnHazards' /\ PeersLearnPlan'
  BY <1>12, <1>15 DEF ResolveLeader
<1>16. ASSUME NEW h \in HazardId, Expire(h)
       PROVE  PeersLearnHazards' /\ PeersLearnPlan'
  BY <1>12, <1>16 DEF Expire
<1>17. CASE UNCHANGED vars
  BY <1>12, <1>17 DEF vars
<1> QED
  BY <1>1, <1>2, <1>3, <1>4, <1>5, <1>6, <1>7, <1>8, <1>9, <1>10, <1>11, <1>13,
     <1>14, <1>15, <1>16, <1>17 DEF Next, System, Environment

(* The inductive invariant.                                                *)
DeliveryInv == TypeOK /\ EndsAgree /\ PeersLearnHazards /\ PeersLearnPlan

(* It holds in every state.                                                *)
LEMMA DeliveryInvariant == Spec => []DeliveryInv
<1>1. Init => DeliveryInv
  BY TypeInit, EndsInit, DeliveryInit DEF DeliveryInv
<1>2. DeliveryInv /\ [Next]_vars => DeliveryInv'
  BY TypeStep, EndsStep, DeliveryStep DEF DeliveryInv
<1> QED BY <1>1, <1>2, PTL DEF Spec

(* Connecting leaves no gap: in every state, what the gateway tracks is on *)
(* the device of everybody connected, or on its way there.                 *)
THEOREM HazardsReachPeers == Spec => []PeersLearnHazards
<1>1. DeliveryInv => PeersLearnHazards
  BY DEF DeliveryInv
<1> QED BY <1>1, DeliveryInvariant, PTL

(* Everybody connected, the leader apart, ends with the recorded plan.     *)
THEOREM PlanReachesPeers == Spec => []PeersLearnPlan
<1>1. DeliveryInv => PeersLearnPlan
  BY DEF DeliveryInv
<1> QED BY <1>1, DeliveryInvariant, PTL

-----------------------------------------------------------------------------
(* No echo.                                                                *)

(* No report on its way to a device is the device's own: its own pins can  *)
(* only be in a replay.                                                    *)
NoOwnReport(m, s) ==
  \A i \in 1 .. Len(s) : s[i].type = "hazard" => Reporter[s[i].arg] # m

NoEchoes == \A m \in Member : link[m] # None => NoOwnReport(m, down[link[m]])

(* A device that drops its connection leaves the others' as they are.      *)
LEMMA UnlinkNoEchoes ==
  ASSUME TypeOK, LinksAgree, NoEchoes, NEW m \in Member, Unlink(m)
  PROVE  NoEchoes'
<1>1. ASSUME NEW n \in Member, link'[n] # None
      PROVE  NoOwnReport(n, down'[link'[n]])
  <2>1. n # m /\ link'[n] = link[n] /\ link[n] \in Conn
    BY <1>1 DEF Unlink, TypeOK
  <2>2. link[m] # link[n]
    BY <1>1, <2>1 DEF LinksAgree
  <2>3. down'[link[n]] = down[link[n]]
    BY <2>1, <2>2 DEF Unlink
  <2> QED BY <1>1, <2>1, <2>3 DEF NoEchoes
<1> QED BY <1>1 DEF NoEchoes, NoOwnReport

(* Relaying to all but a report's author brings the author nothing.        *)
LEMMA RelayNoEchoes ==
  ASSUME TypeOK, LinksAgree, NoEchoes, NEW m, NEW f \in DownFrame,
         down' = Relayed(m, f), link' = link, f.type = "hazard" => Reporter[f.arg] = m
  PROVE  NoEchoes'
<1>1. ASSUME NEW n \in Member, link[n] # None
      PROVE  NoOwnReport(n, down'[link[n]])
  <2>1. link[n] \in Conn /\ down[link[n]] \in Seq(DownFrame) /\ NoOwnReport(n, down[link[n]])
    BY <1>1 DEF TypeOK, NoEchoes
  <2>2. CASE Live(link[n]) /\ pool[link[n]] # m
    <3>1. pool[link[n]] = n
      BY <1>1, <2>2 DEF Live, LinksAgree, TypeOK
    <3>2. down'[link[n]] = Append(down[link[n]], f) /\ n # m
      BY <2>1, <2>2, <3>1 DEF Relayed
    <3>3. f.type = "hazard" => Reporter[f.arg] # n
      BY <3>2
    <3> HIDE DEF NoOwnReport
    <3>4. ASSUME NEW s \in Seq(DownFrame), NoOwnReport(n, s)
          PROVE  NoOwnReport(n, Append(s, f))
      BY <3>3, <3>4 DEF NoOwnReport
    <3> QED BY <2>1, <3>2, <3>4
  <2>3. CASE ~(Live(link[n]) /\ pool[link[n]] # m)
    BY <2>1, <2>3 DEF Relayed
  <2> QED BY <2>2, <2>3
<1> QED BY <1>1 DEF NoEchoes, NoOwnReport

(* Every step of gateway, devices and environment keeps echoes out.        *)
LEMMA NoEchoesStep ==
  TypeOK /\ LinksAgree /\ OwnFrames /\ NoEchoes /\ [Next]_vars => NoEchoes'
<1> SUFFICES ASSUME TypeOK, LinksAgree, OwnFrames, NoEchoes, [Next]_vars
             PROVE  NoEchoes'
  OBVIOUS
<1> USE DEF serverVars, netVars, clientVars, envVars
<1>1. CASE UNCHANGED <<link, down>>
  BY <1>1 DEF NoEchoes, NoOwnReport
<1>2. ASSUME NEW m \in Member, NEW c \in Conn, Connect(m, c)
      PROVE  NoEchoes'
  <2> DEFINE f == [type |-> "replay",
                   arg |-> [hazards |-> storeHaz \ expired, plan |-> storePlan]]
  <2>1. /\ link' = [link EXCEPT ![m] = c] /\ down' = [down EXCEPT ![c] = <<f>>]
        /\ \A n \in Member : link[n] # c
    BY <1>2 DEF Connect, Free
  <2>2. Len(<<f>>) = 1 /\ <<f>>[1] = f /\ f.type # "hazard"
    OBVIOUS
  <2> HIDE DEF f
  <2>3. ASSUME NEW n \in Member, link'[n] # None
        PROVE  NoOwnReport(n, down'[link'[n]])
    <3>1. CASE n = m
      BY <2>1, <2>2, <3>1 DEF NoOwnReport, TypeOK
    <3>2. CASE n # m
      BY <2>1, <2>3, <3>2 DEF NoEchoes, TypeOK
    <3> QED BY <3>1, <3>2
  <2> QED BY <2>3 DEF NoEchoes, NoOwnReport
<1>3. ASSUME NEW m \in Member, ClientReceive(m)
      PROVE  NoEchoes'
  <2>1. /\ link' = link /\ link[m] \in Conn /\ link[m] # None
        /\ down' = [down EXCEPT ![link[m]] = Tail(@)] /\ down[link[m]] # <<>>
        /\ down[link[m]] \in Seq(DownFrame)
    BY <1>3 DEF ClientReceive, TypeOK
  <2>2. ASSUME NEW s \in Seq(DownFrame), s # <<>>, NoOwnReport(m, s)
        PROVE  NoOwnReport(m, Tail(s))
    BY <2>2 DEF NoOwnReport
  <2>3. ASSUME NEW n \in Member, link[n] # None
        PROVE  NoOwnReport(n, down'[link[n]])
    <3>1. CASE n = m
      BY <2>1, <2>2, <3>1 DEF NoEchoes, TypeOK
    <3>2. CASE n # m
      BY <2>1, <2>3, <3>2 DEF NoEchoes, LinksAgree, TypeOK
    <3> QED BY <3>1, <3>2
  <2> QED BY <2>1, <2>3 DEF NoEchoes, NoOwnReport
<1>4. ASSUME NEW c \in Conn, HandleHazard(c)
      PROVE  NoEchoes'
  <2> DEFINE f == Head(up[c])
  <2>1. /\ link' = link /\ up[c] # <<>> /\ f.type # "tour"
        /\ down' = down \/ down' = Relayed(pool[c], f)
    BY <1>4 DEF HandleHazard
  <2>2. f \in DownFrame /\ SentBy(pool[c], f)
    BY <2>1, FrameTypes DEF TypeOK, OwnFrames
  <2> HIDE DEF f
  <2> QED BY <1>1, <2>1, <2>2, RelayNoEchoes DEF SentBy
<1>5. ASSUME NEW i \in DOMAIN pending, ResumeTour(i)
      PROVE  NoEchoes'
  <2> DEFINE f == [type |-> "tour", arg |-> pending[i].plan]
  <2>1. link' = link /\ (down' = down \/ down' = Relayed(pending[i].from, f))
    BY <1>5 DEF ResumeTour
  <2>2. pending[i] \in Lookup /\ i \in 1 .. Len(pending)
    BY DEF TypeOK
  <2>3. f \in DownFrame /\ f.type # "hazard"
    BY <2>2, FrameTypes DEF Lookup
  <2> HIDE DEF f
  <2> QED BY <1>1, <2>1, <2>3, RelayNoEchoes
<1>6. ASSUME NEW c \in Conn, Cut(c)
      PROVE  NoEchoes'
  <2>1. link' = link /\ down' = [down EXCEPT ![c] = <<>>]
    BY <1>6 DEF Cut
  <2>2. ASSUME NEW n \in Member, link[n] # None
        PROVE  NoOwnReport(n, down'[link[n]])
    <3>1. CASE link[n] = c
      BY <2>1, <3>1 DEF NoOwnReport, TypeOK
    <3>2. CASE link[n] # c
      BY <2>1, <2>2, <3>2 DEF NoEchoes, TypeOK
    <3> QED BY <3>1, <3>2
  <2> QED BY <2>1, <2>2 DEF NoEchoes, NoOwnReport
<1>7. ASSUME NEW m \in Member, \/ ChannelLost(m) \/ InboundSilence(m) \/ RosterChange(m)
                               \/ AppRestart(m) \/ Leave(m)
      PROVE  NoEchoes'
  <2>1. Unlink(m)
    BY <1>7 DEF ChannelLost, InboundSilence, RosterChange, AppRestart, Leave, Reset
  <2> QED BY <2>1, UnlinkNoEchoes
<1>8. ASSUME ServerRestart
      PROVE  NoEchoes'
  <2>1. link' = link /\ down' = [c \in Conn |-> <<>>]
    BY <1>8 DEF ServerRestart
  <2>2. ASSUME NEW n \in Member, link[n] # None
        PROVE  NoOwnReport(n, down'[link[n]])
    BY <2>1, <2>2 DEF NoOwnReport, TypeOK
  <2> QED BY <2>1, <2>2 DEF NoEchoes, NoOwnReport
<1>9. ASSUME NEW m \in Member,
             \/ ClientReady(m) \/ PruneExpired(m) \/ Join(m)
             \/ \E p \in PlanOrNone : EditPlan(m, p)
             \/ \E h \in HazardId : Report(m, h) \/ Remove(m, h)
      PROVE  NoEchoes'
  BY <1>1, <1>9 DEF ClientReady, PruneExpired, Join, EditPlan, Report, Remove
<1>10. ASSUME NEW c \in Conn, HandleTour(c) \/ CloseSocket(c)
       PROVE  NoEchoes'
  BY <1>1, <1>10 DEF HandleTour, CloseSocket
<1>11. CASE UNCHANGED vars
  BY <1>1, <1>11 DEF vars
<1> QED
  BY <1>1, <1>2, <1>3, <1>4, <1>5, <1>6, <1>7, <1>8, <1>9, <1>10, <1>11
  DEF Next, System, Environment, ResolveLeader, Expire

(* Echoes stay out in every reachable state.                               *)
LEMMA EchoesStayOut == Spec => [](TypeOK /\ EndsAgree /\ NoEchoes)
<1>1. Init => NoEchoes
  BY DEF Init, NoEchoes
<1>2. TypeOK /\ EndsAgree /\ NoEchoes /\ [Next]_vars => NoEchoes'
  BY NoEchoesStep DEF EndsAgree
<1> QED BY <1>1, <1>2, TypeCorrect, EndsAlwaysAgree, PTL DEF Spec

(* Whatever is cut, replaced, restarted or left: a pin that is gone from   *)
(* its reporter's device comes back there only with the replay of a new    *)
(* connection.                                                             *)
THEOREM RemovedReturnsByReplayOnly == Spec => RemovedPinOnlyReplayed
<1>1. TypeOK /\ NoEchoes /\ [Next]_vars
        => \A m \in Member : \A h \in seenHaz'[m] \ seenHaz[m] :
             Reporter[h] = m /\ h \in reported =>
               /\ m \in ready /\ down[link[m]] # <<>>
               /\ Head(down[link[m]]).type = "replay"
  <2> SUFFICES ASSUME TypeOK, NoEchoes, [Next]_vars, NEW m \in Member,
                      NEW h \in seenHaz'[m] \ seenHaz[m], Reporter[h] = m, h \in reported
               PROVE  /\ m \in ready /\ down[link[m]] # <<>>
                      /\ Head(down[link[m]]).type = "replay"
    OBVIOUS
  <2> USE DEF serverVars, netVars, clientVars, envVars
  <2>1. ASSUME NEW n \in Member, NEW g \in HazardId, Report(n, g) \/ Remove(n, g)
        PROVE  FALSE
    <3>1. CASE Report(n, g)
      <4>1. g \notin reported /\ seenHaz' = [seenHaz EXCEPT ![n] = @ \cup {g}]
        BY <3>1 DEF Report
      <4>2. h = g
        BY <4>1 DEF TypeOK
      <4> QED BY <4>1, <4>2
    <3>2. CASE Remove(n, g)
      <4>1. seenHaz' = [seenHaz EXCEPT ![n] = @ \ {g}]
        BY <3>2 DEF Remove
      <4> QED BY <4>1 DEF TypeOK
    <3> QED BY <2>1, <3>1, <3>2
  <2>2. ASSUME NEW n \in Member, ClientReceive(n)
        PROVE  n = m /\ m \in ready /\ down[link[m]] # <<>>
               /\ Head(down[link[m]]).type = "replay"
    <3> DEFINE f == Head(down[link[n]])
    <3>1. /\ n \in ready /\ link[n] # None /\ down[link[n]] # <<>>
          /\ down[link[n]] \in Seq(DownFrame)
          /\ seenHaz' = [seenHaz EXCEPT ![n] = HazardsAfter(f, @)]
      BY <2>2 DEF ClientReceive, TypeOK
    <3>2. f.type = "hazard" => Reporter[f.arg] # n
      BY <3>1 DEF NoEchoes, NoOwnReport
    <3> HIDE DEF f
    <3>3. n = m /\ Adds(f, h)
      BY <3>1 DEF HazardsAfter, TypeOK
    <3> QED BY <3>1, <3>2, <3>3 DEF Adds, f
  <2>3. ASSUME NEW n \in Member, \/ PruneExpired(n) \/ AppRestart(n) \/ Leave(n)
        PROVE  FALSE
    <3>1. \/ seenHaz' = [seenHaz EXCEPT ![n] = @ \ expired]
          \/ seenHaz' = [seenHaz EXCEPT ![n] = {}]
      BY <2>3 DEF PruneExpired, AppRestart, Leave, Reset
    <3>2. seenHaz \in [Member -> SUBSET HazardId]
      BY DEF TypeOK
    <3> QED BY <3>1, <3>2
  <2>4. CASE seenHaz' = seenHaz
    BY <2>4
  <2>5. \/ \E n \in Member, g \in HazardId : Report(n, g) \/ Remove(n, g)
        \/ \E n \in Member : ClientReceive(n) \/ PruneExpired(n) \/ AppRestart(n) \/ Leave(n)
        \/ seenHaz' = seenHaz
    BY DEF Next, System, Environment, vars, EditPlan, Connect, ClientReady, Join, HandleHazard,
           HandleTour, ResolveLeader, ResumeTour, Expire, Cut, ChannelLost, CloseSocket,
           RosterChange, InboundSilence, ServerRestart
  <2> HIDE DEF serverVars, netVars, clientVars, envVars
  <2> QED BY <2>1, <2>2, <2>3, <2>4, <2>5
<1> QED BY <1>1, EchoesStayOut, PTL DEF Spec, RemovedPinOnlyReplayed
=============================================================================

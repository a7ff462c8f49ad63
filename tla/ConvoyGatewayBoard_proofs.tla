--------------------- MODULE ConvoyGatewayBoard_proofs ---------------------
(***************************************************************************)
(* The single-process gateway implements the abstract board, for any       *)
(* members, connections, hazards and plans, and for any budget of          *)
(* failures: every step changes what ConvoyBoard allows, or nothing of it. *)
(***************************************************************************)
EXTENDS ConvoyGatewayBoard, ConvoyGateway_proofs

(* What a frame put behind the others does to the hazards a device ends    *)
(* with is what it does to a set of hazards.                               *)
LEMMA ShowsAppendExact ==
  ASSUME NEW S \in SUBSET HazardId, NEW in \in Seq(DownFrame), NEW f \in DownFrame,
         NEW h \in HazardId
  PROVE  Shows(S, Append(in, f), h) <=> Adds(f, h) \/ (Shows(S, in, h) /\ ~Drops(f, h))
<1> DEFINE s == Append(in, f)
<1>1. Len(s) = Len(in) + 1 /\ s[Len(s)] = f /\ Len(in) \in Nat
  OBVIOUS
<1>2. \A i \in 1 .. Len(in) : i \in 1 .. Len(s) /\ s[i] = in[i]
  OBVIOUS
<1>3. ASSUME Shows(S, s, h), ~Adds(f, h)
      PROVE  Shows(S, in, h) /\ ~Drops(f, h)
  <2> HIDE DEF s
  <2>1. \A i \in 1 .. Len(s) : Adds(s[i], h) => i \in 1 .. Len(in)
    BY <1>1, <1>3
  <2>2. ~Drops(f, h)
    BY <1>1, <1>3, <2>1 DEF Shows
  <2>3. \A i \in 1 .. Len(in) : Drops(in[i], h) => \E j \in i + 1 .. Len(in) : Adds(in[j], h)
    <3> SUFFICES ASSUME NEW i \in 1 .. Len(in), Drops(in[i], h)
                 PROVE  \E j \in i + 1 .. Len(in) : Adds(in[j], h)
      OBVIOUS
    <3>1. PICK j \in i + 1 .. Len(s) : Adds(s[j], h)
      BY <1>2, <1>3 DEF Shows
    <3>2. j \in 1 .. Len(in)
      BY <1>1, <2>1, <3>1
    <3> QED BY <1>2, <3>1, <3>2
  <2>4. h \in S \/ \E i \in 1 .. Len(in) : Adds(in[i], h)
    BY <1>2, <1>3, <2>1 DEF Shows
  <2> QED BY <2>2, <2>3, <2>4 DEF Shows
<1> QED BY <1>3, ShowsAppend

(* Handling the next frame changes nothing about what a device ends with.  *)
LEMMA ShowsTailExact ==
  ASSUME NEW S \in SUBSET HazardId, NEW in \in Seq(DownFrame), in # <<>>, NEW h \in HazardId
  PROVE  Shows(HazardsAfter(Head(in), S), Tail(in), h) <=> Shows(S, in, h)
<1> DEFINE s == Tail(in)
<1>1. Len(in) \in Nat /\ Len(in) > 0 /\ Head(in) = in[1] /\ Len(s) = Len(in) - 1
  OBVIOUS
<1>2. \A i \in 1 .. Len(s) : i + 1 \in 1 .. Len(in) /\ s[i] = in[i + 1]
  OBVIOUS
<1>3. h \in HazardsAfter(in[1], S) <=> Adds(in[1], h) \/ (h \in S /\ ~Drops(in[1], h))
  BY DEF HazardsAfter
<1>4. ASSUME Shows(HazardsAfter(in[1], S), s, h)
      PROVE  Shows(S, in, h)
  <2> HIDE DEF s
  <2>1. \A i \in 2 .. Len(in) : i - 1 \in 1 .. Len(s) /\ in[i] = s[i - 1]
    BY <1>1, <1>2
  <2>2. ASSUME \E i \in 1 .. Len(s) : Adds(s[i], h)
        PROVE  \E i \in 2 .. Len(in) : Adds(in[i], h)
    <3>1. PICK i \in 1 .. Len(s) : Adds(s[i], h)
      BY <2>2
    <3> QED BY <1>1, <1>2, <3>1
  <2>3. h \in S \/ \E i \in 1 .. Len(in) : Adds(in[i], h)
    BY <1>1, <1>3, <1>4, <2>2 DEF Shows
  <2>4. ASSUME Drops(in[1], h)
        PROVE  \E j \in 2 .. Len(in) : Adds(in[j], h)
    <3>1. ~Adds(in[1], h)
      BY <2>4 DEF Adds, Drops
    <3> QED BY <1>3, <1>4, <2>2, <2>4, <3>1 DEF Shows
  <2>5. ASSUME NEW i \in 2 .. Len(in), Drops(in[i], h)
        PROVE  \E j \in i + 1 .. Len(in) : Adds(in[j], h)
    <3>1. PICK k \in (i - 1) + 1 .. Len(s) : Adds(s[k], h)
      BY <1>4, <2>1, <2>5 DEF Shows
    <3>2. k + 1 \in i + 1 .. Len(in) /\ in[k + 1] = s[k]
      BY <1>1, <1>2, <3>1
    <3> QED BY <3>1, <3>2
  <2>6. \A i \in 1 .. Len(in) : Drops(in[i], h) => \E j \in i + 1 .. Len(in) : Adds(in[j], h)
    BY <1>1, <2>4, <2>5
  <2> QED BY <2>3, <2>6 DEF Shows
<1> QED BY <1>1, <1>4, ShowsTail

(* A device ends with one plan.                                            *)
LEMMA OnePlan ==
  ASSUME NEW q, NEW in \in Seq(DownFrame), NEW p, NEW r, HasPlan(q, in, p), HasPlan(q, in, r)
  PROVE  p = r
<1>1. Len(in) \in Nat
  OBVIOUS
<1>2. CASE \A i \in 1 .. Len(in) : ~SetsPlan(in[i])
  BY <1>2 DEF HasPlan
<1>3. CASE \E i \in 1 .. Len(in) : SetsPlan(in[i])
  <2>1. PICK i \in 1 .. Len(in) : /\ SetsPlan(in[i]) /\ PlanIn(in[i]) = p
                                  /\ \A j \in i + 1 .. Len(in) : ~SetsPlan(in[j])
    BY <1>3 DEF HasPlan
  <2>2. PICK k \in 1 .. Len(in) : /\ SetsPlan(in[k]) /\ PlanIn(in[k]) = r
                                  /\ \A j \in k + 1 .. Len(in) : ~SetsPlan(in[j])
    BY <1>3 DEF HasPlan
  <2>3. i = k
    BY <1>1, <2>1, <2>2
  <2> QED BY <2>1, <2>2, <2>3
<1> QED BY <1>2, <1>3

(* The plan that DueOf chooses.                                            *)
EndPlan(q, in) == CHOOSE p \in PlanOrNone : HasPlan(q, in, p)

(* The plan a device ends with is the one its frames make it end with.     *)
LEMMA EndPlanIs ==
  ASSUME NEW q, NEW in \in Seq(DownFrame), NEW p \in PlanOrNone, HasPlan(q, in, p)
  PROVE  EndPlan(q, in) = p
<1>1. \A r : HasPlan(q, in, r) => r = p
  BY OnePlan
<1> QED BY <1>1 DEF EndPlan

-----------------------------------------------------------------------------
(* Connected devices and what they are due.                                *)

(* Whoever is tuned in ends with a plan.  (The leader's does not matter:   *)
(* the board says nothing about it.)                                       *)
Decided == \A m \in Member \ {Owner} : Tuned(m) => \E p \in PlanOrNone : WillHavePlan(m, p)

(* What m is due does not change, except that hazards may expire.          *)
SameView(m) ==
  /\ Tuned(m)' <=> Tuned(m)
  /\ Tuned(m) => /\ down'[link'[m]] = down[link[m]]
                 /\ m # Owner => seenPlan'[m] = seenPlan[m]
                 /\ \A h \in HazardId \ expired' :
                      Reporter[h] # m => (h \in seenHaz'[m] <=> h \in seenHaz[m])

(* A device whose view does not change is due what it was, except that     *)
(* hazards may have expired.                                               *)
LEMMA SameDue ==
  ASSUME NEW m \in Member, SameView(m), expired \subseteq expired'
  PROVE  /\ DueOf(m)' = [DueOf(m) EXCEPT !.hazards = @ \ expired']
         /\ expired' = expired => DueOf(m)' = DueOf(m)
         /\ m # Owner => \A p : Tuned(m) /\ WillHavePlan(m, p) => WillHavePlan(m, p)'
<1>1. CASE ~Tuned(m)
  BY <1>1 DEF SameView, DueOf
<1>2. CASE Tuned(m)
  <2>1. /\ Tuned(m)' /\ down'[link'[m]] = down[link[m]]
        /\ m # Owner => seenPlan'[m] = seenPlan[m]
        /\ \A h \in HazardId \ expired' :
             Reporter[h] # m => (h \in seenHaz'[m] <=> h \in seenHaz[m])
    BY <1>2 DEF SameView
  <2>2. \A h \in HazardId \ expired' : Reporter[h] # m => (WillShow(m, h)' <=> WillShow(m, h))
    BY <2>1 DEF WillShow, Shows
  <2>3. m # Owner => \A p : WillHavePlan(m, p)' <=> WillHavePlan(m, p)
    BY <2>1 DEF WillHavePlan
  <2>4. DueOf(m)'.plan = DueOf(m).plan
    <3>1. CASE m = Owner
      BY <1>2, <2>1, <3>1 DEF DueOf
    <3>2. CASE m # Owner
      <4>1. (CHOOSE p \in PlanOrNone : WillHavePlan(m, p)')
              = (CHOOSE p \in PlanOrNone : WillHavePlan(m, p))
        BY <2>3, <3>2
      <4> QED BY <1>2, <2>1, <3>2, <4>1 DEF DueOf, WillHavePlan
    <3> QED BY <3>1, <3>2
  <2>5. DueOf(m)'.hazards = DueOf(m).hazards \ expired'
    BY <1>2, <2>1, <2>2 DEF DueOf
  <2>6. DueOf(m) = [hazards |-> DueOf(m).hazards, plan |-> DueOf(m).plan]
    BY <1>2 DEF DueOf
  <2>7. DueOf(m)' = [hazards |-> DueOf(m)'.hazards, plan |-> DueOf(m)'.plan]
    BY <2>1 DEF DueOf
  <2>8. expired' = expired => DueOf(m).hazards \ expired' = DueOf(m).hazards
    BY <1>2 DEF DueOf
  <2> QED BY <2>3, <2>4, <2>5, <2>6, <2>7, <2>8
<1> QED BY <1>1, <1>2

BoardKept == storeHaz' \ expired' = storeHaz \ expired /\ storePlan' = storePlan

(* A step that nobody notices.                                             *)
LEMMA Unnoticed ==
  ASSUME Decided, BoardKept, expired' = expired, \A m \in Member : SameView(m)
  PROVE  Decided' /\ UNCHANGED Board!boardVars
<1>1. \A m \in Member : DueOf(m)' = DueOf(m)
  BY SameDue
<1>2. TunedIn' = TunedIn
  BY DEF TunedIn, SameView
<1>3. Decided'
  BY SameDue DEF Decided, SameView
<1> QED BY <1>1, <1>2, <1>3 DEF Board!boardVars, BoardKept

(* A step by which m alone, if anybody, loses its connection.              *)
LEMMA OneTunesOut ==
  ASSUME Decided, BoardKept, expired' = expired, NEW m \in Member, ~Tuned(m)',
         \A n \in Member \ {m} : SameView(n)
  PROVE  Decided' /\ Board!TuneOut(m)
<1>1. \A n \in Member \ {m} : DueOf(n)' = DueOf(n)
  BY SameDue
<1>2. DueOf(m)' = Board!Blank
  BY DEF DueOf, Board!Blank
<1>3. TunedIn' = TunedIn \ {m}
  BY DEF TunedIn, SameView
<1>4. Decided'
  BY SameDue DEF Decided, SameView
<1> QED BY <1>1, <1>2, <1>3, <1>4 DEF Board!TuneOut, BoardKept

-----------------------------------------------------------------------------
(* The steps of the gateway, one by one.                                   *)

BoardStep == Decided' /\ [Board!Next]_(Board!boardVars)

(* Links, registry and transports are as they were, and so is the device   *)
(* of m as far as others can tell.                                         *)
LEMMA SameLinks ==
  ASSUME NEW m \in Member, UNCHANGED <<pool, link, cut>>,
         Tuned(m) => down'[link[m]] = down[link[m]],
         m # Owner => seenPlan'[m] = seenPlan[m],
         \A h \in HazardId \ expired' : Reporter[h] # m => (h \in seenHaz'[m] <=> h \in seenHaz[m])
  PROVE  SameView(m)
BY TunedUnchanged DEF SameView

(* Edits are nobody else's business before the gateway has them.           *)
LEMMA EditUnnoticed ==
  ASSUME TypeOK, Decided, NEW m \in Member,
         \/ \E h \in HazardId : Report(m, h) \/ Remove(m, h)
         \/ \E p \in PlanOrNone : EditPlan(m, p)
  PROVE  BoardStep
<1> USE DEF serverVars, netVars, clientVars, envVars
<1>1. /\ UNCHANGED <<pool, link, cut, down, storeHaz, storePlan, expired>>
      /\ seenPlan' = seenPlan \/ (m = Owner /\ \E p : seenPlan' = [seenPlan EXCEPT ![m] = p])
      /\ \/ seenHaz' = seenHaz
         \/ \E h \in HazardId : /\ Reporter[h] = m
                                /\ \/ seenHaz' = [seenHaz EXCEPT ![m] = @ \cup {h}]
                                   \/ seenHaz' = [seenHaz EXCEPT ![m] = @ \ {h}]
  BY DEF Report, Remove, EditPlan
<1>2. ASSUME NEW n \in Member
      PROVE  /\ n # Owner => seenPlan'[n] = seenPlan[n]
             /\ \A h \in HazardId : Reporter[h] # n => (h \in seenHaz'[n] <=> h \in seenHaz[n])
  BY <1>1 DEF TypeOK
<1>3. \A n \in Member : SameView(n)
  BY <1>1, <1>2, SameLinks
<1> QED BY <1>1, <1>3, Unnoticed DEF BoardStep, BoardKept

(* Queues, frames on their way to the gateway, and lookups do not show.    *)
LEMMA InnerUnnoticed ==
  ASSUME Decided,
         UNCHANGED <<pool, link, cut, down, storeHaz, storePlan, expired, seenHaz, seenPlan>>
  PROVE  BoardStep
<1>1. \A n \in Member : SameView(n)
  BY SameLinks
<1> QED BY <1>1, Unnoticed DEF BoardStep, BoardKept

(* Nor does it when an expired hazard leaves a device's list.              *)
LEMMA PruneUnnoticed ==
  ASSUME TypeOK, Decided, NEW m \in Member, PruneExpired(m)
  PROVE  BoardStep
<1> USE DEF serverVars, netVars, clientVars, envVars
<1>1. /\ UNCHANGED <<pool, link, cut, down, storeHaz, storePlan, expired, seenPlan>>
      /\ seenHaz' = [seenHaz EXCEPT ![m] = @ \ expired]
  BY DEF PruneExpired
<1>2. ASSUME NEW n \in Member
      PROVE  \A h \in HazardId \ expired : h \in seenHaz'[n] <=> h \in seenHaz[n]
  BY <1>1 DEF TypeOK
<1>3. \A n \in Member : SameView(n)
  BY <1>1, <1>2, SameLinks
<1> QED BY <1>1, <1>3, Unnoticed DEF BoardStep, BoardKept

(* A member that connects tunes in, unless its connection is dead already. *)
LEMMA ConnectTunesIn ==
  ASSUME TypeOK, LinksAgree, Decided, NEW m \in Member, NEW c \in Conn, Connect(m, c)
  PROVE  BoardStep
<1> USE DEF serverVars, netVars, clientVars, envVars
<1> DEFINE f == [type |-> "replay",
                 arg |-> [hazards |-> storeHaz \ expired, plan |-> storePlan]]
<1>1. /\ link[m] = None /\ link'[m] = c /\ down'[c] = <<f>>
      /\ pool'[c] = m /\ m # None /\ c # None
      /\ UNCHANGED <<storePlan, seenHaz, seenPlan, cut, expired>>
      /\ storeHaz' \ expired' = storeHaz \ expired
  BY GatewayAssumption DEF Connect, TypeOK
<1>2. ~Tuned(m)
  BY <1>1 DEF Tuned
<1>3. ASSUME NEW n \in Member \ {m}
      PROVE  SameView(n)
  <2>1. link'[n] = link[n] /\ link[n] # c
    BY <1>3 DEF Connect, TypeOK, Free
  <2>2. CASE link[n] = None
    BY <1>1, <2>1, <2>2 DEF SameView, Tuned
  <2>3. CASE link[n] # None
    <3>1. link[n] \in Conn
      BY <2>3 DEF TypeOK
    <3>2. pool'[link[n]] = pool[link[n]] /\ down'[link[n]] = down[link[n]]
      BY <2>1, <3>1 DEF Connect, TypeOK
    <3>3. pool[link[n]] # None => pool[link[n]] = n
      BY <2>3 DEF LinksAgree
    <3>4. Tuned(n)' <=> Tuned(n)
      BY <1>1, <2>1, <3>2, <3>3 DEF Tuned, Live
    <3> QED BY <1>1, <2>1, <3>2, <3>4 DEF SameView
  <2> QED BY <2>2, <2>3
<1>4. CASE c \in cut
  <2>1. ~Tuned(m)'
    BY <1>1, <1>4 DEF Tuned, Live
  <2> QED BY <1>1, <1>3, <2>1, OneTunesOut DEF BoardStep, BoardKept, Board!Next
<1>5. CASE c \notin cut
  <2>1. Tuned(m)'
    BY <1>1, <1>5 DEF Tuned, Live
  <2>2. ASSUME NEW h \in HazardId
        PROVE  WillShow(m, h)' <=> h \in (storeHaz \ expired) \cup seenHaz[m]
    <3>1. Adds(f, h) <=> h \in storeHaz \ expired
      BY DEF Adds
    <3>2. ~Drops(f, h)
      BY DEF Drops
    <3> HIDE DEF f
    <3>3. Shows(seenHaz[m], <<f>>, h) <=> Adds(f, h) \/ h \in seenHaz[m]
      BY <3>2 DEF Shows
    <3> QED BY <1>1, <3>1, <3>3 DEF WillShow
  <2> DEFINE end == IF storePlan # NoPlan THEN storePlan ELSE seenPlan[m]
  <2>3. end \in PlanOrNone /\ WillHavePlan(m, end)'
    <3>1. SetsPlan(f) <=> storePlan # NoPlan
      BY DEF SetsPlan
    <3>2. PlanIn(f) = storePlan
      BY DEF PlanIn
    <3> HIDE DEF f
    <3>3. HasPlan(seenPlan[m], <<f>>, end)
      BY <3>1, <3>2 DEF HasPlan
    <3> QED BY <1>1, <3>3 DEF WillHavePlan, TypeOK
  <2>4. DueOf(m)'.hazards = Board!ByOthers(m, (storeHaz \ expired) \cup (seenHaz[m] \ expired))
    BY <1>1, <2>1, <2>2 DEF DueOf, Board!ByOthers, TypeOK
  <2>5. m # Owner => DueOf(m)'.plan = end
    <3>1. f \in DownFrame
      BY DEF DownFrame, Replay, TypeOK
    <3>2. down'[link'[m]] = <<f>> /\ <<f>> \in Seq(DownFrame)
      BY <1>1, <3>1
    <3>3. EndPlan(seenPlan[m], <<f>>) = end
      BY ZenonT(40), <1>1, <2>3, <3>2, EndPlanIs DEF WillHavePlan
    <3>4. m # Owner => DueOf(m)'.plan = EndPlan(seenPlan[m], <<f>>)
      BY <1>1, <2>1, <3>2 DEF DueOf, EndPlan, WillHavePlan
    <3> QED BY <3>3, <3>4
  <2>6. m = Owner => DueOf(m)'.plan = NoPlan
    BY <2>1 DEF DueOf
  <2>7. DueOf(m)' = [hazards |-> DueOf(m)'.hazards, plan |-> DueOf(m)'.plan]
    BY <2>1 DEF DueOf
  <2>8. \A n \in Member \ {m} : DueOf(n)' = DueOf(n)
    BY <1>1, <1>3, SameDue
  <2>9. TunedIn' = TunedIn \cup {m} /\ m \notin TunedIn
    BY <1>2, <1>3, <2>1 DEF TunedIn, SameView
  <2>10. Board!TuneIn(m)
    <3>1. seenHaz[m] \ expired \in SUBSET HazardId /\ seenPlan[m] \in Board!PlanOrNone
      BY DEF TypeOK, PlanOrNone, Board!PlanOrNone
    <3>2. [n \in Member |-> DueOf(n)]' =
            [[n \in Member |-> DueOf(n)] EXCEPT ![m] =
               [hazards |-> Board!ByOthers(m, (storeHaz \ expired) \cup (seenHaz[m] \ expired)),
                plan |-> CASE m = Owner -> NoPlan
                           [] m # Owner /\ storePlan # NoPlan -> storePlan
                           [] OTHER -> seenPlan[m]]]
      <4>1. DueOf(m)'.plan = CASE m = Owner -> NoPlan
                               [] m # Owner /\ storePlan # NoPlan -> storePlan
                               [] OTHER -> seenPlan[m]
        <5>1. CASE m = Owner
          BY <2>6, <5>1
        <5>2. CASE m # Owner /\ storePlan # NoPlan
          BY <2>5, <5>2
        <5>3. CASE m # Owner /\ storePlan = NoPlan
          BY <2>5, <5>3
        <5> QED BY <5>1, <5>2, <5>3
      <4> QED BY <2>4, <2>7, <2>8, <4>1
    <3> QED BY <1>1, <2>9, <3>1, <3>2 DEF Board!TuneIn
  <2>11. Decided'
    BY <1>1, <1>3, <2>3, SameDue DEF Decided, SameView
  <2> QED BY <2>10, <2>11 DEF BoardStep, Board!Next
<1> QED BY <1>4, <1>5

(* What a device has been sent it will show before and after it handles    *)
(* the next frame.                                                         *)
LEMMA ReceiveUnnoticed ==
  ASSUME TypeOK, LinksAgree, Decided, NEW m \in Member, ClientReceive(m)
  PROVE  BoardStep
<1> USE DEF serverVars, netVars, clientVars, envVars
<1> DEFINE in == down[link[m]]
<1>1. /\ link[m] \in Conn /\ in \in Seq(DownFrame) /\ in # <<>>
      /\ down'[link[m]] = Tail(in) /\ seenHaz'[m] = HazardsAfter(Head(in), seenHaz[m])
      /\ seenPlan'[m] = PlanAfter(Head(in), seenPlan[m])
      /\ UNCHANGED <<pool, link, cut, storeHaz, storePlan, expired>>
  BY DEF ClientReceive, TypeOK
<1>2. \A n \in Member : Tuned(n)' <=> Tuned(n)
  BY <1>1, TunedUnchanged
<1>3. ASSUME NEW n \in Member \ {m}
      PROVE  SameView(n)
  <2>1. Tuned(n) => link[n] \in Conn /\ link[n] # link[m]
    BY <1>1, GatewayAssumption, TunedEnds DEF LinksAgree
  <2>2. Tuned(n) => down'[link[n]] = down[link[n]]
    BY <2>1 DEF ClientReceive, TypeOK
  <2>3. seenHaz'[n] = seenHaz[n] /\ seenPlan'[n] = seenPlan[n]
    BY DEF ClientReceive, TypeOK
  <2> QED BY <1>1, <2>2, <2>3, SameLinks
<1>4. \A h \in HazardId : WillShow(m, h)' <=> WillShow(m, h)
  <2>1. seenHaz[m] \in SUBSET HazardId
    BY DEF TypeOK
  <2> QED BY <1>1, <2>1, ShowsTailExact DEF WillShow
<1>5. ASSUME NEW p, WillHavePlan(m, p)
      PROVE  WillHavePlan(m, p)'
  BY <1>1, <1>5, HasPlanTail DEF WillHavePlan
<1>6. ASSUME m # Owner, Tuned(m)
      PROVE  EndPlan(seenPlan[m], in)' = EndPlan(seenPlan[m], in)
  <2>1. PICK p \in PlanOrNone : WillHavePlan(m, p)
    BY <1>6 DEF Decided
  <2>2. EndPlan(seenPlan[m], in) = p
    BY <1>1, <2>1, EndPlanIs DEF WillHavePlan
  <2>3. /\ down'[link'[m]] = Tail(in) /\ Tail(in) \in Seq(DownFrame)
        /\ HasPlan(seenPlan'[m], down'[link'[m]], p)
    BY <1>1, <1>5, <2>1 DEF WillHavePlan
  <2>4. EndPlan(seenPlan'[m], down'[link'[m]]) = p
    BY <2>3, EndPlanIs
  <2> QED BY <2>2, <2>4 DEF EndPlan
<1>7. DueOf(m)' = DueOf(m)
  <2>1. CASE Tuned(m) /\ m = Owner
    BY <1>1, <1>2, <1>4, <2>1 DEF DueOf
  <2>2. CASE Tuned(m) /\ m # Owner
    <3>1. (CHOOSE p \in PlanOrNone : WillHavePlan(m, p)') = (CHOOSE p \in PlanOrNone : WillHavePlan(m, p))
      BY <1>6, <2>2 DEF EndPlan, WillHavePlan
    <3> QED BY <1>1, <1>2, <1>4, <2>2, <3>1 DEF DueOf
  <2>3. CASE ~Tuned(m)
    BY <1>2, <2>3 DEF DueOf
  <2> QED BY <2>1, <2>2, <2>3
<1>8. \A n \in Member : DueOf(n)' = DueOf(n)
  BY <1>1, <1>3, <1>7, SameDue
<1>9. Decided'
  BY <1>1, <1>2, <1>3, <1>5, SameDue DEF Decided
<1> QED BY <1>1, <1>2, <1>8, <1>9 DEF BoardStep, Board!boardVars, TunedIn

(* What a relay adds to what a tuned-in member, its author apart, ends     *)
(* with.                                                                   *)
LEMMA RelayDue ==
  ASSUME TypeOK, LinksAgree, Decided, NEW n, NEW f \in DownFrame, down' = Relayed(n, f),
         UNCHANGED <<pool, link, cut, expired, seenHaz, seenPlan>>,
         NEW m \in Member, Tuned(m), m # n
  PROVE  /\ \A h \in HazardId : WillShow(m, h)' <=> Adds(f, h) \/ (WillShow(m, h) /\ ~Drops(f, h))
         /\ \A p : SetsPlan(f) /\ PlanIn(f) = p => WillHavePlan(m, p)'
         /\ \A p : WillHavePlan(m, p) /\ ~SetsPlan(f) => WillHavePlan(m, p)'
<1>1. down'[link'[m]] = Append(down[link[m]], f) /\ down[link[m]] \in Seq(DownFrame)
  BY RelayReaches
<1>2. seenHaz[m] \in SUBSET HazardId
  BY DEF TypeOK
<1>3. \A h \in HazardId : WillShow(m, h)' <=> Adds(f, h) \/ (WillShow(m, h) /\ ~Drops(f, h))
  BY <1>1, <1>2, ShowsAppendExact DEF WillShow
<1> QED BY <1>1, <1>3, HasPlanAppend DEF WillHavePlan

(* A relayed report is a report on the board, a relayed removal a          *)
(* withdrawal; one that concerns an expired hazard, or is refused, is      *)
(* neither.                                                                *)
LEMMA HazardReachesBoard ==
  ASSUME TypeOK, LinksAgree, OwnFrames, Decided, NEW c \in Conn, HandleHazard(c)
  PROVE  BoardStep
<1> USE DEF serverVars, netVars, clientVars, envVars
<1> DEFINE f == Head(up[c])
<1>1. /\ UNCHANGED <<pool, link, cut, storePlan, expired, seenHaz, seenPlan>>
      /\ up[c] # <<>> /\ f.type # "tour"
      /\ \/ down' = down /\ storeHaz' = storeHaz
         \/ down' = Relayed(pool[c], f) /\ storeHaz' = HazardsAfter(f, storeHaz)
  BY DEF HandleHazard
<1>2. CASE down' = down /\ storeHaz' = storeHaz
  BY <1>1, <1>2, InnerUnnoticed
<1>3. CASE down' = Relayed(pool[c], f) /\ storeHaz' = HazardsAfter(f, storeHaz)
  <2>1. f \in UpFrame /\ f \in DownFrame /\ SentBy(pool[c], f)
    BY <1>1, FrameTypes DEF TypeOK, OwnFrames
  <2>2. PICK h \in HazardId : f.arg = h /\ f.type \in {"hazard", "hazard_remove"}
    BY <1>1, <2>1 DEF UpFrame
  <2>3. Reporter[h] = pool[c]
    BY <1>1, <2>1, <2>2 DEF SentBy
  <2>4. \A n \in Member : Tuned(n)' <=> Tuned(n)
    BY <1>1, TunedUnchanged
  <2>5. TunedIn' = TunedIn
    BY <2>4 DEF TunedIn
  <2>6. \A g \in HazardId : /\ Adds(f, g) <=> f.type = "hazard" /\ g = h
                            /\ Drops(f, g) <=> f.type = "hazard_remove" /\ g = h
    BY <2>2 DEF Adds, Drops
  <2>7. ~SetsPlan(f)
    BY <2>2 DEF SetsPlan
  <2> HIDE DEF f
  <2>8. ASSUME NEW n \in Member, Tuned(n)
        PROVE  /\ \A g \in HazardId : Reporter[g] # n =>
                    (WillShow(n, g)' <=> Adds(f, g) \/ (WillShow(n, g) /\ ~Drops(f, g)))
               /\ \A p : WillHavePlan(n, p) => WillHavePlan(n, p)'
    <3>1. CASE n = pool[c]
      <4>1. down'[link'[n]] = down[link[n]]
        BY <1>1, <1>3, <2>8, <3>1, RelayReaches
      <4>2. \A g : WillShow(n, g)' <=> WillShow(n, g)
        BY <1>1, <4>1 DEF WillShow
      <4>3. \A g \in HazardId : Reporter[g] # n => ~Adds(f, g) /\ ~Drops(f, g)
        BY <2>3, <2>6, <3>1
      <4> QED BY <1>1, <4>1, <4>2, <4>3 DEF WillHavePlan
    <3>2. CASE n # pool[c]
      BY <1>1, <1>3, <2>1, <2>7, <2>8, <3>2, RelayDue
    <3> QED BY <3>1, <3>2
  <2>9. Decided'
    BY <2>4, <2>8 DEF Decided
  <2>10. ASSUME NEW n \in Member
         PROVE  DueOf(n)' = IF Tuned(n) /\ h \notin expired /\ Reporter[h] # n
                            THEN IF f.type = "hazard"
                                 THEN [DueOf(n) EXCEPT !.hazards = @ \cup {h}]
                                 ELSE [DueOf(n) EXCEPT !.hazards = @ \ {h}]
                            ELSE DueOf(n)
    <3>1. CASE ~Tuned(n)
      BY <2>4, <3>1 DEF DueOf
    <3>2. CASE Tuned(n)
      <4>1. DueOf(n)'.plan = DueOf(n).plan
        <5>1. CASE n = Owner
          BY <2>4, <3>2, <5>1 DEF DueOf
        <5>2. CASE n # Owner
          <6>1. PICK p \in PlanOrNone : WillHavePlan(n, p)
            BY <3>2, <5>2 DEF Decided
          <6>2. /\ down[link[n]] \in Seq(DownFrame)
                /\ down'[link'[n]] \in Seq(DownFrame)
            <7>1. /\ down[link[n]] \in Seq(DownFrame)
                  /\ \/ down'[link'[n]] = down[link[n]]
                     \/ down'[link'[n]] = Append(down[link[n]], f)
              BY <1>1, <1>3, <3>2, RelayReaches
            <7> QED BY <2>1, <7>1
          <6>3. EndPlan(seenPlan[n], down[link[n]]) = p
            BY <6>1, <6>2, EndPlanIs DEF WillHavePlan
          <6>4. EndPlan(seenPlan'[n], down'[link'[n]]) = p
            BY <2>8, <3>2, <6>1, <6>2, EndPlanIs DEF WillHavePlan
          <6> QED BY <2>4, <3>2, <5>2, <6>3, <6>4 DEF DueOf, EndPlan, WillHavePlan
        <5> QED BY <5>1, <5>2
      <4>2. DueOf(n)'.hazards = {g \in HazardId \ expired : Reporter[g] # n /\
                                    (Adds(f, g) \/ (WillShow(n, g) /\ ~Drops(f, g)))}
        BY <1>1, <2>4, <2>8, <3>2 DEF DueOf
      <4>3. DueOf(n).hazards = {g \in HazardId \ expired : Reporter[g] # n /\ WillShow(n, g)}
        BY <3>2 DEF DueOf
      <4>4. DueOf(n)'.hazards = IF h \notin expired /\ Reporter[h] # n
                                THEN IF f.type = "hazard" THEN DueOf(n).hazards \cup {h}
                                                          ELSE DueOf(n).hazards \ {h}
                                ELSE DueOf(n).hazards
        BY <2>2, <2>6, <4>2, <4>3
      <4>5. /\ DueOf(n) = [hazards |-> DueOf(n).hazards, plan |-> DueOf(n).plan]
            /\ DueOf(n)' = [hazards |-> DueOf(n)'.hazards, plan |-> DueOf(n)'.plan]
        BY <2>4, <3>2 DEF DueOf
      <4> QED BY <3>2, <4>1, <4>4, <4>5
    <3> QED BY <3>1, <3>2
  <2>11. storeHaz' = IF f.type = "hazard" THEN storeHaz \cup {h} ELSE storeHaz \ {h}
    BY <1>3, <2>2, <2>6 DEF HazardsAfter, TypeOK
  <2>12. CASE h \in expired
    <3>1. \A n \in Member : DueOf(n)' = DueOf(n)
      BY <2>10, <2>12
    <3>2. storeHaz' \ expired' = storeHaz \ expired
      BY <1>1, <2>11, <2>12
    <3> QED BY <1>1, <2>5, <2>9, <3>1, <3>2 DEF BoardStep, Board!boardVars
  <2>13. CASE h \notin expired /\ f.type = "hazard"
    <3>1. Board!Report(h)
      <4>1. storeHaz' \ expired' = (storeHaz \ expired) \cup {h}
        BY <1>1, <2>11, <2>13
      <4>2. \A n \in Member : DueOf(n)' = IF n \in TunedIn /\ n # Reporter[h]
                                          THEN [DueOf(n) EXCEPT !.hazards = @ \cup {h}] ELSE DueOf(n)
        BY <2>10, <2>13 DEF TunedIn
      <4> QED BY <1>1, <2>5, <4>1, <4>2 DEF Board!Report
    <3> QED BY <2>9, <3>1 DEF BoardStep, Board!Next
  <2>14. CASE h \notin expired /\ f.type = "hazard_remove"
    <3>1. Board!Withdraw(h)
      <4>1. storeHaz' \ expired' = (storeHaz \ expired) \ {h}
        BY <1>1, <2>11, <2>14
      <4>2. ASSUME NEW n \in Member
            PROVE  DueOf(n)' = [DueOf(n) EXCEPT !.hazards = @ \ {h}]
        <5>1. CASE Tuned(n) /\ Reporter[h] # n
          BY <2>10, <2>14, <5>1
        <5>2. CASE ~(Tuned(n) /\ Reporter[h] # n)
          <6>1. DueOf(n)' = DueOf(n)
            BY <2>10, <5>2
          <6>2. h \notin DueOf(n).hazards
            BY <5>2 DEF DueOf
          <6>3. DueOf(n) = [hazards |-> DueOf(n).hazards, plan |-> DueOf(n).plan]
            BY DEF DueOf
          <6> QED BY <6>1, <6>2, <6>3
        <5> QED BY <5>1, <5>2
      <4> QED BY <1>1, <2>5, <4>1, <4>2 DEF Board!Withdraw
    <3> QED BY <2>9, <3>1 DEF BoardStep, Board!Next
  <2> QED BY <2>2, <2>12, <2>13, <2>14
<1> QED BY <1>1, <1>2, <1>3

(* A relayed plan is the plan of the board from then on.                   *)
LEMMA PlanReachesBoard ==
  ASSUME TypeOK, LinksAgree, LeaderOnly, Decided, NEW i \in DOMAIN pending, ResumeTour(i)
  PROVE  BoardStep
<1> USE DEF serverVars, netVars, clientVars, envVars
<1> DEFINE f == [type |-> "tour", arg |-> pending[i].plan]
<1>1. /\ UNCHANGED <<pool, link, cut, storeHaz, expired, seenHaz, seenPlan>>
      /\ \/ down' = down /\ storePlan' = storePlan
         \/ /\ pending[i].leader = "yes" /\ storePlan' = pending[i].plan
            /\ down' = Relayed(pending[i].from, f)
  BY DEF ResumeTour
<1>2. i \in 1 .. Len(pending) /\ pending[i] \in Lookup
  BY DEF TypeOK
<1>3. CASE down' = down /\ storePlan' = storePlan
  BY <1>1, <1>3, InnerUnnoticed
<1>4. CASE /\ pending[i].leader = "yes" /\ storePlan' = pending[i].plan
           /\ down' = Relayed(pending[i].from, f)
  <2>0. PICK p \in PlanOrNone : p = pending[i].plan
    BY <1>2 DEF Lookup
  <2>1. pending[i].from = Owner /\ p \in PlanOrNone /\ f \in DownFrame
    BY <1>2, <1>4, FrameTypes DEF LeaderOnly, Lookup
  <2>2. \A h : ~Adds(f, h) /\ ~Drops(f, h)
    BY DEF Adds, Drops
  <2>3. SetsPlan(f) /\ PlanIn(f) = p
    BY <2>0 DEF SetsPlan, PlanIn
  <2>4. \A n \in Member : Tuned(n)' <=> Tuned(n)
    BY <1>1, TunedUnchanged
  <2>5. TunedIn' = TunedIn
    BY <2>4 DEF TunedIn
  <2> HIDE DEF f
  <2>6. ASSUME NEW n \in Member, Tuned(n)
        PROVE  /\ \A h \in HazardId : WillShow(n, h)' <=> WillShow(n, h)
               /\ n # Owner => WillHavePlan(n, p)'
               /\ n # Owner => down'[link'[n]] \in Seq(DownFrame)
    <3>1. CASE n = Owner
      <4>1. down'[link'[n]] = down[link[n]]
        BY <1>1, <1>4, <2>1, <2>6, <3>1, RelayReaches
      <4> QED BY <1>1, <3>1, <4>1 DEF WillShow
    <3>2. CASE n # Owner
      <4>1. down' = Relayed(Owner, f)
        BY <1>4, <2>1
      <4>2. down'[link'[n]] = Append(down[link[n]], f) /\ down[link[n]] \in Seq(DownFrame)
        BY <1>1, <2>6, <3>2, <4>1, RelayReaches
      <4>3. \A h \in HazardId : WillShow(n, h)' <=> Adds(f, h) \/ (WillShow(n, h) /\ ~Drops(f, h))
        BY <1>1, <2>1, <2>6, <3>2, <4>1, RelayDue
      <4>4. WillHavePlan(n, p)'
        BY <1>1, <2>1, <2>3, <2>6, <3>2, <4>1, RelayDue
      <4> QED BY <2>1, <2>2, <4>2, <4>3, <4>4
    <3> QED BY <3>1, <3>2
  <2>7. Decided'
    BY <2>1, <2>4, <2>6 DEF Decided
  <2>8. ASSUME NEW n \in Member
        PROVE  DueOf(n)' = IF n \in TunedIn \ {Owner} THEN [DueOf(n) EXCEPT !.plan = p] ELSE DueOf(n)
    <3>1. CASE ~Tuned(n)
      BY <2>4, <3>1 DEF DueOf, TunedIn
    <3>2. CASE Tuned(n)
      <4>1. DueOf(n)'.hazards = DueOf(n).hazards
        BY <1>1, <2>4, <2>6, <3>2 DEF DueOf
      <4>2. n = Owner => DueOf(n)'.plan = DueOf(n).plan
        BY <2>4, <3>2 DEF DueOf
      <4>3. n # Owner => DueOf(n)'.plan = p
        <5>1. n # Owner => EndPlan(seenPlan'[n], down'[link'[n]]) = p
          BY <2>1, <2>6, <3>2, EndPlanIs DEF WillHavePlan
        <5> QED BY <2>4, <3>2, <5>1 DEF DueOf, EndPlan, WillHavePlan
      <4>4. /\ DueOf(n) = [hazards |-> DueOf(n).hazards, plan |-> DueOf(n).plan]
            /\ DueOf(n)' = [hazards |-> DueOf(n)'.hazards, plan |-> DueOf(n)'.plan]
        BY <2>4, <3>2 DEF DueOf
      <4> QED BY <3>2, <4>1, <4>2, <4>3, <4>4 DEF TunedIn
    <3> QED BY <3>1, <3>2
  <2>9. Board!SetPlan(p)
    BY <1>1, <1>4, <2>0, <2>5, <2>8 DEF Board!SetPlan
  <2>10. p \in Board!PlanOrNone
    BY <2>1 DEF PlanOrNone, Board!PlanOrNone
  <2> QED BY <2>7, <2>9, <2>10 DEF BoardStep, Board!Next
<1> QED BY <1>1, <1>3, <1>4

(* A broken transport drops the member at its end, if it still uses it.    *)
LEMMA CutTunesOut ==
  ASSUME TypeOK, LinksAgree, Decided, NEW c \in Conn, Cut(c)
  PROVE  BoardStep
<1> USE DEF serverVars, netVars, clientVars, envVars
<1>1. /\ UNCHANGED <<pool, link, storeHaz, storePlan, expired, seenHaz, seenPlan>>
      /\ cut' = cut \cup {c} /\ down' = [down EXCEPT ![c] = <<>>]
  BY DEF Cut
<1>2. BoardKept
  BY <1>1 DEF BoardKept
<1>3. ASSUME NEW n \in Member, link[n] # c
      PROVE  SameView(n)
  BY <1>1, <1>3 DEF SameView, Tuned, Live, TypeOK
<1>4. CASE \E m \in Member : link[m] = c
  <2>1. PICK m \in Member : link[m] = c
    BY <1>4
  <2>2. ~Tuned(m)'
    BY <1>1, <2>1 DEF Tuned, Live
  <2>3. \A n \in Member \ {m} : link[n] # c
    BY <2>1, GatewayAssumption DEF LinksAgree
  <2> QED BY <1>1, <1>2, <1>3, <2>2, <2>3, OneTunesOut DEF BoardStep, Board!Next
<1>5. CASE \A m \in Member : link[m] # c
  BY <1>1, <1>2, <1>3, <1>5, Unnoticed DEF BoardStep
<1> QED BY <1>4, <1>5

(* A device that drops its connection tunes out, and nobody else does.     *)
LEMMA UnlinkTunesOut ==
  ASSUME TypeOK, LinksAgree, Decided, NEW m \in Member,
         \/ ChannelLost(m) \/ InboundSilence(m)
         \/ RosterChange(m) \/ AppRestart(m) \/ Leave(m)
  PROVE  BoardStep
<1> USE DEF serverVars, netVars, clientVars, envVars
<1>1. /\ Unlink(m) /\ UNCHANGED <<pool, storeHaz, storePlan, expired>>
      /\ seenHaz' = seenHaz \/ seenHaz' = [seenHaz EXCEPT ![m] = {}]
      /\ seenPlan' = seenPlan \/ seenPlan' = [seenPlan EXCEPT ![m] = NoPlan]
  BY DEF ChannelLost, InboundSilence, RosterChange, AppRestart, Leave, Reset
<1>2. BoardKept
  BY <1>1 DEF BoardKept
<1>3. ~Tuned(m)' /\ KeepsTuned
  BY <1>1, UnlinkTuned
<1>4. ASSUME NEW n \in Member \ {m}
      PROVE  SameView(n)
  <2>1. /\ link'[n] = link[n] /\ seenHaz'[n] = seenHaz[n] /\ seenPlan'[n] = seenPlan[n]
    BY <1>1 DEF Unlink, TypeOK
  <2>2. ASSUME Tuned(n)
        PROVE  Tuned(n)' /\ down'[link'[n]] = down[link[n]]
    <3>1. link[n] \in Conn /\ link[n] # None /\ link[n] # link[m] /\ pool[link[n]] = n
      BY <2>2, TunedEnds DEF LinksAgree, Tuned
    <3>2. link[n] \notin cut'
      BY <1>1, <2>2 DEF Unlink, Tuned, Live
    <3>3. down'[link[n]] = down[link[n]]
      BY <1>1, <3>1 DEF Unlink
    <3> QED BY <1>1, <2>1, <2>2, <3>1, <3>2, <3>3 DEF Tuned, Live
  <2>3. Tuned(n)' => Tuned(n)
    BY <1>3 DEF KeepsTuned
  <2> QED BY <2>1, <2>2, <2>3 DEF SameView
<1> QED BY <1>1, <1>2, <1>3, <1>4, OneTunesOut DEF BoardStep, Board!Next

(* The gateway closes only sockets nobody is tuned in on.                  *)
LEMMA CloseUnnoticed ==
  ASSUME TypeOK, LinksAgree, Decided, NEW c \in Conn, CloseSocket(c)
  PROVE  BoardStep
<1> USE DEF serverVars, netVars, clientVars, envVars
<1>1. /\ UNCHANGED <<link, down, storeHaz, storePlan, expired, seenHaz, seenPlan>>
      /\ c \in cut \/ link[pool[c]] # c
      /\ pool' = [pool EXCEPT ![c] = None]
      /\ cut' = IF link[pool[c]] = c THEN cut ELSE cut \ {c}
  BY DEF CloseSocket
<1>2. ASSUME NEW n \in Member
      PROVE  Tuned(n)' <=> Tuned(n)
  <2>1. CASE link[n] = c
    BY <1>1, <2>1 DEF Tuned, Live, TypeOK
  <2>2. CASE link[n] # c
    BY <1>1, <2>2 DEF Tuned, Live, TypeOK
  <2> QED BY <2>1, <2>2
<1>3. \A n \in Member : SameView(n)
  BY <1>1, <1>2 DEF SameView
<1> QED BY <1>1, <1>3, Unnoticed DEF BoardStep, BoardKept

(* A restart of the server loses the board.                                *)
LEMMA RestartWipes ==
  ASSUME TypeOK, ServerRestart
  PROVE  BoardStep
<1>1. \A n \in Member : ~Tuned(n)'
  BY DEF ServerRestart, clientVars, Tuned, Live, TypeOK
<1>2. \A n \in Member : DueOf(n)' = Board!Blank
  BY <1>1 DEF DueOf, Board!Blank
<1>3. storeHaz' \ expired' = {} /\ storePlan' = NoPlan
  BY DEF ServerRestart
<1>4. TunedIn' = {} /\ Decided'
  BY <1>1 DEF TunedIn, Decided
<1>5. Board!Wipe
  BY <1>2, <1>3, <1>4 DEF Board!Wipe
<1> QED BY <1>4, <1>5 DEF BoardStep, Board!Next

(* A hazard whose time has run out leaves the board.                       *)
LEMMA ExpiryWithdraws ==
  ASSUME Decided, NEW h \in HazardId, Expire(h)
  PROVE  BoardStep
<1> USE DEF serverVars, netVars, clientVars, envVars
<1>1. /\ UNCHANGED <<pool, link, cut, down, storeHaz, storePlan, seenHaz, seenPlan>>
      /\ expired' = expired \cup {h}
  BY DEF Expire
<1>2. \A n \in Member : SameView(n)
  BY <1>1, SameLinks
<1>3. TunedIn' = TunedIn /\ Decided'
  BY <1>1, <1>2, SameDue DEF TunedIn, Decided, SameView
<1>4. ASSUME NEW n \in Member
      PROVE  DueOf(n)' = [DueOf(n) EXCEPT !.hazards = @ \ {h}]
  <2>1. DueOf(n)' = [DueOf(n) EXCEPT !.hazards = @ \ expired']
    BY <1>1, <1>2, SameDue
  <2>2. DueOf(n).hazards \ expired' = DueOf(n).hazards \ {h}
    BY <1>1 DEF DueOf
  <2> QED BY <2>1, <2>2
<1>5. Board!Withdraw(h)
  <2>1. storeHaz' \ expired' = (storeHaz \ expired) \ {h}
    BY <1>1
  <2> QED BY <1>1, <1>3, <1>4, <2>1 DEF Board!Withdraw
<1> QED BY <1>3, <1>5 DEF BoardStep, Board!Next

-----------------------------------------------------------------------------
(* At first nobody is tuned in and the board is blank.                     *)
LEMMA BoardInit == Init => Decided /\ Board!Init
<1> SUFFICES ASSUME Init
             PROVE  Decided /\ Board!Init
  OBVIOUS
<1>1. \A n \in Member : ~Tuned(n)
  BY DEF Init, Tuned
<1>2. \A n \in Member : DueOf(n) = Board!Blank
  BY <1>1 DEF DueOf, Board!Blank
<1>3. storeHaz \ expired = {} /\ storePlan = NoPlan
  BY DEF Init
<1>4. TunedIn = {} /\ Decided
  BY <1>1 DEF TunedIn, Decided
<1> QED BY <1>2, <1>3, <1>4 DEF Board!Init

(* Every step is a step of the board or leaves it alone.                   *)
LEMMA StepsMap == DeliveryInv /\ Decided /\ [Next]_vars => BoardStep
<1> SUFFICES ASSUME TypeOK, LinksAgree, OwnFrames, LeaderOnly, Decided, [Next]_vars
             PROVE  BoardStep
  BY DEF DeliveryInv, EndsAgree
<1> USE DEF serverVars, netVars, clientVars, envVars
<1>1. ASSUME NEW m \in Member,
             \/ \E h \in HazardId : Report(m, h) \/ Remove(m, h)
             \/ \E p \in PlanOrNone : EditPlan(m, p)
      PROVE  BoardStep
  BY <1>1, EditUnnoticed
<1>2. ASSUME NEW m \in Member, NEW c \in Conn, Connect(m, c)
      PROVE  BoardStep
  BY <1>2, ConnectTunesIn
<1>3. ASSUME NEW m \in Member, ClientReady(m) \/ Join(m)
      PROVE  BoardStep
  BY <1>3, InnerUnnoticed DEF ClientReady, Join
<1>4. ASSUME NEW m \in Member, ClientReceive(m)
      PROVE  BoardStep
  BY <1>4, ReceiveUnnoticed
<1>5. ASSUME NEW m \in Member, PruneExpired(m)
      PROVE  BoardStep
  BY <1>5, PruneUnnoticed
<1>6. ASSUME NEW m \in Member, \/ ChannelLost(m) \/ InboundSilence(m)
                               \/ RosterChange(m) \/ AppRestart(m) \/ Leave(m)
      PROVE  BoardStep
  BY <1>6, UnlinkTunesOut
<1>7. ASSUME NEW c \in Conn, HandleHazard(c)
      PROVE  BoardStep
  BY <1>7, HazardReachesBoard
<1>8. ASSUME NEW c \in Conn, HandleTour(c)
      PROVE  BoardStep
  BY <1>8, InnerUnnoticed DEF HandleTour
<1>9. ASSUME NEW c \in Conn, CloseSocket(c)
      PROVE  BoardStep
  BY <1>9, CloseUnnoticed
<1>10. ASSUME NEW i \in DOMAIN pending, ResolveLeader(i)
       PROVE  BoardStep
  BY <1>10, InnerUnnoticed DEF ResolveLeader
<1>11. ASSUME NEW i \in DOMAIN pending, ResumeTour(i)
       PROVE  BoardStep
  BY <1>11, PlanReachesBoard
<1>12. ASSUME NEW c \in Conn, Cut(c)
       PROVE  BoardStep
  BY <1>12, CutTunesOut
<1>13. ASSUME NEW h \in HazardId, Expire(h)
       PROVE  BoardStep
  BY <1>13, ExpiryWithdraws
<1>14. ASSUME ServerRestart
       PROVE  BoardStep
  BY <1>14, RestartWipes
<1>15. CASE UNCHANGED vars
  BY <1>15, InnerUnnoticed DEF vars
<1> QED
  BY <1>1, <1>2, <1>3, <1>4, <1>5, <1>6, <1>7, <1>8, <1>9, <1>10, <1>11, <1>12,
     <1>13, <1>14, <1>15 DEF Next, System, Environment

(* The gateway implements the board: for any number of members and         *)
(* connections, whatever breaks and restarts, what each connected device   *)
(* is due changes in one step with what the gateway records.               *)
THEOREM GatewayImplementsBoard == Spec => ImplementsBoard
<1>1. Init => Decided /\ Board!Init
  BY BoardInit
<1>2. DeliveryInv /\ Decided /\ [Next]_vars
        => Decided' /\ [Board!Next]_(Board!boardVars)
  BY StepsMap DEF BoardStep
<1> QED BY <1>1, <1>2, DeliveryInvariant, PTL DEF Spec, ImplementsBoard, Board!Spec
=============================================================================

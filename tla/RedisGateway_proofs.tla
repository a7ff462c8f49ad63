------------------------ MODULE RedisGateway_proofs ------------------------
(***************************************************************************)
(* Proofs about RedisGateway, for any number of instances, sockets,        *)
(* frames and faults, in this order: subscriptions follow the registry;    *)
(* live frames of one instance arrive in order; the types; the kinds of    *)
(* step (EveryStep), which the rest is proved from; joiners settle; the    *)
(* snapshot holds the latest frames; only its reporter removes a hazard;   *)
(* sockets show the snapshot.                                              *)
(***************************************************************************)
EXTENDS RedisGateway, SequenceTheorems, TLAPS

Command == {"subscribe", "unsubscribe"}

(* The types of the registry and of the subscriber's connections.          *)
RegistryTyped ==
  /\ at \in [Conn -> Instance \cup {None}]
  /\ subs \subseteq Instance
  /\ subOut \in [Instance -> Seq(Command)]

RegistryInv == RegistryTyped /\ SubscriptionFollows

(* What Redis will have been told last about instance i.                   *)
WillListen(i) == IF subOut[i] = <<>> THEN i \in subs ELSE Last(subOut[i]) = "subscribe"

-----------------------------------------------------------------------------
(* Subscriptions.                                                          *)

(* The last of the commands after one more, after one less, and with a     *)
(* SUBSCRIBE before them.                                                  *)
LEMMA LastCommand ==
  ASSUME NEW s \in Seq(Command)
  PROVE  /\ \A x \in Command : Append(s, x) \in Seq(Command) /\ Append(s, x) # <<>>
                                /\ Last(Append(s, x)) = x
         /\ s # <<>> => /\ Tail(s) \in Seq(Command) /\ Head(s) \in Command
                        /\ Tail(s) = <<>> => Last(s) = Head(s)
                        /\ Tail(s) # <<>> => Last(Tail(s)) = Last(s)
         /\ <<"subscribe">> \o s \in Seq(Command) /\ <<"subscribe">> \o s # <<>>
         /\ Last(<<"subscribe">> \o s) = IF s = <<>> THEN "subscribe" ELSE Last(s)
<1>1. ASSUME NEW x \in Command
      PROVE  Append(s, x) \in Seq(Command) /\ Append(s, x) # <<>> /\ Last(Append(s, x)) = x
  BY DEF Last
<1>2. ASSUME s # <<>>
      PROVE  /\ Tail(s) \in Seq(Command) /\ Head(s) \in Command
             /\ Tail(s) = <<>> => Last(s) = Head(s)
             /\ Tail(s) # <<>> => Last(Tail(s)) = Last(s)
  <2>1. /\ Tail(s) \in Seq(Command) /\ Head(s) \in Command /\ Head(s) = s[1]
        /\ Len(s) \in Nat /\ Len(Tail(s)) \in Nat /\ Len(Tail(s)) = Len(s) - 1
        /\ \A k \in 1 .. Len(Tail(s)) : Tail(s)[k] = s[k + 1]
    BY <1>2
  <2>2. Tail(s) = <<>> <=> Len(Tail(s)) = 0
    BY <2>1, EmptySeq
  <2>3. CASE Len(Tail(s)) = 0
    BY <2>1, <2>2, <2>3 DEF Last
  <2>4. CASE Len(Tail(s)) # 0
    <3>1. Tail(s)[Len(Tail(s))] = s[Len(s)]
      BY <2>1, <2>4
    <3> QED BY <2>1, <2>2, <2>4, <3>1 DEF Last
  <2> QED BY <2>3, <2>4
<1>3. <<"subscribe">> \in Seq(Command) /\ Len(<<"subscribe">>) = 1
  BY DEF Command
<1>4. /\ <<"subscribe">> \o s \in Seq(Command) /\ <<"subscribe">> \o s # <<>>
      /\ Last(<<"subscribe">> \o s) = IF s = <<>> THEN "subscribe" ELSE Last(s)
  <2>1. /\ <<"subscribe">> \o s \in Seq(Command)
        /\ Len(<<"subscribe">> \o s) = Len(s) + 1 /\ Len(s) \in Nat
    BY <1>3
  <2>2. \A k \in 1 .. Len(s) + 1 : (<<"subscribe">> \o s)[k] = IF k = 1 THEN "subscribe" ELSE s[k - 1]
    BY <1>3, ConcatProperties
  <2>3. s = <<>> <=> Len(s) = 0
    BY EmptySeq
  <2> QED BY <2>1, <2>2, <2>3 DEF Last
<1> QED BY <1>1, <1>2, <1>4

(* The end of a process leaves no socket and no subscription.              *)
LEMMA ExitRegistry ==
  ASSUME RegistryInv, NEW i \in Instance, Exit(i)
  PROVE  RegistryInv'
<1>1. RegistryTyped'
  BY DEF RegistryInv, RegistryTyped, Exit, Drop
<1>2. ASSUME NEW j \in Instance, j # i
      PROVE  Local(j)' = Local(j) /\ WillListen(j)' = WillListen(j) /\ (j \in failed' <=> j \in failed)
  BY <1>2, RedisAssumption DEF RegistryInv, RegistryTyped, Exit, Drop, Local, WillListen
<1>3. Local(i)' = {} /\ ~WillListen(i)'
  BY RedisAssumption DEF RegistryInv, RegistryTyped, Exit, Drop, Local, WillListen
<1> QED BY <1>1, <1>2, <1>3 DEF RegistryInv, SubscriptionFollows, WillListen

(* Each step keeps the subscriptions in step with the registry.            *)
LEMMA RegistryStep ==
  ASSUME RegistryInv, [Next]_vars
  PROVE  RegistryInv'
<1> USE DEF RegistryInv
<1>1. CASE UNCHANGED <<at, subs, subOut, failed>>
  BY <1>1 DEF RegistryTyped, SubscriptionFollows, Local
<1>2. ASSUME NEW i \in Instance, RedisSubscribe(i) PROVE RegistryInv'
  <2>1. RegistryTyped'
    BY <1>2 DEF RegistryTyped, RedisSubscribe
  <2>2. ASSUME NEW j \in Instance PROVE WillListen(j)' <=> WillListen(j)
    <3>1. CASE j = i
      BY <1>2, <3>1, LastCommand DEF RegistryTyped, RedisSubscribe, WillListen
    <3>2. CASE j # i
      BY <1>2, <3>2 DEF RegistryTyped, RedisSubscribe, WillListen
    <3> QED BY <3>1, <3>2
  <2>3. at' = at /\ failed' = failed
    BY <1>2 DEF RedisSubscribe, histVars
  <2> QED BY <2>1, <2>2, <2>3 DEF SubscriptionFollows, WillListen, Local
<1>3. ASSUME NEW c \in Conn, NEW i \in Instance, Connect(c, i) PROVE RegistryInv'
  <2>a. Append(subOut[i], "subscribe") \in Seq(Command)
    BY LastCommand DEF RegistryTyped, Command
  <2>1. RegistryTyped'
    BY <1>3, <2>a DEF RegistryTyped, Connect, redisVars
  <2>2. subs' = subs /\ failed' = failed /\ at[c] = None /\ at' = [at EXCEPT ![c] = i]
    BY <1>3 DEF Connect, redisVars
  <2>3. Local(i)' # {} /\ \A j \in Instance \ {i} : Local(j)' = Local(j)
    BY <2>2, RedisAssumption DEF RegistryTyped, Local
  <2>4. \A j \in Instance \ {i} : WillListen(j)' = WillListen(j)
    BY <1>3, <2>2 DEF RegistryTyped, Connect, WillListen
  <2>5. CASE Local(i) = {}
    <3>1. subOut'[i] = Append(subOut[i], "subscribe")
      BY <1>3, <2>5 DEF RegistryTyped, Connect
    <3>2. WillListen(i)'
      BY <3>1, LastCommand DEF RegistryTyped, WillListen, Command
    <3> QED BY <2>1, <2>2, <2>3, <2>4, <3>2 DEF SubscriptionFollows, WillListen
  <2>6. CASE Local(i) # {}
    <3>1. subOut' = subOut
      BY <1>3, <2>6 DEF Connect
    <3> QED BY <2>1, <2>2, <2>3, <2>4, <2>6, <3>1 DEF SubscriptionFollows, WillListen
  <2> QED BY <2>5, <2>6
<1>4. ASSUME NEW c \in Conn, Close(c) PROVE RegistryInv'
  <2>1. PICK i \in Instance : at[c] = i
    BY <1>4 DEF RegistryTyped, Close
  <2>c. subs' = subs /\ failed' = failed
    BY <1>4 DEF Close, redisVars, histVars
  <2>a. Append(subOut[i], "unsubscribe") \in Seq(Command)
    BY <2>1, LastCommand DEF RegistryTyped, Command
  <2>b. at' = [d \in Conn |-> IF d \in {c} THEN None ELSE at[d]]
    BY <1>4 DEF Close, Drop
  <2>2. RegistryTyped'
    BY <1>4, <2>1, <2>a, <2>b, <2>c DEF RegistryTyped, Close
  <2>3. Local(i)' = Local(i) \ {c} /\ \A j \in Instance \ {i} : Local(j)' = Local(j)
    BY <2>1, <2>b, RedisAssumption DEF RegistryTyped, Local
  <2>4. \A j \in Instance \ {i} : WillListen(j)' = WillListen(j)
    BY <1>4, <2>1, <2>c DEF RegistryTyped, Close, WillListen
  <2>5. c \in Local(i)
    BY <2>1 DEF Local
  <2>6. CASE Local(i) = {c}
    <3>1. subOut'[i] = Append(subOut[i], "unsubscribe")
      BY <1>4, <2>1, <2>6 DEF RegistryTyped, Close
    <3>2. ~WillListen(i)'
      BY <2>1, <3>1, LastCommand DEF RegistryTyped, WillListen, Command
    <3>3. Local(i)' = {}
      BY <2>3, <2>6
    <3> QED BY <2>2, <2>3, <2>4, <2>c, <3>2, <3>3 DEF SubscriptionFollows, WillListen
  <2>7. CASE Local(i) # {c}
    <3>1. subOut' = subOut
      BY <1>4, <2>1, <2>7 DEF Close
    <3>2. Local(i)' # {}
      BY <2>3, <2>5, <2>7
    <3>3. WillListen(i)' = WillListen(i)
      BY <2>c, <3>1 DEF WillListen
    <3> QED BY <2>2, <2>3, <2>4, <2>5, <2>c, <3>2, <3>3 DEF SubscriptionFollows, WillListen
  <2> QED BY <2>6, <2>7
<1>5. ASSUME NEW i \in Instance, Crash(i) PROVE RegistryInv'
  BY <1>5, ExitRegistry DEF Crash
<1>6. ASSUME NEW i \in Instance, Blip(i) PROVE RegistryInv'
  <2>a. subOut[i] \in Seq(Command) /\ <<"subscribe">> \o subOut[i] \in Seq(Command)
        /\ <<>> \o subOut[i] = subOut[i]
    BY LastCommand, ConcatEmptySeq DEF RegistryTyped
  <2>1. RegistryTyped'
    BY <1>6, <2>a DEF RegistryTyped, Blip, SubscriberReconnects
  <2>2. at' = at /\ failed' = failed
    BY <1>6 DEF Blip
  <2>3. ASSUME NEW j \in Instance PROVE WillListen(j)' <=> WillListen(j)
    <3>1. CASE j # i
      BY <1>6, <3>1 DEF RegistryTyped, Blip, SubscriberReconnects, WillListen
    <3>2. CASE j = i /\ i \in subs
      <4>1. subOut'[i] = <<"subscribe">> \o subOut[i]
        BY <1>6, <3>2 DEF RegistryTyped, Blip
      <4> QED BY <3>2, <4>1, LastCommand DEF RegistryTyped, WillListen
    <3>3. CASE j = i /\ i \notin subs
      <4>1. subOut'[i] = subOut[i]
        BY <1>6, <2>a, <3>3 DEF RegistryTyped, Blip
      <4> QED BY <1>6, <3>3, <4>1 DEF Blip, SubscriberReconnects, WillListen
    <3> QED BY <3>1, <3>2, <3>3
  <2> QED BY <2>1, <2>2, <2>3 DEF SubscriptionFollows, WillListen, Local
<1>7. ASSUME NEW i \in Instance, Outage(i) PROVE RegistryInv'
  <2>1. CASE Exit(i)
    BY <2>1, ExitRegistry
  <2>2. CASE /\ SubscriberReconnects(i)
             /\ subOut' = [subOut EXCEPT ![i] = IF i \in subs THEN <<"subscribe">> ELSE <<>>]
             /\ failed' = failed \cup {i} /\ at' = at
    <3>a. <<"subscribe">> \in Seq(Command) /\ <<>> \in Seq(Command)
      BY DEF Command
    <3>1. RegistryTyped'
      BY <2>2, <3>a DEF RegistryTyped, SubscriberReconnects
    <3>2. ASSUME NEW j \in Instance, j # i
          PROVE  Local(j)' = Local(j) /\ WillListen(j)' = WillListen(j)
      BY <2>2, <3>2 DEF RegistryTyped, SubscriberReconnects, WillListen, Local
    <3> QED BY <2>2, <3>1, <3>2 DEF SubscriptionFollows, WillListen
  <2> QED BY <1>7, <2>1, <2>2 DEF Outage
<1>8. ASSUME NEW i \in Instance, Redis(i) \/ Loop(i)
      PROVE  RedisSubscribe(i) \/ UNCHANGED <<at, subs, subOut, failed>>
  BY <1>8 DEF Redis, Loop, RedisPublish, RedisWrite, RedisGet, RedisGetAll, RedisPrune,
              ElsewhereUnchanged, OnMessage, ResumeRemove, ReplayBegins, ReplayGoesOn,
              redisVars, histVars
<1>14. ASSUME NEW i \in Instance, PublisherBlip(i) PROVE UNCHANGED <<at, subs, subOut, failed>>
  BY <1>14 DEF PublisherBlip, redisVars
<1>9. ASSUME NEW x \in asked, ResumeTour(x) PROVE UNCHANGED <<at, subs, subOut, failed>>
  BY <1>9 DEF ResumeTour, redisVars
<1>10. ASSUME NEW c \in Conn, NEW h \in Hazard, HandleHazard(c, h) \/ HandleRemove(c, h)
       PROVE  UNCHANGED <<at, subs, subOut, failed>>
  BY <1>10 DEF HandleHazard, HandleRemove, redisVars
<1>11. ASSUME NEW c \in Conn, NEW v, HandleTour(c, v) PROVE UNCHANGED <<at, subs, subOut, failed>>
  BY <1>11 DEF HandleTour, redisVars, histVars
<1>12. ASSUME NEW h \in Hazard, Expire(h) PROVE UNCHANGED <<at, subs, subOut, failed>>
  BY <1>12 DEF Expire, redisVars, queueVars, histVars
<1>13. CASE UNCHANGED vars
  BY <1>1, <1>13 DEF vars, redisVars, queueVars, histVars
<1> QED BY <1>1, <1>2, <1>3, <1>4, <1>5, <1>6, <1>7, <1>8, <1>9, <1>10, <1>11, <1>12, <1>13, <1>14 DEF Next

(* No order of joins, leaves and broken connections leaves an instance     *)
(* deaf for its members, or subscribed for nobody, for any number of them. *)
THEOREM NoDeafInstance == Spec => []SubscriptionFollows
<1>1. Init => RegistryInv
  BY RedisAssumption DEF Init, RegistryInv, RegistryTyped, SubscriptionFollows, Local
<1>2. RegistryInv /\ [Next]_vars => RegistryInv'
  BY RegistryStep
<1>3. RegistryInv => SubscriptionFollows
  BY DEF RegistryInv
<1> QED BY <1>1, <1>2, <1>3, PTL DEF Spec

-----------------------------------------------------------------------------
(* The order of live frames.                                               *)

(* In s, frames that went in through the same instance are in the order of *)
(* the log L, and each of them precedes those of t, except for frames of R *)
(* that come once more.                                                    *)
Ordered(s, L, R) ==
  \A j, k \in 1 .. Len(s) : j < k /\ L[s[j]].via = L[s[k]].via => s[j] < s[k] \/ s[k] \in R
Before(s, t, L, R) ==
  \A n \in ToSet(s), m \in ToSet(t) : L[n].via = L[m].via => n < m \/ m \in R

(* A socket can hear again what another instance published again.          *)
Again(c) == {n \in resent : log[n].via # at[c]}

(* The queues hold positions of the log; a publisher's hold its own, from  *)
(* one of them on.                                                         *)
QueuesTyped ==
  /\ log \in Seq(ToSet(log))
  /\ pubOut \in [Instance -> Seq(1 .. Len(log))]
  /\ subIn \in [Instance -> Seq(1 .. Len(log))]
  /\ heard \in [Conn -> Seq(1 .. Len(log))]
  /\ resent \subseteq 1 .. Len(log)
  /\ \A i \in Instance : \A n \in ToSet(pubOut[i]) : log[n].via = i
  /\ \A i \in Instance : \A n \in ToSet(pubOut[i]), m \in 1 .. Len(log) :
       n < m /\ log[m].via = i => m \in ToSet(pubOut[i])

(* What a socket has heard of an instance other than its own comes before  *)
(* what is pushed to its instance, and that before what is published.      *)
(* (Frames of its own instance it hears at once, ahead of their echo.)     *)
InOrder ==
  /\ \A i \in Instance : Ordered(pubOut[i], log, {}) /\ Ordered(subIn[i], log, resent)
  /\ \A i, j \in Instance : Before(subIn[j], pubOut[i], log, resent)
  /\ \A c \in Conn : Ordered(heard[c], log, Again(c))
  /\ \A c \in Conn : at[c] = None => heard[c] = <<>>
  /\ \A c \in Conn : \A i \in Instance \ {at[c]} : Before(heard[c], pubOut[i], log, resent)
  /\ \A c \in Conn : \A j \in Instance : at[c] = j =>
       \A n \in ToSet(heard[c]), m \in ToSet(subIn[j]) :
         log[n].via = log[m].via /\ log[m].via # j => n < m \/ m \in resent

OrderInv == RegistryTyped /\ QueuesTyped /\ InOrder

(* Elements and length of a queue after one more and after one less.       *)
LEMMA Pushed ==
  ASSUME NEW S, NEW s \in Seq(S), NEW x \in S
  PROVE  /\ Append(s, x) \in Seq(S) /\ Append(s, x) # <<>>
         /\ ToSet(Append(s, x)) = ToSet(s) \cup {x}
         /\ Len(s) \in Nat /\ Len(Append(s, x)) = Len(s) + 1
         /\ Append(s, x)[Len(s) + 1] = x
         /\ \A k \in 1 .. Len(s) : Append(s, x)[k] = s[k]
<1>1. /\ Len(Append(s, x)) = Len(s) + 1 /\ Append(s, x)[Len(s) + 1] = x /\ Len(s) \in Nat
      /\ DOMAIN s = 1 .. Len(s) /\ DOMAIN Append(s, x) = 1 .. Len(s) + 1
      /\ \A k \in 1 .. Len(s) : Append(s, x)[k] = s[k]
      /\ Append(s, x) \in Seq(S) /\ Append(s, x) # <<>>
  OBVIOUS
<1>2. ToSet(Append(s, x)) = ToSet(s) \cup {x}
  BY <1>1 DEF ToSet
<1> QED BY <1>1, <1>2

(* Taking the head leaves the other elements in their order.               *)
LEMMA Popped ==
  ASSUME NEW S, NEW s \in Seq(S), s # <<>>
  PROVE  /\ Tail(s) \in Seq(S) /\ Head(s) \in S /\ Head(s) = s[1]
         /\ ToSet(s) = {Head(s)} \cup ToSet(Tail(s))
         /\ Len(s) \in Nat \ {0} /\ Len(Tail(s)) = Len(s) - 1
         /\ \A k \in 1 .. Len(s) - 1 : Tail(s)[k] = s[k + 1]
<1>1. /\ Len(s) \in Nat \ {0} /\ Len(Tail(s)) = Len(s) - 1 /\ Head(s) = s[1]
      /\ DOMAIN s = 1 .. Len(s) /\ DOMAIN Tail(s) = 1 .. Len(Tail(s))
      /\ \A k \in 1 .. Len(Tail(s)) : Tail(s)[k] = s[k + 1]
      /\ Tail(s) \in Seq(S) /\ Head(s) \in S
  OBVIOUS
<1>2. ToSet(Tail(s)) \subseteq ToSet(s) /\ Head(s) \in ToSet(s)
  BY <1>1 DEF ToSet
<1>3. ASSUME NEW e \in ToSet(s), e # Head(s) PROVE e \in ToSet(Tail(s))
  <2>1. PICK k \in 1 .. Len(s) : s[k] = e
    BY <1>1 DEF ToSet
  <2>2. k # 1
    BY <1>1, <1>3, <2>1
  <2>3. k - 1 \in 1 .. Len(Tail(s)) /\ Tail(s)[k - 1] = e
    BY <1>1, <2>1, <2>2
  <2> QED BY <1>1, <2>3 DEF ToSet
<1> QED BY <1>1, <1>2, <1>3

(* The first k elements of a queue.                                        *)
LEMMA Prefix ==
  ASSUME NEW S, NEW t \in Seq(S), NEW k \in Nat, k \in 1 .. Len(t), NEW u, u = SubSeq(t, 1, k)
  PROVE  /\ u \in Seq(S) /\ Len(u) = k /\ k \in Nat /\ ToSet(u) \subseteq ToSet(t)
         /\ \A q \in 1 .. k : u[q] = t[q] /\ t[q] \in ToSet(u)
         /\ \A x \in ToSet(u) : \E q \in 1 .. k : x = t[q]
<1>1. Len(t) \in Nat /\ DOMAIN t = 1 .. Len(t) /\ k \in Nat /\ k <= Len(t)
  BY LenProperties
<1>2. u \in Seq(S) /\ Len(u) = k /\ \A q \in 1 .. k : u[q] = t[q]
  BY <1>1, SubSeqProperties
<1>3. DOMAIN u = 1 .. k
  BY <1>2, LenProperties
<1>4. /\ \A q \in 1 .. k : t[q] \in ToSet(u)
      /\ \A x \in ToSet(u) : \E q \in 1 .. k : x = t[q]
  BY <1>2, <1>3 DEF ToSet
<1>5. ASSUME NEW x \in ToSet(u) PROVE x \in ToSet(t)
  <2>1. PICK q \in 1 .. k : x = t[q]
    BY <1>4
  <2>2. q \in DOMAIN t
    BY <1>1
  <2> QED BY <2>1, <2>2 DEF ToSet
<1> QED BY <1>1, <1>2, <1>4, <1>5

(* A queue with another one behind it.                                     *)
LEMMA Joined ==
  ASSUME NEW S, NEW s \in Seq(S), NEW u \in Seq(S)
  PROVE  /\ s \o u \in Seq(S) /\ Len(s) \in Nat /\ Len(s \o u) = Len(s) + Len(u)
         /\ \A q \in 1 .. Len(s) : (s \o u)[q] = s[q]
         /\ \A q \in Len(s) + 1 .. Len(s) + Len(u) : (s \o u)[q] = u[q - Len(s)]
         /\ ToSet(s \o u) = ToSet(s) \cup ToSet(u)
<1>1. /\ Len(s) \in Nat /\ DOMAIN s = 1 .. Len(s)
      /\ Len(u) \in Nat /\ DOMAIN u = 1 .. Len(u)
  BY LenProperties
<1>2. PICK v : v = s \o u
  OBVIOUS
<1>3. /\ v \in Seq(S) /\ Len(v) = Len(s) + Len(u)
      /\ \A q \in 1 .. Len(s) + Len(u) : v[q] = IF q <= Len(s) THEN s[q] ELSE u[q - Len(s)]
  BY <1>2, ConcatProperties
<1>4. DOMAIN v = 1 .. Len(s) + Len(u)
  BY <1>3, LenProperties
<1>5. \A q \in 1 .. Len(s) : v[q] = s[q] /\ q \in DOMAIN v
  BY <1>1, <1>3, <1>4
<1>6. \A q \in Len(s) + 1 .. Len(s) + Len(u) : v[q] = u[q - Len(s)] /\ q - Len(s) \in DOMAIN u
  BY <1>1, <1>3
<1>7. \A q \in DOMAIN v : q \in 1 .. Len(s) \/ q \in Len(s) + 1 .. Len(s) + Len(u)
  BY <1>1, <1>4
<1>8. ToSet(v) \subseteq ToSet(s) \cup ToSet(u)
  BY <1>1, <1>5, <1>6, <1>7 DEF ToSet
<1>9. ToSet(s) \subseteq ToSet(v)
  BY <1>1, <1>5 DEF ToSet
<1>10. ASSUME NEW q \in DOMAIN u PROVE u[q] \in ToSet(v)
  <2>1. /\ Len(s) + q \in Len(s) + 1 .. Len(s) + Len(u) /\ (Len(s) + q) - Len(s) = q
        /\ Len(s) + q \in DOMAIN v
    BY <1>1, <1>4
  <2>2. v[Len(s) + q] = u[q]
    BY <1>6, <2>1
  <2> QED BY <2>1, <2>2 DEF ToSet
<1>11. ToSet(u) \subseteq ToSet(v)
  BY <1>10 DEF ToSet
<1> QED BY <1>1, <1>2, <1>3, <1>5, <1>6, <1>8, <1>9, <1>11

(* A queue with the first k of another one behind it.                      *)
LEMMA Prefixed ==
  ASSUME NEW S, NEW s \in Seq(S), NEW t \in Seq(S), NEW k \in 1 .. Len(t)
  PROVE  /\ s \o SubSeq(t, 1, k) \in Seq(S)
         /\ Len(s) \in Nat /\ k \in Nat /\ Len(s \o SubSeq(t, 1, k)) = Len(s) + k
         /\ \A q \in 1 .. Len(s) : (s \o SubSeq(t, 1, k))[q] = s[q]
         /\ \A q \in Len(s) + 1 .. Len(s) + k : (s \o SubSeq(t, 1, k))[q] = t[q - Len(s)]
         /\ ToSet(s \o SubSeq(t, 1, k)) = ToSet(s) \cup ToSet(SubSeq(t, 1, k))
<1>1. PICK u : u = SubSeq(t, 1, k)
  OBVIOUS
<1>2. u \in Seq(S) /\ Len(u) = k /\ k \in Nat /\ \A q \in 1 .. k : u[q] = t[q]
  BY <1>1, Prefix
<1>3. PICK v : v = s \o u
  OBVIOUS
<1>4. /\ v \in Seq(S) /\ Len(s) \in Nat /\ Len(v) = Len(s) + k
      /\ \A q \in 1 .. Len(s) : v[q] = s[q]
      /\ \A q \in Len(s) + 1 .. Len(s) + k : v[q] = u[q - Len(s)]
      /\ ToSet(v) = ToSet(s) \cup ToSet(u)
  <2>1. /\ s \o u \in Seq(S) /\ Len(s) \in Nat /\ Len(s \o u) = Len(s) + Len(u)
        /\ \A q \in 1 .. Len(s) : (s \o u)[q] = s[q]
        /\ \A q \in Len(s) + 1 .. Len(s) + Len(u) : (s \o u)[q] = u[q - Len(s)]
        /\ ToSet(s \o u) = ToSet(s) \cup ToSet(u)
    BY <1>2, Joined
  <2> QED BY <1>2, <1>3, <2>1
<1>5. \A q \in Len(s) + 1 .. Len(s) + k : v[q] = t[q - Len(s)]
  <2> SUFFICES ASSUME NEW q \in Len(s) + 1 .. Len(s) + k PROVE v[q] = t[q - Len(s)]
    OBVIOUS
  <2>1. q - Len(s) \in 1 .. k
    BY <1>2, <1>4
  <2> QED BY <1>2, <1>4, <2>1
<1> QED BY <1>1, <1>2, <1>3, <1>4, <1>5

(* A frame behind the others, when it comes after those of its instance.   *)
LEMMA OrderedAppend ==
  ASSUME NEW N \in Nat, NEW s \in Seq(1 .. N), NEW n \in Nat, NEW L, NEW R, Ordered(s, L, R),
         \A m \in ToSet(s) : L[m].via = L[n].via => m < n \/ n \in R
  PROVE  /\ Ordered(Append(s, n), L, R)
         /\ ToSet(Append(s, n)) = ToSet(s) \cup {n}
<1>1. /\ Len(Append(s, n)) = Len(s) + 1 /\ Append(s, n)[Len(s) + 1] = n /\ Len(s) \in Nat
      /\ DOMAIN s = 1 .. Len(s) /\ DOMAIN Append(s, n) = 1 .. Len(s) + 1
      /\ \A k \in 1 .. Len(s) : Append(s, n)[k] = s[k]
  OBVIOUS
<1>2. Ordered(Append(s, n), L, R)
  <2> DEFINE t == Append(s, n)
  <2>1. ASSUME NEW j \in 1 .. Len(t), NEW k \in 1 .. Len(t), j < k, L[t[j]].via = L[t[k]].via
        PROVE  t[j] < t[k] \/ t[k] \in R
    <3>1. j \in 1 .. Len(s) /\ t[j] = s[j] /\ s[j] \in ToSet(s)
      BY SMTT(40), <1>1, <2>1 DEF ToSet
    <3>2. CASE k \in 1 .. Len(s)
      BY <1>1, <2>1, <3>1, <3>2 DEF Ordered
    <3>3. CASE k = Len(s) + 1
      BY <1>1, <2>1, <3>1, <3>3
    <3> QED BY <1>1, <3>2, <3>3
  <2> HIDE DEF t
  <2> QED BY <2>1 DEF Ordered, t
<1>3. ToSet(Append(s, n)) = ToSet(s) \cup {n}
  BY SMTT(40), <1>1 DEF ToSet
<1> QED BY <1>2, <1>3

(* The frames behind the first one.                                        *)
LEMMA OrderedTail ==
  ASSUME NEW N \in Nat, NEW s \in Seq(1 .. N), s # <<>>, NEW L, NEW R, Ordered(s, L, R)
  PROVE  /\ Ordered(Tail(s), L, R)
         /\ Tail(s) \in Seq(1 .. N) /\ Head(s) \in 1 .. N
         /\ ToSet(Tail(s)) \subseteq ToSet(s) /\ Head(s) \in ToSet(s)
         /\ Before(<<Head(s)>>, Tail(s), L, R)
<1>1. /\ Len(s) \in Nat \ {0} /\ Len(Tail(s)) = Len(s) - 1 /\ Head(s) = s[1]
      /\ DOMAIN s = 1 .. Len(s) /\ DOMAIN Tail(s) = 1 .. Len(Tail(s))
      /\ \A k \in 1 .. Len(Tail(s)) : Tail(s)[k] = s[k + 1]
      /\ Tail(s) \in Seq(1 .. N) /\ Head(s) \in 1 .. N
  OBVIOUS
<1>2. Ordered(Tail(s), L, R)
  <2> DEFINE t == Tail(s)
  <2>1. ASSUME NEW j \in 1 .. Len(t), NEW k \in 1 .. Len(t), j < k, L[t[j]].via = L[t[k]].via
        PROVE  t[j] < t[k] \/ t[k] \in R
    <3>1. j + 1 \in 1 .. Len(s) /\ k + 1 \in 1 .. Len(s) /\ j + 1 < k + 1
      BY <1>1, <2>1
    <3> QED BY <1>1, <2>1, <3>1 DEF Ordered
  <2> HIDE DEF t
  <2> QED BY <2>1 DEF Ordered, t
<1>3. ToSet(Tail(s)) \subseteq ToSet(s) /\ Head(s) \in ToSet(s)
  BY SMTT(40), <1>1 DEF ToSet
<1>4. ToSet(<<Head(s)>>) = {Head(s)}
  BY DEF ToSet
<1>5. \A k \in 1 .. Len(Tail(s)) : L[s[1]].via = L[s[k + 1]].via => s[1] < s[k + 1] \/ s[k + 1] \in R
  BY <1>1 DEF Ordered
<1>6. Before(<<Head(s)>>, Tail(s), L, R)
  BY SMTT(40), <1>1, <1>4, <1>5 DEF Before, ToSet
<1> QED BY <1>1, <1>2, <1>3, <1>6

(* Elements of a queue of positions.                                       *)
LEMMA QueueElements ==
  ASSUME NEW T, NEW s \in Seq(T)
  PROVE  ToSet(s) \subseteq T
<1>1. DOMAIN s = 1 .. Len(s) /\ \A k \in 1 .. Len(s) : s[k] \in T
  OBVIOUS
<1> QED BY <1>1 DEF ToSet

(* Nothing is in the empty queue, and it is in order.                      *)
LEMMA EmptyQueue ==
  /\ ToSet(<<>>) = {}
  /\ \A L, R : Ordered(<<>>, L, R)
  /\ \A N : <<>> \in Seq(1 .. N)
BY DEF ToSet, Ordered

(* Frames that are in the queues keep their order as the log grows.        *)
LEMMA LogGrows ==
  ASSUME NEW N \in Nat, NEW L, NEW M, NEW R, \A k \in 1 .. N : M[k] = L[k],
         NEW s \in Seq(1 .. N), NEW t \in Seq(1 .. N)
  PROVE  /\ s \in Seq(1 .. N + 1)
         /\ Ordered(s, L, R) => Ordered(s, M, R)
         /\ Before(s, t, L, R) => Before(s, t, M, R)
<1>1. 1 .. N \subseteq 1 .. N + 1
  OBVIOUS
<1>2. s \in Seq(1 .. N + 1)
  BY <1>1, SeqMonotonic
<1>3. Len(s) \in Nat /\ \A k \in 1 .. Len(s) : s[k] \in 1 .. N
  OBVIOUS
<1>4. Ordered(s, L, R) => Ordered(s, M, R)
  BY <1>3 DEF Ordered
<1>5. ToSet(s) \subseteq 1 .. N /\ ToSet(t) \subseteq 1 .. N
  BY QueueElements
<1>6. Before(s, t, L, R) => Before(s, t, M, R)
  BY <1>5 DEF Before
<1> QED BY <1>2, <1>4, <1>6

(* A relayed frame is the newest of the log, wherever it goes.             *)
LEMMA RelayOrder ==
  ASSUME OrderInv, RegistryTyped', NEW i \in Instance, NEW f, Relay(i, f), at' = at, subIn' = subIn,
         resent' = resent
  PROVE  OrderInv'
<1> USE DEF OrderInv
<1>1. PICK n \in Nat : n = Len(log) + 1 /\ Len(log) \in Nat
  BY DEF QueuesTyped
<1>2. PICK to \in SUBSET Local(i) :
        heard' = [c \in Conn |-> IF c \in to THEN Append(heard[c], n) ELSE heard[c]]
  BY <1>1 DEF Relay, Sent
<1>3. pubOut' = [pubOut EXCEPT ![i] = Append(@, n)]
  BY <1>1 DEF Relay
<1>4. /\ log' \in Seq(ToSet(log')) /\ Len(log') = n /\ log'[n].via = i
      /\ \A k \in 1 .. Len(log) : log'[k] = log[k]
  <2> DEFINE e == [field |-> f.field, value |-> f.value, from |-> f.from, via |-> i]
  <2>1. log' = Append(log, e) /\ e.via = i
    BY DEF Relay
  <2> HIDE DEF e
  <2>2. log \in Seq(ToSet(log) \cup {e})
    BY SeqMonotonic DEF QueuesTyped
  <2>3. /\ log' \in Seq(ToSet(log) \cup {e}) /\ Len(log') = Len(log) + 1
        /\ log'[Len(log) + 1] = e /\ \A k \in 1 .. Len(log) : log'[k] = log[k]
    BY <2>1, <2>2, AppendProperties
  <2>4. DOMAIN log' = 1 .. Len(log')
    BY <2>3, LenProperties
  <2>5. \A k \in 1 .. Len(log') : log'[k] \in ToSet(log')
    BY <2>4 DEF ToSet
  <2>6. log' \in Seq(ToSet(log'))
    BY <2>3, <2>5, LenProperties, SeqDef
  <2> QED BY <1>1, <2>1, <2>3, <2>6
<1>5. \A s \in Seq(1 .. Len(log)) : \A m \in ToSet(s) : m < n /\ m \in 1 .. Len(log)
  BY <1>1, QueueElements
<1>6. ASSUME NEW s \in Seq(1 .. Len(log)), NEW R, Ordered(s, log, R)
      PROVE  /\ s \in Seq(1 .. n) /\ Ordered(s, log', R)
             /\ Append(s, n) \in Seq(1 .. n) /\ Ordered(Append(s, n), log', R)
             /\ ToSet(Append(s, n)) = ToSet(s) \cup {n}
  <2>1. s \in Seq(1 .. n) /\ Ordered(s, log', R)
    BY <1>1, <1>4, <1>6, LogGrows
  <2>2. Append(s, n) \in Seq(1 .. n)
    BY <1>1, <2>1
  <2> QED BY <1>1, <1>5, <2>1, <2>2, OrderedAppend
<1>7. \A j \in Instance : /\ pubOut[j] \in Seq(1 .. Len(log)) /\ Ordered(pubOut[j], log, {})
                          /\ subIn[j] \in Seq(1 .. Len(log)) /\ Ordered(subIn[j], log, resent)
  BY DEF QueuesTyped, InOrder
<1>8. \A c \in Conn : heard[c] \in Seq(1 .. Len(log)) /\ Ordered(heard[c], log, Again(c))
  BY DEF QueuesTyped, InOrder
<1>9. \A j \in Instance : /\ pubOut'[j] \in Seq(1 .. n) /\ Ordered(pubOut'[j], log', {})
                          /\ ToSet(pubOut'[j]) = ToSet(pubOut[j]) \cup IF j = i THEN {n} ELSE {}
                          /\ subIn'[j] \in Seq(1 .. n) /\ Ordered(subIn'[j], log', resent)
  BY <1>3, <1>6, <1>7 DEF QueuesTyped
<1>10. \A c \in Conn : /\ heard'[c] \in Seq(1 .. n) /\ Ordered(heard'[c], log', Again(c)')
                       /\ ToSet(heard'[c]) = ToSet(heard[c]) \cup IF c \in to THEN {n} ELSE {}
  <2> TAKE c \in Conn
  <2>1. Again(c)' = Again(c)
    BY <1>4 DEF QueuesTyped, Again
  <2> QED BY <1>2, <1>6, <1>8, <2>1
<1>11. QueuesTyped'
  <2>1. ASSUME NEW j \in Instance, NEW m \in ToSet(pubOut'[j]) PROVE log'[m].via = j
    <3>1. CASE m \in ToSet(pubOut[j])
      <4>1. log'[m] = log[m]
        BY <1>4, <1>5, <1>7, <3>1
      <4> QED BY <3>1, <4>1 DEF QueuesTyped
    <3>2. CASE m \notin ToSet(pubOut[j])
      BY <1>4, <1>9, <2>1, <3>2
    <3> QED BY <3>1, <3>2
  <2>4. ASSUME NEW j \in Instance, NEW p \in ToSet(pubOut'[j]), NEW m \in 1 .. n, p < m, log'[m].via = j
        PROVE  m \in ToSet(pubOut'[j])
    <3>1. CASE m = n
      BY <1>4, <1>9, <2>4, <3>1
    <3>2. CASE m # n
      <4>1. m \in 1 .. Len(log) /\ log'[m] = log[m]
        BY <1>1, <1>4, <2>4, <3>2
      <4>2. p \in ToSet(pubOut[j])
        <5>1. p # n
          BY <1>1, <2>4
        <5> QED BY <1>9, <2>4, <5>1
      <4>3. m \in ToSet(pubOut[j])
        BY <2>4, <4>1, <4>2 DEF QueuesTyped
      <4> QED BY <1>9, <4>3
    <3> QED BY <3>1, <3>2
  <2>5. resent' \subseteq 1 .. n
    BY <1>1 DEF QueuesTyped
  <2>2. pubOut' \in [Instance -> Seq(1 .. n)] /\ subIn' \in [Instance -> Seq(1 .. n)]
    BY <1>3, <1>9 DEF QueuesTyped
  <2>3. heard' \in [Conn -> Seq(1 .. n)]
    BY <1>2, <1>10
  <2> QED BY <1>4, <2>1, <2>2, <2>3, <2>4, <2>5 DEF QueuesTyped
<1>12. ASSUME NEW j \in Instance, NEW k \in Instance
       PROVE  Before(subIn'[j], pubOut'[k], log', resent)
  <2>1. \A m \in ToSet(subIn[j]) : m < n /\ log'[m] = log[m]
    BY <1>4, <1>5, <1>7
  <2>2. \A m \in ToSet(pubOut[k]) : log'[m] = log[m]
    BY <1>4, <1>5, <1>7
  <2>3. Before(subIn[j], pubOut[k], log, resent)
    BY DEF InOrder
  <2> QED BY ZenonT(40), <1>9, <2>1, <2>2, <2>3 DEF Before
<1>13. ASSUME NEW c \in Conn, NEW k \in Instance \ {at[c]}
       PROVE  Before(heard'[c], pubOut'[k], log', resent)
  <2>1. \A m \in ToSet(heard[c]) : m < n /\ log'[m] = log[m]
    BY <1>4, <1>5, <1>8
  <2>2. \A m \in ToSet(pubOut[k]) : log'[m] = log[m] /\ log[m].via = k
    BY <1>4, <1>5, <1>7 DEF QueuesTyped
  <2>3. Before(heard[c], pubOut[k], log, resent)
    BY DEF InOrder
  <2>4. c \in to => k # i
    BY <1>2 DEF Local
  <2>5. ASSUME NEW p \in ToSet(heard'[c]), NEW m \in ToSet(pubOut'[k]), log'[p].via = log'[m].via
        PROVE  p < m \/ m \in resent
    <3>1. CASE p \in ToSet(heard[c]) /\ m \in ToSet(pubOut[k])
      BY <2>1, <2>2, <2>3, <2>5, <3>1 DEF Before
    <3>2. CASE p \in ToSet(heard[c]) /\ m \notin ToSet(pubOut[k])
      <4>1. m = n
        BY <1>9, <2>5, <3>2
      <4> QED BY <2>1, <3>2, <4>1
    <3>3. CASE p \notin ToSet(heard[c])
      <4>1. p = n /\ c \in to
        BY <1>10, <2>5, <3>3
      <4>2. log'[p].via = i /\ k # i
        BY <1>4, <2>4, <4>1
      <4>3. m \in ToSet(pubOut[k])
        BY <1>9, <2>5, <4>2
      <4>4. log'[m].via = k
        BY <2>2, <4>3
      <4> QED BY <2>5, <4>2, <4>4
    <3> QED BY <3>1, <3>2, <3>3
  <2> QED BY <2>5 DEF Before
<1>14. ASSUME NEW c \in Conn, NEW j \in Instance, at[c] = j,
              NEW p \in ToSet(heard'[c]), NEW m \in ToSet(subIn[j]),
              log'[p].via = log'[m].via, log'[m].via # j
       PROVE  p < m \/ m \in resent
  <2>1. log'[m] = log[m]
    BY <1>4, <1>5, <1>7
  <2>2. p = n => c \in to /\ i = j
    BY <1>2, <1>5, <1>8, <1>10, <1>14 DEF Local
  <2>3. p \in ToSet(heard[c]) /\ log'[p] = log[p]
    BY <1>4, <1>5, <1>8, <1>10, <1>14, <2>2
  <2> QED BY <1>14, <2>1, <2>3 DEF InOrder
<1>15. ASSUME NEW c \in Conn, at[c] = None PROVE heard'[c] = <<>>
  BY <1>2, <1>15, RedisAssumption DEF Local, InOrder
<1> QED BY <1>9, <1>10, <1>11, <1>12, <1>13, <1>14, <1>15 DEF InOrder

(* Redis takes the next frame of an instance and pushes it to the others.  *)
LEMMA PublishOrder ==
  ASSUME OrderInv, RegistryTyped', NEW i \in Instance, RedisPublish(i)
  PROVE  OrderInv'
<1> USE DEF OrderInv
<1>1. PICK n : n = Head(pubOut[i])
  OBVIOUS
<1>2. PICK N \in Nat : N = Len(log)
  BY DEF QueuesTyped
<1>3. at' = at /\ log' = log /\ heard' = heard /\ resent' = resent
  BY DEF RedisPublish, histVars, deviceVars
<1>4. /\ Tail(pubOut[i]) \in Seq(1 .. N) /\ n \in 1 .. N /\ Ordered(Tail(pubOut[i]), log, {})
      /\ ToSet(Tail(pubOut[i])) \subseteq ToSet(pubOut[i]) /\ n \in ToSet(pubOut[i])
      /\ Before(<<n>>, Tail(pubOut[i]), log, {})
  BY <1>1, <1>2, OrderedTail DEF RedisPublish, QueuesTyped, InOrder
<1>5. pubOut' = [pubOut EXCEPT ![i] = Tail(@)]
  BY DEF RedisPublish
<1>6. \A j \in Instance : subIn'[j] = subIn[j] \/ subIn'[j] = Append(subIn[j], n)
  BY <1>1 DEF RedisPublish
<1>7. ASSUME NEW j \in Instance
      PROVE  /\ subIn'[j] \in Seq(1 .. N) /\ Ordered(subIn'[j], log, resent)
             /\ ToSet(subIn'[j]) \subseteq ToSet(subIn[j]) \cup {n}
  <2>1. subIn[j] \in Seq(1 .. N) /\ Ordered(subIn[j], log, resent) /\ Before(subIn[j], pubOut[i], log, resent)
    BY <1>2 DEF QueuesTyped, InOrder
  <2>2. \A m \in ToSet(subIn[j]) : log[m].via = log[n].via => m < n \/ n \in resent
    BY <1>4, <2>1 DEF Before
  <2>3. Append(subIn[j], n) \in Seq(1 .. N)
    BY <1>4, <2>1
  <2>4. Ordered(Append(subIn[j], n), log, resent) /\ ToSet(Append(subIn[j], n)) = ToSet(subIn[j]) \cup {n}
    BY <1>4, <2>1, <2>2, OrderedAppend
  <2> QED BY <1>6, <2>1, <2>3, <2>4
<1>8. \A j \in Instance : /\ pubOut'[j] \in Seq(1 .. N) /\ Ordered(pubOut'[j], log, {})
                          /\ ToSet(pubOut'[j]) \subseteq ToSet(pubOut[j])
  BY <1>2, <1>4, <1>5 DEF QueuesTyped, InOrder
<1>9. QueuesTyped'
  <2>1. pubOut' \in [Instance -> Seq(1 .. N)]
    BY <1>5, <1>8 DEF QueuesTyped
  <2>2. subIn' \in [Instance -> Seq(1 .. N)]
    BY <1>7 DEF RedisPublish
  <2>3. ASSUME NEW j \in Instance, NEW p \in ToSet(pubOut'[j]), NEW m \in 1 .. N, p < m, log[m].via = j
        PROVE  m \in ToSet(pubOut'[j])
    <3>1. m \in ToSet(pubOut[j])
      BY <1>2, <1>8, <2>3 DEF QueuesTyped
    <3>2. CASE j = i
      <4>1. n < p
        <5>1. p \in ToSet(Tail(pubOut[i]))
          BY <1>5, <2>3, <3>2 DEF QueuesTyped
        <5>2. log[p].via = i /\ log[n].via = i
          BY <1>4, <5>1 DEF QueuesTyped
        <5>3. n \in ToSet(<<n>>)
          BY DEF ToSet
        <5> QED BY <1>4, <5>1, <5>2, <5>3 DEF Before
      <4>2. p \in 1 .. N
        BY <1>8, <2>3, QueueElements
      <4>3. m # n
        BY <1>4, <2>3, <4>1, <4>2
      <4>4. ToSet(pubOut[i]) = {n} \cup ToSet(Tail(pubOut[i]))
        BY <1>1, <1>2, Popped DEF RedisPublish, QueuesTyped
      <4> QED BY <1>5, <3>1, <3>2, <4>3, <4>4 DEF QueuesTyped
    <3>3. CASE j # i
      BY <1>5, <3>1, <3>3 DEF QueuesTyped
    <3> QED BY <3>2, <3>3
  <2> QED BY <1>2, <1>3, <1>8, <2>1, <2>2, <2>3 DEF QueuesTyped
<1>10. log[n].via = i
  BY <1>4 DEF QueuesTyped
<1>11. ASSUME NEW j \in Instance, NEW k \in Instance PROVE Before(subIn'[j], pubOut'[k], log, resent)
  <2>1. Before(subIn[j], pubOut[k], log, resent) /\ \A m \in ToSet(pubOut[k]) : log[m].via = k
    BY DEF InOrder, QueuesTyped
  <2>2. ASSUME NEW m \in ToSet(pubOut'[k]), log[m].via = log[n].via PROVE n < m
    <3>1. k = i
      BY <1>8, <1>10, <2>1, <2>2
    <3>2. m \in ToSet(Tail(pubOut[i]))
      BY <1>5, <2>2, <3>1 DEF QueuesTyped
    <3>3. n \in ToSet(<<n>>)
      BY DEF ToSet
    <3> QED BY <1>4, <2>2, <3>2, <3>3 DEF Before
  <2> QED BY <1>7, <1>8, <2>1, <2>2 DEF Before
<1>12. ASSUME NEW c \in Conn, NEW k \in Instance \ {at[c]} PROVE Before(heard[c], pubOut'[k], log, resent)
  BY <1>8 DEF InOrder, Before
<1>13. ASSUME NEW c \in Conn, NEW j \in Instance, at[c] = j,
              NEW p \in ToSet(heard[c]), NEW m \in ToSet(subIn'[j]),
              log[p].via = log[m].via, log[m].via # j
       PROVE  p < m \/ m \in resent
  <2>1. CASE m \in ToSet(subIn[j])
    BY <1>13, <2>1 DEF InOrder
  <2>2. CASE m = n
    <3>1. Before(heard[c], pubOut[i], log, resent)
      BY <1>10, <1>13, <2>2 DEF InOrder
    <3> QED BY <1>4, <1>13, <2>2, <3>1 DEF Before
  <2> QED BY <1>7, <2>1, <2>2
<1> QED BY <1>3, <1>7, <1>8, <1>9, <1>11, <1>12, <1>13 DEF InOrder, Again

(* The publisher's connection breaks: the subscribers get the first frames *)
(* of the queue, which come again behind them.                             *)
LEMMA ResendOrder ==
  ASSUME OrderInv, RegistryTyped', NEW i \in Instance, PublisherBlip(i)
  PROVE  OrderInv'
<1> USE DEF OrderInv
<1>1. PICK N \in Nat : N = Len(log)
  BY DEF QueuesTyped
<1>2. UNCHANGED <<at, log, heard, pubOut>>
  BY DEF PublisherBlip, deviceVars
<1>3. PICK k \in 1 .. Len(pubOut[i]) :
        /\ subIn' = [j \in Instance |-> IF j \in subs THEN subIn[j] \o SubSeq(pubOut[i], 1, k) ELSE subIn[j]]
        /\ resent' = resent \cup ToSet(SubSeq(pubOut[i], 1, k))
  BY DEF PublisherBlip
<1>4. PICK sent : sent = ToSet(SubSeq(pubOut[i], 1, k))
  OBVIOUS
<1>5. pubOut[i] \in Seq(1 .. N) /\ ToSet(pubOut[i]) \subseteq 1 .. N
  BY <1>1, QueueElements DEF QueuesTyped
<1>6. /\ \A q \in 1 .. k : pubOut[i][q] \in sent
      /\ \A x \in sent : \E q \in 1 .. k : x = pubOut[i][q]
      /\ sent \subseteq ToSet(pubOut[i]) /\ sent \subseteq 1 .. N
  <2>1. PICK u : u = SubSeq(pubOut[i], 1, k)
    OBVIOUS
  <2>2. /\ ToSet(u) \subseteq ToSet(pubOut[i])
        /\ \A q \in 1 .. k : pubOut[i][q] \in ToSet(u)
        /\ \A x \in ToSet(u) : \E q \in 1 .. k : x = pubOut[i][q]
    <3>1. PICK S, t : S = 1 .. N /\ t = pubOut[i]
      OBVIOUS
    <3>2. t \in Seq(S) /\ Len(t) \in Nat /\ DOMAIN t = 1 .. Len(t) /\ k \in Nat /\ k \in 1 .. Len(t)
      BY <1>3, <1>5, <3>1, LenProperties
    <3>3. u \in Seq(S) /\ Len(u) = k /\ \A q \in 1 .. k : u[q] = t[q]
      BY <2>1, <3>1, <3>2, Prefix
    <3>4. DOMAIN u = 1 .. k
      BY <3>3, LenProperties
    <3>5. (\A q \in 1 .. k : t[q] \in ToSet(u)) /\ \A x \in ToSet(u) : \E q \in 1 .. k : x = t[q]
      BY <3>3, <3>4 DEF ToSet
    <3>6. ASSUME NEW x \in ToSet(u) PROVE x \in ToSet(t)
      <4>1. PICK q \in 1 .. k : x = t[q]
        BY <3>5
      <4>2. q \in DOMAIN t
        BY <3>2
      <4> QED BY <4>1, <4>2 DEF ToSet
    <3> QED BY <3>1, <3>5, <3>6
  <2> QED BY <1>4, <1>5, <2>1, <2>2
<1>7. resent' = resent \cup sent
  BY <1>3, <1>4
<1>8. ASSUME NEW j \in Instance
      PROVE  /\ subIn'[j] \in Seq(1 .. N) /\ Ordered(subIn'[j], log, resent')
             /\ ToSet(subIn'[j]) \subseteq ToSet(subIn[j]) \cup sent
  <2>1. subIn[j] \in Seq(1 .. N) /\ Ordered(subIn[j], log, resent)
    BY <1>1 DEF QueuesTyped, InOrder
  <2>2. CASE j \in subs
    <3> DEFINE u == subIn[j] \o SubSeq(pubOut[i], 1, k)
    <3>1. subIn'[j] = u
      BY <1>3, <2>2
    <3>2. /\ u \in Seq(1 .. N) /\ Len(subIn[j]) \in Nat /\ k \in Nat /\ Len(u) = Len(subIn[j]) + k
          /\ \A q \in 1 .. Len(subIn[j]) : u[q] = subIn[j][q]
          /\ \A q \in Len(subIn[j]) + 1 .. Len(subIn[j]) + k : u[q] = pubOut[i][q - Len(subIn[j])]
          /\ ToSet(u) = ToSet(subIn[j]) \cup sent
      BY <1>3, <1>4, <1>5, <2>1, Prefixed
    <3> HIDE DEF u
    <3>3. ASSUME NEW q \in Len(subIn[j]) + 1 .. Len(subIn[j]) + k PROVE u[q] \in sent
      <4>1. q - Len(subIn[j]) \in 1 .. k
        BY <3>2
      <4> QED BY <1>6, <3>2, <4>1
    <3>4. ASSUME NEW p \in 1 .. Len(u), NEW q \in 1 .. Len(u), p < q, log[u[p]].via = log[u[q]].via
          PROVE  u[p] < u[q] \/ u[q] \in resent'
      <4>1. CASE q \in 1 .. Len(subIn[j])
        <5>1. p \in 1 .. Len(subIn[j])
          BY <3>2, <3>4, <4>1
        <5> QED BY <1>7, <2>1, <3>2, <3>4, <4>1, <5>1 DEF Ordered
      <4>2. CASE q \notin 1 .. Len(subIn[j])
        <5>1. q \in Len(subIn[j]) + 1 .. Len(subIn[j]) + k
          BY <3>2, <4>2
        <5> QED BY <1>7, <3>3, <5>1
      <4> QED BY <4>1, <4>2
    <3> QED BY <3>1, <3>2, <3>4 DEF Ordered
  <2>3. CASE j \notin subs
    BY <1>3, <1>7, <2>1, <2>3 DEF Ordered
  <2> QED BY <2>2, <2>3
<1>9. QueuesTyped'
  <2>1. subIn' \in [Instance -> Seq(1 .. N)]
    BY <1>3, <1>8
  <2> QED BY <1>1, <1>2, <1>6, <1>7, <2>1 DEF QueuesTyped
<1>10. ASSUME NEW n \in sent, NEW m \in ToSet(pubOut[i]), m \notin sent PROVE n < m
  <2>1. PICK p \in 1 .. k : n = pubOut[i][p]
    BY <1>6
  <2>2. PICK q \in DOMAIN pubOut[i] : m = pubOut[i][q]
    BY DEF ToSet
  <2>3. DOMAIN pubOut[i] = 1 .. Len(pubOut[i]) /\ Len(pubOut[i]) \in Nat
    BY <1>5
  <2>4. p < q
    BY <1>3, <1>6, <1>10, <2>1, <2>2, <2>3
  <2>5. log[n].via = i /\ log[m].via = i
    BY <1>6 DEF QueuesTyped
  <2> QED BY <1>3, <2>1, <2>2, <2>3, <2>4, <2>5 DEF InOrder, Ordered
<1>11. ASSUME NEW j \in Instance, NEW l \in Instance PROVE Before(subIn'[j], pubOut[l], log, resent')
  <2> SUFFICES ASSUME NEW n \in ToSet(subIn'[j]), NEW m \in ToSet(pubOut[l]), log[n].via = log[m].via,
                      m \notin resent'
               PROVE  n < m
    BY DEF Before
  <2>1. CASE n \in ToSet(subIn[j])
    BY <1>7, <2>1 DEF InOrder, Before
  <2>2. CASE n \in sent
    <3>1. log[n].via = i /\ log[m].via = l
      BY <1>6, <2>2 DEF QueuesTyped
    <3> QED BY <1>7, <1>10, <2>2, <3>1
  <2> QED BY <1>8, <2>1, <2>2
<1>12. ASSUME NEW c \in Conn PROVE Ordered(heard[c], log, Again(c)')
  <2>1. Again(c) \subseteq Again(c)'
    BY <1>2, <1>7 DEF Again
  <2> QED BY <2>1 DEF InOrder, Ordered
<1>13. ASSUME NEW c \in Conn, NEW l \in Instance \ {at[c]} PROVE Before(heard[c], pubOut[l], log, resent')
  BY <1>7 DEF InOrder, Before
<1>14. ASSUME NEW c \in Conn, NEW j \in Instance, at[c] = j,
              NEW p \in ToSet(heard[c]), NEW m \in ToSet(subIn'[j]),
              log[p].via = log[m].via, log[m].via # j
       PROVE  p < m \/ m \in resent'
  <2>1. CASE m \in ToSet(subIn[j])
    BY <1>7, <1>14, <2>1 DEF InOrder
  <2> QED BY <1>7, <1>8, <2>1
<1> QED BY <1>2, <1>8, <1>9, <1>11, <1>12, <1>13, <1>14 DEF InOrder

(* An instance handles the next message of the channel.                    *)
LEMMA MessageOrder ==
  ASSUME OrderInv, RegistryTyped', NEW i \in Instance, OnMessage(i)
  PROVE  OrderInv'
<1> USE DEF OrderInv
<1>1. PICK n : n = Head(subIn[i])
  OBVIOUS
<1>2. PICK N \in Nat : N = Len(log)
  BY DEF QueuesTyped
<1>3. at' = at /\ log' = log /\ pubOut' = pubOut /\ resent' = resent
  BY DEF OnMessage, histVars
<1>4. /\ Tail(subIn[i]) \in Seq(1 .. N) /\ n \in 1 .. N /\ Ordered(Tail(subIn[i]), log, resent)
      /\ ToSet(Tail(subIn[i])) \subseteq ToSet(subIn[i]) /\ n \in ToSet(subIn[i])
      /\ Before(<<n>>, Tail(subIn[i]), log, resent)
  BY <1>1, <1>2, OrderedTail DEF OnMessage, QueuesTyped, InOrder
<1>5. subIn' = [subIn EXCEPT ![i] = Tail(@)]
  BY DEF OnMessage
<1>6. PICK to \in SUBSET Local(i) :
        /\ heard' = [c \in Conn |-> IF c \in to THEN Append(heard[c], n) ELSE heard[c]]
        /\ log[n].via = i => to = {}
  <2>1. CASE log[n].via = i
    <3>1. heard' = [c \in Conn |-> IF c \in {} THEN Append(heard[c], n) ELSE heard[c]]
      BY <1>1, <2>1 DEF OnMessage, QueuesTyped
    <3> QED BY <3>1
  <2>2. CASE log[n].via # i
    BY <1>1, <2>2 DEF OnMessage, Sent
  <2> QED BY <2>1, <2>2
<1>7. ASSUME NEW c \in Conn
      PROVE  /\ heard'[c] \in Seq(1 .. N) /\ Ordered(heard'[c], log, Again(c))
             /\ ToSet(heard'[c]) \subseteq ToSet(heard[c]) \cup IF c \in to THEN {n} ELSE {}
  <2>1. heard[c] \in Seq(1 .. N) /\ Ordered(heard[c], log, Again(c))
    BY <1>2 DEF QueuesTyped, InOrder
  <2>2. CASE c \in to
    <3>1. \A m \in ToSet(heard[c]) : log[m].via = log[n].via => m < n \/ n \in Again(c)
      BY <1>4, <1>6, <2>2 DEF InOrder, Local, Again
    <3>2. Append(heard[c], n) \in Seq(1 .. N)
      BY <1>4, <2>1
    <3>3. PICK R : R = Again(c)
      OBVIOUS
    <3>5. Ordered(heard[c], log, R) /\ \A m \in ToSet(heard[c]) : log[m].via = log[n].via => m < n \/ n \in R
      BY <2>1, <3>1, <3>3
    <3>6. heard[c] \in Seq(1 .. N) /\ n \in Nat /\ N \in Nat
      BY <1>2, <1>4, <2>1
    <3>4. /\ Ordered(Append(heard[c], n), log, R)
          /\ ToSet(Append(heard[c], n)) = ToSet(heard[c]) \cup {n}
      BY <3>5, <3>6, OrderedAppend
    <3> QED BY <1>6, <2>2, <3>2, <3>3, <3>4
  <2>3. CASE c \notin to
    BY <1>6, <2>1, <2>3
  <2> QED BY <2>2, <2>3
<1>8. \A j \in Instance : /\ subIn'[j] \in Seq(1 .. N) /\ Ordered(subIn'[j], log, resent)
                          /\ ToSet(subIn'[j]) \subseteq ToSet(subIn[j])
  BY <1>2, <1>4, <1>5 DEF QueuesTyped, InOrder
<1>9. QueuesTyped'
  <2>1. subIn' \in [Instance -> Seq(1 .. N)]
    BY <1>5, <1>8 DEF QueuesTyped
  <2>2. heard' \in [Conn -> Seq(1 .. N)]
    BY <1>6, <1>7
  <2> QED BY <1>2, <1>3, <2>1, <2>2 DEF QueuesTyped
<1>10. ASSUME NEW j \in Instance, NEW k \in Instance PROVE Before(subIn'[j], pubOut[k], log, resent)
  BY <1>8 DEF InOrder, Before
<1>11. ASSUME NEW c \in Conn, NEW k \in Instance \ {at[c]} PROVE Before(heard'[c], pubOut[k], log, resent)
  <2>1. Before(heard[c], pubOut[k], log, resent) /\ Before(subIn[i], pubOut[k], log, resent)
    BY DEF InOrder
  <2> QED BY <1>4, <1>7, <2>1 DEF Before
<1>12. ASSUME NEW c \in Conn, NEW j \in Instance, at[c] = j,
              NEW p \in ToSet(heard'[c]), NEW m \in ToSet(subIn'[j]),
              log[p].via = log[m].via, log[m].via # j
       PROVE  p < m \/ m \in resent
  <2>1. CASE p \in ToSet(heard[c])
    BY ZenonT(40), <1>8, <1>12, <2>1 DEF InOrder
  <2>2. CASE p \notin ToSet(heard[c])
    <3>1. p = n /\ j = i
      BY <1>6, <1>7, <1>12, <2>2 DEF Local
    <3>2. m \in ToSet(Tail(subIn[i]))
      BY <1>5, <1>12, <3>1 DEF QueuesTyped
    <3>3. n \in ToSet(<<n>>)
      BY DEF ToSet
    <3> QED BY <1>4, <1>12, <3>1, <3>2, <3>3 DEF Before
  <2> QED BY <2>1, <2>2
<1>13. ASSUME NEW c \in Conn, at[c] = None PROVE heard'[c] = <<>>
  BY <1>6, <1>13, RedisAssumption DEF Local, InOrder
<1> QED BY <1>3, <1>7, <1>8, <1>9, <1>10, <1>11, <1>12, <1>13 DEF InOrder, Again

(* Sockets that close and queues that are lost disturb nothing.            *)
LEMMA LossOrder ==
  ASSUME OrderInv, RegistryTyped', log' = log, resent' = resent,
         NEW closed \in SUBSET Conn,
         at' = [c \in Conn |-> IF c \in closed THEN None ELSE at[c]],
         heard' = [c \in Conn |-> IF c \in closed THEN <<>> ELSE heard[c]],
         \/ pubOut' = pubOut
         \/ \E i \in Instance : pubOut' = [pubOut EXCEPT ![i] = <<>>],
         \/ subIn' = subIn
         \/ \E i \in Instance : subIn' = [subIn EXCEPT ![i] = <<>>]
  PROVE  OrderInv'
<1> USE DEF OrderInv
<1>1. PICK N \in Nat : N = Len(log)
  BY DEF QueuesTyped
<1>2. \A j \in Instance : /\ pubOut'[j] = pubOut[j] \/ pubOut'[j] = <<>>
                          /\ subIn'[j] = subIn[j] \/ subIn'[j] = <<>>
  BY DEF QueuesTyped
<1>3. \A j \in Instance :
        /\ pubOut'[j] \in Seq(1 .. N) /\ Ordered(pubOut'[j], log, {})
        /\ ToSet(pubOut'[j]) \subseteq ToSet(pubOut[j])
        /\ subIn'[j] \in Seq(1 .. N) /\ Ordered(subIn'[j], log, resent)
        /\ ToSet(subIn'[j]) \subseteq ToSet(subIn[j])
  <2> TAKE j \in Instance
  <2>1. /\ pubOut[j] \in Seq(1 .. N) /\ Ordered(pubOut[j], log, {})
        /\ subIn[j] \in Seq(1 .. N) /\ Ordered(subIn[j], log, resent)
    BY <1>1 DEF QueuesTyped, InOrder
  <2>2. ToSet(<<>>) = {} /\ Ordered(<<>>, log, {}) /\ Ordered(<<>>, log, resent) /\ <<>> \in Seq(1 .. N)
    BY EmptyQueue
  <2>3. pubOut'[j] \in Seq(1 .. N) /\ Ordered(pubOut'[j], log, {}) /\ ToSet(pubOut'[j]) \subseteq ToSet(pubOut[j])
    BY <1>2, <2>1, <2>2
  <2>4. subIn'[j] \in Seq(1 .. N) /\ Ordered(subIn'[j], log, resent) /\ ToSet(subIn'[j]) \subseteq ToSet(subIn[j])
    BY <1>2, <2>1, <2>2
  <2> QED BY <2>3, <2>4
<1>4. \A c \in Conn : /\ heard'[c] \in Seq(1 .. N) /\ Ordered(heard'[c], log, Again(c)')
                      /\ ToSet(heard'[c]) \subseteq ToSet(heard[c])
                      /\ at'[c] = None => heard'[c] = <<>>
                      /\ at'[c] = at[c] \/ ToSet(heard'[c]) = {}
  <2> TAKE c \in Conn
  <2>1. CASE c \in closed
    BY <2>1, EmptyQueue
  <2>2. CASE c \notin closed
    <3>1. at'[c] = at[c] /\ heard'[c] = heard[c] /\ Again(c)' = Again(c)
      BY <2>2 DEF Again
    <3> QED BY <1>1, <3>1 DEF QueuesTyped, InOrder
  <2> QED BY <2>1, <2>2
<1>5. QueuesTyped'
  <2>1. pubOut' \in [Instance -> Seq(1 .. N)] /\ subIn' \in [Instance -> Seq(1 .. N)]
    BY SMTT(40), <1>3 DEF QueuesTyped
  <2>2. heard' \in [Conn -> Seq(1 .. N)]
    BY <1>4
  <2>3. ASSUME NEW j \in Instance, NEW p \in ToSet(pubOut'[j]), NEW m \in 1 .. N, p < m, log[m].via = j
        PROVE  m \in ToSet(pubOut'[j])
    <3>1. pubOut'[j] = pubOut[j]
      BY <1>2, <2>3, EmptyQueue
    <3> QED BY <1>1, <2>3, <3>1 DEF QueuesTyped
  <2> QED BY <1>1, <1>3, <2>1, <2>2, <2>3 DEF QueuesTyped
<1>6. ASSUME NEW j \in Instance, NEW k \in Instance PROVE Before(subIn'[j], pubOut'[k], log, resent)
  BY <1>3 DEF InOrder, Before
<1>7. ASSUME NEW c \in Conn, NEW k \in Instance \ {at'[c]} PROVE Before(heard'[c], pubOut'[k], log, resent)
  <2>1. CASE at'[c] = at[c]
    <3>1. Before(heard[c], pubOut[k], log, resent)
      BY <1>7, <2>1 DEF InOrder
    <3> QED BY <1>3, <1>4, <3>1 DEF Before
  <2>2. CASE ToSet(heard'[c]) = {}
    BY <2>2 DEF Before
  <2> QED BY <1>4, <2>1, <2>2
<1>8. ASSUME NEW c \in Conn, NEW j \in Instance, at'[c] = j,
             NEW p \in ToSet(heard'[c]), NEW m \in ToSet(subIn'[j]),
             log[p].via = log[m].via, log[m].via # j
      PROVE  p < m \/ m \in resent
  <2>1. at[c] = j /\ p \in ToSet(heard[c]) /\ m \in ToSet(subIn[j])
    BY <1>3, <1>4, <1>8
  <2> QED BY <1>8, <2>1 DEF InOrder
<1> QED BY <1>3, <1>4, <1>5, <1>6, <1>7, <1>8 DEF InOrder

(* Handlers that wait for the database do so on an instance.               *)
AskedTyped == \A x \in asked : x.via \in Instance

(* A question is asked at an instance.                                     *)
LEMMA AskedStep ==
  ASSUME RegistryTyped, AskedTyped, [Next]_vars
  PROVE  AskedTyped'
<1>1. ASSUME NEW c \in Conn, NEW v, HandleTour(c, v) PROVE AskedTyped'
  <2>1. at[c] \in Instance
    BY <1>1 DEF HandleTour, RegistryTyped
  <2> QED BY <1>1, <2>1 DEF HandleTour, AskedTyped
<1>2. ASSUME asked' \subseteq asked PROVE AskedTyped'
  BY <1>2 DEF AskedTyped
<1>3. ASSUME NEW i \in Instance, Redis(i) \/ Loop(i) PROVE asked' \subseteq asked
  BY <1>3 DEF Redis, Loop, RedisPublish, RedisSubscribe, RedisWrite, RedisGet, RedisGetAll, RedisPrune,
              ElsewhereUnchanged, OnMessage, ResumeRemove, ReplayBegins, ReplayGoesOn
<1>4. ASSUME NEW i \in Instance, Crash(i) \/ Blip(i) \/ PublisherBlip(i) \/ Outage(i) PROVE asked' \subseteq asked
  BY <1>4 DEF Crash, Blip, PublisherBlip, Outage, Exit
<1>5. ASSUME NEW x \in asked, ResumeTour(x) PROVE asked' \subseteq asked
  BY <1>5 DEF ResumeTour
<1>6. CASE UNCHANGED vars
  BY <1>2, <1>6 DEF vars, queueVars
<1>7. ASSUME NEW c \in Conn, NEW i \in Instance, Connect(c, i) PROVE asked' \subseteq asked
  BY <1>7 DEF Connect
<1>8. ASSUME NEW c \in Conn, Close(c) PROVE asked' \subseteq asked
  BY <1>8 DEF Close
<1>9. ASSUME NEW c \in Conn, NEW h \in Hazard, HandleHazard(c, h) \/ HandleRemove(c, h)
       PROVE  asked' \subseteq asked
  BY <1>9 DEF HandleHazard, HandleRemove
<1>10. ASSUME NEW h \in Hazard, Expire(h) PROVE asked' \subseteq asked
  BY <1>10 DEF Expire, queueVars
<1> QED BY <1>1, <1>2, <1>3, <1>4, <1>5, <1>6, <1>7, <1>8, <1>9, <1>10 DEF Next

(* Each step keeps the order.                                              *)
LEMMA OrderStep ==
  ASSUME OrderInv, AskedTyped, RegistryTyped', [Next]_vars
  PROVE  OrderInv'
<1> USE DEF OrderInv
<1>1. CASE UNCHANGED <<at, log, pubOut, subIn, heard, resent>>
  BY <1>1 DEF QueuesTyped, InOrder, Again
<1>2. ASSUME NEW c \in Conn, NEW h \in Hazard, HandleHazard(c, h) PROVE OrderInv'
  <2>1. at[c] \in Instance
    BY <1>2 DEF HandleHazard, RegistryTyped
  <2> QED BY <1>2, <2>1, RelayOrder DEF HandleHazard
<1>3. ASSUME NEW x \in asked, ResumeTour(x) PROVE OrderInv'
  <2>1. CASE Author[Tour] = x.from
    <3>1. x.via \in Instance
      BY <1>3 DEF AskedTyped
    <3> QED BY <1>3, <2>1, <3>1, RelayOrder DEF ResumeTour
  <2>2. CASE Author[Tour] # x.from
    BY <1>1, <1>3, <2>2 DEF ResumeTour
  <2> QED BY <2>1, <2>2
<1>4. ASSUME NEW i \in Instance, ResumeRemove(i) PROVE OrderInv'
  BY <1>1, <1>4, RelayOrder DEF ResumeRemove
<1>5. ASSUME NEW i \in Instance, RedisPublish(i) PROVE OrderInv'
  BY <1>5, PublishOrder
<1>6. ASSUME NEW i \in Instance, OnMessage(i) \/ PublisherBlip(i) PROVE OrderInv'
  BY <1>6, MessageOrder, ResendOrder
<1>7. ASSUME NEW c \in Conn, NEW i \in Instance, Connect(c, i) PROVE OrderInv'
  <2>1. UNCHANGED <<log, pubOut, subIn, heard, resent>> /\ at[c] = None /\ at' = [at EXCEPT ![c] = i]
    BY <1>7 DEF Connect, deviceVars
  <2>2. heard[c] = <<>> /\ ToSet(heard[c]) = {}
    BY <2>1, EmptyQueue DEF InOrder
  <2>3. QueuesTyped'
    BY <2>1 DEF QueuesTyped
  <2>4. ASSUME NEW d \in Conn, d # c PROVE at'[d] = at[d]
    BY <2>1, <2>4 DEF RegistryTyped
  <2>5. at'[c] = i /\ i # None
    BY <2>1, RedisAssumption DEF RegistryTyped
  <2>6. \A d \in Conn : \A k \in Instance \ {at'[d]} : Before(heard[d], pubOut[k], log, resent)
    BY <2>2, <2>4 DEF InOrder, Before
  <2>7. \A d \in Conn : \A j \in Instance : at'[d] = j =>
          \A n \in ToSet(heard[d]), m \in ToSet(subIn[j]) :
            log[n].via = log[m].via /\ log[m].via # j => n < m \/ m \in resent
    BY <2>2, <2>4 DEF InOrder
  <2>8. \A d \in Conn : at'[d] = None => heard[d] = <<>>
    BY <2>2, <2>4 DEF InOrder
  <2>9. ASSUME NEW d \in Conn PROVE Ordered(heard[d], log, Again(d)')
    <3>1. CASE d = c
      BY <2>2, <3>1, EmptyQueue
    <3>2. CASE d # c
      <4>1. Again(d)' = Again(d)
        BY <2>1, <2>4, <3>2 DEF Again
      <4> QED BY <4>1 DEF InOrder
    <3> QED BY <3>1, <3>2
  <2> QED BY <2>1, <2>3, <2>6, <2>7, <2>8, <2>9 DEF InOrder
<1>8. ASSUME NEW i \in Instance, Exit(i), log' = log, resent' = resent PROVE OrderInv'
  <2>1. Local(i) \in SUBSET Conn
    BY DEF Local
  <2> QED BY <1>8, <2>1, LossOrder DEF Exit, Drop
<1>9. ASSUME NEW c \in Conn, Close(c) PROVE OrderInv'
  BY <1>9, LossOrder DEF Close, Drop, histVars
<1>10. ASSUME NEW i \in Instance, SubscriberReconnects(i), UNCHANGED <<at, log, heard, pubOut, resent>> PROVE OrderInv'
  <2>a. PICK closed \in SUBSET Conn : closed = {}
    OBVIOUS
  <2>1. at' = [c \in Conn |-> IF c \in closed THEN None ELSE at[c]]
    BY <1>10, <2>a DEF RegistryTyped
  <2>2. heard' = [c \in Conn |-> IF c \in closed THEN <<>> ELSE heard[c]]
    BY <1>10, <2>a DEF QueuesTyped
  <2> QED BY <1>10, <2>1, <2>2, LossOrder DEF SubscriberReconnects
<1>11. ASSUME NEW i \in Instance, Crash(i) \/ Blip(i) \/ Outage(i) PROVE OrderInv'
  <2>1. CASE Crash(i)
    BY <1>8, <2>1 DEF Crash
  <2>2. CASE Blip(i)
    BY <1>10, <2>2 DEF Blip, deviceVars
  <2>3. CASE Outage(i)
    BY <1>8, <1>10, <2>3 DEF Outage, deviceVars
  <2> QED BY <1>11, <2>1, <2>2, <2>3
<1>12. ASSUME NEW i \in Instance,
              \/ RedisSubscribe(i) \/ RedisWrite(i) \/ RedisGet(i) \/ RedisGetAll(i) \/ RedisPrune(i)
              \/ ReplayBegins(i) \/ ReplayGoesOn(i)
       PROVE  UNCHANGED <<at, log, pubOut, subIn, heard, resent>>
  BY <1>12 DEF RedisSubscribe, RedisWrite, RedisGet, RedisGetAll, RedisPrune, ElsewhereUnchanged,
               ReplayBegins, ReplayGoesOn, deviceVars, histVars
<1>13. ASSUME NEW c \in Conn, NEW h \in Hazard, HandleRemove(c, h)
       PROVE  UNCHANGED <<at, log, pubOut, subIn, heard, resent>>
  BY <1>13 DEF HandleRemove, deviceVars
<1>14. ASSUME NEW c \in Conn, NEW v, HandleTour(c, v) PROVE UNCHANGED <<at, log, pubOut, subIn, heard, resent>>
  BY <1>14 DEF HandleTour, deviceVars, histVars
<1>15. ASSUME NEW h \in Hazard, Expire(h) PROVE UNCHANGED <<at, log, pubOut, subIn, heard, resent>>
  BY <1>15 DEF Expire, queueVars, deviceVars, histVars
<1>16. CASE UNCHANGED vars
  BY <1>1, <1>16 DEF vars, queueVars, deviceVars, histVars
<1> QED BY <1>1, <1>2, <1>3, <1>4, <1>5, <1>6, <1>7, <1>9, <1>11, <1>12, <1>13, <1>14, <1>15, <1>16
        DEF Next, Redis, Loop

(* A socket hears the frames of each instance in the order in which they   *)
(* were relayed there, and none twice, for any number of instances, frames *)
(* and faults, but for a frame that another instance published again after *)
(* its publisher's connection broke: that one may come once more, and then *)
(* behind later ones.  Those of its own instance a socket never hears      *)
(* twice, whatever is published again.                                     *)
THEOREM LiveFramesInOrder == Spec => []LiveOrder
<1> DEFINE Inv == RegistryInv /\ AskedTyped /\ OrderInv
<1>1. Init => Inv
  <2> SUFFICES ASSUME Init PROVE Inv
    OBVIOUS
  <2>1. RegistryInv /\ AskedTyped
    BY RedisAssumption DEF Init, RegistryInv, RegistryTyped, SubscriptionFollows, Local, AskedTyped
  <2>2. log = <<>> /\ log \in Seq(ToSet(log))
    BY DEF Init
  <2>3. QueuesTyped
    BY <2>2, EmptyQueue DEF Init, QueuesTyped
  <2>4. InOrder
    BY EmptyQueue DEF Init, InOrder, Before
  <2> QED BY <2>1, <2>3, <2>4 DEF RegistryInv, OrderInv
<1>2. Inv /\ [Next]_vars => Inv'
  BY RegistryStep, AskedStep, OrderStep DEF RegistryInv, OrderInv
<1>3. Inv => LiveOrder
  <2> SUFFICES ASSUME OrderInv, NEW c \in Conn, NEW j \in DOMAIN heard[c], NEW k \in DOMAIN heard[c], j < k,
                      log[heard[c][j]].via = log[heard[c][k]].via
               PROVE  \/ heard[c][j] < heard[c][k]
                      \/ heard[c][k] \in resent /\ log[heard[c][k]].via # at[c]
    BY DEF LiveOrder
  <2>1. Ordered(heard[c], log, Again(c)) /\ DOMAIN heard[c] = 1 .. Len(heard[c])
    BY LenProperties DEF OrderInv, QueuesTyped, InOrder
  <2> QED BY <2>1 DEF Ordered, Again
<1> QED BY <1>1, <1>2, <1>3, PTL DEF Spec

-----------------------------------------------------------------------------
(* Types of the store, of what the devices show and of the history.        *)

Member == {Who[c] : c \in Conn}
Entry == [field : Field, value : Value, from : Member, via : Instance]
Snapshot == [Field -> Value]

(* Commands on the store's connection, in a log of N frames, and replies.  *)
StoreCommand(N) ==
  [op : {"write"}, n : 1 .. N]
    \cup [op : {"get"}, field : Hazard, from : Member]
    \cup [op : {"getall"}, conn : Conn]
    \cup [op : {"prune"}, conn : Conn, field : Hazard, snap : Snapshot, stale : SUBSET Hazard]
StoreReply ==
  [op : {"got"}, field : Hazard, from : Member, tracked : BOOLEAN]
    \cup [op : {"fields"}, conn : Conn, snap : Snapshot]
    \cup [op : {"pruned"}, conn : Conn, snap : Snapshot, stale : SUBSET Hazard]

(* What Redis, the store's connections and the handlers hold.              *)
StoreTyped ==
  /\ log \in Seq(Entry) /\ hash \in Snapshot
  /\ storeOut \in [Instance -> Seq(StoreCommand(Len(log)))]
  /\ storeIn \in [Instance -> Seq(StoreReply)]
  /\ \A x \in asked : x.via \in Instance /\ x.from \in Member /\ x.value \in Plan \cup {None}

(* What the devices show, and what is counted.                             *)
DeviceTyped ==
  /\ shown \in [Conn -> Snapshot]
  /\ replayed \subseteq {c \in Conn : at[c] # None}
  /\ dirty \in [Conn -> SUBSET Field] /\ torn \subseteq Field /\ failed \subseteq Instance
  /\ expired \subseteq Hazard /\ frames \in 0 .. MaxFrames /\ faults \in 0 .. MaxFaults

(* The elements of a queue are those at its positions.                     *)
LEMMA Positions ==
  ASSUME NEW S, NEW s \in Seq(S)
  PROVE  /\ Len(s) \in Nat /\ ToSet(s) \subseteq S
         /\ \A k \in 1 .. Len(s) : s[k] \in ToSet(s) /\ s[k] \in S
         /\ \A x \in ToSet(s) : \E k \in 1 .. Len(s) : s[k] = x
<1>1. DOMAIN s = 1 .. Len(s) /\ Len(s) \in Nat /\ \A k \in 1 .. Len(s) : s[k] \in S
  OBVIOUS
<1> QED BY <1>1 DEF ToSet

(* What the commands and the replies carry.                                *)
LEMMA CommandCarries ==
  ASSUME NEW N, NEW x \in StoreCommand(N)
  PROVE  /\ x.op \in {"write", "get", "getall", "prune"}
         /\ x.op = "write" => x.n \in 1 .. N
         /\ x.op = "get" => x.field \in Hazard /\ x.from \in Member
         /\ x.op = "getall" => x.conn \in Conn
         /\ x.op = "prune" => x.conn \in Conn /\ x.field \in Hazard /\ x.snap \in Snapshot
                                /\ x.stale \subseteq Hazard
BY DEF StoreCommand

(* What each kind of reply carries.                                        *)
LEMMA ReplyCarries ==
  ASSUME NEW x \in StoreReply
  PROVE  /\ x.op \in {"got", "fields", "pruned"}
         /\ x.op = "got" => x.field \in Hazard /\ x.from \in Member /\ x.tracked \in BOOLEAN
         /\ x.op = "fields" => x.conn \in Conn /\ x.snap \in Snapshot
         /\ x.op = "pruned" => x.conn \in Conn /\ x.snap \in Snapshot /\ x.stale \subseteq Hazard
BY DEF StoreReply

(* Commands of each kind, for any length of the log.                       *)
LEMMA Commands ==
  ASSUME NEW N \in Nat
  PROVE  /\ \A n \in 1 .. N : [op |-> "write", n |-> n] \in StoreCommand(N)
         /\ \A h \in Hazard, m \in Member : [op |-> "get", field |-> h, from |-> m] \in StoreCommand(N)
         /\ \A c \in Conn : [op |-> "getall", conn |-> c] \in StoreCommand(N)
         /\ \A c \in Conn, h \in Hazard, s \in Snapshot, e \in SUBSET Hazard :
              [op |-> "prune", conn |-> c, field |-> h, snap |-> s, stale |-> e] \in StoreCommand(N)
         /\ StoreCommand(N) \subseteq StoreCommand(N + 1)
         /\ Seq(StoreCommand(N)) \subseteq Seq(StoreCommand(N + 1))
<1>1. /\ \A n \in 1 .. N : [op |-> "write", n |-> n] \in StoreCommand(N)
      /\ \A h \in Hazard, m \in Member : [op |-> "get", field |-> h, from |-> m] \in StoreCommand(N)
      /\ \A c \in Conn : [op |-> "getall", conn |-> c] \in StoreCommand(N)
      /\ \A c \in Conn, h \in Hazard, s \in Snapshot, e \in SUBSET Hazard :
           [op |-> "prune", conn |-> c, field |-> h, snap |-> s, stale |-> e] \in StoreCommand(N)
  BY DEF StoreCommand
<1>2. 1 .. N \subseteq 1 .. N + 1
  OBVIOUS
<1>3. StoreCommand(N) \subseteq StoreCommand(N + 1)
  BY <1>2 DEF StoreCommand
<1>4. Seq(StoreCommand(N)) \subseteq Seq(StoreCommand(N + 1))
  BY <1>3, SeqMonotonic
<1> QED BY <1>1, <1>3, <1>4

(* Replies of each kind.                                                   *)
LEMMA ReplyKinds ==
  /\ \A h \in Hazard, m \in Member, t \in BOOLEAN :
       [op |-> "got", field |-> h, from |-> m, tracked |-> t] \in StoreReply
  /\ \A c \in Conn, s \in Snapshot : [op |-> "fields", conn |-> c, snap |-> s] \in StoreReply
  /\ \A c \in Conn, s \in Snapshot, e \in SUBSET Hazard :
       [op |-> "pruned", conn |-> c, snap |-> s, stale |-> e] \in StoreReply
BY DEF StoreReply

(* Values that are written are values of their field.                      *)
LEMMA SnapshotSet ==
  /\ Empty \in Snapshot
  /\ \A s \in Snapshot, f \in Field, v \in Value : [s EXCEPT ![f] = v] \in Snapshot
  /\ \A f \in Field : ValueOf(f) \subseteq Value
  /\ Hazard \subseteq Field /\ Tour \in Field /\ None \in Value /\ Pin \in Value /\ Plan \subseteq Value
BY DEF Empty, Snapshot, Value, Field, ValueOf

(* A queue of commands after a step of its instance.                       *)
LEMMA StoreOutTyped ==
  ASSUME NEW N \in Nat, NEW M \in {N, N + 1}, NEW i \in Instance, NEW s \in Seq(StoreCommand(M)),
         storeOut \in [Instance -> Seq(StoreCommand(N))],
         storeOut' = [storeOut EXCEPT ![i] = s]
  PROVE  /\ storeOut' \in [Instance -> Seq(StoreCommand(M))] /\ storeOut'[i] = s
         /\ \A j \in Instance \ {i} : storeOut'[j] = storeOut[j]
<1>1. Seq(StoreCommand(N)) \subseteq Seq(StoreCommand(M))
  BY Commands
<1> QED BY <1>1

(* A frame that is sent changes one field of the sockets it is sent to.    *)
LEMMA SentShows ==
  ASSUME shown \in [Conn -> Snapshot], NEW i, NEW n, NEW L, Sent(i, n, L),
         L[n].field \in Field, L[n].value \in Value
  PROVE  /\ shown' \in [Conn -> Snapshot]
         /\ \A c \in Conn, f \in Field :
              shown'[c][f] = IF at[c] = i /\ Who[c] # L[n].from /\ f = L[n].field
                             THEN L[n].value ELSE shown[c][f]
<1>1. shown' = [c \in Conn |-> IF c \in Local(i) /\ Who[c] # L[n].from
                               THEN [shown[c] EXCEPT ![L[n].field] = L[n].value] ELSE shown[c]]
  BY DEF Sent, Local
<1> QED BY <1>1, SnapshotSet DEF Local, Snapshot

(* What relaying a frame adds to the log and to the queues.                *)
Relayed(i, f) ==
  LET N == Len(log) IN
  /\ N \in Nat /\ DOMAIN log = 1 .. N
  /\ log' \in Seq(Entry) /\ Len(log') = N + 1 /\ DOMAIN log' = 1 .. N + 1
  /\ \A k \in 1 .. N : log'[k] = log[k] /\ log[k] \in Entry
  /\ log'[N + 1].field = f.field /\ log'[N + 1].value = f.value
  /\ log'[N + 1].from = f.from /\ log'[N + 1].via = i
  /\ storeOut' \in [Instance -> Seq(StoreCommand(N + 1))]
  /\ storeOut'[i] = Append(storeOut[i], [op |-> "write", n |-> N + 1])
  /\ \A j \in Instance \ {i} : storeOut'[j] = storeOut[j]
  /\ pubOut'[i] = Append(pubOut[i], N + 1)
  /\ \A j \in Instance \ {i} : pubOut'[j] = pubOut[j]

(* Relaying appends to the log and the two queues of its instance.         *)
LEMMA Relays ==
  ASSUME StoreTyped, QueuesTyped, NEW i \in Instance, NEW f, Relay(i, f),
         f.field \in Field, f.value \in Value, f.from \in Member
  PROVE  Relayed(i, f)
<1>0. PICK N : N = Len(log)
  OBVIOUS
<1> DEFINE e == [field |-> f.field, value |-> f.value, from |-> f.from, via |-> i]
<1>1. e \in Entry /\ e.field = f.field /\ e.value = f.value /\ e.from = f.from /\ e.via = i
  BY DEF Entry
<1>2. log' = Append(log, e)
  BY DEF Relay
<1> HIDE DEF e
<1>3. /\ N \in Nat /\ DOMAIN log = 1 .. N /\ \A k \in 1 .. N : log[k] \in Entry
      /\ log' \in Seq(Entry) /\ Len(log') = N + 1 /\ DOMAIN log' = 1 .. N + 1
      /\ log'[N + 1] = e /\ \A k \in 1 .. N : log'[k] = log[k]
  BY <1>0, <1>1, <1>2 DEF StoreTyped
<1> DEFINE w == [op |-> "write", n |-> N + 1]
<1>4. storeOut' = [storeOut EXCEPT ![i] = Append(@, w)]
  BY <1>0 DEF Relay
<1>5. w \in StoreCommand(N + 1) /\ storeOut[i] \in Seq(StoreCommand(N + 1))
  <2>1. N + 1 \in Nat /\ N + 1 \in 1 .. N + 1
    BY <1>3
  <2>2. w \in StoreCommand(N + 1)
    BY <2>1, Commands
  <2>3. storeOut[i] \in Seq(StoreCommand(N))
    BY <1>0 DEF StoreTyped
  <2>4. storeOut[i] \in Seq(StoreCommand(N + 1))
    BY <1>3, <2>3, Commands
  <2> QED BY <2>2, <2>4
<1> HIDE DEF w
<1>6. Append(storeOut[i], w) \in Seq(StoreCommand(N + 1))
  BY <1>5
<1>7. /\ storeOut' \in [Instance -> Seq(StoreCommand(N + 1))] /\ storeOut'[i] = Append(storeOut[i], w)
      /\ \A j \in Instance \ {i} : storeOut'[j] = storeOut[j]
  BY <1>0, <1>3, <1>4, <1>6, StoreOutTyped DEF StoreTyped
<1>8. pubOut'[i] = Append(pubOut[i], N + 1) /\ \A j \in Instance \ {i} : pubOut'[j] = pubOut[j]
  BY <1>0 DEF Relay, QueuesTyped
<1> QED BY <1>0, <1>1, <1>3, <1>7, <1>8 DEF w, Relayed

(* Frames in the queues are frames of the log.                             *)
LEMMA QueuedTyped ==
  ASSUME StoreTyped, QueuesTyped, NEW i \in Instance
  PROVE  /\ Queued(i) \subseteq 1 .. Len(log)
         /\ Fields(Queued(i)) \subseteq Field
<1>1. ToSet(pubOut[i]) \subseteq 1 .. Len(log) /\ ToSet(subIn[i]) \subseteq 1 .. Len(log)
  BY QueueElements DEF QueuesTyped
<1>2. ToSet(storeOut[i]) \subseteq StoreCommand(Len(log))
  BY QueueElements DEF StoreTyped
<1>3. Queued(i) \subseteq 1 .. Len(log)
  <2>1. ASSUME NEW x \in ToSet(storeOut[i]), x.op = "write" PROVE x.n \in 1 .. Len(log)
    <3>1. x \in StoreCommand(Len(log))
      BY <1>2
    <3> QED BY <2>1, <3>1, CommandCarries
  <2> QED BY <1>1, <2>1 DEF Queued
<1>4. \A k \in 1 .. Len(log) : log[k].field \in Field
  <2>1. ASSUME NEW k \in 1 .. Len(log) PROVE log[k] \in Entry
    BY DEF StoreTyped
  <2> QED BY <2>1 DEF Entry
<1> QED BY <1>3, <1>4 DEF Fields

(* What is under way was relayed.                                          *)
LEMMA UnderWayTyped ==
  ASSUME StoreTyped, QueuesTyped
  PROVE  UnderWay \subseteq 1 .. Len(log) /\ Fields(UnderWay) \subseteq Field
         /\ \A i : Fields(ComingFromElsewhere(i)) \subseteq Field
BY QueuedTyped DEF UnderWay, Fields, ComingFromElsewhere

(* Relaying keeps the types.                                               *)
LEMMA RelayTyped ==
  ASSUME StoreTyped, DeviceTyped, RegistryTyped, QueuesTyped, NEW i \in Instance, NEW f, Relay(i, f),
         f.field \in Field, f.value \in Value, f.from \in Member
  PROVE  /\ log' \in Seq(Entry) /\ storeOut' \in [Instance -> Seq(StoreCommand(Len(log')))]
         /\ shown' \in [Conn -> Snapshot] /\ dirty' \in [Conn -> SUBSET Field] /\ torn' \subseteq Field
<1>2. /\ log' \in Seq(Entry) /\ Len(log') = Len(log) + 1
      /\ storeOut' \in [Instance -> Seq(StoreCommand(Len(log) + 1))]
      /\ log'[Len(log) + 1].field = f.field /\ log'[Len(log) + 1].value = f.value
  BY Relays DEF Relayed
<1>3. Sent(i, Len(log) + 1, log')
  BY DEF Relay
<1>4. shown' \in [Conn -> Snapshot]
  BY <1>2, <1>3, SentShows DEF DeviceTyped
<1>5. dirty' \in [Conn -> SUBSET Field] /\ torn' \subseteq Field
  BY UnderWayTyped DEF Relay, DeviceTyped
<1> QED BY <1>2, <1>4, <1>5

(* A new command behind the others.                                        *)
LEMMA CommandTyped ==
  ASSUME StoreTyped, NEW i \in Instance, NEW x \in StoreCommand(Len(log)),
         storeOut' = [storeOut EXCEPT ![i] = Append(@, x)]
  PROVE  /\ storeOut' \in [Instance -> Seq(StoreCommand(Len(log)))]
         /\ storeOut'[i] = Append(storeOut[i], x)
         /\ \A j \in Instance \ {i} : storeOut'[j] = storeOut[j]
<1>1. Append(storeOut[i], x) \in Seq(StoreCommand(Len(log)))
  BY DEF StoreTyped
<1> QED BY <1>1 DEF StoreTyped

(* Redis takes a command.                                                  *)
LEMMA ExecutesTyped ==
  ASSUME StoreTyped, NEW i \in Instance, NEW op, Executes(i, op)
  PROVE  /\ storeOut[i] \in Seq(StoreCommand(Len(log))) /\ storeOut[i] # <<>>
         /\ Head(storeOut[i]) \in StoreCommand(Len(log)) /\ Head(storeOut[i]) \in ToSet(storeOut[i])
         /\ Head(storeOut[i]).op = op
         /\ storeOut' \in [Instance -> Seq(StoreCommand(Len(log)))]
         /\ storeOut'[i] = Tail(storeOut[i])
         /\ \A j \in Instance \ {i} : storeOut'[j] = storeOut[j]
<1>1. /\ storeOut[i] \in Seq(StoreCommand(Len(log))) /\ storeOut[i] # <<>> /\ Head(storeOut[i]).op = op
      /\ storeOut' = [storeOut EXCEPT ![i] = Tail(@)]
  BY DEF StoreTyped, Executes
<1>2. /\ Tail(storeOut[i]) \in Seq(StoreCommand(Len(log))) /\ Head(storeOut[i]) \in StoreCommand(Len(log))
      /\ Head(storeOut[i]) \in ToSet(storeOut[i])
  BY <1>1, Popped
<1> QED BY <1>1, <1>2 DEF StoreTyped

(* It replies.                                                             *)
LEMMA RepliesTyped ==
  ASSUME StoreTyped, NEW i \in Instance, NEW y \in StoreReply, Replies(i, y)
  PROVE  /\ storeIn' \in [Instance -> Seq(StoreReply)] /\ storeIn'[i] = Append(storeIn[i], y)
         /\ \A j \in Instance \ {i} : storeIn'[j] = storeIn[j]
<1>1. Append(storeIn[i], y) \in Seq(StoreReply)
  BY DEF StoreTyped
<1> QED BY <1>1 DEF StoreTyped, Replies

(* An instance takes a reply.                                              *)
LEMMA ResumesTyped ==
  ASSUME StoreTyped, NEW i \in Instance, NEW op, Resumes(i, op)
  PROVE  /\ storeIn[i] \in Seq(StoreReply) /\ storeIn[i] # <<>>
         /\ Head(storeIn[i]) \in StoreReply /\ Head(storeIn[i]) \in ToSet(storeIn[i])
         /\ Head(storeIn[i]).op = op
         /\ storeIn' \in [Instance -> Seq(StoreReply)] /\ storeIn'[i] = Tail(storeIn[i])
         /\ \A j \in Instance \ {i} : storeIn'[j] = storeIn[j]
<1>1. /\ storeIn[i] \in Seq(StoreReply) /\ storeIn[i] # <<>> /\ Head(storeIn[i]).op = op
      /\ storeIn' = [storeIn EXCEPT ![i] = Tail(@)]
  BY DEF StoreTyped, Resumes
<1>2. /\ Tail(storeIn[i]) \in Seq(StoreReply) /\ Head(storeIn[i]) \in StoreReply
      /\ Head(storeIn[i]) \in ToSet(storeIn[i])
  BY <1>1, Popped
<1> QED BY <1>1, <1>2 DEF StoreTyped

(* What a replay does: a prune, or the snapshot is sent or not.            *)
ReplayPrunes(i, c, snap, stale) ==
  \E h \in stale :
    LET x == [op |-> "prune", conn |-> c, field |-> h,
              snap |-> [snap EXCEPT ![h] = None], stale |-> stale \ {h}]
    IN /\ storeOut' \in [Instance -> Seq(StoreCommand(Len(log)))]
       /\ storeOut'[i] = Append(storeOut[i], x) /\ x \in StoreCommand(Len(log))
       /\ \A j \in Instance \ {i} : storeOut'[j] = storeOut[j]
       /\ UNCHANGED <<shown, replayed>>
ReplaySends(i, c, snap) ==
  /\ at[c] = i /\ UNCHANGED storeOut /\ replayed' = replayed \cup {c}
  /\ shown' \in [Conn -> Snapshot]
  /\ \A d \in Conn \ {c} : shown'[d] = shown[d]
  /\ \A f \in Field : shown'[c][f] = IF snap[f] # None THEN snap[f] ELSE shown[c][f]
ReplayIdle(i, c) == at[c] # i /\ UNCHANGED <<storeOut, shown, replayed>>

(* A replay prunes, sends or does nothing.                                 *)
LEMMA Replays ==
  ASSUME StoreTyped, DeviceTyped, NEW i \in Instance, NEW c \in Conn, NEW snap \in Snapshot,
         NEW stale \in SUBSET Hazard, Replay(i, c, snap, stale)
  PROVE  \/ stale # {} /\ ReplayPrunes(i, c, snap, stale)
         \/ stale = {} /\ ReplaySends(i, c, snap)
         \/ stale = {} /\ ReplayIdle(i, c)
<1>1. CASE stale # {}
  <2>1. PICK h \in stale : storeOut' =
          [storeOut EXCEPT ![i] = Append(@, [op |-> "prune", conn |-> c, field |-> h,
                                snap |-> [snap EXCEPT ![h] = None], stale |-> stale \ {h}])]
    BY <1>1 DEF Replay, Prune
  <2> DEFINE x == [op |-> "prune", conn |-> c, field |-> h,
                   snap |-> [snap EXCEPT ![h] = None], stale |-> stale \ {h}]
  <2>2. x \in StoreCommand(Len(log))
    <3>1. h \in Hazard /\ [snap EXCEPT ![h] = None] \in Snapshot /\ stale \ {h} \in SUBSET Hazard
      BY SnapshotSet
    <3>2. Len(log) \in Nat
      BY DEF StoreTyped
    <3> QED BY <3>1, <3>2, Commands
  <2>3. storeOut' = [storeOut EXCEPT ![i] = Append(@, x)]
    BY <2>1
  <2>4. UNCHANGED <<shown, replayed>>
    BY <1>1 DEF Replay, Prune
  <2>5. /\ storeOut' \in [Instance -> Seq(StoreCommand(Len(log)))]
        /\ storeOut'[i] = Append(storeOut[i], x)
        /\ \A j \in Instance \ {i} : storeOut'[j] = storeOut[j]
    <3> HIDE DEF x
    <3> QED BY <2>2, <2>3, CommandTyped
  <2> QED BY <1>1, <2>2, <2>4, <2>5 DEF ReplayPrunes
<1>2. CASE stale = {} /\ at[c] = i
  <2>1. /\ UNCHANGED storeOut /\ replayed' = replayed \cup {c}
        /\ shown' = [shown EXCEPT ![c] = [f \in Field |-> IF snap[f] # None THEN snap[f] ELSE @[f]]]
    BY <1>2 DEF Replay, Send
  <2> DEFINE s == [f \in Field |-> IF snap[f] # None THEN snap[f] ELSE shown[c][f]]
  <2>2. s \in Snapshot
    BY DEF DeviceTyped, Snapshot
  <2>3. shown' = [shown EXCEPT ![c] = s] /\ \A f \in Field : s[f] = IF snap[f] # None THEN snap[f] ELSE shown[c][f]
    BY <2>1
  <2> HIDE DEF s
  <2>4. shown' \in [Conn -> Snapshot] /\ shown'[c] = s /\ \A d \in Conn \ {c} : shown'[d] = shown[d]
    BY <2>2, <2>3 DEF DeviceTyped
  <2> QED BY <1>2, <2>1, <2>3, <2>4 DEF ReplaySends
<1>3. CASE stale = {} /\ at[c] # i
  BY <1>3 DEF Replay, ReplayIdle
<1> QED BY <1>1, <1>2, <1>3

(* A budget that is drawn upon.                                            *)
LEMMA Budgets ==
  ASSUME frames \in 0 .. MaxFrames, faults \in 0 .. MaxFaults, Frame \/ Fault
  PROVE  frames' \in 0 .. MaxFrames /\ faults' \in 0 .. MaxFaults
BY RedisAssumption DEF Frame, Fault

(* Sockets that close show nothing any more.                               *)
LEMMA DropTyped ==
  ASSUME DeviceTyped, NEW closed \in SUBSET Conn, Drop(closed)
  PROVE  /\ shown' \in [Conn -> Snapshot] /\ replayed' \subseteq {c \in Conn : at'[c] # None}
         /\ \A c \in Conn : c \notin closed => /\ at'[c] = at[c] /\ shown'[c] = shown[c]
                                               /\ c \in replayed' <=> c \in replayed
         /\ \A c \in closed : at'[c] = None /\ shown'[c] = Empty /\ c \notin replayed'
BY SnapshotSet DEF DeviceTyped, Drop

(* The end of a process keeps the types.                                   *)
LEMMA ExitTyped ==
  ASSUME StoreTyped, DeviceTyped, QueuesTyped, NEW i \in Instance, Exit(i), Fault,
         UNCHANGED <<hash, log, dirty, expired>>
  PROVE  StoreTyped' /\ DeviceTyped'
<1>1. Local(i) \in SUBSET Conn /\ Drop(Local(i))
  BY DEF Local, Exit
<1>2. shown' \in [Conn -> Snapshot] /\ replayed' \subseteq {c \in Conn : at'[c] # None}
  BY <1>1, DropTyped
<1>3. /\ storeOut' = [storeOut EXCEPT ![i] = <<>>] /\ storeIn' = [storeIn EXCEPT ![i] = <<>>]
      /\ asked' \subseteq asked /\ torn' = torn \cup Fields(Queued(i)) /\ failed' \subseteq failed
  BY DEF Exit
<1>4. StoreTyped'
  BY <1>3 DEF StoreTyped
<1>5. torn' \subseteq Field
  BY <1>3, QueuedTyped DEF DeviceTyped
<1>6. frames' \in 0 .. MaxFrames /\ faults' \in 0 .. MaxFaults
  BY Budgets DEF DeviceTyped
<1> QED BY <1>2, <1>3, <1>4, <1>5, <1>6 DEF DeviceTyped

(* Each step keeps the types.                                              *)
LEMMA TypeStep ==
  ASSUME StoreTyped, DeviceTyped, RegistryTyped, RegistryTyped', QueuesTyped, [Next]_vars
  PROVE  StoreTyped' /\ DeviceTyped'
<1>0. Len(log) \in Nat /\ DOMAIN log = 1 .. Len(log)
  BY DEF StoreTyped
<1>a. ASSUME NEW c \in Conn PROVE Who[c] \in Member
  BY DEF Member
<1>b. replayed \subseteq {c \in Conn : at[c] # None}
  BY DEF DeviceTyped
<1>1. ASSUME NEW c \in Conn, NEW h \in Hazard, HandleHazard(c, h) PROVE StoreTyped' /\ DeviceTyped'
  <2> DEFINE f == [field |-> h, value |-> Pin, from |-> Who[c]]
  <2>1. at[c] \in Instance /\ Relay(at[c], f) /\ Frame
    BY <1>1 DEF HandleHazard, RegistryTyped
  <2>2. f.field \in Field /\ f.value \in Value /\ f.from \in Member
    BY <1>a, SnapshotSet
  <2> HIDE DEF f
  <2>3. /\ log' \in Seq(Entry) /\ storeOut' \in [Instance -> Seq(StoreCommand(Len(log')))]
        /\ shown' \in [Conn -> Snapshot] /\ dirty' \in [Conn -> SUBSET Field] /\ torn' \subseteq Field
    BY <2>1, <2>2, RelayTyped
  <2>4. frames' \in 0 .. MaxFrames /\ faults' \in 0 .. MaxFaults
    BY <2>1, Budgets DEF DeviceTyped
  <2>5. UNCHANGED <<at, hash, storeIn, asked, replayed, failed, expired>>
    BY <1>1 DEF HandleHazard, redisVars
  <2> QED BY <2>3, <2>4, <2>5 DEF StoreTyped, DeviceTyped
<1>2. ASSUME NEW c \in Conn, NEW h \in Hazard, HandleRemove(c, h) PROVE StoreTyped' /\ DeviceTyped'
  <2> DEFINE x == [op |-> "get", field |-> h, from |-> Who[c]]
  <2>1. at[c] \in Instance /\ Frame /\ storeOut' = [storeOut EXCEPT ![at[c]] = Append(@, x)]
    BY <1>2 DEF HandleRemove, RegistryTyped
  <2>2. x \in StoreCommand(Len(log))
    BY <1>0, <1>a, Commands
  <2> HIDE DEF x
  <2>3. storeOut' \in [Instance -> Seq(StoreCommand(Len(log)))]
    BY <2>1, <2>2, CommandTyped
  <2>4. frames' \in 0 .. MaxFrames /\ faults' \in 0 .. MaxFaults
    BY <2>1, Budgets DEF DeviceTyped
  <2>5. UNCHANGED <<at, hash, storeIn, asked, shown, replayed, log, dirty, failed, expired>>
    BY <1>2 DEF HandleRemove, redisVars, deviceVars
  <2>6. torn' \subseteq Field
    BY <1>2, SnapshotSet DEF HandleRemove, DeviceTyped
  <2> QED BY <2>3, <2>4, <2>5, <2>6 DEF StoreTyped, DeviceTyped
<1>3. ASSUME NEW c \in Conn, NEW v \in Plan \cup {None}, HandleTour(c, v) PROVE StoreTyped' /\ DeviceTyped'
  <2>1. at[c] \in Instance /\ Frame
    BY <1>3 DEF HandleTour, RegistryTyped
  <2>2. UNCHANGED <<at, hash, storeOut, storeIn, shown, replayed, log, dirty, torn, failed, expired>>
    BY <1>3 DEF HandleTour, redisVars, deviceVars, histVars
  <2>3. \A x \in asked' : x.via \in Instance /\ x.from \in Member /\ x.value \in Plan \cup {None}
    BY <1>3, <1>a, <2>1 DEF HandleTour, StoreTyped
  <2>4. frames' \in 0 .. MaxFrames /\ faults' \in 0 .. MaxFaults
    BY <2>1, Budgets DEF DeviceTyped
  <2> QED BY <2>2, <2>3, <2>4 DEF StoreTyped, DeviceTyped
<1>4. ASSUME NEW x \in asked, ResumeTour(x) PROVE StoreTyped' /\ DeviceTyped'
  <2>1. UNCHANGED <<at, hash, storeIn, replayed, failed, expired, counts>> /\ asked' \subseteq asked
    BY <1>4 DEF ResumeTour, redisVars
  <2>2. CASE Author[Tour] = x.from
    <3> DEFINE f == [field |-> Tour, value |-> x.value, from |-> x.from]
    <3>1. Relay(x.via, f) /\ x.via \in Instance
      BY <1>4, <2>2 DEF ResumeTour, StoreTyped
    <3>2. f.field \in Field /\ f.value \in Value /\ f.from \in Member
      BY <1>4, SnapshotSet DEF StoreTyped
    <3> HIDE DEF f
    <3>3. /\ log' \in Seq(Entry) /\ storeOut' \in [Instance -> Seq(StoreCommand(Len(log')))]
          /\ shown' \in [Conn -> Snapshot] /\ dirty' \in [Conn -> SUBSET Field] /\ torn' \subseteq Field
      BY <3>1, <3>2, RelayTyped
    <3> QED BY <2>1, <3>3 DEF StoreTyped, DeviceTyped, counts
  <2>3. CASE Author[Tour] # x.from
    <3>1. UNCHANGED <<shown, log, storeOut, dirty, torn>>
      BY <1>4, <2>3 DEF ResumeTour
    <3> QED BY <2>1, <3>1 DEF StoreTyped, DeviceTyped, counts
  <2> QED BY <2>2, <2>3
<1>5. ASSUME UNCHANGED <<at, hash, storeOut, storeIn, asked, shown, replayed, log, dirty, torn, failed,
                         expired, counts>>
      PROVE  StoreTyped' /\ DeviceTyped'
  BY <1>5 DEF StoreTyped, DeviceTyped, counts
<1>6. ASSUME NEW i \in Instance, RedisPublish(i) \/ PublisherBlip(i) \/ RedisSubscribe(i)
      PROVE  StoreTyped' /\ DeviceTyped'
  <2>1. CASE RedisPublish(i) \/ RedisSubscribe(i)
    BY <1>5, <2>1 DEF RedisPublish, RedisSubscribe, redisVars, deviceVars, histVars
  <2>2. CASE PublisherBlip(i)
    <3>1. frames' \in 0 .. MaxFrames /\ faults' \in 0 .. MaxFaults
      BY <2>2, Budgets DEF DeviceTyped, PublisherBlip
    <3>2. UNCHANGED <<at, hash, storeOut, storeIn, asked, shown, replayed, log, dirty, torn, failed, expired>>
      BY <2>2 DEF PublisherBlip, redisVars, deviceVars
    <3> QED BY <3>1, <3>2 DEF StoreTyped, DeviceTyped
  <2> QED BY <1>6, <2>1, <2>2
<1>7. ASSUME NEW i \in Instance, OnMessage(i) PROVE StoreTyped' /\ DeviceTyped'
  <2>1. UNCHANGED <<at, hash, storeOut, storeIn, asked, replayed, log, dirty, torn, failed, expired, counts>>
    BY <1>7 DEF OnMessage, redisVars, histVars
  <2>2. Head(subIn[i]) \in 1 .. Len(log)
    BY <1>7 DEF OnMessage, QueuesTyped
  <2>3. log[Head(subIn[i])] \in Entry
    BY <2>2 DEF StoreTyped
  <2>4. log[Head(subIn[i])].field \in Field /\ log[Head(subIn[i])].value \in Value
    BY <2>3 DEF Entry
  <2>5. shown' \in [Conn -> Snapshot]
    <3>1. CASE Sent(i, Head(subIn[i]), log)
      BY <2>4, <3>1, SentShows DEF DeviceTyped
    <3>2. CASE shown' = shown
      BY <3>2 DEF DeviceTyped
    <3> QED BY <1>7, <3>1, <3>2 DEF OnMessage
  <2> QED BY <2>1, <2>5 DEF StoreTyped, DeviceTyped, counts
<1>8. ASSUME NEW i \in Instance, RedisWrite(i) PROVE StoreTyped' /\ DeviceTyped'
  <2> DEFINE x == Head(storeOut[i])
  <2>1. Executes(i, "write") /\ hash' = [hash EXCEPT ![log[x.n].field] = log[x.n].value]
    BY <1>8 DEF RedisWrite, Stored
  <2>2. storeOut' \in [Instance -> Seq(StoreCommand(Len(log)))] /\ x \in StoreCommand(Len(log)) /\ x.op = "write"
    BY <2>1, ExecutesTyped
  <2> HIDE DEF x
  <2>3. x.n \in 1 .. Len(log)
    BY <2>2, CommandCarries
  <2>4. log[x.n] \in Entry
    BY <2>3 DEF StoreTyped
  <2>5. log[x.n].field \in Field /\ log[x.n].value \in Value
    BY <2>4 DEF Entry
  <2>6. hash' \in Snapshot
    BY <2>1, <2>5, SnapshotSet DEF StoreTyped
  <2>7. UNCHANGED <<at, storeIn, asked, shown, replayed, log, dirty, torn, failed, expired, counts>>
    BY <1>8 DEF RedisWrite, ElsewhereUnchanged, deviceVars, histVars
  <2> QED BY <2>2, <2>6, <2>7 DEF StoreTyped, DeviceTyped, counts
<1>9. ASSUME NEW i \in Instance, RedisGet(i) \/ RedisGetAll(i) \/ RedisPrune(i)
      PROVE  StoreTyped' /\ DeviceTyped'
  <2> DEFINE x == Head(storeOut[i])
  <2>1. UNCHANGED <<at, asked, shown, replayed, log, dirty, torn, failed, expired, counts>>
    BY <1>9 DEF RedisGet, RedisGetAll, RedisPrune, ElsewhereUnchanged, deviceVars, histVars
  <2>2. PICK op \in {"get", "getall", "prune"} : Executes(i, op)
    BY <1>9 DEF RedisGet, RedisGetAll, RedisPrune
  <2>3. storeOut' \in [Instance -> Seq(StoreCommand(Len(log)))] /\ x \in StoreCommand(Len(log)) /\ x.op = op
    BY <2>2, ExecutesTyped
  <2>4. \E y \in StoreReply : Replies(i, y)
    <3>1. CASE RedisGet(i)
      <4>1. x.op = "get" /\ Replies(i, [op |-> "got", field |-> x.field, from |-> x.from,
                                        tracked |-> hash[x.field] # None])
        BY <3>1 DEF RedisGet, Executes
      <4>2. x.field \in Hazard /\ x.from \in Member
        <5> HIDE DEF x
        <5> QED BY <2>3, <4>1, CommandCarries
      <4>3. [op |-> "got", field |-> x.field, from |-> x.from, tracked |-> hash[x.field] # None] \in StoreReply
        <5> HIDE DEF x
        <5>1. (hash[x.field] # None) \in BOOLEAN
          OBVIOUS
        <5> QED BY <4>2, <5>1, ReplyKinds
      <4> QED BY <4>1, <4>3
    <3>2. CASE RedisGetAll(i)
      <4>1. x.op = "getall" /\ Replies(i, [op |-> "fields", conn |-> x.conn, snap |-> hash])
        BY <3>2 DEF RedisGetAll, Executes
      <4>2. x.conn \in Conn /\ hash \in Snapshot
        <5> HIDE DEF x
        <5> QED BY <2>3, <4>1, CommandCarries DEF StoreTyped
      <4> HIDE DEF x
      <4> QED BY <4>1, <4>2, ReplyKinds
    <3>3. CASE RedisPrune(i)
      <4>1. x.op = "prune" /\ Replies(i, [op |-> "pruned", conn |-> x.conn, snap |-> x.snap, stale |-> x.stale])
        BY <3>3 DEF RedisPrune, Executes
      <4>2. x.conn \in Conn /\ x.snap \in Snapshot /\ x.stale \in SUBSET Hazard
        <5> HIDE DEF x
        <5> QED BY <2>3, <4>1, CommandCarries
      <4> HIDE DEF x
      <4> QED BY <4>1, <4>2, ReplyKinds
    <3> QED BY <1>9, <3>1, <3>2, <3>3
  <2>5. storeIn' \in [Instance -> Seq(StoreReply)]
    BY <2>4, RepliesTyped
  <2>6. hash' \in Snapshot
    <3>1. CASE hash' = hash
      BY <3>1 DEF StoreTyped
    <3>2. CASE RedisPrune(i)
      <4>1. x.op = "prune" /\ hash' = [hash EXCEPT ![x.field] = None]
        BY <3>2 DEF RedisPrune, Executes
      <4> HIDE DEF x
      <4>2. x.field \in Hazard
        BY <2>3, <4>1, CommandCarries
      <4> QED BY <4>1, <4>2, SnapshotSet DEF StoreTyped
    <3> QED BY <1>9, <3>1, <3>2 DEF RedisGet, RedisGetAll
  <2> QED BY <2>1, <2>3, <2>5, <2>6 DEF StoreTyped, DeviceTyped, counts
<1>10. ASSUME NEW i \in Instance, ResumeRemove(i) PROVE StoreTyped' /\ DeviceTyped'
  <2> DEFINE x == Head(storeIn[i])
  <2>1. UNCHANGED <<at, hash, asked, replayed, failed, expired, counts>> /\ Resumes(i, "got")
    BY <1>10 DEF ResumeRemove, redisVars
  <2>2. storeIn' \in [Instance -> Seq(StoreReply)] /\ x \in StoreReply /\ x.op = "got"
    BY <2>1, ResumesTyped
  <2>3. x.field \in Field /\ x.from \in Member /\ None \in Value
    <3> HIDE DEF x
    <3> QED BY <2>2, ReplyCarries, SnapshotSet
  <2>4. CASE UNCHANGED <<shown, log, storeOut, dirty, torn>>
    BY <2>1, <2>2, <2>4 DEF StoreTyped, DeviceTyped, counts
  <2>5. CASE Relay(i, [field |-> x.field, value |-> None, from |-> x.from])
    <3> DEFINE f == [field |-> x.field, value |-> None, from |-> x.from]
    <3>1. f.field \in Field /\ f.value \in Value /\ f.from \in Member /\ Relay(i, f)
      BY <2>3, <2>5
    <3> HIDE DEF f
    <3>2. /\ log' \in Seq(Entry) /\ storeOut' \in [Instance -> Seq(StoreCommand(Len(log')))]
          /\ shown' \in [Conn -> Snapshot] /\ dirty' \in [Conn -> SUBSET Field] /\ torn' \subseteq Field
      BY <3>1, RelayTyped
    <3> QED BY <2>1, <2>2, <3>2 DEF StoreTyped, DeviceTyped, counts
  <2> QED BY <1>10, <2>4, <2>5 DEF ResumeRemove
<1>11. ASSUME NEW i \in Instance, NEW c \in Conn, NEW snap \in Snapshot, NEW stale \in SUBSET Hazard,
              Replay(i, c, snap, stale), storeIn' \in [Instance -> Seq(StoreReply)],
              UNCHANGED <<at, hash, asked, log, dirty, torn, failed, expired, counts>>
       PROVE  StoreTyped' /\ DeviceTyped'
  <2>1. storeOut' \in [Instance -> Seq(StoreCommand(Len(log)))] /\ shown' \in [Conn -> Snapshot]
    BY <1>11, Replays DEF ReplayPrunes, ReplaySends, ReplayIdle, StoreTyped, DeviceTyped
  <2>2. replayed' \subseteq {d \in Conn : at[d] # None}
    <3>1. CASE ReplayPrunes(i, c, snap, stale) \/ ReplayIdle(i, c)
      BY <1>b, <3>1 DEF ReplayPrunes, ReplayIdle
    <3>2. CASE ReplaySends(i, c, snap)
      BY <1>b, <3>2, RedisAssumption DEF ReplaySends
    <3> QED BY <1>11, <3>1, <3>2, Replays
  <2> QED BY <1>11, <2>1, <2>2 DEF StoreTyped, DeviceTyped, counts
<1>12. ASSUME NEW i \in Instance, ReplayBegins(i) \/ ReplayGoesOn(i) PROVE StoreTyped' /\ DeviceTyped'
  <2> DEFINE x == Head(storeIn[i])
  <2>1. PICK op \in {"fields", "pruned"} : Resumes(i, op)
    BY <1>12 DEF ReplayBegins, ReplayGoesOn
  <2>2. storeIn' \in [Instance -> Seq(StoreReply)] /\ x \in StoreReply /\ x.op = op
    BY <2>1, ResumesTyped
  <2>3. UNCHANGED <<at, hash, asked, log, dirty, torn, failed, expired, counts>>
    BY <1>12 DEF ReplayBegins, ReplayGoesOn, redisVars, histVars
  <2>4. PICK stale : Replay(i, x.conn, x.snap, stale) /\ stale \in {expired \cap Present(x.snap), x.stale}
                       /\ (op = "fields" => stale = expired \cap Present(x.snap))
    BY <1>12, <2>1 DEF ReplayBegins, ReplayGoesOn, Resumes
  <2>5. x.conn \in Conn /\ x.snap \in Snapshot /\ stale \in SUBSET Hazard
    <3> HIDE DEF x
    <3> QED BY <2>2, <2>4, ReplyCarries DEF DeviceTyped
  <2> HIDE DEF x
  <2> QED BY <1>11, <2>2, <2>3, <2>4, <2>5
<1>13. ASSUME NEW c \in Conn, NEW i \in Instance, Connect(c, i) PROVE StoreTyped' /\ DeviceTyped'
  <2> DEFINE x == [op |-> "getall", conn |-> c]
  <2>1. /\ UNCHANGED <<hash, storeIn, asked, shown, replayed, log, torn, failed, expired, counts>>
        /\ at' = [at EXCEPT ![c] = i] /\ dirty' = [dirty EXCEPT ![c] = Fields(UnderWay)]
        /\ storeOut' = [storeOut EXCEPT ![i] = Append(@, x)]
    BY <1>13 DEF Connect, redisVars, deviceVars
  <2>2. x \in StoreCommand(Len(log))
    BY <1>0, Commands
  <2> HIDE DEF x
  <2>3. storeOut' \in [Instance -> Seq(StoreCommand(Len(log)))]
    BY <2>1, <2>2, CommandTyped
  <2>4. dirty' \in [Conn -> SUBSET Field]
    BY <2>1, UnderWayTyped DEF DeviceTyped
  <2>5. replayed' \subseteq {d \in Conn : at'[d] # None}
    BY <1>b, <2>1, RedisAssumption DEF RegistryTyped
  <2> QED BY <2>1, <2>3, <2>4, <2>5 DEF StoreTyped, DeviceTyped, counts
<1>14. ASSUME NEW c \in Conn, Close(c) PROVE StoreTyped' /\ DeviceTyped'
  <2>1. UNCHANGED <<hash, storeOut, storeIn, asked, log, dirty, torn, failed, expired>> /\ Drop({c}) /\ Fault
    BY <1>14 DEF Close, redisVars, histVars
  <2>2. shown' \in [Conn -> Snapshot] /\ replayed' \subseteq {d \in Conn : at'[d] # None}
    BY <2>1, DropTyped
  <2>3. frames' \in 0 .. MaxFrames /\ faults' \in 0 .. MaxFaults
    BY <2>1, Budgets DEF DeviceTyped
  <2> QED BY <2>1, <2>2, <2>3 DEF StoreTyped, DeviceTyped
<1>15. ASSUME NEW i \in Instance, Crash(i) PROVE StoreTyped' /\ DeviceTyped'
  BY <1>15, ExitTyped DEF Crash
<1>16. ASSUME NEW i \in Instance, SubscriberReconnects(i) PROVE dirty' \in [Conn -> SUBSET Field]
  BY <1>16, UnderWayTyped DEF SubscriberReconnects, DeviceTyped
<1>17. ASSUME NEW i \in Instance, Blip(i) PROVE StoreTyped' /\ DeviceTyped'
  <2>1. UNCHANGED <<at, hash, storeOut, storeIn, asked, shown, replayed, log, torn, failed, expired>>
        /\ SubscriberReconnects(i) /\ Fault
    BY <1>17 DEF Blip, deviceVars
  <2>2. frames' \in 0 .. MaxFrames /\ faults' \in 0 .. MaxFaults
    BY <2>1, Budgets DEF DeviceTyped
  <2> QED BY <1>16, <2>1, <2>2 DEF StoreTyped, DeviceTyped
<1>18. ASSUME NEW i \in Instance, Outage(i) PROVE StoreTyped' /\ DeviceTyped'
  <2>1. CASE Exit(i) /\ UNCHANGED dirty
    BY <1>18, <2>1, ExitTyped DEF Outage
  <2>2. CASE /\ SubscriberReconnects(i) /\ storeOut' = [storeOut EXCEPT ![i] = <<>>]
             /\ torn' = torn \cup Fields(Queued(i)) /\ failed' = failed \cup {i}
             /\ UNCHANGED <<at, storeIn, asked, shown, replayed>>
    <3>1. frames' \in 0 .. MaxFrames /\ faults' \in 0 .. MaxFaults
      BY <1>18, Budgets DEF DeviceTyped, Outage
    <3>2. StoreTyped'
      BY <1>18, <2>2 DEF StoreTyped, Outage
    <3>3. torn' \subseteq Field /\ failed' \subseteq Instance
      BY <2>2, QueuedTyped DEF DeviceTyped
    <3>4. UNCHANGED <<hash, log, expired>>
      BY <1>18 DEF Outage
    <3> QED BY <1>16, <2>2, <3>1, <3>2, <3>3, <3>4 DEF DeviceTyped
  <2> QED BY <1>18, <2>1, <2>2 DEF Outage, deviceVars
<1>19. ASSUME NEW h \in Hazard, Expire(h) PROVE StoreTyped' /\ DeviceTyped'
  <2>1. UNCHANGED <<at, hash, storeOut, storeIn, asked, shown, replayed, log, dirty, torn, failed>>
        /\ expired' = expired \cup {h} /\ Fault
    BY <1>19 DEF Expire, redisVars, queueVars, deviceVars, histVars
  <2>2. frames' \in 0 .. MaxFrames /\ faults' \in 0 .. MaxFaults
    BY <2>1, Budgets DEF DeviceTyped
  <2> QED BY <2>1, <2>2 DEF StoreTyped, DeviceTyped
<1>20. CASE UNCHANGED vars
  BY <1>5, <1>20 DEF vars, redisVars, queueVars, deviceVars, histVars
<1> QED BY <1>1, <1>2, <1>3, <1>4, <1>6, <1>7, <1>8, <1>9, <1>10, <1>12, <1>13, <1>14, <1>15, <1>17,
           <1>18, <1>19, <1>20 DEF Next, Redis, Loop

(* What the following proofs start from.                                   *)
GatewayTyped ==
  RegistryInv /\ AskedTyped /\ OrderInv /\ StoreTyped /\ DeviceTyped

(* The types hold initially.                                               *)
LEMMA TypedInit == Init => GatewayTyped
<1> SUFFICES ASSUME Init PROVE GatewayTyped
  OBVIOUS
<1>1. RegistryInv /\ AskedTyped
  BY RedisAssumption DEF Init, RegistryInv, RegistryTyped, SubscriptionFollows, Local, AskedTyped
<1>2. log = <<>> /\ log \in Seq(ToSet(log)) /\ Len(log) = 0
  BY DEF Init
<1>3. QueuesTyped
  BY <1>2, EmptyQueue DEF Init, QueuesTyped
<1>4. InOrder
  BY EmptyQueue DEF Init, InOrder, Before
<1>5. StoreTyped
  BY <1>2, SnapshotSet DEF Init, StoreTyped
<1>6. DeviceTyped
  BY SnapshotSet, RedisAssumption DEF Init, DeviceTyped
<1> QED BY <1>1, <1>3, <1>4, <1>5, <1>6 DEF GatewayTyped, OrderInv, RegistryInv

(* Every step preserves them.                                              *)
LEMMA TypedStep ==
  ASSUME GatewayTyped, [Next]_vars
  PROVE  GatewayTyped'
<1>1. RegistryInv /\ AskedTyped /\ OrderInv /\ RegistryTyped /\ QueuesTyped /\ StoreTyped /\ DeviceTyped
  BY DEF GatewayTyped, RegistryInv, OrderInv
<1>2. RegistryInv' /\ RegistryTyped'
  BY <1>1, RegistryStep DEF RegistryInv
<1>3. AskedTyped' /\ OrderInv'
  BY <1>1, <1>2, AskedStep, OrderStep
<1>4. StoreTyped' /\ DeviceTyped'
  BY <1>1, <1>2, TypeStep
<1> QED BY <1>2, <1>3, <1>4 DEF GatewayTyped

(* Every variable keeps its type, whatever the devices, Redis and the      *)
(* network do: queues hold frames that were relayed, only sockets that are *)
(* open were replayed, only hazards expire.                                *)
THEOREM RedisTypeCorrect == Spec => []TypeOK
<1>1. ASSUME GatewayTyped PROVE TypeOK
  <2>1. RegistryTyped /\ QueuesTyped /\ StoreTyped /\ DeviceTyped
    BY <1>1 DEF GatewayTyped, OrderInv
  <2>2. DOMAIN log = 1 .. Len(log)
    BY <2>1 DEF StoreTyped
  <2>3. ASSUME NEW i \in Instance
        PROVE  /\ \A n \in ToSet(subIn[i]) \cup ToSet(pubOut[i]) : n \in DOMAIN log
               /\ \A x \in ToSet(storeOut[i]) : x.op = "write" => x.n \in DOMAIN log
    <3>1. ToSet(pubOut[i]) \subseteq 1 .. Len(log) /\ ToSet(subIn[i]) \subseteq 1 .. Len(log)
      BY <2>1, QueueElements DEF QueuesTyped
    <3>2. ToSet(storeOut[i]) \subseteq StoreCommand(Len(log))
      BY <2>1, QueueElements DEF StoreTyped
    <3>3. \A x \in ToSet(storeOut[i]) : x.op = "write" => x.n \in 1 .. Len(log)
      BY <3>2, CommandCarries
    <3> QED BY <2>2, <3>1, <3>3
  <2>4. resent \subseteq DOMAIN log
    BY <2>1, <2>2 DEF QueuesTyped
  <2> QED BY <2>1, <2>3, <2>4 DEF TypeOK, RegistryTyped, StoreTyped, DeviceTyped, Snapshot, Command
<1>2. GatewayTyped => TypeOK
  BY <1>1
<1> QED BY <1>2, TypedInit, TypedStep, PTL DEF Spec

-----------------------------------------------------------------------------
(* What a step does to the store, the channel and the devices: its kind.   *)

(* Instance i takes a reply of kind op, Redis a command of instance i.     *)
Takes(i, op) ==
  /\ storeIn[i] # <<>> /\ Head(storeIn[i]).op = op /\ Head(storeIn[i]) \in StoreReply
  /\ Head(storeIn[i]) \in ToSet(storeIn[i])
  /\ storeIn'[i] = Tail(storeIn[i]) /\ \A j \in Instance \ {i} : storeIn'[j] = storeIn[j]
Does(i, op) ==
  /\ storeOut[i] # <<>> /\ Head(storeOut[i]).op = op /\ Head(storeOut[i]) \in StoreCommand(Len(log))
  /\ Head(storeOut[i]) \in ToSet(storeOut[i])
  /\ storeOut'[i] = Tail(storeOut[i]) /\ \A j \in Instance \ {i} : storeOut'[j] = storeOut[j]
(* Instance i sends a command, Redis answers i.                            *)
Asks(i, x) ==
  /\ x \in StoreCommand(Len(log))
  /\ storeOut'[i] = Append(storeOut[i], x) /\ \A j \in Instance \ {i} : storeOut'[j] = storeOut[j]
Answers(i, y) ==
  /\ y \in StoreReply
  /\ storeIn'[i] = Append(storeIn[i], y) /\ \A j \in Instance \ {i} : storeIn'[j] = storeIn[j]

(* A frame is relayed at once, or for a reporter or of an untracked hazard.*)
RelayStep(i, f) ==
  /\ f.field \in Field /\ f.value \in Value /\ f.from \in Member
  /\ Relay(i, f) /\ Relayed(i, f)
  /\ UNCHANGED <<at, subs, hash, subOut, subIn, replayed, failed, expired>>
  /\ \/ /\ UNCHANGED storeIn /\ f.from = Author[f.field]
        /\ f.field \in Hazard => f.value # None /\ \A n \in DOMAIN log : log[n].field # f.field
     \/ LET x == Head(storeIn[i]) IN
        /\ Takes(i, "got")
        /\ f.field = x.field /\ f.field \in Hazard /\ f.value = None /\ f.from = x.from
        /\ x.tracked => x.from = Author[x.field]
RefuseStep(i) ==
  /\ Takes(i, "got")
  /\ UNCHANGED <<at, subs, hash, subOut, subIn, pubOut, storeOut, shown, replayed, log, dirty, torn,
                 failed, expired>>
AskStep(i, h, m) ==
  /\ h \in Hazard /\ m \in Member /\ Asks(i, [op |-> "get", field |-> h, from |-> m])
  /\ \/ Author[h] = m /\ \E n \in DOMAIN log : log[n].field = h
     \/ \E c \in Conn : shown[c][h] # None
  /\ torn' = torn \cup ({h} \cap Fields(ComingFromElsewhere(i)))
  /\ UNCHANGED <<at, subs, hash, subOut, subIn, pubOut, storeIn, shown, replayed, log, dirty, failed,
                 expired>>
StoreUnchanged ==
  UNCHANGED <<at, subs, subOut, subIn, pubOut, shown, replayed, log, dirty, torn, failed, expired>>
WriteStep(i) ==
  LET n == Head(storeOut[i]).n IN
  /\ Does(i, "write") /\ n \in 1 .. Len(log)
  /\ hash' = [hash EXCEPT ![log[n].field] = log[n].value]
  /\ UNCHANGED storeIn /\ StoreUnchanged
GetStep(i) ==
  LET x == Head(storeOut[i]) IN
  /\ Does(i, "get") /\ x.field \in Hazard /\ x.from \in Member
  /\ Answers(i, [op |-> "got", field |-> x.field, from |-> x.from, tracked |-> hash[x.field] # None])
  /\ UNCHANGED hash /\ StoreUnchanged
GetAllStep(i) ==
  LET x == Head(storeOut[i]) IN
  /\ Does(i, "getall") /\ x.conn \in Conn
  /\ Answers(i, [op |-> "fields", conn |-> x.conn, snap |-> hash])
  /\ UNCHANGED hash /\ StoreUnchanged
PruneStep(i) ==
  LET x == Head(storeOut[i]) IN
  /\ Does(i, "prune") /\ x.conn \in Conn /\ x.field \in Hazard
  /\ Answers(i, [op |-> "pruned", conn |-> x.conn, snap |-> x.snap, stale |-> x.stale])
  /\ hash' = [hash EXCEPT ![x.field] = None]
  /\ StoreUnchanged

(* A replay goes on by a prune, sends the snapshot, or ends at a socket    *)
(* that is closed.                                                         *)
ReplayStep(i, op, stale) ==
  LET x == Head(storeIn[i]) IN
  /\ op \in {"fields", "pruned"} /\ Takes(i, op) /\ x.conn \in Conn /\ x.snap \in Snapshot
  /\ stale = IF op = "fields" THEN expired \cap Present(x.snap) ELSE x.stale
  /\ \/ \E h \in stale :
          /\ Asks(i, [op |-> "prune", conn |-> x.conn, field |-> h,
                      snap |-> [x.snap EXCEPT ![h] = None], stale |-> stale \ {h}])
          /\ UNCHANGED <<shown, replayed>>
     \/ ReplaySends(i, x.conn, x.snap)
     \/ ReplayIdle(i, x.conn)
  /\ UNCHANGED <<at, subs, hash, subOut, subIn, pubOut, log, dirty, torn, failed, expired>>
ConnectStep(c, i) ==
  /\ at[c] = None /\ at' = [at EXCEPT ![c] = i] /\ ~Reading(c)
  /\ Asks(i, [op |-> "getall", conn |-> c])
  /\ dirty' = [dirty EXCEPT ![c] = Fields(UnderWay)]
  /\ \A d \in Conn \ {c} : at[d] \in Instance => subOut'[at[d]] = subOut[at[d]]
  /\ UNCHANGED <<subs, hash, subIn, pubOut, storeIn, shown, replayed, log, torn, failed, expired>>
CloseStep(c) ==
  /\ at[c] \in Instance /\ Drop({c})
  /\ \A d \in Conn \ {c} : at[d] \in Instance => subOut'[at[d]] = subOut[at[d]]
  /\ UNCHANGED <<subs, hash, subIn, pubOut, storeOut, storeIn, log, dirty, torn, failed, expired>>
ExitStep(i) == Exit(i) /\ UNCHANGED <<hash, log, dirty, expired>>
BlipStep(i) ==
  /\ SubscriberReconnects(i) /\ \A j \in Instance \ {i} : subOut'[j] = subOut[j]
  /\ UNCHANGED <<at, hash, pubOut, storeOut, storeIn, shown, replayed, log, torn, failed, expired>>
OutageStep(i) ==
  /\ SubscriberReconnects(i) /\ \A j \in Instance \ {i} : subOut'[j] = subOut[j]
  /\ storeOut' = [storeOut EXCEPT ![i] = <<>>]
  /\ torn' = torn \cup Fields(Queued(i)) /\ failed' = failed \cup {i}
  /\ UNCHANGED <<at, hash, pubOut, storeIn, shown, replayed, log, expired>>
ChannelUnchanged ==
  UNCHANGED <<at, hash, storeOut, storeIn, replayed, log, dirty, torn, failed, expired>>
PublishStep(i) ==
  (RedisPublish(i) \/ PublisherBlip(i)) /\ ChannelUnchanged /\ UNCHANGED <<subs, subOut, shown>>
MessageStep(i) == OnMessage(i) /\ ChannelUnchanged /\ UNCHANGED <<subs, subOut, pubOut>>
SubscribeStep(i) == RedisSubscribe(i) /\ ChannelUnchanged /\ UNCHANGED <<subIn, pubOut, shown>>
OtherStep ==
  /\ UNCHANGED <<at, subs, hash, subOut, subIn, pubOut, storeOut, storeIn, shown, replayed, log, dirty,
                 torn, failed>>
  /\ expired \subseteq expired'

StepKinds ==
  \/ OtherStep
  \/ \E i \in Instance :
       \/ \E f : RelayStep(i, f)
       \/ RefuseStep(i) \/ WriteStep(i) \/ GetStep(i) \/ GetAllStep(i) \/ PruneStep(i)
       \/ \E h, m : AskStep(i, h, m)
       \/ \E op, stale : ReplayStep(i, op, stale)
       \/ \E c \in Conn : ConnectStep(c, i)
       \/ ExitStep(i) \/ BlipStep(i) \/ OutageStep(i)
       \/ PublishStep(i) \/ MessageStep(i) \/ SubscribeStep(i)
  \/ \E c \in Conn : CloseStep(c)

(* There are no other steps.                                               *)
LEMMA EveryStep ==
  ASSUME GatewayTyped, [Next]_vars
  PROVE  StepKinds
<1> USE DEF GatewayTyped, RegistryInv, OrderInv
<1>0. Len(log) \in Nat /\ DOMAIN log = 1 .. Len(log)
  BY DEF StoreTyped
<1>a. \A c \in Conn : Who[c] \in Member
  BY DEF Member
<1>b. \A i \in Instance : \A op : Resumes(i, op) => Takes(i, op)
  BY ResumesTyped DEF Takes
<1>c. \A i \in Instance : \A op : Executes(i, op) => Does(i, op)
  BY ExecutesTyped DEF Does
<1>d. \A i \in Instance, y \in StoreReply : Replies(i, y) => Answers(i, y)
  BY RepliesTyped DEF Answers
<1>1. ASSUME NEW c \in Conn, NEW h \in Hazard, HandleHazard(c, h) PROVE StepKinds
  <2> DEFINE f == [field |-> h, value |-> Pin, from |-> Who[c]]
  <2>1. /\ at[c] \in Instance /\ Relay(at[c], f)
        /\ UNCHANGED <<at, subs, hash, subOut, subIn, replayed, failed, expired, storeIn>>
        /\ \A n \in DOMAIN log : log[n].field # h
    BY <1>1 DEF HandleHazard, RegistryTyped, redisVars
  <2>2. f.field \in Field /\ f.value \in Value /\ f.from \in Member
    BY <1>a, SnapshotSet
  <2>3. f.field = h /\ f.from = Author[f.field] /\ f.value # None
    BY <1>1, RedisAssumption DEF HandleHazard
  <2> HIDE DEF f
  <2>4. Relayed(at[c], f)
    BY <2>1, <2>2, Relays
  <2>5. RelayStep(at[c], f)
    BY <2>1, <2>2, <2>3, <2>4 DEF RelayStep
  <2> QED BY <2>1, <2>5 DEF StepKinds
<1>2. ASSUME NEW c \in Conn, NEW h \in Hazard, HandleRemove(c, h) PROVE StepKinds
  <2> DEFINE x == [op |-> "get", field |-> h, from |-> Who[c]]
  <2>1. at[c] \in Instance /\ storeOut' = [storeOut EXCEPT ![at[c]] = Append(@, x)]
    BY <1>2 DEF HandleRemove, RegistryTyped
  <2>2. x \in StoreCommand(Len(log))
    BY <1>0, <1>a, Commands
  <2>3. Asks(at[c], x)
    <3> HIDE DEF x
    <3> QED BY <2>1, <2>2, CommandTyped DEF Asks
  <2>4. /\ torn' = torn \cup ({h} \cap Fields(ComingFromElsewhere(at[c])))
        /\ UNCHANGED <<at, subs, hash, subOut, subIn, pubOut, storeIn, shown, replayed, log, dirty, failed,
                       expired>>
        /\ \/ Author[h] = Who[c] /\ \E n \in DOMAIN log : log[n].field = h
           \/ \E d \in Conn : shown[d][h] # None
    BY <1>2 DEF HandleRemove, redisVars, deviceVars
  <2>5. AskStep(at[c], h, Who[c])
    BY <1>a, <2>3, <2>4 DEF AskStep
  <2> QED BY <2>1, <2>5 DEF StepKinds
<1>3. ASSUME NEW c \in Conn, NEW v, HandleTour(c, v) PROVE StepKinds
  BY <1>3 DEF HandleTour, redisVars, deviceVars, histVars, StepKinds, OtherStep
<1>4. ASSUME NEW x \in asked, ResumeTour(x) PROVE StepKinds
  <2>1. UNCHANGED <<at, subs, hash, subOut, subIn, storeIn, replayed, failed, expired>>
    BY <1>4 DEF ResumeTour, redisVars
  <2>2. CASE Author[Tour] = x.from
    <3> DEFINE f == [field |-> Tour, value |-> x.value, from |-> x.from]
    <3>1. Relay(x.via, f) /\ x.via \in Instance
      BY <1>4, <2>2 DEF ResumeTour, StoreTyped
    <3>2. f.field \in Field /\ f.value \in Value /\ f.from \in Member
      BY <1>4, SnapshotSet DEF StoreTyped
    <3>3. f.from = Author[f.field] /\ f.field \notin Hazard
      BY <2>2, RedisAssumption
    <3> HIDE DEF f
    <3>4. Relayed(x.via, f)
      BY <3>1, <3>2, Relays
    <3>5. RelayStep(x.via, f)
      BY <2>1, <3>1, <3>2, <3>3, <3>4 DEF RelayStep
    <3> QED BY <3>1, <3>5 DEF StepKinds
  <2>3. CASE Author[Tour] # x.from
    <3>1. UNCHANGED <<shown, pubOut, log, storeOut, dirty, torn>>
      BY <1>4, <2>3 DEF ResumeTour
    <3> QED BY <2>1, <3>1 DEF StepKinds, OtherStep
  <2> QED BY <2>2, <2>3
<1>5. ASSUME NEW i \in Instance, RedisPublish(i) \/ PublisherBlip(i) PROVE StepKinds
  BY <1>5 DEF StepKinds, PublishStep, ChannelUnchanged, RedisPublish, PublisherBlip, redisVars, deviceVars,
              histVars
<1>6. ASSUME NEW i \in Instance, OnMessage(i) PROVE StepKinds
  BY <1>6 DEF StepKinds, MessageStep, ChannelUnchanged, OnMessage, redisVars, histVars
<1>7. ASSUME NEW i \in Instance, RedisSubscribe(i) PROVE StepKinds
  BY <1>7 DEF StepKinds, SubscribeStep, ChannelUnchanged, RedisSubscribe, deviceVars, histVars
<1>8. ASSUME NEW i \in Instance, RedisWrite(i) PROVE StepKinds
  <2> DEFINE x == Head(storeOut[i])
  <2>1. /\ Executes(i, "write") /\ hash' = [hash EXCEPT ![log[x.n].field] = log[x.n].value]
        /\ storeIn' = storeIn
    BY <1>8 DEF RedisWrite, Stored
  <2>2. Does(i, "write")
    BY <1>c, <2>1
  <2>3. x \in StoreCommand(Len(log)) /\ x.op = "write"
    BY <2>2 DEF Does
  <2>4. StoreUnchanged
    BY <1>8 DEF RedisWrite, ElsewhereUnchanged, deviceVars, histVars, StoreUnchanged
  <2>5. x.n \in 1 .. Len(log)
    <3> HIDE DEF x
    <3> QED BY <2>3, CommandCarries
  <2>6. WriteStep(i)
    BY <2>1, <2>2, <2>4, <2>5 DEF WriteStep
  <2> QED BY <2>6 DEF StepKinds
<1>9. ASSUME NEW i \in Instance, RedisGet(i) PROVE StepKinds
  <2> DEFINE x == Head(storeOut[i])
             y == [op |-> "got", field |-> x.field, from |-> x.from, tracked |-> hash[x.field] # None]
  <2>1. Executes(i, "get") /\ Replies(i, y) /\ hash' = hash
    BY <1>9 DEF RedisGet
  <2>2. Does(i, "get")
    BY <1>c, <2>1
  <2>3. x \in StoreCommand(Len(log)) /\ x.op = "get"
    BY <2>2 DEF Does
  <2>4. StoreUnchanged
    BY <1>9 DEF RedisGet, ElsewhereUnchanged, deviceVars, histVars, StoreUnchanged
  <2>5. x.field \in Hazard /\ x.from \in Member
    <3> HIDE DEF x
    <3> QED BY <2>3, CommandCarries
  <2>6. y \in StoreReply
    <3>1. (hash[x.field] # None) \in BOOLEAN
      OBVIOUS
    <3> HIDE DEF x
    <3> QED BY <2>5, <3>1, ReplyKinds
  <2>7. Answers(i, y)
    <3> HIDE DEF y
    <3> QED BY <1>d, <2>1, <2>6
  <2>8. GetStep(i)
    BY <2>1, <2>2, <2>4, <2>5, <2>7 DEF GetStep
  <2> QED BY <2>8 DEF StepKinds
<1>10. ASSUME NEW i \in Instance, RedisGetAll(i) PROVE StepKinds
  <2> DEFINE x == Head(storeOut[i])
             y == [op |-> "fields", conn |-> x.conn, snap |-> hash]
  <2>1. Executes(i, "getall") /\ Replies(i, y) /\ hash' = hash
    BY <1>10 DEF RedisGetAll
  <2>2. Does(i, "getall")
    BY <1>c, <2>1
  <2>3. x \in StoreCommand(Len(log)) /\ x.op = "getall"
    BY <2>2 DEF Does
  <2>4. StoreUnchanged
    BY <1>10 DEF RedisGetAll, ElsewhereUnchanged, deviceVars, histVars, StoreUnchanged
  <2>5. x.conn \in Conn
    <3> HIDE DEF x
    <3> QED BY <2>3, CommandCarries
  <2>6. y \in StoreReply
    <3> HIDE DEF x
    <3> QED BY <2>5, ReplyKinds DEF StoreTyped
  <2>7. Answers(i, y)
    <3> HIDE DEF y
    <3> QED BY <1>d, <2>1, <2>6
  <2>8. GetAllStep(i)
    BY <2>1, <2>2, <2>4, <2>5, <2>7 DEF GetAllStep
  <2> QED BY <2>8 DEF StepKinds
<1>11. ASSUME NEW i \in Instance, RedisPrune(i) PROVE StepKinds
  <2> DEFINE x == Head(storeOut[i])
             y == [op |-> "pruned", conn |-> x.conn, snap |-> x.snap, stale |-> x.stale]
  <2>1. Executes(i, "prune") /\ Replies(i, y) /\ hash' = [hash EXCEPT ![x.field] = None]
    BY <1>11 DEF RedisPrune
  <2>2. Does(i, "prune")
    BY <1>c, <2>1
  <2>3. x \in StoreCommand(Len(log)) /\ x.op = "prune"
    BY <2>2 DEF Does
  <2>4. StoreUnchanged
    BY <1>11 DEF RedisPrune, ElsewhereUnchanged, deviceVars, histVars, StoreUnchanged
  <2>5. x.conn \in Conn /\ x.field \in Hazard /\ x.snap \in Snapshot /\ x.stale \in SUBSET Hazard
    <3> HIDE DEF x
    <3> QED BY <2>3, CommandCarries
  <2>6. y \in StoreReply
    <3> HIDE DEF x
    <3> QED BY <2>5, ReplyKinds
  <2>7. Answers(i, y)
    <3> HIDE DEF y
    <3> QED BY <1>d, <2>1, <2>6
  <2>8. PruneStep(i)
    BY <2>1, <2>2, <2>4, <2>5, <2>7 DEF PruneStep
  <2> QED BY <2>8 DEF StepKinds
<1>12. ASSUME NEW i \in Instance, ResumeRemove(i) PROVE StepKinds
  <2> DEFINE x == Head(storeIn[i])
  <2>1. UNCHANGED <<at, subs, hash, subOut, subIn, replayed, failed, expired>> /\ Resumes(i, "got")
    BY <1>12 DEF ResumeRemove, redisVars
  <2>2. Takes(i, "got")
    BY <1>b, <2>1
  <2>3. x \in StoreReply /\ x.op = "got"
    BY <2>2 DEF Takes
  <2>4. x.field \in Hazard /\ x.field \in Field /\ x.from \in Member /\ None \in Value
    <3> HIDE DEF x
    <3> QED BY <2>3, ReplyCarries, SnapshotSet
  <2>5. CASE UNCHANGED <<shown, pubOut, log, storeOut, dirty, torn>>
    <3>1. RefuseStep(i)
      BY <2>1, <2>2, <2>5 DEF RefuseStep
    <3> QED BY <3>1 DEF StepKinds
  <2>6. CASE /\ Relay(i, [field |-> x.field, value |-> None, from |-> x.from])
             /\ x.tracked => x.from = Author[x.field]
    <3> DEFINE f == [field |-> x.field, value |-> None, from |-> x.from]
    <3>1. f.field \in Field /\ f.value \in Value /\ f.from \in Member /\ Relay(i, f)
      BY <2>4, <2>6
    <3>2. f.field = x.field /\ f.field \in Hazard /\ f.value = None /\ f.from = x.from
      BY <2>4
    <3> HIDE DEF f
    <3>3. Relayed(i, f)
      BY <3>1, Relays
    <3>4. RelayStep(i, f)
      BY <2>1, <2>2, <2>6, <3>1, <3>2, <3>3 DEF RelayStep
    <3> QED BY <3>4 DEF StepKinds
  <2> QED BY <1>12, <2>5, <2>6 DEF ResumeRemove
<1>13. ASSUME NEW i \in Instance, ReplayBegins(i) \/ ReplayGoesOn(i) PROVE StepKinds
  <2> DEFINE x == Head(storeIn[i])
  <2>1. PICK op \in {"fields", "pruned"} :
          /\ Resumes(i, op)
          /\ Replay(i, x.conn, x.snap, IF op = "fields" THEN expired \cap Present(x.snap) ELSE x.stale)
    BY <1>13 DEF ReplayBegins, ReplayGoesOn
  <2>2. Takes(i, op)
    BY <1>b, <2>1
  <2>3. x \in StoreReply /\ x.op = op
    BY <2>2 DEF Takes
  <2>4. UNCHANGED <<at, subs, hash, subOut, subIn, pubOut, log, dirty, torn, failed, expired>>
    BY <1>13 DEF ReplayBegins, ReplayGoesOn, redisVars, histVars
  <2>5. PICK stale : stale = IF op = "fields" THEN expired \cap Present(x.snap) ELSE x.stale
    OBVIOUS
  <2>6. x.conn \in Conn /\ x.snap \in Snapshot /\ stale \in SUBSET Hazard
    <3> HIDE DEF x
    <3> QED BY <2>1, <2>3, <2>5, ReplyCarries DEF DeviceTyped
  <2>7. Replay(i, x.conn, x.snap, stale)
    BY <2>1, <2>5
  <2>8. \/ ReplayPrunes(i, x.conn, x.snap, stale)
        \/ ReplaySends(i, x.conn, x.snap)
        \/ ReplayIdle(i, x.conn)
    <3> HIDE DEF x
    <3> QED BY <2>6, <2>7, Replays
  <2>9. ReplayStep(i, op, stale)
    BY <2>1, <2>2, <2>4, <2>5, <2>6, <2>8 DEF ReplayStep, ReplayPrunes, Asks
  <2> QED BY <2>9 DEF StepKinds
<1>14. ASSUME NEW c \in Conn, NEW i \in Instance, Connect(c, i) PROVE StepKinds
  <2> DEFINE x == [op |-> "getall", conn |-> c]
  <2>1. /\ UNCHANGED <<subs, hash, subIn, pubOut, storeIn, shown, replayed, log, torn, failed, expired>>
        /\ at[c] = None /\ ~Reading(c)
        /\ at' = [at EXCEPT ![c] = i] /\ dirty' = [dirty EXCEPT ![c] = Fields(UnderWay)]
        /\ storeOut' = [storeOut EXCEPT ![i] = Append(@, x)]
        /\ subOut' = subOut \/ (Local(i) = {} /\ subOut' = [subOut EXCEPT ![i] = Append(@, "subscribe")])
    BY <1>14 DEF Connect, redisVars, deviceVars
  <2>2. x \in StoreCommand(Len(log))
    BY <1>0, Commands
  <2>3. Asks(i, x)
    <3> HIDE DEF x
    <3> QED BY <2>1, <2>2, CommandTyped DEF Asks
  <2>4. \A d \in Conn \ {c} : at[d] \in Instance => subOut'[at[d]] = subOut[at[d]]
    BY <2>1 DEF RegistryTyped, Local
  <2>5. ConnectStep(c, i)
    BY <2>1, <2>3, <2>4 DEF ConnectStep
  <2> QED BY <2>5 DEF StepKinds
<1>15. ASSUME NEW c \in Conn, Close(c) PROVE StepKinds
  <2>1. /\ at[c] \in Instance /\ Drop({c})
        /\ UNCHANGED <<subs, hash, subIn, pubOut, storeOut, storeIn, log, dirty, torn, failed, expired>>
        /\ \/ subOut' = subOut
           \/ Local(at[c]) = {c} /\ subOut' = [subOut EXCEPT ![at[c]] = Append(@, "unsubscribe")]
    BY <1>15 DEF Close, redisVars, histVars, RegistryTyped
  <2>2. \A d \in Conn \ {c} : at[d] \in Instance => subOut'[at[d]] = subOut[at[d]]
    BY <2>1 DEF RegistryTyped, Local
  <2>3. CloseStep(c)
    BY <2>1, <2>2 DEF CloseStep
  <2> QED BY <2>3 DEF StepKinds
<1>16. ASSUME NEW i \in Instance, Crash(i) PROVE StepKinds
  BY <1>16 DEF Crash, ExitStep, StepKinds
<1>17. ASSUME NEW i \in Instance, Blip(i) PROVE StepKinds
  BY <1>17 DEF Blip, BlipStep, StepKinds, deviceVars, RegistryTyped
<1>18. ASSUME NEW i \in Instance, Outage(i) PROVE StepKinds
  <2>1. CASE Exit(i) /\ UNCHANGED dirty
    BY <1>18, <2>1 DEF Outage, ExitStep, StepKinds
  <2>2. CASE ~(Exit(i) /\ UNCHANGED dirty)
    BY <1>18, <2>2 DEF Outage, OutageStep, StepKinds, deviceVars, RegistryTyped
  <2> QED BY <2>1, <2>2
<1>19. ASSUME NEW h \in Hazard, Expire(h) PROVE StepKinds
  BY <1>19 DEF Expire, redisVars, queueVars, deviceVars, histVars, StepKinds, OtherStep
<1>20. CASE UNCHANGED vars
  BY <1>20 DEF vars, redisVars, queueVars, deviceVars, histVars, StepKinds, OtherStep
<1> QED BY <1>1, <1>2, <1>3, <1>4, <1>5, <1>6, <1>7, <1>8, <1>9, <1>10, <1>11, <1>12, <1>13, <1>14,
           <1>15, <1>16, <1>17, <1>18, <1>19, <1>20 DEF Next, Redis, Loop

-----------------------------------------------------------------------------
(* The replay of every socket.                                             *)

ReadOp == {"getall", "fields", "prune", "pruned"}
ReadsFor(x, c) == x.op \in ReadOp /\ x.conn = c
Awaits(i, c) == \E x \in ToSet(storeOut[i]) \cup ToSet(storeIn[i]) : ReadsFor(x, c)

(* A socket that was not replayed yet waits for its snapshot, unless the   *)
(* instance gave that up.                                                  *)
Awaited ==
  \A c \in Conn : at[c] \in Instance \ failed /\ c \notin replayed => Awaits(at[c], c)

(* The queues of the store's connections.                                  *)
LEMMA StoreQueues ==
  ASSUME GatewayTyped, NEW i \in Instance
  PROVE  /\ Len(log) \in Nat /\ DOMAIN log = 1 .. Len(log)
         /\ storeOut[i] \in Seq(StoreCommand(Len(log))) /\ storeIn[i] \in Seq(StoreReply)
         /\ pubOut[i] \in Seq(1 .. Len(log)) /\ subIn[i] \in Seq(1 .. Len(log))
BY DEF GatewayTyped, StoreTyped, OrderInv, QueuesTyped

(* Elements of the queues after a step of each kind.                       *)
LEMMA TakesElements ==
  ASSUME GatewayTyped, NEW i \in Instance, NEW op, Takes(i, op)
  PROVE  /\ ToSet(storeIn[i]) = {Head(storeIn[i])} \cup ToSet(storeIn'[i])
         /\ \A j \in Instance : ToSet(storeIn'[j]) \subseteq ToSet(storeIn[j])
         /\ \A j \in Instance : \A x \in ToSet(storeIn[j]) :
              x \in ToSet(storeIn'[j]) \/ (j = i /\ x = Head(storeIn[i]))
<1>1. ToSet(storeIn[i]) = {Head(storeIn[i])} \cup ToSet(storeIn'[i])
  BY StoreQueues, Popped DEF Takes
<1>2. \A j \in Instance \ {i} : storeIn'[j] = storeIn[j]
  BY DEF Takes
<1> QED BY <1>1, <1>2
(* Redis executes the next command of an instance.                         *)
LEMMA DoesElements ==
  ASSUME GatewayTyped, NEW i \in Instance, NEW op, Does(i, op)
  PROVE  /\ ToSet(storeOut[i]) = {Head(storeOut[i])} \cup ToSet(storeOut'[i])
         /\ \A j \in Instance : ToSet(storeOut'[j]) \subseteq ToSet(storeOut[j])
         /\ \A j \in Instance : \A x \in ToSet(storeOut[j]) :
              x \in ToSet(storeOut'[j]) \/ (j = i /\ x = Head(storeOut[i]))
<1>1. ToSet(storeOut[i]) = {Head(storeOut[i])} \cup ToSet(storeOut'[i])
  BY StoreQueues, Popped DEF Does
<1>2. \A j \in Instance \ {i} : storeOut'[j] = storeOut[j]
  BY DEF Does
<1> QED BY <1>1, <1>2
(* An instance puts a command behind the others.                           *)
LEMMA AsksElements ==
  ASSUME GatewayTyped, NEW i \in Instance, NEW x, Asks(i, x)
  PROVE  \A j \in Instance : ToSet(storeOut'[j]) = ToSet(storeOut[j]) \cup IF j = i THEN {x} ELSE {}
<1>1. ToSet(storeOut'[i]) = ToSet(storeOut[i]) \cup {x}
  BY StoreQueues, Pushed DEF Asks
<1>2. \A j \in Instance \ {i} : storeOut'[j] = storeOut[j]
  BY DEF Asks
<1> QED BY <1>1, <1>2
(* Redis puts a reply behind the others.                                   *)
LEMMA AnswersElements ==
  ASSUME GatewayTyped, NEW i \in Instance, NEW y, Answers(i, y)
  PROVE  \A j \in Instance : ToSet(storeIn'[j]) = ToSet(storeIn[j]) \cup IF j = i THEN {y} ELSE {}
<1>1. ToSet(storeIn'[i]) = ToSet(storeIn[i]) \cup {y}
  BY StoreQueues, Pushed DEF Answers
<1>2. \A j \in Instance \ {i} : storeIn'[j] = storeIn[j]
  BY DEF Answers
<1> QED BY <1>1, <1>2
(* A relay puts a write and a publication behind the others.               *)
LEMMA RelayElements ==
  ASSUME GatewayTyped, NEW i \in Instance, NEW f, Relayed(i, f)
  PROVE  /\ ToSet(storeOut'[i]) = ToSet(storeOut[i]) \cup {[op |-> "write", n |-> Len(log) + 1]}
         /\ ToSet(pubOut'[i]) = ToSet(pubOut[i]) \cup {Len(log) + 1}
<1>1. /\ storeOut[i] \in Seq(StoreCommand(Len(log) + 1)) /\ Len(log) \in Nat
      /\ pubOut[i] \in Seq(1 .. Len(log))
  BY StoreQueues, Commands
<1>2. Len(log) + 1 \in Nat /\ Len(log) + 1 \in 1 .. Len(log) + 1 /\ 1 .. Len(log) \subseteq 1 .. Len(log) + 1
  BY <1>1
<1>3. [op |-> "write", n |-> Len(log) + 1] \in StoreCommand(Len(log) + 1)
  BY <1>2, Commands
<1>4. pubOut[i] \in Seq(1 .. Len(log) + 1)
  BY <1>1, <1>2, SeqMonotonic
<1>5. /\ storeOut'[i] = Append(storeOut[i], [op |-> "write", n |-> Len(log) + 1])
      /\ pubOut'[i] = Append(pubOut[i], Len(log) + 1)
  BY DEF Relayed
<1>6. ToSet(storeOut'[i]) = ToSet(storeOut[i]) \cup {[op |-> "write", n |-> Len(log) + 1]}
  BY <1>1, <1>3, <1>5, Pushed
<1>7. ToSet(pubOut'[i]) = ToSet(pubOut[i]) \cup {Len(log) + 1}
  BY <1>2, <1>4, <1>5, Pushed
<1> QED BY <1>6, <1>7

(* No step loses a replay.                                                 *)
LEMMA AwaitedStep ==
  ASSUME GatewayTyped, Awaited, [Next]_vars
  PROVE  Awaited'
<1>1. ASSUME NEW i \in Instance, NEW f, RelayStep(i, f) PROVE Awaited'
  <2>1. \A j \in Instance : ToSet(storeOut[j]) \subseteq ToSet(storeOut'[j])
    BY <1>1, RelayElements DEF RelayStep, Relayed
  <2>2. \A j \in Instance : \A x \in ToSet(storeIn[j]) : x \in ToSet(storeIn'[j]) \/ x.op = "got"
    BY <1>1, TakesElements DEF RelayStep, Takes
  <2>3. \A j \in Instance, c \in Conn : Awaits(j, c) => Awaits(j, c)'
    BY <2>1, <2>2 DEF Awaits, ReadsFor, ReadOp
  <2> QED BY <1>1, <2>3 DEF RelayStep, Awaited
<1>2. ASSUME NEW i \in Instance, RefuseStep(i) \/ WriteStep(i) \/ GetStep(i) PROVE Awaited'
  <2>1. \A j \in Instance : \A x \in ToSet(storeOut[j]) : x \in ToSet(storeOut'[j]) \/ x.op \in {"write", "get"}
    <3>1. CASE storeOut' = storeOut
      BY <3>1
    <3>2. CASE \E op \in {"write", "get"} : Does(i, op)
      BY <3>2, DoesElements DEF Does
    <3> QED BY <1>2, <3>1, <3>2 DEF RefuseStep, WriteStep, GetStep
  <2>2. \A j \in Instance : \A x \in ToSet(storeIn[j]) : x \in ToSet(storeIn'[j]) \/ x.op = "got"
    <3>1. CASE storeIn' = storeIn
      BY <3>1
    <3>2. CASE Takes(i, "got")
      BY <3>2, TakesElements DEF Takes
    <3>3. CASE \E y : Answers(i, y)
      BY <3>3, AnswersElements
    <3> QED BY <1>2, <3>1, <3>2, <3>3 DEF RefuseStep, WriteStep, GetStep
  <2>3. \A j \in Instance, c \in Conn : Awaits(j, c) => Awaits(j, c)'
    BY <2>1, <2>2 DEF Awaits, ReadsFor, ReadOp
  <2>4. UNCHANGED <<at, replayed, failed>>
    BY <1>2 DEF RefuseStep, WriteStep, GetStep, StoreUnchanged
  <2> QED BY <2>3, <2>4 DEF Awaited
<1>3. ASSUME NEW i \in Instance, GetAllStep(i) \/ PruneStep(i) PROVE Awaited'
  <2>1. PICK y : Answers(i, y) /\ y.op \in ReadOp /\ y.conn = Head(storeOut[i]).conn
    BY <1>3 DEF GetAllStep, PruneStep, ReadOp
  <2>2. \A j \in Instance : \A x \in ToSet(storeOut[j]) :
          x \in ToSet(storeOut'[j]) \/ (j = i /\ x = Head(storeOut[i]))
    BY <1>3, DoesElements DEF GetAllStep, PruneStep
  <2>3. y \in ToSet(storeIn'[i]) /\ \A j \in Instance : ToSet(storeIn[j]) \subseteq ToSet(storeIn'[j])
    BY <2>1, AnswersElements
  <2>4. \A j \in Instance, c \in Conn : Awaits(j, c) => Awaits(j, c)'
    BY <2>1, <2>2, <2>3 DEF Awaits, ReadsFor
  <2>5. UNCHANGED <<at, replayed, failed>>
    BY <1>3 DEF GetAllStep, PruneStep, StoreUnchanged
  <2> QED BY <2>4, <2>5 DEF Awaited
<1>4. ASSUME NEW i \in Instance, NEW h, NEW m, AskStep(i, h, m) PROVE Awaited'
  <2>1. \A j \in Instance : ToSet(storeOut[j]) \subseteq ToSet(storeOut'[j])
    BY <1>4, AsksElements DEF AskStep
  <2>2. \A j \in Instance, c \in Conn : Awaits(j, c) => Awaits(j, c)'
    BY <1>4, <2>1 DEF Awaits, ReadsFor, AskStep
  <2> QED BY <1>4, <2>2 DEF AskStep, Awaited
<1>5. ASSUME NEW i \in Instance, NEW op, NEW stale, ReplayStep(i, op, stale) PROVE Awaited'
  <2> DEFINE x == Head(storeIn[i])
  <2>1. /\ Takes(i, op) /\ UNCHANGED <<at, failed>>
        /\ \/ \E h \in stale :
                /\ Asks(i, [op |-> "prune", conn |-> x.conn, field |-> h,
                            snap |-> [x.snap EXCEPT ![h] = None], stale |-> stale \ {h}])
                /\ UNCHANGED <<shown, replayed>>
           \/ ReplaySends(i, x.conn, x.snap)
           \/ ReplayIdle(i, x.conn)
    BY <1>5 DEF ReplayStep
  <2>2. \A j \in Instance : \A y \in ToSet(storeIn[j]) : y \in ToSet(storeIn'[j]) \/ (j = i /\ y = x)
    BY <2>1, TakesElements
  <2>3. CASE \E h \in stale :
               /\ Asks(i, [op |-> "prune", conn |-> x.conn, field |-> h,
                           snap |-> [x.snap EXCEPT ![h] = None], stale |-> stale \ {h}])
               /\ UNCHANGED <<shown, replayed>>
    <3>1. PICK y : Asks(i, y) /\ y.op \in ReadOp /\ y.conn = x.conn
      BY <2>3 DEF ReadOp
    <3>2. y \in ToSet(storeOut'[i]) /\ \A j \in Instance : ToSet(storeOut[j]) \subseteq ToSet(storeOut'[j])
      BY <3>1, AsksElements
    <3>3. \A j \in Instance, c \in Conn : Awaits(j, c) => Awaits(j, c)'
      BY <2>2, <3>1, <3>2 DEF Awaits, ReadsFor
    <3> QED BY <2>1, <2>3, <3>3 DEF Awaited
  <2>4. CASE ReplaySends(i, x.conn, x.snap)
    <3>1. \A j \in Instance, c \in Conn : c # x.conn /\ Awaits(j, c) => Awaits(j, c)'
      BY <2>2, <2>4 DEF Awaits, ReadsFor, ReplaySends
    <3> QED BY <2>1, <2>4, <3>1 DEF Awaited, ReplaySends
  <2>5. CASE ReplayIdle(i, x.conn)
    <3>1. \A j \in Instance, c \in Conn : (c # x.conn \/ j # i) /\ Awaits(j, c) => Awaits(j, c)'
      BY <2>2, <2>5 DEF Awaits, ReadsFor, ReplayIdle
    <3> QED BY <2>1, <2>5, <3>1 DEF Awaited, ReplayIdle
  <2> QED BY <2>1, <2>3, <2>4, <2>5
<1>6. ASSUME NEW c \in Conn, NEW i \in Instance, ConnectStep(c, i) PROVE Awaited'
  <2> DEFINE y == [op |-> "getall", conn |-> c]
  <2>1. Asks(i, y) /\ y.op \in ReadOp /\ y.conn = c
    BY <1>6 DEF ConnectStep, ReadOp
  <2> HIDE DEF y
  <2>2. y \in ToSet(storeOut'[i]) /\ \A j \in Instance : ToSet(storeOut[j]) \subseteq ToSet(storeOut'[j])
    BY <2>1, AsksElements
  <2>3. UNCHANGED <<storeIn, replayed, failed>> /\ at' = [at EXCEPT ![c] = i]
    BY <1>6 DEF ConnectStep
  <2>4. \A j \in Instance, d \in Conn : Awaits(j, d) => Awaits(j, d)'
    BY <2>2, <2>3 DEF Awaits, ReadsFor
  <2>5. Awaits(i, c)'
    BY <2>1, <2>2 DEF Awaits, ReadsFor
  <2>6. at \in [Conn -> Instance \cup {None}]
    BY DEF GatewayTyped, OrderInv, RegistryTyped
  <2> QED BY <2>3, <2>4, <2>5, <2>6 DEF Awaited
<1>7. ASSUME NEW c \in Conn, CloseStep(c) PROVE Awaited'
  BY <1>7, RedisAssumption DEF CloseStep, Drop, Awaited, Awaits, ReadsFor
<1>8. ASSUME NEW i \in Instance, ExitStep(i) PROVE Awaited'
  <2>1. \A c \in Conn : at'[c] \in Instance => /\ at'[c] = at[c] /\ at[c] # i
                                               /\ c \notin replayed' => c \notin replayed
    BY <1>8, RedisAssumption DEF ExitStep, Exit, Drop, Local
  <2>2. \A j \in Instance \ {i} : /\ storeOut'[j] = storeOut[j] /\ storeIn'[j] = storeIn[j]
                                  /\ j \notin failed' => j \notin failed
    BY <1>8 DEF ExitStep, Exit, GatewayTyped, StoreTyped
  <2> QED BY <2>1, <2>2 DEF Awaited, Awaits, ReadsFor
<1>9. ASSUME NEW i \in Instance, OutageStep(i) PROVE Awaited'
  <2>1. \A j \in Instance \ {i} : storeOut'[j] = storeOut[j]
    BY <1>9 DEF OutageStep, GatewayTyped, StoreTyped
  <2> QED BY <1>9, <2>1 DEF OutageStep, Awaited, Awaits, ReadsFor
<1>10. ASSUME UNCHANGED <<at, storeOut, storeIn, replayed, failed>> PROVE Awaited'
  BY <1>10 DEF Awaited, Awaits, ReadsFor
<1>11. ASSUME NEW i \in Instance, BlipStep(i) \/ PublishStep(i) \/ MessageStep(i) \/ SubscribeStep(i)
       PROVE  Awaited'
  BY <1>10, <1>11 DEF BlipStep, PublishStep, MessageStep, SubscribeStep, ChannelUnchanged
<1>12. CASE OtherStep
  BY <1>10, <1>12 DEF OtherStep
<1> QED BY <1>1, <1>2, <1>3, <1>4, <1>5, <1>6, <1>7, <1>8, <1>9, <1>11, <1>12, EveryStep DEF StepKinds

(* Once nothing is on its way every socket has been sent its snapshot and  *)
(* its instance is subscribed, whatever was closed, broken or expired      *)
(* meanwhile, unless its instance gave up a SUBSCRIBE or an HGETALL.       *)
THEOREM JoinersAlwaysSettle == Spec => []JoinersSettle
<1> DEFINE Inv == GatewayTyped /\ Awaited
<1>1. Init => Inv
  BY TypedInit, RedisAssumption DEF Init, Awaited
<1>2. Inv /\ [Next]_vars => Inv'
  BY TypedStep, AwaitedStep
<1>3. Inv => JoinersSettle
  <2> SUFFICES ASSUME GatewayTyped, Awaited, Quiet, NEW c \in Conn, at[c] \in Instance \ failed
               PROVE  ~Joining(c)
    BY DEF JoinersSettle
  <2>1. /\ subOut[at[c]] = <<>> /\ storeOut[at[c]] = <<>> /\ storeIn[at[c]] = <<>>
    BY DEF Quiet
  <2>2. c \in replayed
    BY <2>1, EmptyQueue DEF Awaited, Awaits
  <2>3. Local(at[c]) # {}
    BY DEF Local
  <2>4. at[c] \in subs
    BY <2>1, <2>3 DEF GatewayTyped, RegistryInv, SubscriptionFollows
  <2> QED BY <2>1, <2>2, <2>4 DEF Joining
<1> QED BY <1>1, <1>2, <1>3, PTL DEF Spec

-----------------------------------------------------------------------------
(* The snapshot.                                                           *)

(* Frames whose write instance i has still under way.                      *)
Writes(i) == {x.n : x \in {y \in ToSet(storeOut[i]) : y.op = "write"}}
Clean(f) == f \notin torn \cup expired
Latest(n) == \A m \in DOMAIN log : m > n => log[m].field # log[n].field

(* The writes of one connection are in the order of the log, and no frame  *)
(* of a field that went in elsewhere follows one that is under way, unless *)
(* that tore the field.  What is pruned has expired.                       *)
WriteOrder ==
  \A i \in Instance : \A j, k \in 1 .. Len(storeOut[i]) :
    j < k /\ storeOut[i][j].op = "write" /\ storeOut[i][k].op = "write"
      => storeOut[i][j].n < storeOut[i][k].n
OwnWrites == \A i \in Instance : \A n \in Writes(i) : log[n].via = i
SameWay ==
  \A n \in UnderWay, m \in DOMAIN log :
    n < m /\ log[n].field = log[m].field /\ log[n].field \notin torn => log[n].via = log[m].via
PrunesExpired ==
  /\ \A i \in Instance : \A x \in ToSet(storeOut[i]) :
       x.op = "prune" => x.field \in expired /\ x.stale \subseteq expired
  /\ \A i \in Instance : \A x \in ToSet(storeIn[i]) : x.op = "pruned" => x.stale \subseteq expired

(* The latest frame of a field is still to be written, or the snapshot     *)
(* holds it and no write of the field is under way.                        *)
LatestStored ==
  \A n \in DOMAIN log : Latest(n) /\ Clean(log[n].field) =>
    \/ n \in Writes(log[n].via)
    \/ /\ hash[log[n].field] = log[n].value
       /\ \A i \in Instance : \A m \in Writes(i) : log[m].field # log[n].field
HasLatest == \A n \in DOMAIN log : \E m \in DOMAIN log : n <= m /\ log[m].field = log[n].field /\ Latest(m)

StoreInv == WriteOrder /\ OwnWrites /\ SameWay /\ PrunesExpired /\ LatestStored /\ HasLatest

(* Writes under way after a step.                                          *)
LEMMA WritesOf ==
  ASSUME NEW s, NEW t, ToSet(s) \subseteq ToSet(t), \A x \in ToSet(t) : x \in ToSet(s) \/ x.op # "write"
  PROVE  {x.n : x \in {y \in ToSet(s) : y.op = "write"}} = {x.n : x \in {y \in ToSet(t) : y.op = "write"}}
<1>1. {y \in ToSet(s) : y.op = "write"} = {y \in ToSet(t) : y.op = "write"}
  OBVIOUS
<1> QED BY <1>1

(* The frames in the channel after a PUBLISH, or after one that is sent    *)
(* again.                                                                  *)
LEMMA PublishElements ==
  ASSUME GatewayTyped, NEW i \in Instance, PublishStep(i)
  PROVE  \A j \in Instance : /\ ToSet(pubOut'[j]) \subseteq ToSet(pubOut[j])
                              /\ ToSet(subIn'[j]) \subseteq ToSet(subIn[j]) \cup ToSet(pubOut[i])
<1>1. pubOut[i] \in Seq(1 .. Len(log)) /\ \A j \in Instance : subIn[j] \in Seq(1 .. Len(log))
  BY StoreQueues
<1>2. CASE RedisPublish(i)
  <2>1. /\ pubOut[i] # <<>> /\ pubOut' = [pubOut EXCEPT ![i] = Tail(@)]
        /\ subIn' = [j \in Instance |-> IF j \in subs THEN Append(subIn[j], Head(pubOut[i])) ELSE subIn[j]]
    BY <1>2 DEF RedisPublish
  <2>2. ToSet(pubOut[i]) = {Head(pubOut[i])} \cup ToSet(Tail(pubOut[i])) /\ Head(pubOut[i]) \in 1 .. Len(log)
    BY <1>1, <2>1, Popped
  <2>3. \A j \in Instance : ToSet(pubOut'[j]) \subseteq ToSet(pubOut[j])
    BY <2>1, <2>2 DEF GatewayTyped, OrderInv, QueuesTyped
  <2>4. \A j \in Instance : ToSet(subIn'[j]) \subseteq ToSet(subIn[j]) \cup ToSet(pubOut[i])
    <3> TAKE j \in Instance
    <3>1. ToSet(Append(subIn[j], Head(pubOut[i]))) = ToSet(subIn[j]) \cup {Head(pubOut[i])}
      BY <1>1, <2>2, Pushed
    <3>2. subIn'[j] \in {subIn[j], Append(subIn[j], Head(pubOut[i]))}
      BY <2>1
    <3> QED BY <2>2, <3>1, <3>2
  <2> QED BY <2>3, <2>4
<1>3. CASE PublisherBlip(i)
  <2>1. PICK k \in 1 .. Len(pubOut[i]) :
          subIn' = [j \in Instance |-> IF j \in subs THEN subIn[j] \o SubSeq(pubOut[i], 1, k) ELSE subIn[j]]
    BY <1>3 DEF PublisherBlip
  <2>2. pubOut' = pubOut
    BY <1>3 DEF PublisherBlip
  <2>3. \A j \in Instance : ToSet(subIn'[j]) \subseteq ToSet(subIn[j]) \cup ToSet(pubOut[i])
    <3> TAKE j \in Instance
    <3>1. ToSet(subIn[j] \o SubSeq(pubOut[i], 1, k)) \subseteq ToSet(subIn[j]) \cup ToSet(pubOut[i])
      <4>1. PICK S, s, t, u : /\ S = 1 .. Len(log) /\ s = subIn[j] /\ t = pubOut[i]
                              /\ u = SubSeq(t, 1, k)
        OBVIOUS
      <4>2. s \in Seq(S) /\ t \in Seq(S) /\ k \in Nat /\ k \in 1 .. Len(t)
        BY <1>1, <2>1, <4>1, LenProperties
      <4>3. u \in Seq(S) /\ ToSet(u) \subseteq ToSet(t)
        BY <4>1, <4>2, Prefix
      <4>4. ToSet(s \o u) = ToSet(s) \cup ToSet(u)
        BY <4>2, <4>3, Joined
      <4> QED BY <4>1, <4>3, <4>4
    <3>2. subIn'[j] \in {subIn[j], subIn[j] \o SubSeq(pubOut[i], 1, k)}
      BY <2>1
    <3> QED BY <3>1, <3>2
  <2> QED BY <2>2, <2>3
<1> QED BY <1>2, <1>3 DEF PublishStep

(* A queue is taken from, written to behind, lost, or left alone.          *)
LEMMA QueuesStep ==
  ASSUME GatewayTyped, [Next]_vars
  PROVE  /\ torn \subseteq torn' /\ expired \subseteq expired'
         /\ \/ \E i \in Instance : \E f : RelayStep(i, f)
            \/ /\ log' = log /\ UnderWay' \subseteq UnderWay
               /\ \/ \E i \in Instance : WriteStep(i)
                  \/ /\ hash' = hash \/ \E i \in Instance : PruneStep(i)
                     /\ \A j \in Instance : \/ Writes(j)' = Writes(j)
                                            \/ Writes(j)' = {} /\ Fields(Queued(j)) \subseteq torn'
<1> DEFINE Kept == /\ log' = log /\ UnderWay' \subseteq UnderWay
                   /\ hash' = hash \/ \E i \in Instance : PruneStep(i)
                   /\ \A j \in Instance : \/ Writes(j)' = Writes(j)
                                          \/ Writes(j)' = {} /\ Fields(Queued(j)) \subseteq torn'
<1>1. torn \subseteq torn' /\ expired \subseteq expired'
  <2>1. CASE \E i \in Instance : \E f : RelayStep(i, f)
    BY <2>1 DEF RelayStep, Relay
  <2>2. CASE ~\E i \in Instance : \E f : RelayStep(i, f)
    BY ZenonT(40), <2>2, EveryStep DEF StepKinds, OtherStep, RefuseStep, WriteStep, GetStep, GetAllStep, PruneStep,
         StoreUnchanged, AskStep, ReplayStep, ConnectStep, CloseStep, ExitStep, Exit, BlipStep, OutageStep,
         PublishStep, MessageStep, SubscribeStep, ChannelUnchanged
  <2> QED BY <2>1, <2>2
<1>2. ASSUME log' = log,
             \A j \in Instance : Writes(j)' \subseteq Writes(j),
             \A j \in Instance : ToSet(pubOut'[j]) \cup ToSet(subIn'[j])
                                   \subseteq UNION {ToSet(pubOut[k]) \cup ToSet(subIn[k]) : k \in Instance}
      PROVE  UnderWay' \subseteq UnderWay
  <2>1. \A j \in Instance : Queued(j) = ToSet(pubOut[j]) \cup ToSet(subIn[j]) \cup Writes(j)
    BY DEF Queued, Writes
  <2>2. \A j \in Instance : Queued(j)' = ToSet(pubOut'[j]) \cup ToSet(subIn'[j]) \cup Writes(j)'
    BY DEF Queued, Writes
  <2> QED BY <1>2, <2>1, <2>2 DEF UnderWay
<1>3. ASSUME UNCHANGED <<log, pubOut, subIn>>, \A j \in Instance : Writes(j)' \subseteq Writes(j)
      PROVE  UnderWay' \subseteq UnderWay
  BY <1>2, <1>3
<1>4. ASSUME NEW i \in Instance, WriteStep(i) PROVE log' = log /\ UnderWay' \subseteq UnderWay
  <2>1. Does(i, "write") /\ UNCHANGED <<log, pubOut, subIn>>
    BY <1>4 DEF WriteStep, StoreUnchanged
  <2>2. \A j \in Instance : ToSet(storeOut'[j]) \subseteq ToSet(storeOut[j])
    BY <2>1, DoesElements
  <2>3. \A j \in Instance : Writes(j)' \subseteq Writes(j)
    BY <2>2 DEF Writes
  <2> QED BY <1>3, <2>1, <2>3
<1>5. ASSUME UNCHANGED <<log, pubOut, subIn, hash>>, \A j \in Instance : Writes(j)' = Writes(j)
      PROVE  Kept
  BY <1>3, <1>5
<1>6. ASSUME NEW i \in Instance, NEW op, Does(i, op), op # "write" PROVE \A j \in Instance : Writes(j)' = Writes(j)
  <2>1. \A j \in Instance : /\ ToSet(storeOut'[j]) \subseteq ToSet(storeOut[j])
                            /\ \A x \in ToSet(storeOut[j]) : x \in ToSet(storeOut'[j]) \/ x.op # "write"
    BY <1>6, DoesElements DEF Does
  <2> QED BY <2>1, WritesOf DEF Writes
<1>7. ASSUME NEW i \in Instance, NEW x, Asks(i, x), x.op # "write" PROVE \A j \in Instance : Writes(j)' = Writes(j)
  <2>1. \A j \in Instance : /\ ToSet(storeOut[j]) \subseteq ToSet(storeOut'[j])
                            /\ \A y \in ToSet(storeOut'[j]) : y \in ToSet(storeOut[j]) \/ y.op # "write"
    BY <1>7, AsksElements
  <2> QED BY <2>1, WritesOf DEF Writes
<1>8. ASSUME storeOut' = storeOut PROVE \A j \in Instance : Writes(j)' = Writes(j)
  BY <1>8 DEF Writes
<1>9. ASSUME NEW i \in Instance, RefuseStep(i) \/ GetStep(i) \/ GetAllStep(i) PROVE Kept
  <2>1. \A j \in Instance : Writes(j)' = Writes(j)
    BY <1>6, <1>8, <1>9 DEF RefuseStep, GetStep, GetAllStep
  <2> QED BY <1>5, <1>9, <2>1 DEF RefuseStep, GetStep, GetAllStep, StoreUnchanged
<1>10. ASSUME NEW i \in Instance, PruneStep(i) PROVE Kept
  <2>1. \A j \in Instance : Writes(j)' = Writes(j)
    BY <1>6, <1>10 DEF PruneStep
  <2>2. UNCHANGED <<log, pubOut, subIn>>
    BY <1>10 DEF PruneStep, StoreUnchanged
  <2> QED BY <1>3, <1>10, <2>1, <2>2
<1>11. ASSUME NEW i \in Instance, NEW h, NEW m, AskStep(i, h, m) PROVE Kept
  <2>1. \A j \in Instance : Writes(j)' = Writes(j)
    BY <1>7, <1>11 DEF AskStep
  <2> QED BY <1>5, <1>11, <2>1 DEF AskStep
<1>12. ASSUME NEW i \in Instance, NEW op, NEW stale, ReplayStep(i, op, stale) PROVE Kept
  <2>1. \A j \in Instance : Writes(j)' = Writes(j)
    BY <1>7, <1>8, <1>12 DEF ReplayStep, ReplaySends, ReplayIdle
  <2> QED BY <1>5, <1>12, <2>1 DEF ReplayStep
<1>13. ASSUME NEW i \in Instance, NEW c \in Conn, ConnectStep(c, i) PROVE Kept
  <2>1. \A j \in Instance : Writes(j)' = Writes(j)
    BY <1>7, <1>13 DEF ConnectStep
  <2> QED BY <1>5, <1>13, <2>1 DEF ConnectStep
<1>14. ASSUME NEW c \in Conn, CloseStep(c) PROVE Kept
  BY <1>5, <1>8, <1>14 DEF CloseStep
<1>15. ASSUME OtherStep PROVE Kept
  BY <1>5, <1>8, <1>15 DEF OtherStep
<1>16. ASSUME NEW i \in Instance, pubOut' = [pubOut EXCEPT ![i] = <<>>] \/ pubOut' = pubOut,
              subIn' = [subIn EXCEPT ![i] = <<>>], log' = log, hash' = hash,
              storeOut' = [storeOut EXCEPT ![i] = <<>>], Fields(Queued(i)) \subseteq torn'
       PROVE  Kept
  <2>1. /\ Writes(i)' = {} /\ \A j \in Instance \ {i} : Writes(j)' = Writes(j)
    BY <1>16, EmptyQueue DEF Writes, GatewayTyped, StoreTyped
  <2>2. \A j \in Instance : ToSet(pubOut'[j]) \subseteq ToSet(pubOut[j]) /\ ToSet(subIn'[j]) \subseteq ToSet(subIn[j])
    BY <1>16, EmptyQueue DEF GatewayTyped, OrderInv, QueuesTyped
  <2>3. UnderWay' \subseteq UnderWay
    BY <1>2, <1>16, <2>1, <2>2
  <2> QED BY <1>16, <2>1, <2>3
<1>17. ASSUME NEW i \in Instance, ExitStep(i) PROVE Kept
  BY <1>16, <1>17 DEF ExitStep, Exit
<1>18. ASSUME NEW i \in Instance, OutageStep(i) PROVE Kept
  BY <1>16, <1>18 DEF OutageStep, SubscriberReconnects
<1>19. ASSUME NEW i \in Instance, BlipStep(i) PROVE Kept
  <2>1. \A j \in Instance : ToSet(subIn'[j]) \subseteq ToSet(subIn[j])
    BY <1>19, EmptyQueue DEF BlipStep, SubscriberReconnects, GatewayTyped, OrderInv, QueuesTyped
  <2>2. \A j \in Instance : Writes(j)' = Writes(j)
    BY <1>8, <1>19 DEF BlipStep
  <2>3. UNCHANGED <<log, pubOut, hash>>
    BY <1>19 DEF BlipStep
  <2>4. UnderWay' \subseteq UnderWay
    BY <1>2, <2>1, <2>2, <2>3
  <2> QED BY <2>2, <2>3, <2>4
<1>20. ASSUME NEW i \in Instance, PublishStep(i) PROVE Kept
  <2>1. \A j \in Instance : /\ ToSet(pubOut'[j]) \subseteq ToSet(pubOut[j])
                             /\ ToSet(subIn'[j]) \subseteq ToSet(subIn[j]) \cup ToSet(pubOut[i])
    BY <1>20, PublishElements
  <2>2. UNCHANGED <<log, hash>> /\ \A j \in Instance : Writes(j)' = Writes(j)
    BY <1>8, <1>20 DEF PublishStep, ChannelUnchanged
  <2>3. UnderWay' \subseteq UnderWay
    BY <1>2, <2>1, <2>2
  <2> QED BY <2>2, <2>3
<1>21. ASSUME NEW i \in Instance, MessageStep(i) PROVE Kept
  <2>1. subIn[i] # <<>> /\ subIn' = [subIn EXCEPT ![i] = Tail(@)] /\ pubOut' = pubOut
    BY <1>21 DEF MessageStep, OnMessage
  <2>2. ToSet(Tail(subIn[i])) \subseteq ToSet(subIn[i])
    BY <2>1, StoreQueues, Popped
  <2>3. \A j \in Instance : ToSet(subIn'[j]) \subseteq ToSet(subIn[j])
    BY <2>1, <2>2 DEF GatewayTyped, OrderInv, QueuesTyped
  <2>4. UNCHANGED <<log, hash>> /\ \A j \in Instance : Writes(j)' = Writes(j)
    BY <1>8, <1>21 DEF MessageStep, ChannelUnchanged
  <2>5. UnderWay' \subseteq UnderWay
    BY <1>2, <2>1, <2>3, <2>4
  <2> QED BY <2>4, <2>5
<1>22. ASSUME NEW i \in Instance, SubscribeStep(i) PROVE Kept
  BY <1>5, <1>8, <1>22 DEF SubscribeStep, ChannelUnchanged
<1> HIDE DEF Kept
<1>23. \/ \E i \in Instance : \E f : RelayStep(i, f)
       \/ \E i \in Instance : WriteStep(i)
       \/ Kept
  <2>1. ASSUME NEW i \in Instance,
               \/ RefuseStep(i) \/ GetStep(i) \/ GetAllStep(i) \/ PruneStep(i)
               \/ \E h, m : AskStep(i, h, m)
               \/ \E op, stale : ReplayStep(i, op, stale)
               \/ \E c \in Conn : ConnectStep(c, i)
        PROVE  Kept
    BY <1>9, <1>10, <1>11, <1>12, <1>13, <2>1
  <2>2. ASSUME NEW i \in Instance,
               \/ ExitStep(i) \/ BlipStep(i) \/ OutageStep(i)
               \/ PublishStep(i) \/ MessageStep(i) \/ SubscribeStep(i)
        PROVE  Kept
    BY <1>17, <1>18, <1>19, <1>20, <1>21, <1>22, <2>2
  <2>3. ASSUME NEW c \in Conn, CloseStep(c) PROVE Kept
    BY <1>14, <2>3
  <2> QED BY <1>15, <2>1, <2>2, <2>3, EveryStep DEF StepKinds
<1> QED BY <1>1, <1>4, <1>23 DEF Kept

(* What a step does to the commands of one instance.                       *)
LEMMA OutMoves ==
  ASSUME GatewayTyped, [Next]_vars, NEW j \in Instance
  PROVE  \/ storeOut'[j] = storeOut[j]
         \/ storeOut'[j] = <<>>
         \/ storeOut[j] # <<>> /\ storeOut'[j] = Tail(storeOut[j])
         \/ \E x : x.op # "write" /\ Asks(j, x)
         \/ \E f : RelayStep(j, f)
<1> DEFINE Goal == \/ storeOut'[j] = storeOut[j]
                   \/ storeOut'[j] = <<>>
                   \/ storeOut[j] # <<>> /\ storeOut'[j] = Tail(storeOut[j])
                   \/ \E x : x.op # "write" /\ Asks(j, x)
                   \/ \E f : RelayStep(j, f)
<1>1. CASE OtherStep
  BY <1>1 DEF OtherStep
<1>2. ASSUME NEW i \in Instance, NEW f, RelayStep(i, f) PROVE Goal
  BY ZenonT(40), <1>2 DEF RelayStep, Relayed
<1>3. ASSUME NEW i \in Instance, RefuseStep(i) \/ WriteStep(i) \/ GetStep(i) \/ GetAllStep(i) \/ PruneStep(i)
      PROVE  Goal
  BY <1>3 DEF RefuseStep, WriteStep, GetStep, GetAllStep, PruneStep, Does
<1>4. ASSUME NEW i \in Instance, NEW x, Asks(i, x), x.op # "write" PROVE Goal
  <2>1. CASE i = j
    BY <1>4, <2>1
  <2>2. CASE i # j
    BY <1>4, <2>2 DEF Asks
  <2> QED BY <2>1, <2>2
<1>5. ASSUME NEW i \in Instance, NEW h, NEW m, AskStep(i, h, m) PROVE Goal
  <2> HIDE DEF Goal
  <2> QED BY <1>4, <1>5 DEF AskStep
<1>6. ASSUME NEW i \in Instance, NEW op, NEW stale, ReplayStep(i, op, stale) PROVE Goal
  <2>1. CASE storeOut' = storeOut
    BY <2>1
  <2>2. CASE \E x : Asks(i, x) /\ x.op # "write"
    <3> HIDE DEF Goal
    <3> QED BY <1>4, <2>2
  <2>3. ASSUME NEW h, NEW c, NEW s, NEW e, Asks(i, [op |-> "prune", conn |-> c, field |-> h, snap |-> s, stale |-> e])
        PROVE  \E x : Asks(i, x) /\ x.op # "write"
    BY <2>3
  <2>4. storeOut' = storeOut \/ \E x : Asks(i, x) /\ x.op # "write"
    BY <1>6, <2>3 DEF ReplayStep, ReplaySends, ReplayIdle
  <2> QED BY <2>1, <2>2, <2>4
<1>7. ASSUME NEW i \in Instance, NEW c \in Conn, ConnectStep(c, i) PROVE Goal
  <2> HIDE DEF Goal
  <2> QED BY <1>4, <1>7 DEF ConnectStep
<1>8. ASSUME NEW i \in Instance, ExitStep(i) \/ OutageStep(i) PROVE Goal
  BY <1>8 DEF ExitStep, Exit, OutageStep, GatewayTyped, StoreTyped
<1>9. ASSUME NEW i \in Instance, BlipStep(i) \/ PublishStep(i) \/ MessageStep(i) \/ SubscribeStep(i) PROVE Goal
  BY <1>9 DEF BlipStep, PublishStep, MessageStep, SubscribeStep, ChannelUnchanged
<1>10. ASSUME NEW c \in Conn, CloseStep(c) PROVE Goal
  BY <1>10 DEF CloseStep
<1> HIDE DEF Goal
<1>11. OtherStep => Goal
  BY <1>1 DEF Goal
<1>12. Goal
  BY <1>2, <1>3, <1>5, <1>6, <1>7, <1>8, <1>9, <1>10, <1>11, EveryStep DEF StepKinds
<1> QED BY <1>12 DEF Goal

(* Writes stay in order when a command is taken or sent.                   *)
WriteOrdered(s) ==
  \A j, k \in 1 .. Len(s) : j < k /\ s[j].op = "write" /\ s[k].op = "write" => s[j].n < s[k].n

(* The first write is older than those that stay.                          *)
LEMMA WriteTaken ==
  ASSUME NEW S, NEW s \in Seq(S), s # <<>>, WriteOrdered(s)
  PROVE  /\ WriteOrdered(Tail(s))
         /\ \A y \in ToSet(Tail(s)) : Head(s).op = "write" /\ y.op = "write" => Head(s).n < y.n
<1> DEFINE t == Tail(s)
<1>1. /\ t \in Seq(S) /\ Head(s) = s[1] /\ Len(s) \in Nat \ {0} /\ Len(t) = Len(s) - 1
      /\ \A k \in 1 .. Len(s) - 1 : t[k] = s[k + 1]
  BY Popped
<1> HIDE DEF t
<1>2. WriteOrdered(t)
  <2> SUFFICES ASSUME NEW j \in 1 .. Len(t), NEW k \in 1 .. Len(t), j < k, t[j].op = "write", t[k].op = "write"
               PROVE  t[j].n < t[k].n
    BY DEF WriteOrdered
  <2>1. t[j] = s[j + 1] /\ t[k] = s[k + 1] /\ j + 1 \in 1 .. Len(s) /\ k + 1 \in 1 .. Len(s) /\ j + 1 < k + 1
    BY <1>1
  <2> QED BY <2>1 DEF WriteOrdered
<1>3. ASSUME NEW y \in ToSet(t), s[1].op = "write", y.op = "write" PROVE s[1].n < y.n
  <2>1. PICK k \in 1 .. Len(t) : t[k] = y
    BY <1>1, Positions
  <2>2. y = s[k + 1] /\ k + 1 \in 1 .. Len(s) /\ 1 < k + 1 /\ 1 \in 1 .. Len(s)
    BY <1>1, <2>1
  <2> QED BY <1>3, <2>2 DEF WriteOrdered
<1> QED BY <1>1, <1>2, <1>3 DEF t

(* A write of a newer frame goes behind the others.                        *)
LEMMA WriteSent ==
  ASSUME NEW S, NEW s \in Seq(S), NEW x \in S, WriteOrdered(s),
         x.op = "write" => \A y \in ToSet(s) : y.op = "write" => y.n < x.n
  PROVE  WriteOrdered(Append(s, x))
<1> DEFINE t == Append(s, x)
<1>1. /\ Len(s) \in Nat /\ Len(t) = Len(s) + 1 /\ t[Len(s) + 1] = x
      /\ \A k \in 1 .. Len(s) : t[k] = s[k] /\ s[k] \in ToSet(s)
  BY Pushed, Positions
<1> HIDE DEF t
<1>2. WriteOrdered(t)
  <2> SUFFICES ASSUME NEW j \in 1 .. Len(t), NEW k \in 1 .. Len(t), j < k, t[j].op = "write", t[k].op = "write"
               PROVE  t[j].n < t[k].n
    BY DEF WriteOrdered
  <2>1. j \in 1 .. Len(s) /\ t[j] = s[j] /\ s[j] \in ToSet(s)
    BY <1>1
  <2>2. CASE k \in 1 .. Len(s)
    BY <1>1, <2>1, <2>2 DEF WriteOrdered
  <2>3. CASE k = Len(s) + 1
    BY <1>1, <2>1, <2>3
  <2> QED BY <1>1, <2>2, <2>3
<1> QED BY <1>2 DEF t

(* Frames of the log before a frame is relayed.                            *)
LEMMA WritesTyped ==
  ASSUME GatewayTyped, NEW i \in Instance
  PROVE  /\ Writes(i) \subseteq 1 .. Len(log) /\ Writes(i) \subseteq UnderWay
         /\ Len(log) \in Nat /\ DOMAIN log = 1 .. Len(log)
         /\ UnderWay \subseteq 1 .. Len(log)
<1>1. StoreTyped /\ QueuesTyped
  BY DEF GatewayTyped, OrderInv
<1>2. Queued(i) \subseteq 1 .. Len(log) /\ UnderWay \subseteq 1 .. Len(log)
  BY <1>1, QueuedTyped, UnderWayTyped
<1>3. Writes(i) \subseteq Queued(i)
  BY DEF Writes, Queued
<1> QED BY <1>2, <1>3, StoreQueues DEF UnderWay

(* Every step preserves the order of the writes.                           *)
LEMMA WriteOrderStep ==
  ASSUME GatewayTyped, WriteOrder, [Next]_vars
  PROVE  WriteOrder'
<1> SUFFICES ASSUME NEW i \in Instance PROVE WriteOrdered(storeOut'[i])
  BY DEF WriteOrder, WriteOrdered
<1>1. /\ WriteOrdered(storeOut[i]) /\ storeOut[i] \in Seq(StoreCommand(Len(log)))
      /\ Len(log) \in Nat
  BY StoreQueues DEF WriteOrder, WriteOrdered
<1>2. CASE storeOut'[i] = storeOut[i]
  BY <1>1, <1>2
<1>3. CASE storeOut'[i] = <<>>
  BY <1>3 DEF WriteOrdered
<1>4. CASE storeOut[i] # <<>> /\ storeOut'[i] = Tail(storeOut[i])
  BY <1>1, <1>4, WriteTaken
<1>5. ASSUME NEW x, x.op # "write", Asks(i, x) PROVE WriteOrdered(storeOut'[i])
  BY <1>1, <1>5, WriteSent DEF Asks
<1>6. ASSUME NEW f, RelayStep(i, f) PROVE WriteOrdered(storeOut'[i])
  <2> DEFINE x == [op |-> "write", n |-> Len(log) + 1]
  <2>1. storeOut'[i] = Append(storeOut[i], x)
    BY <1>6 DEF RelayStep, Relayed
  <2>2. x \in StoreCommand(Len(log) + 1) /\ x.n = Len(log) + 1
    <3>1. Len(log) + 1 \in Nat /\ Len(log) + 1 \in 1 .. Len(log) + 1
      BY <1>1
    <3> QED BY <3>1, Commands
  <2>3. storeOut[i] \in Seq(StoreCommand(Len(log) + 1))
    BY <1>1, Commands
  <2>4. \A y \in ToSet(storeOut[i]) : y.op = "write" => y.n \in 1 .. Len(log)
    BY WritesTyped DEF Writes
  <2>5. \A y \in ToSet(storeOut[i]) : y.op = "write" => y.n < x.n
    BY <1>1, <2>2, <2>4
  <2> HIDE DEF x
  <2> QED BY <1>1, <2>1, <2>2, <2>3, <2>5, WriteSent
<1> QED BY <1>2, <1>3, <1>4, <1>5, <1>6, OutMoves

(* A relay adds its own frame to what is under way.                        *)
LEMMA RelayQueues ==
  ASSUME GatewayTyped, NEW i \in Instance, NEW f, RelayStep(i, f)
  PROVE  /\ \A j \in Instance : Writes(j)' = Writes(j) \cup IF j = i THEN {Len(log) + 1} ELSE {}
         /\ UnderWay' \subseteq UnderWay \cup {Len(log) + 1}
<1> DEFINE x == [op |-> "write", n |-> Len(log) + 1]
<1>1. Relayed(i, f) /\ subIn' = subIn
  BY DEF RelayStep
<1>2. /\ ToSet(storeOut'[i]) = ToSet(storeOut[i]) \cup {x}
      /\ ToSet(pubOut'[i]) = ToSet(pubOut[i]) \cup {Len(log) + 1}
  BY <1>1, RelayElements
<1>3. \A j \in Instance \ {i} : storeOut'[j] = storeOut[j] /\ pubOut'[j] = pubOut[j]
  BY <1>1 DEF Relayed
<1>4. x.op = "write" /\ x.n = Len(log) + 1
  OBVIOUS
<1> HIDE DEF x
<1>5. Writes(i)' = Writes(i) \cup {Len(log) + 1}
  <2>1. {y \in ToSet(storeOut'[i]) : y.op = "write"} = {y \in ToSet(storeOut[i]) : y.op = "write"} \cup {x}
    BY <1>2, <1>4
  <2> QED BY <1>4, <2>1 DEF Writes
<1>6. \A j \in Instance \ {i} : Writes(j)' = Writes(j)
  BY <1>3 DEF Writes
<1>7. \A j \in Instance : Queued(j) = ToSet(pubOut[j]) \cup ToSet(subIn[j]) \cup Writes(j)
  BY DEF Queued, Writes
<1>8. \A j \in Instance : Queued(j)' = ToSet(pubOut'[j]) \cup ToSet(subIn'[j]) \cup Writes(j)'
  BY DEF Queued, Writes
<1>9. \A j \in Instance : Queued(j)' \subseteq Queued(j) \cup {Len(log) + 1}
  BY <1>1, <1>2, <1>3, <1>5, <1>6, <1>7, <1>8
<1> QED BY <1>5, <1>6, <1>9 DEF UnderWay

(* The frame that RedisWrite takes is the earliest of its instance.        *)
LEMMA WriteQueues ==
  ASSUME GatewayTyped, WriteOrder, NEW i \in Instance, WriteStep(i), NEW n, n = Head(storeOut[i]).n
  PROVE  /\ Writes(i) = {n} \cup Writes(i)' /\ \A m \in Writes(i)' : n < m
         /\ \A j \in Instance \ {i} : Writes(j)' = Writes(j)
<1>1. Does(i, "write")
  BY DEF WriteStep
<1> DEFINE x == Head(storeOut[i])
<1>2. /\ storeOut[i] # <<>> /\ x.op = "write" /\ x.n = n /\ storeOut'[i] = Tail(storeOut[i])
      /\ \A j \in Instance \ {i} : storeOut'[j] = storeOut[j]
      /\ ToSet(storeOut[i]) = {x} \cup ToSet(storeOut'[i])
  BY <1>1, DoesElements DEF Does
<1>3. WriteOrdered(storeOut[i])
  BY DEF WriteOrder, WriteOrdered
<1>4. \A y \in ToSet(Tail(storeOut[i])) : x.op = "write" /\ y.op = "write" => x.n < y.n
  BY <1>2, <1>3, StoreQueues, WriteTaken
<1> HIDE DEF x
<1>5. \A m \in Writes(i)' : n < m
  BY <1>2, <1>4 DEF Writes
<1>6. Writes(i) = {n} \cup Writes(i)'
  <2>1. {y \in ToSet(storeOut[i]) : y.op = "write"} = {x} \cup {y \in ToSet(storeOut'[i]) : y.op = "write"}
    BY <1>2
  <2> QED BY <1>2, <2>1 DEF Writes
<1>7. \A j \in Instance \ {i} : Writes(j)' = Writes(j)
  BY <1>2 DEF Writes
<1> QED BY <1>5, <1>6, <1>7

(* An instance writes what it relays itself; whoever relays a field by     *)
(* another way while it is under way tears it.                             *)
LEMMA OwnWritesStep ==
  ASSUME GatewayTyped, WriteOrder, OwnWrites, SameWay, [Next]_vars
  PROVE  OwnWrites' /\ SameWay'
<1>a. \A j \in Instance : Writes(j) \subseteq 1 .. Len(log)
  BY WritesTyped
<1>b. Len(log) \in Nat /\ DOMAIN log = 1 .. Len(log) /\ UnderWay \subseteq 1 .. Len(log)
  BY UnderWayTyped DEF GatewayTyped, OrderInv, StoreTyped
<1>c. torn \subseteq torn'
  BY QueuesStep
<1>1. ASSUME NEW i \in Instance, NEW f, RelayStep(i, f) PROVE OwnWrites' /\ SameWay'
  <2> DEFINE N == Len(log)
  <2>1. /\ \A j \in Instance : Writes(j)' = Writes(j) \cup IF j = i THEN {N + 1} ELSE {}
        /\ UnderWay' \subseteq UnderWay \cup {N + 1}
    BY <1>1, RelayQueues
  <2>2. /\ \A k \in 1 .. N : log'[k] = log[k]
        /\ log'[N + 1].field = f.field /\ log'[N + 1].via = i /\ DOMAIN log' = 1 .. N + 1
    BY <1>1 DEF RelayStep, Relayed
  <2>3. torn' = torn \cup ({f.field} \cap Fields(ComingFromElsewhere(i)))
    BY <1>1 DEF RelayStep, Relay
  <2> HIDE DEF N
  <2>c. N \in Nat /\ DOMAIN log = 1 .. N /\ UnderWay \subseteq 1 .. N /\ \A j \in Instance : Writes(j) \subseteq 1 .. N
    BY <1>a, <1>b DEF N
  <2>4. OwnWrites'
    BY <2>1, <2>2, <2>c DEF OwnWrites
  <2>5. ASSUME NEW n \in UnderWay', NEW m \in 1 .. N + 1, n < m, log'[n].field = log'[m].field,
               log'[n].field \notin torn'
        PROVE  log'[n].via = log'[m].via
    <3>1. n \in UnderWay /\ n \in 1 .. N /\ log'[n] = log[n] /\ log[n].field \notin torn
      BY <1>c, <2>1, <2>2, <2>5, <2>c
    <3>2. CASE m \in 1 .. N
      BY <2>2, <2>5, <2>c, <3>1, <3>2 DEF SameWay
    <3>3. CASE m = N + 1
      <4>1. log[n].field = f.field
        BY <2>2, <2>5, <3>1, <3>3
      <4>2. n \notin ComingFromElsewhere(i)
        BY <2>3, <2>5, <3>1, <4>1 DEF Fields
      <4>3. log[n].via = i
        BY <3>1, <4>2 DEF ComingFromElsewhere
      <4> QED BY <2>2, <3>1, <3>3, <4>3
    <3> QED BY <2>c, <3>2, <3>3
  <2> QED BY <2>2, <2>4, <2>5 DEF SameWay
<1>2. ASSUME log' = log, UnderWay' \subseteq UnderWay, \A j \in Instance : Writes(j)' \subseteq Writes(j)
      PROVE  OwnWrites' /\ SameWay'
  BY <1>2, <1>c DEF OwnWrites, SameWay
<1>3. ASSUME NEW i \in Instance, WriteStep(i) PROVE \A j \in Instance : Writes(j)' \subseteq Writes(j)
  BY <1>3, WriteQueues
<1> QED BY <1>1, <1>2, <1>3, QueuesStep

(* Only what has expired is pruned.                                        *)
LEMMA PrunesStep ==
  ASSUME GatewayTyped, PrunesExpired, [Next]_vars
  PROVE  PrunesExpired'
<1>a. expired \subseteq expired'
  BY QueuesStep
<1> DEFINE OutOK(x) == x.op = "prune" => x.field \in expired /\ x.stale \subseteq expired
           InOK(x) == x.op = "pruned" => x.stale \subseteq expired
<1>1. ASSUME \A j \in Instance : \A x \in ToSet(storeOut'[j]) : x \in ToSet(storeOut[j]) \/ OutOK(x),
             \A j \in Instance : \A x \in ToSet(storeIn'[j]) : x \in ToSet(storeIn[j]) \/ InOK(x)
      PROVE  PrunesExpired'
  BY <1>1, <1>a DEF PrunesExpired
<1> HIDE DEF OutOK, InOK
<1>b. ASSUME NEW i \in Instance, NEW op, Does(i, op)
      PROVE  \A j \in Instance : \A x \in ToSet(storeOut'[j]) : x \in ToSet(storeOut[j])
  BY <1>b, DoesElements
<1>c. ASSUME NEW i \in Instance, NEW op, Takes(i, op)
      PROVE  \A j \in Instance : \A x \in ToSet(storeIn'[j]) : x \in ToSet(storeIn[j])
  BY <1>c, TakesElements
<1>d. ASSUME NEW i \in Instance, NEW y, Asks(i, y), OutOK(y)
      PROVE  \A j \in Instance : \A x \in ToSet(storeOut'[j]) : x \in ToSet(storeOut[j]) \/ OutOK(x)
  BY <1>d, AsksElements
<1>e. ASSUME NEW i \in Instance, NEW y, Answers(i, y), InOK(y)
      PROVE  \A j \in Instance : \A x \in ToSet(storeIn'[j]) : x \in ToSet(storeIn[j]) \/ InOK(x)
  BY <1>e, AnswersElements
<1>2. ASSUME NEW i \in Instance, NEW f, RelayStep(i, f) PROVE PrunesExpired'
  <2>1. \A j \in Instance : \A x \in ToSet(storeOut'[j]) : x \in ToSet(storeOut[j]) \/ OutOK(x)
    <3>1. Relayed(i, f)
      BY <1>2 DEF RelayStep
    <3>2. ToSet(storeOut'[i]) = ToSet(storeOut[i]) \cup {[op |-> "write", n |-> Len(log) + 1]}
      BY <3>1, RelayElements
    <3>3. OutOK([op |-> "write", n |-> Len(log) + 1])
      BY DEF OutOK
    <3>4. \A j \in Instance \ {i} : storeOut'[j] = storeOut[j]
      BY <3>1 DEF Relayed
    <3> QED BY <3>2, <3>3, <3>4
  <2>2. \A j \in Instance : \A x \in ToSet(storeIn'[j]) : x \in ToSet(storeIn[j])
    BY <1>2, <1>c DEF RelayStep
  <2> QED BY <1>1, <2>1, <2>2
<1>3. ASSUME NEW i \in Instance, RefuseStep(i) \/ WriteStep(i) PROVE PrunesExpired'
  BY <1>1, <1>3, <1>b, <1>c DEF RefuseStep, WriteStep
<1>4. ASSUME NEW i \in Instance, GetStep(i) \/ GetAllStep(i) \/ PruneStep(i) PROVE PrunesExpired'
  <2>1. \A j \in Instance : \A x \in ToSet(storeOut'[j]) : x \in ToSet(storeOut[j])
    BY <1>4, <1>b DEF GetStep, GetAllStep, PruneStep
  <2>2. \E y : Answers(i, y) /\ InOK(y)
    <3> DEFINE x == Head(storeOut[i])
    <3>1. CASE GetStep(i)
      BY <3>1 DEF GetStep, InOK
    <3>2. CASE GetAllStep(i)
      BY <3>2 DEF GetAllStep, InOK
    <3>3. CASE PruneStep(i)
      <4>1. /\ Answers(i, [op |-> "pruned", conn |-> x.conn, snap |-> x.snap, stale |-> x.stale])
            /\ x \in ToSet(storeOut[i]) /\ x.op = "prune"
        BY <3>3 DEF PruneStep, Does
      <4>2. InOK([op |-> "pruned", conn |-> x.conn, snap |-> x.snap, stale |-> x.stale])
        BY <4>1 DEF InOK, PrunesExpired
      <4> QED BY <4>1, <4>2
    <3> QED BY <1>4, <3>1, <3>2, <3>3
  <2> QED BY <1>1, <1>e, <2>1, <2>2
<1>5. ASSUME NEW i \in Instance, NEW h, NEW m, AskStep(i, h, m) PROVE PrunesExpired'
  <2>1. \E y : Asks(i, y) /\ OutOK(y)
    BY <1>5 DEF AskStep, OutOK
  <2> QED BY <1>1, <1>5, <1>d, <2>1 DEF AskStep
<1>6. ASSUME NEW i \in Instance, NEW op, NEW stale, ReplayStep(i, op, stale) PROVE PrunesExpired'
  <2> DEFINE x == Head(storeIn[i])
  <2>1. Takes(i, op) /\ op \in {"fields", "pruned"} /\ x \in ToSet(storeIn[i]) /\ x.op = op
    BY <1>6 DEF ReplayStep, Takes
  <2>2. stale \subseteq expired
    BY <1>6, <2>1 DEF ReplayStep, PrunesExpired
  <2>3. storeOut' = storeOut \/ \E y : Asks(i, y) /\ OutOK(y)
    <3>1. ASSUME NEW h \in stale, NEW c, NEW s,
                 Asks(i, [op |-> "prune", conn |-> c, field |-> h, snap |-> s, stale |-> stale \ {h}])
          PROVE  \E y : Asks(i, y) /\ OutOK(y)
      BY <2>2, <3>1 DEF OutOK
    <3> QED BY <1>6, <3>1 DEF ReplayStep, ReplaySends, ReplayIdle
  <2> QED BY <1>1, <1>c, <1>d, <2>1, <2>3
<1>7. ASSUME NEW i \in Instance, NEW c \in Conn, ConnectStep(c, i) PROVE PrunesExpired'
  <2>1. \E y : Asks(i, y) /\ OutOK(y)
    BY <1>7 DEF ConnectStep, OutOK
  <2> QED BY <1>1, <1>7, <1>d, <2>1 DEF ConnectStep
<1>8. ASSUME NEW i \in Instance, ExitStep(i) \/ OutageStep(i) PROVE PrunesExpired'
  <2>1. \A j \in Instance : storeOut'[j] \in {storeOut[j], <<>>} /\ storeIn'[j] \in {storeIn[j], <<>>}
    BY <1>8 DEF ExitStep, Exit, OutageStep, GatewayTyped, StoreTyped
  <2> QED BY <1>1, <2>1, EmptyQueue
<1>9. ASSUME NEW i \in Instance, BlipStep(i) \/ PublishStep(i) \/ MessageStep(i) \/ SubscribeStep(i)
      PROVE  PrunesExpired'
  BY <1>1, <1>9 DEF BlipStep, PublishStep, MessageStep, SubscribeStep, ChannelUnchanged
<1>10. ASSUME NEW c \in Conn, CloseStep(c) PROVE PrunesExpired'
  BY <1>1, <1>10 DEF CloseStep
<1>11. CASE OtherStep
  BY <1>1, <1>11 DEF OtherStep
<1> QED BY <1>2, <1>3, <1>4, <1>5, <1>6, <1>7, <1>8, <1>9, <1>10, <1>11, EveryStep DEF StepKinds

(* There is always a latest frame of a field that was relayed.             *)
LEMMA HasLatestStep ==
  ASSUME GatewayTyped, HasLatest, [Next]_vars
  PROVE  HasLatest'
<1>1. ASSUME NEW i \in Instance, NEW f, RelayStep(i, f) PROVE HasLatest'
  <2>0. PICK N : N = Len(log)
    OBVIOUS
  <2>1. /\ N \in Nat /\ DOMAIN log = 1 .. N /\ \A k \in 1 .. N : log'[k] = log[k]
        /\ log'[N + 1].field = f.field /\ DOMAIN log' = 1 .. N + 1
    BY <1>1, <2>0 DEF RelayStep, Relayed
  <2>2. SUFFICES ASSUME NEW n \in 1 .. N + 1
                 PROVE  \E m \in 1 .. N + 1 : n <= m /\ log'[m].field = log'[n].field /\ Latest(m)'
    BY <2>1 DEF HasLatest
  <2>3. Latest(N + 1)'
    BY <2>1 DEF Latest
  <2>4. CASE log'[n].field = f.field
    BY <2>1, <2>3, <2>4
  <2>5. CASE log'[n].field # f.field
    <3>1. n \in 1 .. N /\ log'[n] = log[n]
      BY <2>1, <2>5
    <3>2. PICK m \in 1 .. N : n <= m /\ log[m].field = log[n].field /\ Latest(m)
      BY <2>1, <3>1 DEF HasLatest
    <3>3. Latest(m)'
      BY <2>1, <2>5, <3>1, <3>2 DEF Latest
    <3> QED BY <2>1, <3>1, <3>2, <3>3
  <2> QED BY <2>4, <2>5
<1>2. ASSUME log' = log PROVE HasLatest'
  BY <1>2 DEF HasLatest, Latest
<1> QED BY <1>1, <1>2, QueuesStep

(* A write that is executed is the latest of its field, or a later one     *)
(* follows.                                                                *)
LEMMA LatestStoredStep ==
  ASSUME GatewayTyped, StoreInv, [Next]_vars
  PROVE  LatestStored'
<1> USE DEF StoreInv
<1>a. \A j \in Instance : Writes(j) \subseteq 1 .. Len(log) /\ Writes(j) \subseteq UnderWay
  BY WritesTyped
<1>b. /\ Len(log) \in Nat /\ DOMAIN log = 1 .. Len(log)
      /\ \A n \in 1 .. Len(log) : log[n] \in Entry
  BY DEF GatewayTyped, StoreTyped
<1>v. /\ \A n \in 1 .. Len(log) : log[n].via \in Instance /\ log[n].field \in Field
      /\ hash \in [Field -> Value]
  BY <1>b DEF Entry, GatewayTyped, StoreTyped, Snapshot
<1>c. torn \subseteq torn' /\ expired \subseteq expired' /\ \A g : Clean(g)' => Clean(g)
  BY QueuesStep DEF Clean
<1>1. ASSUME NEW i \in Instance, NEW f, RelayStep(i, f) PROVE LatestStored'
  <2>0. PICK N : N = Len(log)
    OBVIOUS
  <2>1. \A j \in Instance : Writes(j)' = Writes(j) \cup IF j = i THEN {N + 1} ELSE {}
    BY <1>1, <2>0, RelayQueues
  <2>2. /\ \A k \in 1 .. N : log'[k] = log[k]
        /\ log'[N + 1].field = f.field /\ log'[N + 1].via = i /\ DOMAIN log' = 1 .. N + 1
        /\ hash' = hash
    BY <1>1, <2>0 DEF RelayStep, Relayed
  <2>3. N \in Nat /\ DOMAIN log = 1 .. N /\ \A j \in Instance : Writes(j) \subseteq 1 .. N
    BY <1>a, <1>b, <2>0
  <2>4. SUFFICES ASSUME NEW n \in 1 .. N + 1, NEW v, v = log'[n].via, log'[n].field \notin torn' \cup expired',
                        \A m \in 1 .. N + 1 : m > n => log'[m].field # log'[n].field
                 PROVE  \/ n \in Writes(v)'
                        \/ /\ hash'[log'[n].field] = log'[n].value
                           /\ \A j \in Instance : \A m \in Writes(j)' : log'[m].field # log'[n].field
    BY <2>2 DEF LatestStored, Latest, Clean, Writes
  <2>5. CASE n = N + 1
    BY <2>1, <2>2, <2>4, <2>5
  <2>6. CASE n # N + 1
    <3>1. n \in 1 .. N /\ log'[n] = log[n]
      BY <2>2, <2>3, <2>6
    <3>2. f.field # log[n].field
      BY <2>2, <2>3, <2>4, <3>1 DEF Latest
    <3>3. Latest(n) /\ Clean(log[n].field)
      BY <1>c, <2>2, <2>3, <2>4, <3>1 DEF Latest, Clean
    <3>v. v = log[n].via /\ v \in Instance
      BY <1>v, <2>0, <2>4, <3>1
    <3>4. CASE n \in Writes(v)
      BY <2>1, <3>4, <3>v
    <3>5. CASE n \notin Writes(v)
      <4>1. /\ hash[log[n].field] = log[n].value
            /\ \A j \in Instance : \A m \in Writes(j) : log[m].field # log[n].field
        BY <2>3, <3>1, <3>3, <3>5, <3>v DEF LatestStored
      <4>2. ASSUME NEW j \in Instance, NEW m \in Writes(j)' PROVE log'[m].field # log[n].field
        <5>1. CASE m \in Writes(j)
          BY <2>2, <2>3, <4>1, <5>1
        <5>2. CASE m = N + 1
          BY <2>2, <3>2, <5>2
        <5> QED BY <2>1, <4>2, <5>1, <5>2
      <4> QED BY <2>2, <3>1, <4>1, <4>2
    <3> QED BY <3>4, <3>5
  <2> QED BY <2>5, <2>6
<1>2. ASSUME NEW i \in Instance, WriteStep(i) PROVE LatestStored'
  <2> DEFINE n0 == Head(storeOut[i]).n
  <2>1. /\ n0 \in 1 .. Len(log) /\ hash' = [hash EXCEPT ![log[n0].field] = log[n0].value]
        /\ log' = log
    BY <1>2 DEF WriteStep, StoreUnchanged
  <2>2. /\ Writes(i) = {n0} \cup Writes(i)' /\ \A m \in Writes(i)' : n0 < m
        /\ \A j \in Instance \ {i} : Writes(j)' = Writes(j)
    BY <1>2, WriteQueues
  <2> HIDE DEF n0
  <2>3. log[n0].via = i /\ n0 \in UnderWay /\ n0 \in Writes(i)
    BY <1>a, <2>2 DEF OwnWrites
  <2>4. SUFFICES ASSUME NEW n \in 1 .. Len(log), Latest(n), Clean(log[n].field), NEW v, v = log[n].via
                 PROVE  \/ n \in Writes(v)'
                        \/ /\ hash'[log[n].field] = log[n].value
                           /\ \A j \in Instance : \A m \in Writes(j)' : log[m].field # log[n].field
    BY <1>b, <1>c, <2>1 DEF LatestStored, Latest, Clean, Writes
  <2>5. CASE log[n].field # log[n0].field
    <3>1. n # n0
      BY <2>5
    <3>2. n \in Writes(v) => n \in Writes(v)'
      BY <1>v, <2>2, <2>4, <3>1
    <3>3. hash'[log[n].field] = hash[log[n].field]
      BY <1>v, <2>1, <2>5
    <3>4. \A j \in Instance : Writes(j)' \subseteq Writes(j)
      BY <2>2
    <3> QED BY <1>b, <2>4, <3>2, <3>3, <3>4 DEF LatestStored
  <2>6. CASE log[n].field = log[n0].field /\ n = n0
    <3>1. hash'[log[n].field] = log[n].value
      BY <1>v, <2>1, <2>6
    <3>2. ASSUME NEW j \in Instance, NEW m \in Writes(j)', log[m].field = log[n].field PROVE FALSE
      <4>1. m \in Writes(j) /\ m \in 1 .. Len(log) /\ m \in UnderWay /\ log[m].via = j
        BY <1>a, <2>2, <3>2 DEF OwnWrites
      <4>2. m <= n
        BY <1>b, <2>4, <3>2, <4>1 DEF Latest
      <4>3. CASE m = n
        BY <2>2, <2>3, <2>6, <3>2, <4>1, <4>3
      <4>4. CASE m < n
        <5>1. log[m].via = log[n].via
          BY <1>b, <2>4, <3>2, <4>1, <4>4 DEF SameWay, Clean
        <5>2. j = i
          BY <2>3, <2>6, <4>1, <5>1
        <5>3. n0 < m
          BY <2>2, <3>2, <5>2
        <5> QED BY <1>b, <2>6, <4>1, <4>4, <5>3
      <4> QED BY <1>b, <4>1, <4>2, <4>3, <4>4
    <3> QED BY <3>1, <3>2
  <2>7. CASE log[n].field = log[n0].field /\ n # n0
    <3>1. n \in Writes(v)
      BY <1>b, <2>3, <2>4, <2>7 DEF LatestStored
    <3> QED BY <1>v, <2>2, <2>4, <2>7, <3>1
  <2> QED BY <2>5, <2>6, <2>7
<1>3. ASSUME log' = log,
             hash' = hash \/ \E i \in Instance : PruneStep(i),
             \A j \in Instance : \/ Writes(j)' = Writes(j)
                                 \/ Writes(j)' = {} /\ Fields(Queued(j)) \subseteq torn'
      PROVE  LatestStored'
  <2>1. SUFFICES ASSUME NEW n \in 1 .. Len(log), Latest(n), log[n].field \notin torn' \cup expired', NEW v, v = log[n].via
                 PROVE  \/ n \in Writes(v)'
                        \/ /\ hash'[log[n].field] = log[n].value
                           /\ \A j \in Instance : \A m \in Writes(j)' : log[m].field # log[n].field
    BY <1>3, <1>b DEF LatestStored, Latest, Clean, Writes
  <2>2. hash'[log[n].field] = hash[log[n].field]
    <3>1. ASSUME NEW i \in Instance, PruneStep(i) PROVE hash'[log[n].field] = hash[log[n].field]
      <4>1. /\ hash' = [hash EXCEPT ![Head(storeOut[i]).field] = None]
            /\ Head(storeOut[i]).op = "prune" /\ Head(storeOut[i]) \in ToSet(storeOut[i])
        BY <3>1 DEF PruneStep, Does
      <4>0. PICK x : x = Head(storeOut[i])
        OBVIOUS
      <4>2. x.field \in expired
        BY <4>0, <4>1 DEF PrunesExpired
      <4>3. log[n].field # Head(storeOut[i]).field
        BY <1>c, <2>1, <4>0, <4>2
      <4> QED BY <1>v, <4>1, <4>3
    <3> QED BY <1>3, <3>1
  <2>3. n \in Writes(v) => n \in Writes(v)'
    <3>1. ASSUME n \in Writes(v), Fields(Queued(v)) \subseteq torn' PROVE FALSE
      <4>1. n \in Queued(v)
        BY <3>1 DEF Writes, Queued
      <4>2. log[n].field \in torn'
        BY <3>1, <4>1 DEF Fields
      <4> QED BY <2>1, <4>2
    <3> QED BY <1>3, <1>v, <2>1, <3>1
  <2>4. \A j \in Instance : Writes(j)' \subseteq Writes(j)
    BY <1>3
  <2> QED BY <1>b, <1>c, <2>1, <2>2, <2>3, <2>4 DEF LatestStored, Clean
<1> QED BY <1>1, <1>2, <1>3, QueuesStep

(* Every step preserves the invariant of the snapshot.                     *)
LEMMA StoreStep ==
  ASSUME GatewayTyped, StoreInv, [Next]_vars
  PROVE  StoreInv'
BY WriteOrderStep, OwnWritesStep, PrunesStep, LatestStoredStep, HasLatestStep DEF StoreInv

(* It holds initially, when nothing was relayed.                           *)
LEMMA StoreInit == Init => StoreInv
<1> SUFFICES ASSUME Init PROVE StoreInv
  OBVIOUS
<1>1. \A i \in Instance : storeOut[i] = <<>> /\ storeIn[i] = <<>> /\ pubOut[i] = <<>> /\ subIn[i] = <<>>
  BY DEF Init
<1>2. DOMAIN log = {} /\ Len(<<>>) = 0
  BY DEF Init
<1>3. \A i \in Instance : Queued(i) = {} /\ Writes(i) = {}
  BY <1>1, EmptyQueue DEF Queued, Writes
<1>4. UnderWay = {}
  BY <1>3 DEF UnderWay
<1>5. WriteOrder
  BY <1>1, <1>2 DEF WriteOrder
<1>6. PrunesExpired
  BY <1>1, EmptyQueue DEF PrunesExpired
<1> QED BY <1>2, <1>3, <1>4, <1>5, <1>6 DEF StoreInv, OwnWrites, SameWay, LatestStored, HasLatest

(* Once nothing is on its way, the snapshot holds the latest relayed value *)
(* of each field, for any number of instances, frames and failures, unless *)
(* writes of that field overlapped on two instances, fell into a failure,  *)
(* or the hazard expired.                                                  *)
THEOREM SnapshotHoldsLatest == Spec => []SnapshotIsLatest
<1> DEFINE Inv == GatewayTyped /\ StoreInv
<1>1. Init => Inv
  BY TypedInit, StoreInit
<1>2. Inv /\ [Next]_vars => Inv'
  BY TypedStep, StoreStep
<1>3. Inv => SnapshotIsLatest
  <2> SUFFICES ASSUME GatewayTyped, StoreInv, Quiet, NEW n \in DOMAIN log,
                      log[n].field \notin torn \cup expired,
                      ~\E m \in n + 1 .. Len(log) : log[m].field = log[n].field
               PROVE  hash[log[n].field] = log[n].value
    BY DEF SnapshotIsLatest
  <2>1. DOMAIN log = 1 .. Len(log) /\ Len(log) \in Nat /\ log[n] \in Entry
    BY DEF GatewayTyped, StoreTyped
  <2>2. Latest(n) /\ Clean(log[n].field)
    BY <2>1 DEF Latest, Clean
  <2>3. log[n].via \in Instance
    BY <2>1 DEF Entry
  <2>4. Writes(log[n].via) = {}
    BY <2>3, EmptyQueue DEF Quiet, Writes
  <2> QED BY <2>2, <2>4 DEF StoreInv, LatestStored
<1> QED BY <1>1, <1>2, <1>3, PTL DEF Spec

-----------------------------------------------------------------------------
(* Nobody knows a field before it was relayed: neither Redis nor a device  *)
(* has a value of it, and nobody asks about it.                            *)
Told == {log[n].field : n \in DOMAIN log}
Holds(s, R) == \A f \in Field : s[f] # None => f \in R
About(x, R) ==
  /\ x.op \in {"get", "got"} => x.field \in R
  /\ x.op \in {"fields", "prune", "pruned"} => Holds(x.snap, R)
Known ==
  /\ Holds(hash, Told)
  /\ \A c \in Conn : Holds(shown[c], Told)
  /\ \A i \in Instance : \A x \in ToSet(storeOut[i]) : About(x, Told)
  /\ \A i \in Instance : \A x \in ToSet(storeIn[i]) : About(x, Told)

(* What a frame that is sent shows.                                        *)
LEMMA FrameShows ==
  ASSUME shown \in [Conn -> Snapshot], NEW i, NEW n, NEW L, Sent(i, n, L), L[n].field \in Field, L[n].value \in Value,
         NEW R, L[n].field \in R, \A c \in Conn : Holds(shown[c], R)
  PROVE  \A c \in Conn : Holds(shown'[c], R)
<1>1. \A c \in Conn, f \in Field :
        shown'[c][f] = IF at[c] = i /\ Who[c] # L[n].from /\ f = L[n].field THEN L[n].value ELSE shown[c][f]
  BY SentShows
<1> QED BY <1>1 DEF Holds

(* Every step preserves what devices and instances know of hazards.        *)
LEMMA KnownStep ==
  ASSUME GatewayTyped, Known, [Next]_vars
  PROVE  Known'
<1>0. StoreTyped /\ DeviceTyped /\ DOMAIN log = 1 .. Len(log) /\ Len(log) \in Nat
      /\ \A n \in 1 .. Len(log) : log[n].field \in Field /\ log[n].value \in Value
  <2>1. \A n \in 1 .. Len(log) : log[n] \in Entry
    BY DEF GatewayTyped, StoreTyped
  <2> QED BY <2>1 DEF GatewayTyped, StoreTyped, Entry
<1>a. PICK R : R = Told
  OBVIOUS
<1>b. /\ Holds(hash, R) /\ \A c \in Conn : Holds(shown[c], R)
      /\ \A j \in Instance : \A x \in ToSet(storeOut[j]) : About(x, R)
      /\ \A j \in Instance : \A x \in ToSet(storeIn[j]) : About(x, R)
  BY <1>a DEF Known
<1> DEFINE Outs(Q) == \A j \in Instance : \A x \in ToSet(storeOut'[j]) : x \in ToSet(storeOut[j]) \/ About(x, Q)
           Ins(Q) == \A j \in Instance : \A x \in ToSet(storeIn'[j]) : x \in ToSet(storeIn[j]) \/ About(x, Q)
<1>c. ASSUME NEW Q, R \subseteq Q, Q = Told', Outs(Q), Ins(Q), Holds(hash', Q),
             \A d \in Conn : Holds(shown'[d], Q)
      PROVE  Known'
  <2>1. \A x : About(x, R) => About(x, Q)
    BY <1>c DEF About, Holds
  <2>2. /\ \A j \in Instance : \A x \in ToSet(storeOut'[j]) : About(x, Q)
        /\ \A j \in Instance : \A x \in ToSet(storeIn'[j]) : About(x, Q)
    BY <1>b, <1>c, <2>1
  <2> HIDE DEF Outs, Ins
  <2> QED BY <1>c, <2>2 DEF Known, Told, Holds, About
<1>d. log' = log => R = Told'
  BY <1>a DEF Told
<1>e. ASSUME NEW i \in Instance, NEW op, Does(i, op) PROVE Outs(R)
  BY <1>e, DoesElements
<1>f. ASSUME NEW i \in Instance, NEW op, Takes(i, op) PROVE Ins(R)
  BY <1>f, TakesElements
<1>g. ASSUME NEW i \in Instance, NEW y, Asks(i, y), About(y, R) PROVE Outs(R)
  BY <1>g, AsksElements
<1>h. ASSUME NEW i \in Instance, NEW y, Answers(i, y), About(y, R) PROVE Ins(R)
  BY <1>h, AnswersElements
<1>i. /\ storeOut' = storeOut => Outs(R)
      /\ storeIn' = storeIn => Ins(R)
      /\ hash' = hash => Holds(hash', R)
      /\ shown' = shown => \A d \in Conn : Holds(shown'[d], R)
  BY <1>b
<1>1. ASSUME NEW i \in Instance, NEW f, RelayStep(i, f) PROVE Known'
  <2>0. PICK N : N = Len(log)
    OBVIOUS
  <2>1. /\ Relay(i, f) /\ Relayed(i, f) /\ hash' = hash /\ f.field \in Field /\ f.value \in Value
        /\ storeIn' = storeIn \/ Takes(i, "got")
    BY <1>1 DEF RelayStep
  <2>2. /\ N \in Nat /\ DOMAIN log = 1 .. N /\ DOMAIN log' = 1 .. N + 1 /\ \A k \in 1 .. N : log'[k] = log[k]
        /\ log'[N + 1].field = f.field /\ log'[N + 1].value = f.value
        /\ \A j \in Instance \ {i} : storeOut'[j] = storeOut[j]
    BY <2>0, <2>1 DEF Relayed
  <2>3. PICK Q : Q = R \cup {f.field}
    OBVIOUS
  <2>4. Q = Told'
    BY <1>a, <2>2, <2>3 DEF Told
  <2>5. Outs(Q)
    <3>1. ToSet(storeOut'[i]) = ToSet(storeOut[i]) \cup {[op |-> "write", n |-> N + 1]}
      BY <2>0, <2>1, RelayElements
    <3>2. About([op |-> "write", n |-> N + 1], Q)
      BY DEF About
    <3> QED BY <2>2, <3>1, <3>2
  <2>6. Ins(Q)
    BY <2>1, TakesElements
  <2>7. \A d \in Conn : Holds(shown'[d], Q)
    <3>1. PICK L : L = log'
      OBVIOUS
    <3>2. Sent(i, N + 1, L) /\ L[N + 1].field \in Field /\ L[N + 1].value \in Value /\ L[N + 1].field \in Q
      BY <2>0, <2>1, <2>2, <2>3, <3>1 DEF Relay
    <3>3. \A d \in Conn : Holds(shown[d], Q)
      BY <1>b, <2>3 DEF Holds
    <3> QED BY <1>0, <3>2, <3>3, FrameShows DEF DeviceTyped
  <2>8. Holds(hash', Q)
    BY <1>b, <2>1, <2>3 DEF Holds
  <2> HIDE DEF Outs, Ins
  <2> QED BY <1>c, <2>3, <2>4, <2>5, <2>6, <2>7, <2>8
<1>2. ASSUME NEW i \in Instance, RefuseStep(i) PROVE Known'
  <2> HIDE DEF Outs, Ins
  <2> QED BY <1>2, <1>c, <1>d, <1>f, <1>i DEF RefuseStep
<1>3. ASSUME NEW i \in Instance, WriteStep(i) PROVE Known'
  <2>1. PICK n \in 1 .. Len(log) : hash' = [hash EXCEPT ![log[n].field] = log[n].value]
    BY <1>3 DEF WriteStep
  <2>2. log[n].field \in R
    BY <1>0, <1>a, <2>1 DEF Told
  <2>3. Holds(hash', R)
    BY <1>0, <1>b, <2>1, <2>2 DEF Holds, StoreTyped, Snapshot
  <2> HIDE DEF Outs, Ins
  <2> QED BY <1>3, <1>c, <1>d, <1>e, <1>i, <2>3 DEF WriteStep, StoreUnchanged
<1>4. ASSUME NEW i \in Instance, GetStep(i) \/ GetAllStep(i) \/ PruneStep(i) PROVE Known'
  <2>1. PICK x : x = Head(storeOut[i])
    OBVIOUS
  <2>2. x \in ToSet(storeOut[i]) /\ About(x, R) /\ \E op : Does(i, op) /\ x.op = op
    BY <1>4, <1>b, <2>1 DEF GetStep, GetAllStep, PruneStep, Does
  <2>3. \E y : Answers(i, y) /\ About(y, R)
    <3>1. CASE GetStep(i)
      <4>1. /\ Answers(i, [op |-> "got", field |-> x.field, from |-> x.from, tracked |-> hash[x.field] # None])
            /\ x.op = "get"
        BY <2>1, <3>1 DEF GetStep, Does
      <4> QED BY <2>2, <4>1 DEF About
    <3>2. CASE GetAllStep(i)
      <4>1. Answers(i, [op |-> "fields", conn |-> x.conn, snap |-> hash])
        BY <2>1, <3>2 DEF GetAllStep
      <4> QED BY <1>b, <4>1 DEF About
    <3>3. CASE PruneStep(i)
      <4>1. /\ Answers(i, [op |-> "pruned", conn |-> x.conn, snap |-> x.snap, stale |-> x.stale])
            /\ x.op = "prune"
        BY <2>1, <3>3 DEF PruneStep, Does
      <4> QED BY <2>2, <4>1 DEF About
    <3> QED BY <1>4, <3>1, <3>2, <3>3
  <2>4. Holds(hash', R)
    <3>1. hash' = hash \/ \E h \in Hazard : hash' = [hash EXCEPT ![h] = None]
      BY <1>4 DEF GetStep, GetAllStep, PruneStep
    <3> QED BY <1>0, <1>b, <3>1 DEF Holds, StoreTyped, Snapshot
  <2> HIDE DEF Outs, Ins
  <2>5. Outs(R) /\ Ins(R)
    BY <1>e, <1>h, <2>2, <2>3
  <2>6. log' = log /\ shown' = shown
    BY <1>4 DEF GetStep, GetAllStep, PruneStep, StoreUnchanged
  <2> QED BY <1>c, <1>d, <1>i, <2>4, <2>5, <2>6
<1>5. ASSUME NEW i \in Instance, NEW h, NEW m, AskStep(i, h, m) PROVE Known'
  <2>1. h \in R
    BY <1>5, <1>a, <1>b, <1>0, SnapshotSet DEF AskStep, Told, Holds
  <2>2. About([op |-> "get", field |-> h, from |-> m], R)
    BY <2>1 DEF About
  <2> HIDE DEF Outs, Ins
  <2> QED BY <1>5, <1>c, <1>d, <1>g, <1>i, <2>2 DEF AskStep
<1>6. ASSUME NEW i \in Instance, NEW op, NEW stale, ReplayStep(i, op, stale) PROVE Known'
  <2>1. PICK x : x = Head(storeIn[i])
    OBVIOUS
  <2>2. /\ Takes(i, op) /\ x \in ToSet(storeIn[i]) /\ x.op \in {"fields", "pruned"} /\ x.snap \in Snapshot
        /\ UNCHANGED <<log, hash>>
    BY <1>6, <2>1 DEF ReplayStep, Takes
  <2>3. Holds(x.snap, R)
    BY <1>b, <2>2 DEF About
  <2>4. /\ Outs(R)
        /\ \A d \in Conn : Holds(shown'[d], R)
    <3>1. CASE \E h \in stale :
                 /\ Asks(i, [op |-> "prune", conn |-> x.conn, field |-> h,
                             snap |-> [x.snap EXCEPT ![h] = None], stale |-> stale \ {h}])
                 /\ UNCHANGED <<shown, replayed>>
      <4>1. PICK h \in stale : /\ Asks(i, [op |-> "prune", conn |-> x.conn, field |-> h,
                                           snap |-> [x.snap EXCEPT ![h] = None], stale |-> stale \ {h}])
                               /\ shown' = shown
        BY <3>1
      <4>2. Holds([x.snap EXCEPT ![h] = None], R)
        BY <2>2, <2>3 DEF Holds, Snapshot
      <4>3. About([op |-> "prune", conn |-> x.conn, field |-> h,
                   snap |-> [x.snap EXCEPT ![h] = None], stale |-> stale \ {h}], R)
        BY <4>2 DEF About
      <4> HIDE DEF Outs
      <4> QED BY <1>g, <1>i, <4>1, <4>3
    <3>2. CASE ReplaySends(i, x.conn, x.snap)
      <4>1. \A d \in Conn, f \in Field : shown'[d][f] \in {shown[d][f], x.snap[f]}
        BY <3>2 DEF ReplaySends
      <4> QED BY <1>b, <1>i, <2>3, <3>2, <4>1 DEF Holds, ReplaySends
    <3>3. CASE ReplayIdle(i, x.conn)
      BY <1>i, <3>3 DEF ReplayIdle
    <3> QED BY <1>6, <2>1, <3>1, <3>2, <3>3 DEF ReplayStep
  <2> HIDE DEF Outs, Ins
  <2> QED BY <1>c, <1>d, <1>f, <1>i, <2>2, <2>4
<1>7. ASSUME NEW i \in Instance, NEW c \in Conn, ConnectStep(c, i) PROVE Known'
  <2>1. About([op |-> "getall", conn |-> c], R)
    BY DEF About
  <2> HIDE DEF Outs, Ins
  <2> QED BY <1>7, <1>c, <1>d, <1>g, <1>i, <2>1 DEF ConnectStep
<1>8. ASSUME NEW closed \in SUBSET Conn, Drop(closed) PROVE \A d \in Conn : Holds(shown'[d], R)
  <2>1. \A d \in Conn : shown'[d] = shown[d] \/ shown'[d] = Empty
    BY <1>0, <1>8, DropTyped
  <2> QED BY <1>b, <2>1 DEF Holds, Empty
<1>9. ASSUME NEW c \in Conn, CloseStep(c) PROVE Known'
  <2>1. {c} \in SUBSET Conn
    OBVIOUS
  <2> HIDE DEF Outs, Ins
  <2> QED BY <1>9, <1>c, <1>d, <1>i, <1>8, <2>1 DEF CloseStep
<1>10. ASSUME NEW i \in Instance, ExitStep(i) PROVE Known'
  <2>1. /\ storeOut' = [storeOut EXCEPT ![i] = <<>>] /\ storeIn' = [storeIn EXCEPT ![i] = <<>>]
        /\ Drop(Local(i)) /\ Local(i) \in SUBSET Conn /\ UNCHANGED <<hash, log>>
    BY <1>10 DEF ExitStep, Exit, Local
  <2>2. Outs(R) /\ Ins(R)
    BY <1>0, <2>1, EmptyQueue DEF StoreTyped
  <2> HIDE DEF Outs, Ins
  <2> QED BY <1>c, <1>d, <1>i, <1>8, <2>1, <2>2
<1>11. ASSUME NEW i \in Instance, OutageStep(i) PROVE Known'
  <2>1. Outs(R)
    BY <1>0, <1>11, EmptyQueue DEF OutageStep, StoreTyped
  <2> HIDE DEF Outs, Ins
  <2> QED BY <1>c, <1>d, <1>i, <1>11, <2>1 DEF OutageStep
<1>12. ASSUME UNCHANGED <<log, hash, shown, storeOut, storeIn>> PROVE Known'
  <2> HIDE DEF Outs, Ins
  <2> QED BY <1>c, <1>d, <1>i, <1>12
<1>13. ASSUME NEW i \in Instance, MessageStep(i) PROVE Known'
  <2>1. UNCHANGED <<log, hash, storeOut, storeIn>>
    BY <1>13 DEF MessageStep, ChannelUnchanged
  <2>2. PICK n : n = Head(subIn[i])
    OBVIOUS
  <2>3. shown' = shown \/ Sent(i, n, log)
    BY <1>13, <2>2 DEF MessageStep, OnMessage
  <2>4. n \in 1 .. Len(log)
    BY <1>13, <2>2, StoreQueues, Popped DEF MessageStep, OnMessage
  <2>5. log[n].field \in R
    BY <1>0, <1>a, <2>4 DEF Told
  <2>6. \A d \in Conn : Holds(shown'[d], R)
    BY <1>0, <1>b, <1>i, <2>3, <2>4, <2>5, FrameShows DEF DeviceTyped
  <2> HIDE DEF Outs, Ins
  <2> QED BY <1>c, <1>d, <1>i, <2>1, <2>6
<1>14. ASSUME NEW i \in Instance, BlipStep(i) \/ PublishStep(i) \/ SubscribeStep(i) PROVE Known'
  BY <1>12, <1>14 DEF BlipStep, PublishStep, SubscribeStep, ChannelUnchanged
<1>15. CASE OtherStep
  BY <1>12, <1>15 DEF OtherStep
<1> HIDE DEF Outs, Ins
<1> QED BY <1>1, <1>2, <1>3, <1>4, <1>5, <1>6, <1>7, <1>9, <1>10, <1>11, <1>13, <1>14, <1>15, EveryStep DEF StepKinds

-----------------------------------------------------------------------------
(* Removals.                                                               *)

(* A write that sets field h, and commands, replies and frames by which    *)
(* somebody else than the author of h would remove it.                     *)
IsReport(y, h, L) == y.op = "write" /\ L[y.n].field = h /\ L[y.n].value # None
Foreign(x, h, X) == x.field = h /\ x.from # Author[h] /\ h \notin X

(* The field is not in the snapshot, and no report is on its way to it.    *)
Unset(i, h) == \A y \in ToSet(storeOut[i]) : ~IsReport(y, h, log)
Gone(h) == hash[h] = None /\ \A i \in Instance : Unset(i, h)

(* Whoever is not the reporter asks after the report was written or behind *)
(* it on the same connection; told that the hazard is not tracked, or      *)
(* having removed it then, it finds the hazard gone, and the reporter has  *)
(* removed it before.                                                      *)
Behind(s, L, X) ==
  \A h \in Hazard : \A j, k \in 1 .. Len(s) :
    s[j].op = "get" /\ Foreign(s[j], h, X) /\ IsReport(s[k], h, L) => k < j
AsksBehind == \A i \in Instance : Behind(storeOut[i], log, torn \cup expired)
AsksHere ==
  \A i \in Instance, h \in Hazard : \A x \in ToSet(storeOut[i]) :
    x.op = "get" /\ Foreign(x, h, torn \cup expired) => \A j \in Instance \ {i} : Unset(j, h)
ToldGone ==
  \A i \in Instance, h \in Hazard : \A x \in ToSet(storeIn[i]) :
    x.op = "got" /\ Foreign(x, h, torn \cup expired) /\ ~x.tracked => Gone(h)
RemovedGone ==
  \A n \in DOMAIN log, h \in Hazard :
    Foreign(log[n], h, torn \cup expired) =>
      /\ Gone(h)
      /\ \E m \in DOMAIN log : /\ m < n /\ log[m].field = h
                               /\ log[m].value = None /\ log[m].from = Author[h]
RemovalsInv == AsksBehind /\ AsksHere /\ ToldGone /\ RemovedGone

(* The head asks about no hazard whose report is behind it.                *)
LEMMA BehindTaken ==
  ASSUME NEW S, NEW s \in Seq(S), s # <<>>, NEW L, NEW X, Behind(s, L, X)
  PROVE  /\ Behind(Tail(s), L, X)
         /\ \A h \in Hazard : Head(s).op = "get" /\ Foreign(Head(s), h, X) =>
              \A y \in ToSet(s) : ~IsReport(y, h, L)
<1> DEFINE t == Tail(s)
<1>1. /\ t \in Seq(S) /\ Head(s) = s[1] /\ Len(s) \in Nat \ {0} /\ Len(t) = Len(s) - 1
      /\ \A k \in 1 .. Len(s) - 1 : t[k] = s[k + 1]
  BY Popped
<1> HIDE DEF t
<1>2. Behind(t, L, X)
  <2> SUFFICES ASSUME NEW h \in Hazard, NEW j \in 1 .. Len(t), NEW k \in 1 .. Len(t),
                      t[j].op = "get", Foreign(t[j], h, X), IsReport(t[k], h, L)
               PROVE  k < j
    BY DEF Behind
  <2>1. t[j] = s[j + 1] /\ t[k] = s[k + 1] /\ j + 1 \in 1 .. Len(s) /\ k + 1 \in 1 .. Len(s)
    BY <1>1
  <2>2. k + 1 < j + 1
    BY <2>1 DEF Behind
  <2> QED BY <1>1, <2>2
<1>3. ASSUME NEW h \in Hazard, NEW y \in ToSet(s), s[1].op = "get", Foreign(s[1], h, X), IsReport(y, h, L) PROVE FALSE
  <2>1. PICK k \in 1 .. Len(s) : s[k] = y
    BY Positions
  <2>2. 1 \in 1 .. Len(s)
    BY <1>1
  <2>3. k < 1
    BY <1>3, <2>1, <2>2 DEF Behind
  <2> QED BY <1>1, <2>1, <2>3
<1> QED BY <1>1, <1>2, <1>3 DEF t

(* A question goes behind the reports, and a report behind no question of  *)
(* somebody else about it.                                                 *)
LEMMA BehindSent ==
  ASSUME NEW S, NEW s \in Seq(S), NEW x \in S, NEW L, NEW X, Behind(s, L, X),
         x.op = "get" => \A h : ~IsReport(x, h, L),
         \A y \in ToSet(s), h \in Hazard : y.op = "get" /\ y.field = h => ~IsReport(x, h, L)
  PROVE  Behind(Append(s, x), L, X)
<1> DEFINE t == Append(s, x)
<1>1. /\ Len(s) \in Nat /\ Len(t) = Len(s) + 1 /\ t[Len(s) + 1] = x
      /\ \A k \in 1 .. Len(s) : t[k] = s[k] /\ s[k] \in ToSet(s)
  BY Pushed, Positions
<1> HIDE DEF t
<1>2. Behind(t, L, X)
  <2> SUFFICES ASSUME NEW h \in Hazard, NEW j \in 1 .. Len(t), NEW k \in 1 .. Len(t),
                      t[j].op = "get", Foreign(t[j], h, X), IsReport(t[k], h, L)
               PROVE  k < j
    BY DEF Behind
  <2>1. CASE k = Len(s) + 1
    <3>1. CASE j = Len(s) + 1
      BY <1>1, <2>1, <3>1
    <3>2. CASE j \in 1 .. Len(s)
      BY <1>1, <2>1, <3>2 DEF Foreign
    <3> QED BY <1>1, <3>1, <3>2
  <2>2. CASE k \in 1 .. Len(s)
    <3>1. CASE j = Len(s) + 1
      BY <1>1, <2>2, <3>1
    <3>2. CASE j \in 1 .. Len(s)
      BY <1>1, <2>2, <3>2 DEF Behind
    <3> QED BY <1>1, <3>1, <3>2
  <2> QED BY <1>1, <2>1, <2>2
<1> QED BY <1>2 DEF t

(* Frames that are written are frames of the log, before and after a step. *)
LEMMA ReportsKept ==
  ASSUME GatewayTyped, NEW i \in Instance, \A n \in 1 .. Len(log) : log'[n] = log[n]
  PROVE  /\ \A y \in ToSet(storeOut[i]) : \A h : IsReport(y, h, log') <=> IsReport(y, h, log)
         /\ \A X : Behind(storeOut[i], log, X) => Behind(storeOut[i], log', X)
<1>1. \A y \in ToSet(storeOut[i]) : y.op = "write" => y.n \in 1 .. Len(log)
  BY WritesTyped DEF Writes
<1>2. \A y \in ToSet(storeOut[i]) : \A h : IsReport(y, h, log') <=> IsReport(y, h, log)
  BY <1>1 DEF IsReport
<1>3. \A k \in 1 .. Len(storeOut[i]) : storeOut[i][k] \in ToSet(storeOut[i])
  BY StoreQueues, Positions
<1> QED BY <1>2, <1>3 DEF Behind

(* A smaller set of fields is exempt before the step.                      *)
LEMMA BehindShrinks ==
  ASSUME NEW s, NEW L, NEW X, NEW Y, X \subseteq Y, Behind(s, L, X)
  PROVE  Behind(s, L, Y)
BY DEF Behind, Foreign

(* Every step keeps questions behind the reports they are about.           *)
LEMMA AsksBehindStep ==
  ASSUME GatewayTyped, Known, AsksBehind, [Next]_vars
  PROVE  AsksBehind'
<1>0. PICK X : X = torn \cup expired
  OBVIOUS
<1>a. PICK Y : Y = torn' \cup expired'
  OBVIOUS
<1>b. X \subseteq Y
  BY <1>0, <1>a, QueuesStep
<1> SUFFICES ASSUME NEW i \in Instance PROVE Behind(storeOut'[i], log', Y)
  BY <1>a DEF AsksBehind, Behind, Foreign, IsReport
<1>1. /\ Behind(storeOut[i], log, X) /\ storeOut[i] \in Seq(StoreCommand(Len(log)))
      /\ Len(log) \in Nat
  BY <1>0, StoreQueues DEF AsksBehind
<1>2. \A n \in 1 .. Len(log) : log'[n] = log[n]
  BY QueuesStep DEF RelayStep, Relayed
<1>3. Behind(storeOut[i], log', Y)
  BY <1>1, <1>2, <1>b, ReportsKept, BehindShrinks
<1>4. CASE storeOut'[i] = storeOut[i]
  BY <1>3, <1>4
<1>5. CASE storeOut'[i] = <<>>
  BY <1>5 DEF Behind
<1>6. CASE storeOut[i] # <<>> /\ storeOut'[i] = Tail(storeOut[i])
  BY <1>1, <1>3, <1>6, BehindTaken
<1>7. ASSUME NEW x, x.op # "write", Asks(i, x) PROVE Behind(storeOut'[i], log', Y)
  <2>1. \A h : ~IsReport(x, h, log')
    BY <1>7 DEF IsReport
  <2> QED BY <1>1, <1>3, <1>7, <2>1, BehindSent DEF Asks
<1>8. ASSUME NEW f, RelayStep(i, f) PROVE Behind(storeOut'[i], log', Y)
  <2>0. PICK N : N = Len(log)
    OBVIOUS
  <2> DEFINE x == [op |-> "write", n |-> N + 1]
  <2>1. /\ storeOut'[i] = Append(storeOut[i], x)
        /\ log'[N + 1].field = f.field /\ log'[N + 1].value = f.value
    BY <1>8, <2>0 DEF RelayStep, Relayed
  <2>2. x \in StoreCommand(N + 1) /\ x.n = N + 1 /\ x.op = "write"
    <3>1. N + 1 \in Nat /\ N + 1 \in 1 .. N + 1
      BY <1>1, <2>0
    <3> QED BY <3>1, Commands
  <2>3. storeOut[i] \in Seq(StoreCommand(N + 1))
    BY <1>1, <2>0, Commands
  <2> HIDE DEF x
  <2>4. ASSUME NEW y \in ToSet(storeOut[i]), NEW h \in Hazard, y.op = "get", y.field = h, IsReport(x, h, log')
        PROVE  FALSE
    <3>1. f.field = h /\ f.value # None
      BY <2>1, <2>2, <2>4 DEF IsReport
    <3>2. h \in Told
      BY <2>4 DEF Known, About
    <3>4. \A n \in DOMAIN log : log[n].field # f.field
      BY <1>8, <3>1 DEF RelayStep
    <3> QED BY <3>1, <3>2, <3>4 DEF Told
  <2>5. x.op # "get"
    BY <2>2
  <2> QED BY <1>3, <2>1, <2>2, <2>3, <2>4, <2>5, BehindSent
<1> QED BY <1>4, <1>5, <1>6, <1>7, <1>8, OutMoves

(* No frame is written, and fields that are gone stay away.                *)
LEMMA RemovalsFrame ==
  ASSUME GatewayTyped, RemovalsInv, [Next]_vars, log' = log,
         \A j \in Instance : \A x \in ToSet(storeOut'[j]) : x \in ToSet(storeOut[j]) \/ x.op # "write",
         \A h \in Hazard : Gone(h) => hash'[h] = None
  PROVE  /\ (\A j \in Instance : \A x \in ToSet(storeOut'[j]) : x \in ToSet(storeOut[j]) \/ x.op # "get")
              => AsksHere'
         /\ (\A j \in Instance : \A x \in ToSet(storeIn'[j]) : x \in ToSet(storeIn[j]) \/ x.op # "got")
              => ToldGone'
         /\ RemovedGone'
         /\ \A j \in Instance : \A h : Unset(j, h) => Unset(j, h)'
         /\ \A h \in Hazard : Gone(h) => Gone(h)'
<1>1. torn \cup expired \subseteq torn' \cup expired'
  BY QueuesStep
<1>2. \A j \in Instance : \A h : Unset(j, h) => Unset(j, h)'
  BY DEF Unset, IsReport
<1>3. \A h \in Hazard : Gone(h) => Gone(h)'
  BY <1>2 DEF Gone
<1>4. ASSUME \A j \in Instance : \A x \in ToSet(storeOut'[j]) : x \in ToSet(storeOut[j]) \/ x.op # "get"
      PROVE  AsksHere'
  BY <1>1, <1>2, <1>4 DEF RemovalsInv, AsksHere, Foreign
<1>5. ASSUME \A j \in Instance : \A x \in ToSet(storeIn'[j]) : x \in ToSet(storeIn[j]) \/ x.op # "got"
      PROVE  ToldGone'
  BY <1>1, <1>3, <1>5 DEF RemovalsInv, ToldGone, Foreign
<1>6. RemovedGone'
  BY <1>1, <1>3 DEF RemovalsInv, RemovedGone, Foreign
<1> QED BY <1>2, <1>3, <1>4, <1>5, <1>6

(* The latest frame of a field that is gone is a removal.                  *)
LEMMA LastRemoval ==
  ASSUME GatewayTyped, StoreInv, NEW h \in Told, Clean(h), Gone(h)
  PROVE  \E n \in DOMAIN log : log[n].field = h /\ log[n].value = None
<1>1. PICK k \in DOMAIN log : log[k].field = h
  BY DEF Told
<1>2. PICK n \in DOMAIN log : log[n].field = h /\ Latest(n)
  BY <1>1 DEF StoreInv, HasLatest
<1>3. log[n].via \in Instance
  <2>1. log[n] \in Entry
    BY DEF GatewayTyped, StoreTyped
  <2> QED BY <2>1 DEF Entry
<1>4. CASE n \in Writes(log[n].via)
  <2>1. PICK y \in ToSet(storeOut[log[n].via]) : y.op = "write" /\ y.n = n
    BY <1>4 DEF Writes
  <2> QED BY <1>2, <1>3, <2>1 DEF Gone, Unset, IsReport
<1>5. CASE hash[log[n].field] = log[n].value
  BY <1>2, <1>5 DEF Gone
<1> QED BY <1>2, <1>4, <1>5 DEF StoreInv, LatestStored

(* A relayed frame: a report of a field that nobody knew, a tour, or the   *)
(* removal of a hazard by its reporter or of one that was not tracked.     *)
LEMMA RemovalsRelay ==
  ASSUME GatewayTyped, StoreInv, Known, RemovalsInv, [Next]_vars, NEW i \in Instance, NEW f, RelayStep(i, f)
  PROVE  AsksHere' /\ ToldGone' /\ RemovedGone'
<1>0. PICK N : N = Len(log)
  OBVIOUS
<1>1. torn \cup expired \subseteq torn' \cup expired'
  BY QueuesStep
<1>2. /\ N \in Nat /\ DOMAIN log = 1 .. N /\ DOMAIN log' = 1 .. N + 1 /\ \A n \in 1 .. N : log'[n] = log[n]
      /\ log'[N + 1].field = f.field /\ log'[N + 1].value = f.value /\ log'[N + 1].from = f.from
      /\ \A j \in Instance \ {i} : storeOut'[j] = storeOut[j]
      /\ hash' = hash
      /\ ToSet(storeOut'[i]) = ToSet(storeOut[i]) \cup {[op |-> "write", n |-> N + 1]}
  BY <1>0, RelayElements DEF RelayStep, Relayed
<1>3. \A j \in Instance : \A y \in ToSet(storeOut[j]) : \A h : IsReport(y, h, log') <=> IsReport(y, h, log)
  BY <1>0, <1>2, ReportsKept
<1>4. ASSUME NEW j \in Instance, NEW h \in Hazard, Unset(j, h), f.field # h \/ f.value = None PROVE Unset(j, h)'
  <2>1. ~IsReport([op |-> "write", n |-> N + 1], h, log')
    BY <1>2, <1>4 DEF IsReport
  <2> QED BY <1>2, <1>3, <1>4, <2>1 DEF Unset
<1>5. ASSUME NEW h \in Hazard, Gone(h), f.field # h \/ f.value = None PROVE Gone(h)'
  BY <1>2, <1>4, <1>5 DEF Gone
<1>6. ASSUME NEW h \in Hazard, h \in Told PROVE f.field # h \/ f.value = None
  BY <1>6 DEF RelayStep, Told
<1>7. /\ \A j \in Instance : \A x \in ToSet(storeOut'[j]) : x.op = "get" => x \in ToSet(storeOut[j]) /\ x.field \in Told
      /\ \A j \in Instance : \A x \in ToSet(storeIn'[j]) : x.op = "got" => x \in ToSet(storeIn[j]) /\ x.field \in Told
  <2>1. \A j \in Instance : \A x \in ToSet(storeOut'[j]) : x.op = "get" => x \in ToSet(storeOut[j])
    BY <1>2
  <2>2. \A j \in Instance : \A x \in ToSet(storeIn'[j]) : x \in ToSet(storeIn[j])
    BY TakesElements DEF RelayStep
  <2> QED BY <2>1, <2>2 DEF Known, About
<1>8. AsksHere'
  <2> SUFFICES ASSUME NEW j \in Instance, NEW h \in Hazard, NEW x \in ToSet(storeOut'[j]), x.op = "get",
                      Foreign(x, h, torn' \cup expired'), NEW k \in Instance \ {j}
               PROVE  Unset(k, h)'
    BY DEF AsksHere, Foreign
  <2>1. x \in ToSet(storeOut[j]) /\ h \in Told /\ Foreign(x, h, torn \cup expired)
    BY <1>1, <1>7 DEF Foreign
  <2>2. Unset(k, h)
    BY <2>1 DEF RemovalsInv, AsksHere
  <2> QED BY <1>4, <1>6, <2>1, <2>2
<1>9. ToldGone'
  <2> SUFFICES ASSUME NEW j \in Instance, NEW h \in Hazard, NEW x \in ToSet(storeIn'[j]), x.op = "got",
                      Foreign(x, h, torn' \cup expired'), ~x.tracked
               PROVE  Gone(h)'
    BY DEF ToldGone, Foreign
  <2>1. x \in ToSet(storeIn[j]) /\ h \in Told /\ Foreign(x, h, torn \cup expired)
    BY <1>1, <1>7 DEF Foreign
  <2>2. Gone(h)
    BY <2>1 DEF RemovalsInv, ToldGone
  <2> QED BY <1>5, <1>6, <2>1, <2>2
<1>10. RemovedGone'
  <2> SUFFICES ASSUME NEW n \in 1 .. N + 1, NEW h \in Hazard, Foreign(log'[n], h, torn' \cup expired')
               PROVE  /\ Gone(h)'
                      /\ \E m \in 1 .. N + 1 : /\ m < n /\ log'[m].field = h
                                               /\ log'[m].value = None /\ log'[m].from = Author[h]
    BY <1>2 DEF RemovedGone, Foreign
  <2>1. CASE n \in 1 .. N
    <3>1. Foreign(log[n], h, torn \cup expired) /\ h \in Told
      BY <1>1, <1>2, <2>1 DEF Foreign, Told
    <3>2. PICK m \in 1 .. N : Gone(h) /\ m < n /\ log[m].field = h /\ log[m].value = None /\ log[m].from = Author[h]
      BY <1>2, <2>1, <3>1 DEF RemovalsInv, RemovedGone
    <3> QED BY <1>2, <1>5, <1>6, <3>1, <3>2
  <2>2. CASE n = N + 1
    <3>1. f.field = h /\ f.from # Author[h] /\ h \notin torn \cup expired
      BY <1>1, <1>2, <2>2 DEF Foreign
    <3>2. PICK x : x = Head(storeIn[i])
      OBVIOUS
    <3>3. x \in ToSet(storeIn[i]) /\ x.op = "got" /\ x.field = h /\ x.from = f.from /\ ~x.tracked /\ f.value = None
      BY <3>1, <3>2 DEF RelayStep, Takes
    <3>4. Gone(h) /\ h \in Told
      BY <3>1, <3>3 DEF RemovalsInv, ToldGone, Foreign, Known, About
    <3>5. PICK m \in 1 .. N : log[m].field = h /\ log[m].value = None
      BY <1>2, <3>1, <3>4, LastRemoval DEF Clean
    <3>6. \E k \in 1 .. N : log[k].field = h /\ log[k].value = None /\ log[k].from = Author[h]
      <4>1. CASE log[m].from = Author[h]
        BY <3>5, <4>1
      <4>2. CASE log[m].from # Author[h]
        <5>1. Foreign(log[m], h, torn \cup expired)
          BY <3>1, <3>5, <4>2 DEF Foreign
        <5> QED BY <1>2, <5>1 DEF RemovalsInv, RemovedGone
      <4> QED BY <4>1, <4>2
    <3>7. Gone(h)'
      BY <1>5, <3>3, <3>4
    <3> QED BY <1>2, <2>2, <3>6, <3>7
  <2> QED BY <1>2, <2>1, <2>2
<1> QED BY <1>8, <1>9, <1>10

(* Every step preserves the invariant of removals.                         *)
LEMMA RemovalsStep ==
  ASSUME GatewayTyped, StoreInv, Known, RemovalsInv, [Next]_vars
  PROVE  RemovalsInv'
<1> DEFINE Outs(ops) == \A j \in Instance : \A x \in ToSet(storeOut'[j]) : x \in ToSet(storeOut[j]) \/ x.op \notin ops
           Ins == \A j \in Instance : \A x \in ToSet(storeIn'[j]) : x \in ToSet(storeIn[j]) \/ x.op # "got"
           Kept == AsksHere' /\ ToldGone' /\ RemovedGone'
<1>a. ASSUME log' = log, Outs({"write", "get"}), Ins, \A h \in Hazard : Gone(h) => hash'[h] = None PROVE Kept
  BY <1>a, RemovalsFrame
<1>b. ASSUME hash' = hash PROVE \A h \in Hazard : Gone(h) => hash'[h] = None
  BY <1>b DEF Gone
<1>c. ASSUME NEW i \in Instance, NEW op, Does(i, op), NEW ops PROVE Outs(ops)
  BY <1>c, DoesElements
<1>d. ASSUME NEW i \in Instance, NEW op, Takes(i, op) PROVE Ins
  BY <1>d, TakesElements
<1>e. ASSUME NEW i \in Instance, NEW y, Asks(i, y), NEW ops, y.op \notin ops PROVE Outs(ops)
  BY <1>e, AsksElements
<1>f. ASSUME NEW i \in Instance, NEW y, Answers(i, y), y.op # "got" PROVE Ins
  BY <1>f, AnswersElements
<1>g. /\ storeOut' = storeOut => \A ops : Outs(ops)
      /\ storeIn' = storeIn => Ins
  OBVIOUS
<1>1. ASSUME NEW i \in Instance, NEW f, RelayStep(i, f) PROVE Kept
  BY <1>1, RemovalsRelay
<1>2. ASSUME NEW i \in Instance, NEW h, NEW m, AskStep(i, h, m) PROVE Kept
  <2>1. /\ Asks(i, [op |-> "get", field |-> h, from |-> m]) /\ UNCHANGED <<log, hash, storeIn>>
        /\ h \in Hazard /\ torn' = torn \cup ({h} \cap Fields(ComingFromElsewhere(i)))
    BY <1>2 DEF AskStep
  <2>2. ToldGone' /\ RemovedGone'
    <3>2. \A j \in Instance : \A x \in ToSet(storeOut'[j]) : x \in ToSet(storeOut[j]) \/ x.op # "write"
      BY <2>1, AsksElements
    <3> QED BY <1>b, <1>g, <2>1, <3>2, RemovalsFrame
  <2>3. \A j \in Instance, g \in Hazard : Unset(j, g) => Unset(j, g)'
    <3>1. \A j \in Instance : \A x \in ToSet(storeOut'[j]) : x \in ToSet(storeOut[j]) \/ x.op # "write"
      BY <2>1, AsksElements
    <3> QED BY <2>1, <3>1 DEF Unset, IsReport
  <2>4. AsksHere'
    <3> SUFFICES ASSUME NEW j \in Instance, NEW g \in Hazard, NEW x \in ToSet(storeOut'[j]), x.op = "get",
                        Foreign(x, g, torn' \cup expired'), NEW k \in Instance \ {j}
                 PROVE  Unset(k, g)
      BY <2>3 DEF AsksHere, Foreign
    <3>1. torn \cup expired \subseteq torn' \cup expired'
      BY QueuesStep
    <3>2. CASE x \in ToSet(storeOut[j])
      BY <3>1, <3>2 DEF RemovalsInv, AsksHere, Foreign
    <3>3. CASE x \notin ToSet(storeOut[j])
      <4>1. j = i /\ x.field = h /\ g = h /\ h \notin torn'
        BY <2>1, <3>3, AsksElements DEF Foreign
      <4>2. ASSUME NEW y \in ToSet(storeOut[k]), IsReport(y, h, log) PROVE FALSE
        <5>1. y.n \in Writes(k) /\ log[y.n].field = h
          BY <4>2 DEF Writes, IsReport
        <5>2. log[y.n].via = k /\ y.n \in UnderWay
          BY <5>1, WritesTyped DEF StoreInv, OwnWrites
        <5>3. h \in Fields(ComingFromElsewhere(i))
          BY <4>1, <5>1, <5>2 DEF Fields, ComingFromElsewhere
        <5> QED BY <2>1, <4>1, <5>3
      <4> QED BY <4>1, <4>2 DEF Unset
    <3> QED BY <3>2, <3>3
  <2> QED BY <2>2, <2>4
<1>3. ASSUME NEW i \in Instance, GetStep(i) PROVE Kept
  <2>0. PICK x : x = Head(storeOut[i])
    OBVIOUS
  <2>1. /\ Does(i, "get") /\ UNCHANGED <<log, hash>>
        /\ Answers(i, [op |-> "got", field |-> x.field, from |-> x.from, tracked |-> hash[x.field] # None])
        /\ x.op = "get" /\ x \in ToSet(storeOut[i]) /\ storeOut[i] # <<>>
    BY <1>3, <2>0 DEF GetStep, StoreUnchanged, Does
  <2>2. \A j \in Instance : \A y \in ToSet(storeOut'[j]) : y \in ToSet(storeOut[j])
    BY <2>1, DoesElements
  <2>3. /\ AsksHere' /\ RemovedGone' /\ \A h \in Hazard : Gone(h) => Gone(h)'
    BY <1>b, <2>1, <2>2, RemovalsFrame
  <2>4. ToldGone'
    <3> SUFFICES ASSUME NEW j \in Instance, NEW h \in Hazard, NEW y \in ToSet(storeIn'[j]), y.op = "got",
                        Foreign(y, h, torn' \cup expired'), ~y.tracked
                 PROVE  Gone(h)
      BY <2>3 DEF ToldGone, Foreign
    <3>1. torn \cup expired \subseteq torn' \cup expired'
      BY QueuesStep
    <3>2. CASE y \in ToSet(storeIn[j])
      BY <3>1, <3>2 DEF RemovalsInv, ToldGone, Foreign
    <3>3. CASE y \notin ToSet(storeIn[j])
      <4>1. y = [op |-> "got", field |-> x.field, from |-> x.from, tracked |-> hash[x.field] # None]
        BY <2>1, <3>3, AnswersElements
      <4>2. x.field = h /\ hash[h] = None /\ Foreign(x, h, torn \cup expired)
        BY <3>1, <4>1 DEF Foreign
      <4>3. \A k \in Instance \ {i} : Unset(k, h)
        BY <2>1, <4>2 DEF RemovalsInv, AsksHere
      <4>4. Unset(i, h)
        BY <2>0, <2>1, <4>2, StoreQueues, BehindTaken DEF RemovalsInv, AsksBehind, Unset
      <4> QED BY <4>2, <4>3, <4>4 DEF Gone
    <3> QED BY <3>2, <3>3
  <2> QED BY <2>3, <2>4
<1>4. ASSUME NEW i \in Instance, WriteStep(i) PROVE Kept
  <2>1. PICK x : x = Head(storeOut[i])
    OBVIOUS
  <2>2. /\ hash' = [hash EXCEPT ![log[x.n].field] = log[x.n].value] /\ UNCHANGED <<log, storeIn>>
        /\ Does(i, "write") /\ x \in ToSet(storeOut[i]) /\ x.op = "write"
    BY <1>4, <2>1 DEF WriteStep, StoreUnchanged, Does
  <2>3. ASSUME NEW h \in Hazard, Gone(h) PROVE hash'[h] = None
    <3>1. ~IsReport(x, h, log) /\ hash[h] = None
      BY <2>2, <2>3 DEF Gone, Unset
    <3>2. hash \in [Field -> Value] /\ Hazard \subseteq Field
      BY SnapshotSet DEF GatewayTyped, StoreTyped, Snapshot
    <3>3. log[x.n].field = h => log[x.n].value = None
      BY <2>2, <3>1 DEF IsReport
    <3> QED BY <2>2, <3>1, <3>2, <3>3
  <2> HIDE DEF Outs, Ins, Kept
  <2> QED BY <1>a, <1>c, <1>g, <2>2, <2>3
<1>5. ASSUME NEW i \in Instance, GetAllStep(i) \/ PruneStep(i) PROVE Kept
  <2>1. /\ log' = log /\ \E op : Does(i, op) /\ \E y : Answers(i, y) /\ y.op # "got"
    BY <1>5 DEF GetAllStep, PruneStep, StoreUnchanged
  <2>2. \A h \in Hazard : Gone(h) => hash'[h] = None
    <3>1. hash' = hash \/ \E h \in Hazard : hash' = [hash EXCEPT ![h] = None]
      BY <1>5 DEF GetAllStep, PruneStep
    <3>2. hash \in [Field -> Value] /\ Hazard \subseteq Field
      BY SnapshotSet DEF GatewayTyped, StoreTyped, Snapshot
    <3>3. \A h \in Hazard : hash[h] = None => hash'[h] = None
      BY <3>1, <3>2
    <3> QED BY <3>3 DEF Gone
  <2> HIDE DEF Outs, Ins, Kept
  <2> QED BY <1>a, <1>c, <1>f, <2>1, <2>2
<1>6. ASSUME NEW i \in Instance, RefuseStep(i) PROVE Kept
  <2> HIDE DEF Outs, Ins, Kept
  <2> QED BY <1>6, <1>a, <1>b, <1>d, <1>g DEF RefuseStep
<1>7. ASSUME NEW i \in Instance, NEW op, NEW stale, ReplayStep(i, op, stale) PROVE Kept
  <2>1. Takes(i, op) /\ UNCHANGED <<log, hash>>
    BY <1>7 DEF ReplayStep
  <2>2. storeOut' = storeOut \/ \E y : Asks(i, y) /\ y.op \notin {"write", "get"}
    <3>1. ASSUME NEW h, NEW c, NEW s, NEW e, Asks(i, [op |-> "prune", conn |-> c, field |-> h, snap |-> s, stale |-> e])
          PROVE  \E y : Asks(i, y) /\ y.op \notin {"write", "get"}
      BY <3>1
    <3> QED BY <1>7, <3>1 DEF ReplayStep, ReplaySends, ReplayIdle
  <2> HIDE DEF Outs, Ins, Kept
  <2> QED BY <1>a, <1>b, <1>d, <1>e, <1>g, <2>1, <2>2
<1>8. ASSUME NEW i \in Instance, NEW c \in Conn, ConnectStep(c, i) PROVE Kept
  <2>1. \E y : Asks(i, y) /\ y.op \notin {"write", "get"}
    BY <1>8 DEF ConnectStep
  <2> HIDE DEF Outs, Ins, Kept
  <2> QED BY <1>8, <1>a, <1>b, <1>e, <1>g, <2>1 DEF ConnectStep
<1>9. ASSUME NEW i \in Instance, ExitStep(i) \/ OutageStep(i) PROVE Kept
  <2>1. /\ \A j \in Instance : storeOut'[j] \in {storeOut[j], <<>>} /\ storeIn'[j] \in {storeIn[j], <<>>}
        /\ UNCHANGED <<log, hash>>
    BY <1>9 DEF ExitStep, Exit, OutageStep, GatewayTyped, StoreTyped
  <2>2. Outs({"write", "get"}) /\ Ins
    BY <2>1, EmptyQueue
  <2> HIDE DEF Outs, Ins, Kept
  <2> QED BY <1>a, <1>b, <2>1, <2>2
<1>10. ASSUME UNCHANGED <<log, hash, storeOut, storeIn>> PROVE Kept
  <2> HIDE DEF Outs, Ins, Kept
  <2> QED BY <1>10, <1>a, <1>b, <1>g
<1>11. ASSUME NEW i \in Instance, BlipStep(i) \/ PublishStep(i) \/ MessageStep(i) \/ SubscribeStep(i) PROVE Kept
  BY <1>10, <1>11 DEF BlipStep, PublishStep, MessageStep, SubscribeStep, ChannelUnchanged
<1>12. ASSUME NEW c \in Conn, CloseStep(c) PROVE Kept
  BY <1>10, <1>12 DEF CloseStep
<1>13. ASSUME OtherStep PROVE Kept
  BY <1>10, <1>13 DEF OtherStep
<1> HIDE DEF Kept
<1>14. Kept
  BY <1>1, <1>2, <1>3, <1>4, <1>5, <1>6, <1>7, <1>8, <1>9, <1>11, <1>12, <1>13, EveryStep DEF StepKinds
<1>15. AsksBehind'
  BY AsksBehindStep DEF RemovalsInv
<1> QED BY <1>14, <1>15 DEF Kept, RemovalsInv

(* It holds initially, when no hazard is known.                            *)
LEMMA RemovalsInit == Init => Known /\ RemovalsInv
<1> SUFFICES ASSUME Init PROVE Known /\ RemovalsInv
  OBVIOUS
<1>1. /\ \A i \in Instance : storeOut[i] = <<>> /\ storeIn[i] = <<>>
      /\ DOMAIN log = {} /\ hash = Empty /\ \A c \in Conn : shown[c] = Empty /\ Len(<<>>) = 0
  BY DEF Init
<1>2. Known
  BY <1>1, EmptyQueue DEF Known, Holds, Empty
<1>3. AsksBehind
  BY <1>1 DEF AsksBehind, Behind
<1>4. AsksHere /\ ToldGone /\ RemovedGone
  BY <1>1, EmptyQueue DEF AsksHere, ToldGone, RemovedGone
<1> QED BY <1>2, <1>3, <1>4 DEF RemovalsInv

(* Across instances only its reporter removes a tracked hazard from the    *)
(* snapshot, unless it expired or its removal overtook a write of it.      *)
THEOREM OnlyReporterRemoves == Spec => ReporterRemoves
<1> DEFINE Inv == GatewayTyped /\ StoreInv /\ Known /\ RemovalsInv
           Removed == \A i \in Instance : \A h \in Hazard \ (torn \cup expired) :
             hash[h] # None /\ hash'[h] = None /\ storeOut'[i] # storeOut[i]
               => LET x == Head(storeOut[i]) IN x.op = "write" /\ log[x.n].from = Author[h]
<1>1. Init => Inv
  BY TypedInit, StoreInit, RemovalsInit
<1>2. Inv /\ [Next]_vars => Inv'
  BY TypedStep, StoreStep, KnownStep, RemovalsStep
<1>3. Inv /\ [Next]_vars => Removed
  <2> SUFFICES ASSUME GatewayTyped, StoreInv, RemovalsInv, [Next]_vars, NEW i \in Instance,
                      NEW h \in Hazard, h \notin torn \cup expired,
                      hash[h] # None, hash'[h] = None, storeOut'[i] # storeOut[i]
               PROVE  Head(storeOut[i]).op = "write" /\ log[Head(storeOut[i]).n].from = Author[h]
    OBVIOUS
  <2>1. hash \in [Field -> Value]
    BY DEF GatewayTyped, StoreTyped, Snapshot
  <2>2. ASSUME NEW j \in Instance, PruneStep(j) PROVE FALSE
    <3>1. PICK x : x = Head(storeOut[j])
      OBVIOUS
    <3>2. hash' = [hash EXCEPT ![x.field] = None] /\ x \in ToSet(storeOut[j]) /\ x.op = "prune"
      BY <2>2, <3>1 DEF PruneStep, Does
    <3>3. x.field \in expired
      BY <3>2 DEF StoreInv, PrunesExpired
    <3> QED BY <2>1, <3>2, <3>3
  <2>3. PICK j \in Instance : WriteStep(j)
    BY <2>2, QueuesStep DEF RelayStep
  <2>4. PICK x : x = Head(storeOut[j])
    OBVIOUS
  <2>5. /\ hash' = [hash EXCEPT ![log[x.n].field] = log[x.n].value] /\ x.n \in DOMAIN log
        /\ x.op = "write" /\ i = j
    BY <2>3, <2>4, StoreQueues DEF WriteStep, Does
  <2>6. log[x.n].field = h
    BY <2>1, <2>5
  <2>7. log[x.n].from = Author[h]
    <3>1. CASE Foreign(log[x.n], h, torn \cup expired)
      BY <2>5, <3>1 DEF RemovalsInv, RemovedGone, Gone
    <3> QED BY <2>6, <3>1 DEF Foreign
  <2> QED BY <2>4, <2>5, <2>7
<1>4. [][Removed]_vars <=> ReporterRemoves
  BY PTL DEF ReporterRemoves
<1> QED BY <1>1, <1>2, <1>3, <1>4, PTL DEF Spec

-----------------------------------------------------------------------------
(* What a socket is sent.                                                  *)

(* A hazard is reported once, by its author, before it is removed; a tour  *)
(* is the leader's.                                                        *)
LogInv ==
  /\ \A n, m \in DOMAIN log :
       n < m /\ log[n].field = log[m].field /\ log[n].field \in Hazard => log[m].value = None
  /\ \A h \in Hazard \cap Told : \E m \in DOMAIN log : log[m].field = h /\ log[m].from = Author[h]
  /\ \A n \in DOMAIN log : log[n].field = Tour => log[n].from = Author[Tour]

(* The latest frame of its field that member w is sent.                    *)
LatestFor(w, n) ==
  /\ log[n].from # w
  /\ \A m \in DOMAIN log : m > n /\ log[m].field = log[n].field => log[m].from = w
HasLatestFor ==
  \A w \in Member, n \in DOMAIN log :
    log[n].from # w => \E m \in DOMAIN log : log[m].field = log[n].field /\ LatestFor(w, m)

(* Every step preserves how often a field is written, and by whom.         *)
LEMMA LogStep ==
  ASSUME GatewayTyped, Known, LogInv, HasLatestFor, [Next]_vars
  PROVE  LogInv' /\ HasLatestFor'
<1>1. ASSUME log' = log PROVE LogInv' /\ HasLatestFor'
  BY <1>1 DEF LogInv, HasLatestFor, LatestFor, Told
<1>2. ASSUME NEW i \in Instance, NEW f, RelayStep(i, f) PROVE LogInv' /\ HasLatestFor'
  <2>0. PICK N : N = Len(log)
    OBVIOUS
  <2>1. /\ N \in Nat /\ DOMAIN log = 1 .. N /\ DOMAIN log' = 1 .. N + 1 /\ \A n \in 1 .. N : log'[n] = log[n]
        /\ log'[N + 1].field = f.field /\ log'[N + 1].value = f.value /\ log'[N + 1].from = f.from
    BY <1>2, <2>0 DEF RelayStep, Relayed
  <2>2. \/ /\ f.from = Author[f.field]
           /\ f.field \in Hazard => \A n \in 1 .. N : log[n].field # f.field
        \/ f.field \in Hazard /\ f.value = None /\ f.field \in Told
    <3>1. PICK x : x = Head(storeIn[i])
      OBVIOUS
    <3>2. CASE Takes(i, "got") /\ f.field = x.field
      <4>1. f.field \in Told
        BY <3>1, <3>2 DEF Takes, Known, About
      <4> QED BY <1>2, <2>1, <4>1 DEF RelayStep
    <3> QED BY <1>2, <2>1, <3>1, <3>2 DEF RelayStep
  <2>3. ASSUME NEW n \in 1 .. N + 1, NEW m \in 1 .. N + 1, n < m, log'[n].field = log'[m].field, log'[n].field \in Hazard
        PROVE  log'[m].value = None
    <3>1. CASE m \in 1 .. N
      BY <2>1, <2>3, <3>1 DEF LogInv
    <3>2. CASE m = N + 1
      BY <2>1, <2>2, <2>3, <3>2
    <3> QED BY <2>1, <3>1, <3>2
  <2>4. ASSUME NEW h \in Hazard, NEW n \in 1 .. N + 1, log'[n].field = h
        PROVE  \E m \in 1 .. N + 1 : log'[m].field = h /\ log'[m].from = Author[h]
    <3>1. CASE h \in Told
      <4>1. PICK m \in 1 .. N : log[m].field = h /\ log[m].from = Author[h]
        BY <2>1, <3>1 DEF LogInv
      <4> QED BY <2>1, <4>1
    <3>2. CASE h \notin Told
      <4>1. n = N + 1 /\ f.field = h /\ f.from = Author[h]
        BY <2>1, <2>2, <2>4, <3>2 DEF Told
      <4> QED BY <2>1, <4>1
    <3> QED BY <3>1, <3>2
  <2>5. ASSUME NEW n \in 1 .. N + 1, log'[n].field = Tour PROVE log'[n].from = Author[Tour]
    <3>1. CASE n \in 1 .. N
      BY <2>1, <2>5, <3>1 DEF LogInv
    <3>2. CASE n = N + 1
      BY <2>1, <2>2, <2>5, <3>2, RedisAssumption
    <3> QED BY <2>1, <3>1, <3>2
  <2>6. LogInv'
    BY <2>1, <2>3, <2>4, <2>5 DEF LogInv, Told
  <2>7. ASSUME NEW w \in Member, NEW n \in 1 .. N + 1, log'[n].from # w
        PROVE  \E m \in 1 .. N + 1 : log'[m].field = log'[n].field /\ LatestFor(w, m)'
    <3>1. CASE f.field = log'[n].field /\ f.from # w
      <4>1. LatestFor(w, N + 1)'
        BY <2>1, <3>1 DEF LatestFor
      <4> QED BY <2>1, <3>1, <4>1
    <3>2. CASE ~(f.field = log'[n].field /\ f.from # w)
      <4>1. n \in 1 .. N /\ log'[n] = log[n]
        BY <2>1, <2>7, <3>2
      <4>2. PICK m \in 1 .. N : log[m].field = log[n].field /\ LatestFor(w, m)
        BY <2>1, <2>7, <4>1 DEF HasLatestFor
      <4>3. LatestFor(w, m)'
        BY <2>1, <3>2, <4>1, <4>2 DEF LatestFor
      <4> QED BY <2>1, <4>1, <4>2, <4>3
    <3> QED BY <3>1, <3>2
  <2> QED BY <2>1, <2>6, <2>7 DEF HasLatestFor
<1> QED BY <1>1, <1>2, QueuesStep

(* The snapshot holds what a socket was sent last, when nothing of the     *)
(* field is under way: the origin of the last frame, which is left out, is *)
(* its author, or removed what its author had removed before.              *)
LEMMA HashIsLatestFor ==
  ASSUME GatewayTyped, StoreInv, RemovalsInv, LogInv, NEW w, NEW n \in DOMAIN log, LatestFor(w, n),
         Clean(log[n].field), log[n].field \notin Fields(UnderWay), Author[log[n].field] # w
  PROVE  hash[log[n].field] = log[n].value
<1>0. PICK f : f = log[n].field
  OBVIOUS
<1>1. PICK k \in DOMAIN log : n <= k /\ log[k].field = f /\ Latest(k)
  BY <1>0 DEF StoreInv, HasLatest
<1>2. log[k].via \in Instance /\ f \in Field /\ DOMAIN log \subseteq Nat
  <2>1. log[k] \in Entry /\ DOMAIN log \subseteq Nat
    BY DEF GatewayTyped, StoreTyped
  <2> QED BY <1>1, <2>1 DEF Entry
<1>3. k \notin Writes(log[k].via)
  BY <1>0, <1>1, <1>2, WritesTyped DEF Fields
<1>4. hash[f] = log[k].value
  BY <1>0, <1>1, <1>3 DEF StoreInv, LatestStored
<1>5. CASE k = n
  BY <1>0, <1>4, <1>5
<1>6. CASE k # n
  <2>1. log[k].from = w /\ k > n
    BY <1>0, <1>1, <1>2, <1>6 DEF LatestFor
  <2>2. f \in Hazard
    BY <1>0, <1>1, <1>2, <2>1 DEF LogInv, Field
  <2>3. Foreign(log[k], f, torn \cup expired)
    BY <1>0, <1>1, <2>1 DEF Foreign, Clean
  <2>4. PICK m \in DOMAIN log : m < k /\ log[m].field = f /\ log[m].value = None /\ log[m].from = Author[f]
    BY <2>2, <2>3 DEF RemovalsInv, RemovedGone
  <2>5. hash[f] = None
    BY <2>2, <2>3 DEF RemovalsInv, RemovedGone, Gone
  <2>6. m <= n
    BY <1>0, <1>2, <2>4 DEF LatestFor
  <2>7. log[n].value = None
    <3>1. CASE m = n
      BY <2>4, <3>1
    <3>2. CASE m < n
      BY <1>0, <2>2, <2>4, <3>2 DEF LogInv
    <3> QED BY <1>2, <2>6, <3>1, <3>2
  <2> QED BY <1>0, <2>5, <2>7
<1> QED BY <1>5, <1>6

-----------------------------------------------------------------------------
(* Replays under way.                                                      *)

(* At most one command or reply of a queue belongs to the replay of c.     *)
HasRead(s, c) == \E x \in ToSet(s) : ReadsFor(x, c)
OneIn(s, c) == \A j, k \in 1 .. Len(s) : ReadsFor(s[j], c) /\ ReadsFor(s[k], c) => j = k

(* At most one replay of a socket is under way, at its instance, and none  *)
(* after it was sent.                                                      *)
OneRead ==
  \A c \in Conn, i \in Instance :
    /\ OneIn(storeOut[i], c) /\ OneIn(storeIn[i], c)
    /\ ~(HasRead(storeOut[i], c) /\ HasRead(storeIn[i], c))
    /\ Awaits(i, c) => /\ at[c] \in {i, None} /\ c \notin replayed
                       /\ \A j \in Instance \ {i} : ~Awaits(j, c)
ClosedEmpty == \A c \in Conn : at[c] = None => shown[c] = Empty

(* A replay that is taken from a queue is in it no more.                   *)
LEMMA ReadTaken ==
  ASSUME NEW S, NEW s \in Seq(S), s # <<>>, NEW c, OneIn(s, c)
  PROVE  /\ OneIn(Tail(s), c)
         /\ HasRead(Tail(s), c) => HasRead(s, c) /\ ~ReadsFor(Head(s), c)
         /\ ReadsFor(Head(s), c) => HasRead(s, c)
<1> DEFINE t == Tail(s)
<1>1. /\ t \in Seq(S) /\ Head(s) = s[1] /\ Len(s) \in Nat \ {0} /\ Len(t) = Len(s) - 1
      /\ \A k \in 1 .. Len(s) - 1 : t[k] = s[k + 1]
      /\ ToSet(s) = {Head(s)} \cup ToSet(t)
  BY Popped
<1> HIDE DEF t
<1>2. OneIn(t, c)
  <2> SUFFICES ASSUME NEW j \in 1 .. Len(t), NEW k \in 1 .. Len(t), ReadsFor(t[j], c), ReadsFor(t[k], c)
               PROVE  j = k
    BY DEF OneIn
  <2>1. t[j] = s[j + 1] /\ t[k] = s[k + 1] /\ j + 1 \in 1 .. Len(s) /\ k + 1 \in 1 .. Len(s)
    BY <1>1
  <2>2. j + 1 = k + 1
    BY <2>1 DEF OneIn
  <2> QED BY <1>1, <2>2
<1>3. ASSUME NEW x \in ToSet(t), ReadsFor(x, c), ReadsFor(s[1], c) PROVE FALSE
  <2>1. PICK k \in 1 .. Len(t) : t[k] = x
    BY <1>1, Positions
  <2>2. x = s[k + 1] /\ k + 1 \in 1 .. Len(s) /\ 1 \in 1 .. Len(s)
    BY <1>1, <2>1
  <2>3. k + 1 = 1
    BY <1>3, <2>2 DEF OneIn
  <2> QED BY <1>1, <2>1, <2>3
<1> QED BY <1>1, <1>2, <1>3 DEF t, HasRead

(* A replay is put into a queue that holds none of its socket.             *)
LEMMA ReadSent ==
  ASSUME NEW S, NEW s \in Seq(S), NEW x \in S, NEW c, OneIn(s, c), ReadsFor(x, c) => ~HasRead(s, c)
  PROVE  /\ OneIn(Append(s, x), c)
         /\ HasRead(Append(s, x), c) => HasRead(s, c) \/ ReadsFor(x, c)
<1> DEFINE t == Append(s, x)
<1>1. /\ Len(s) \in Nat /\ Len(t) = Len(s) + 1 /\ t[Len(s) + 1] = x
      /\ \A k \in 1 .. Len(s) : t[k] = s[k] /\ s[k] \in ToSet(s)
      /\ ToSet(t) = ToSet(s) \cup {x}
  BY Pushed, Positions
<1> HIDE DEF t
<1>2. OneIn(t, c)
  <2> SUFFICES ASSUME NEW j \in 1 .. Len(t), NEW k \in 1 .. Len(t), ReadsFor(t[j], c), ReadsFor(t[k], c)
               PROVE  j = k
    BY DEF OneIn
  <2>1. CASE j \in 1 .. Len(s) /\ k \in 1 .. Len(s)
    BY <1>1, <2>1 DEF OneIn
  <2>2. CASE j = Len(s) + 1 /\ k \in 1 .. Len(s)
    BY <1>1, <2>2 DEF HasRead
  <2>3. CASE j \in 1 .. Len(s) /\ k = Len(s) + 1
    BY <1>1, <2>3 DEF HasRead
  <2> QED BY <1>1, <2>1, <2>2, <2>3
<1> QED BY <1>1, <1>2 DEF t, HasRead

(* Nothing of a replay is added.                                           *)
LEMMA ReadsFrame ==
  ASSUME OneRead,
         \A j \in Instance, d \in Conn : /\ OneIn(storeOut'[j], d) /\ OneIn(storeIn'[j], d)
                                         /\ HasRead(storeOut'[j], d) => HasRead(storeOut[j], d)
                                         /\ HasRead(storeIn'[j], d) => HasRead(storeIn[j], d),
         \A d \in Conn : /\ at'[d] \in {at[d], None}
                         /\ d \in replayed' => d \in replayed \/ \A j \in Instance : ~HasRead(storeIn'[j], d) /\ ~HasRead(storeOut'[j], d)
  PROVE  OneRead'
<1>1. \A j \in Instance, d \in Conn : Awaits(j, d) <=> HasRead(storeOut[j], d) \/ HasRead(storeIn[j], d)
  BY DEF Awaits, HasRead
<1>2. \A j \in Instance, d \in Conn : Awaits(j, d)' <=> HasRead(storeOut'[j], d) \/ HasRead(storeIn'[j], d)
  BY DEF Awaits, HasRead
<1>3. \A j \in Instance, d \in Conn : Awaits(j, d)' => Awaits(j, d)
  BY <1>1, <1>2
<1> SUFFICES ASSUME NEW c \in Conn, NEW i \in Instance
             PROVE  /\ OneIn(storeOut'[i], c) /\ OneIn(storeIn'[i], c)
                    /\ ~(HasRead(storeOut'[i], c) /\ HasRead(storeIn'[i], c))
                    /\ Awaits(i, c)' => /\ at'[c] \in {i, None} /\ c \notin replayed'
                                        /\ \A j \in Instance \ {i} : ~Awaits(j, c)'
  BY DEF OneRead, OneIn, HasRead
<1>4. Awaits(i, c)' => /\ at'[c] \in {i, None} /\ c \notin replayed'
                       /\ \A j \in Instance \ {i} : ~Awaits(j, c)'
  BY <1>2, <1>3 DEF OneRead
<1> QED BY <1>4 DEF OneRead

(* Every step keeps to one replay of each socket.                          *)
LEMMA OneReadStep ==
  ASSUME GatewayTyped, OneRead, [Next]_vars
  PROVE  OneRead'
<1> DEFINE OutKept == \A j \in Instance, d \in Conn : /\ OneIn(storeOut'[j], d)
                                                      /\ HasRead(storeOut'[j], d) => HasRead(storeOut[j], d)
           InKept == \A j \in Instance, d \in Conn : /\ OneIn(storeIn'[j], d)
                                                     /\ HasRead(storeIn'[j], d) => HasRead(storeIn[j], d)
           Stay == \A d \in Conn : at'[d] \in {at[d], None} /\ (d \in replayed' => d \in replayed)
<1>a. ASSUME OutKept, InKept, Stay PROVE OneRead'
  BY <1>a, ReadsFrame
<1>b. /\ storeOut' = storeOut => OutKept
      /\ storeIn' = storeIn => InKept
      /\ UNCHANGED <<at, replayed>> => Stay
  BY DEF OneRead
<1>c. ASSUME NEW i \in Instance, NEW op, Does(i, op) PROVE OutKept
  <2> SUFFICES ASSUME NEW j \in Instance, NEW d \in Conn
               PROVE  OneIn(storeOut'[j], d) /\ (HasRead(storeOut'[j], d) => HasRead(storeOut[j], d))
    OBVIOUS
  <2>1. OneIn(storeOut[j], d)
    BY DEF OneRead
  <2>2. CASE j = i
    BY <1>c, <2>1, <2>2, StoreQueues, ReadTaken DEF Does
  <2>3. CASE j # i
    BY <1>c, <2>1, <2>3 DEF Does
  <2> QED BY <2>2, <2>3
<1>d. ASSUME NEW i \in Instance, NEW op, Takes(i, op) PROVE InKept
  <2> SUFFICES ASSUME NEW j \in Instance, NEW d \in Conn
               PROVE  OneIn(storeIn'[j], d) /\ (HasRead(storeIn'[j], d) => HasRead(storeIn[j], d))
    OBVIOUS
  <2>1. OneIn(storeIn[j], d)
    BY DEF OneRead
  <2>2. CASE j = i
    BY <1>d, <2>1, <2>2, StoreQueues, ReadTaken DEF Takes
  <2>3. CASE j # i
    BY <1>d, <2>1, <2>3 DEF Takes
  <2> QED BY <2>2, <2>3
<1>e. ASSUME NEW i \in Instance, NEW y, Asks(i, y), y.op \notin ReadOp PROVE OutKept
  <2> SUFFICES ASSUME NEW j \in Instance, NEW d \in Conn
               PROVE  OneIn(storeOut'[j], d) /\ (HasRead(storeOut'[j], d) => HasRead(storeOut[j], d))
    OBVIOUS
  <2>1. OneIn(storeOut[j], d) /\ ~ReadsFor(y, d)
    BY <1>e DEF OneRead, ReadsFor
  <2>2. CASE j = i
    BY <1>e, <2>1, <2>2, StoreQueues, ReadSent DEF Asks
  <2>3. CASE j # i
    BY <1>e, <2>1, <2>3 DEF Asks
  <2> QED BY <2>2, <2>3
<1>f. ASSUME NEW i \in Instance, NEW y, Answers(i, y), y.op \notin ReadOp PROVE InKept
  <2> SUFFICES ASSUME NEW j \in Instance, NEW d \in Conn
               PROVE  OneIn(storeIn'[j], d) /\ (HasRead(storeIn'[j], d) => HasRead(storeIn[j], d))
    OBVIOUS
  <2>1. OneIn(storeIn[j], d) /\ ~ReadsFor(y, d)
    BY <1>f DEF OneRead, ReadsFor
  <2>2. CASE j = i
    BY <1>f, <2>1, <2>2, StoreQueues, ReadSent DEF Answers
  <2>3. CASE j # i
    BY <1>f, <2>1, <2>3 DEF Answers
  <2> QED BY <2>2, <2>3
<1>g. /\ \A j \in Instance, d \in Conn : Awaits(j, d) <=> HasRead(storeOut[j], d) \/ HasRead(storeIn[j], d)
      /\ \A j \in Instance, d \in Conn : Awaits(j, d)' <=> HasRead(storeOut'[j], d) \/ HasRead(storeIn'[j], d)
  BY DEF Awaits, HasRead
<1>z. \A d : OneIn(<<>>, d) /\ ~HasRead(<<>>, d)
  BY EmptyQueue DEF OneIn, HasRead
<1> HIDE DEF OutKept, InKept, Stay
<1>1. ASSUME NEW i \in Instance, NEW f, RelayStep(i, f) PROVE OneRead'
  <2>0. PICK N : N = Len(log)
    OBVIOUS
  <2> DEFINE x == [op |-> "write", n |-> N + 1]
  <2>1. /\ storeOut'[i] = Append(storeOut[i], x) /\ \A j \in Instance \ {i} : storeOut'[j] = storeOut[j]
        /\ N \in Nat
    BY <1>1, <2>0 DEF RelayStep, Relayed
  <2>2. x \in StoreCommand(N + 1) /\ \A d : ~ReadsFor(x, d)
    <3>1. N + 1 \in Nat /\ N + 1 \in 1 .. N + 1
      BY <2>1
    <3> QED BY <3>1, Commands DEF ReadsFor, ReadOp
  <2>3. storeOut[i] \in Seq(StoreCommand(N + 1))
    BY <2>0, <2>1, StoreQueues, Commands
  <2> HIDE DEF x
  <2>4. \A d \in Conn : OneIn(storeOut'[i], d) /\ (HasRead(storeOut'[i], d) => HasRead(storeOut[i], d))
    BY <2>1, <2>2, <2>3, ReadSent DEF OneRead
  <2>5. OutKept
    BY <2>1, <2>4 DEF OutKept, OneRead
  <2>6. InKept
    BY <1>1, <1>b, <1>d DEF RelayStep
  <2> QED BY <1>1, <1>a, <1>b, <2>5, <2>6 DEF RelayStep
<1>2. ASSUME NEW i \in Instance, RefuseStep(i) \/ WriteStep(i) PROVE OneRead'
  BY <1>2, <1>a, <1>b, <1>c, <1>d DEF RefuseStep, WriteStep, StoreUnchanged
<1>3. ASSUME NEW i \in Instance, GetStep(i) PROVE OneRead'
  <2>1. Does(i, "get") /\ \E y : Answers(i, y) /\ y.op \notin ReadOp
    BY <1>3 DEF GetStep, ReadOp
  <2> QED BY <1>3, <1>a, <1>b, <1>c, <1>f, <2>1 DEF GetStep, StoreUnchanged
<1>4. ASSUME NEW i \in Instance, NEW h, NEW m, AskStep(i, h, m) PROVE OneRead'
  <2>1. \E y : Asks(i, y) /\ y.op \notin ReadOp
    BY <1>4 DEF AskStep, ReadOp
  <2> QED BY <1>4, <1>a, <1>b, <1>e, <2>1 DEF AskStep
<1>5. ASSUME NEW i \in Instance, GetAllStep(i) \/ PruneStep(i) PROVE OneRead'
  <2>1. PICK x : x = Head(storeOut[i])
    OBVIOUS
  <2>2. PICK y : Answers(i, y) /\ y.op \in ReadOp /\ y.conn = x.conn
    BY <1>5, <2>1 DEF GetAllStep, PruneStep, ReadOp
  <2>3. /\ \E op : Does(i, op) /\ storeOut[i] # <<>> /\ x.op \in ReadOp /\ x.conn \in Conn /\ UNCHANGED <<at, replayed>>
    BY <1>5, <2>1 DEF GetAllStep, PruneStep, Does, ReadOp, StoreUnchanged
  <2>4. OutKept
    BY <1>c, <2>3
  <2>5. ReadsFor(x, x.conn) /\ ReadsFor(y, x.conn) /\ \A d : d # x.conn => ~ReadsFor(y, d)
    BY <2>2, <2>3 DEF ReadsFor
  <2>6. /\ HasRead(storeOut[i], x.conn) /\ ~HasRead(storeOut'[i], x.conn)
        /\ storeOut'[i] = Tail(storeOut[i]) /\ \A j \in Instance \ {i} : storeOut'[j] = storeOut[j]
    BY <2>1, <2>3, <2>5, StoreQueues, ReadTaken DEF OneRead, Does
  <2>7. /\ ~HasRead(storeIn[i], x.conn) /\ Awaits(i, x.conn)
        /\ \A j \in Instance \ {i} : ~HasRead(storeIn[j], x.conn) /\ ~HasRead(storeOut[j], x.conn)
    BY <1>g, <2>3, <2>6 DEF OneRead
  <2>8. /\ storeIn'[i] = Append(storeIn[i], y) /\ y \in StoreReply
        /\ \A j \in Instance \ {i} : storeIn'[j] = storeIn[j]
    BY <2>2 DEF Answers
  <2>9. \A d \in Conn : /\ OneIn(storeIn'[i], d)
                        /\ HasRead(storeIn'[i], d) => HasRead(storeIn[i], d) \/ d = x.conn
    <3> SUFFICES ASSUME NEW d \in Conn
                 PROVE  OneIn(storeIn'[i], d) /\ (HasRead(storeIn'[i], d) => HasRead(storeIn[i], d) \/ d = x.conn)
      OBVIOUS
    <3>1. ReadsFor(y, d) => ~HasRead(storeIn[i], d)
      BY <2>5, <2>7
    <3>2. OneIn(storeIn[i], d) /\ storeIn[i] \in Seq(StoreReply)
      BY StoreQueues DEF OneRead
    <3>3. /\ OneIn(Append(storeIn[i], y), d)
          /\ HasRead(Append(storeIn[i], y), d) => HasRead(storeIn[i], d) \/ ReadsFor(y, d)
      BY <2>8, <3>1, <3>2, ReadSent
    <3> QED BY <2>5, <2>8, <3>3
  <2> SUFFICES ASSUME NEW d \in Conn, NEW j \in Instance
               PROVE  /\ OneIn(storeOut'[j], d) /\ OneIn(storeIn'[j], d)
                      /\ ~(HasRead(storeOut'[j], d) /\ HasRead(storeIn'[j], d))
                      /\ Awaits(j, d)' => /\ at[d] \in {j, None} /\ d \notin replayed
                                          /\ \A k \in Instance \ {j} : ~Awaits(k, d)'
    BY <2>3 DEF OneRead, OneIn, HasRead
  <2>10. OneIn(storeOut'[j], d) /\ OneIn(storeIn'[j], d)
    BY <2>4, <2>8, <2>9 DEF OutKept, OneRead
  <2>11. CASE d = x.conn
    <3>1. \A k \in Instance : ~HasRead(storeOut'[k], d)
      BY <2>6, <2>7, <2>11
    <3>2. \A k \in Instance \ {i} : ~Awaits(k, d)'
      BY <1>g, <2>7, <2>8, <2>11, <3>1
    <3>3. at[d] \in {i, None} /\ d \notin replayed
      BY <2>7, <2>11 DEF OneRead
    <3> QED BY <2>10, <3>1, <3>2, <3>3
  <2>12. CASE d # x.conn
    <3>1. \A k \in Instance : /\ HasRead(storeOut'[k], d) => HasRead(storeOut[k], d)
                              /\ HasRead(storeIn'[k], d) => HasRead(storeIn[k], d)
      BY <2>4, <2>8, <2>9, <2>12 DEF OutKept
    <3>2. \A k \in Instance : Awaits(k, d)' => Awaits(k, d)
      BY <1>g, <3>1
    <3> QED BY <2>10, <3>1, <3>2 DEF OneRead
  <2> QED BY <2>11, <2>12
(* A command that goes on with the only replay of a socket, or begins one. *)
<1>m. ASSUME NEW i \in Instance, NEW c \in Conn, NEW y, Asks(i, y), ReadsFor(y, c),
             \A j \in Instance : ~HasRead(storeOut[j], c) /\ ~HasRead(storeIn'[j], c),
             InKept, \A d \in Conn \ {c} : at'[d] = at[d], UNCHANGED replayed, at'[c] \in {i, None}, c \notin replayed
      PROVE  OneRead'
  <2>1. \A d : d # c => ~ReadsFor(y, d)
    BY <1>m DEF ReadsFor
  <2>2. /\ storeOut'[i] = Append(storeOut[i], y) /\ y \in StoreCommand(Len(log))
        /\ \A j \in Instance \ {i} : storeOut'[j] = storeOut[j]
    BY <1>m DEF Asks
  <2>3. \A d \in Conn : /\ OneIn(storeOut'[i], d)
                        /\ HasRead(storeOut'[i], d) => HasRead(storeOut[i], d) \/ d = c
    <3> SUFFICES ASSUME NEW d \in Conn
                 PROVE  OneIn(storeOut'[i], d) /\ (HasRead(storeOut'[i], d) => HasRead(storeOut[i], d) \/ d = c)
      OBVIOUS
    <3>1. ReadsFor(y, d) => ~HasRead(storeOut[i], d)
      BY <1>m, <2>1
    <3>2. OneIn(storeOut[i], d) /\ storeOut[i] \in Seq(StoreCommand(Len(log)))
      BY StoreQueues DEF OneRead
    <3>3. /\ OneIn(Append(storeOut[i], y), d)
          /\ HasRead(Append(storeOut[i], y), d) => HasRead(storeOut[i], d) \/ ReadsFor(y, d)
      BY <2>2, <3>1, <3>2, ReadSent
    <3> QED BY <2>1, <2>2, <3>3
  <2> SUFFICES ASSUME NEW d \in Conn, NEW j \in Instance
               PROVE  /\ OneIn(storeOut'[j], d) /\ OneIn(storeIn'[j], d)
                      /\ ~(HasRead(storeOut'[j], d) /\ HasRead(storeIn'[j], d))
                      /\ Awaits(j, d)' => /\ at'[d] \in {j, None} /\ d \notin replayed
                                          /\ \A k \in Instance \ {j} : ~Awaits(k, d)'
    BY <1>m DEF OneRead, OneIn, HasRead
  <2>10. OneIn(storeOut'[j], d) /\ OneIn(storeIn'[j], d)
    BY <1>m, <2>2, <2>3 DEF InKept, OneRead
  <2>11. CASE d = c
    <3>1. \A k \in Instance : ~HasRead(storeIn'[k], d)
      BY <1>m, <2>11
    <3>2. \A k \in Instance \ {i} : ~Awaits(k, d)'
      BY <1>g, <1>m, <2>2, <2>11, <3>1
    <3> QED BY <1>m, <2>10, <2>11, <3>1, <3>2
  <2>12. CASE d # c
    <3>1. \A k \in Instance : /\ HasRead(storeOut'[k], d) => HasRead(storeOut[k], d)
                              /\ HasRead(storeIn'[k], d) => HasRead(storeIn[k], d)
      BY <1>m, <2>2, <2>3, <2>12 DEF InKept
    <3>2. \A k \in Instance : Awaits(k, d)' => Awaits(k, d)
      BY <1>g, <3>1
    <3> QED BY <1>m, <2>10, <2>12, <3>1, <3>2 DEF OneRead
  <2> QED BY <2>11, <2>12
<1>6. ASSUME NEW i \in Instance, NEW op, NEW stale, ReplayStep(i, op, stale) PROVE OneRead'
  <2>1. PICK x : x = Head(storeIn[i])
    OBVIOUS
  <2>2. /\ Takes(i, op) /\ x.op \in ReadOp /\ x.conn \in Conn /\ at' = at
        /\ storeIn[i] # <<>> /\ storeIn'[i] = Tail(storeIn[i])
        /\ \A j \in Instance \ {i} : storeIn'[j] = storeIn[j]
    BY <1>6, <2>1 DEF ReplayStep, Takes, ReadOp
  <2>3. InKept
    BY <1>d, <2>2
  <2>4. ReadsFor(x, x.conn)
    BY <2>2 DEF ReadsFor
  <2>5. HasRead(storeIn[i], x.conn) /\ ~HasRead(storeIn'[i], x.conn)
    BY <2>1, <2>2, <2>4, StoreQueues, ReadTaken DEF OneRead
  <2>6. /\ at[x.conn] \in {i, None} /\ x.conn \notin replayed
        /\ \A j \in Instance : ~HasRead(storeOut[j], x.conn) /\ ~HasRead(storeIn'[j], x.conn)
    BY <1>g, <2>2, <2>5 DEF OneRead
  <2>7. CASE \E h \in stale :
               /\ Asks(i, [op |-> "prune", conn |-> x.conn, field |-> h,
                           snap |-> [x.snap EXCEPT ![h] = None], stale |-> stale \ {h}])
               /\ UNCHANGED <<shown, replayed>>
    <3>1. PICK y : Asks(i, y) /\ ReadsFor(y, x.conn)
      BY <2>7 DEF ReadsFor, ReadOp
    <3> QED BY <1>m, <2>2, <2>3, <2>6, <2>7, <3>1
  <2>8. CASE ReplaySends(i, x.conn, x.snap)
    <3>1. /\ storeOut' = storeOut /\ OutKept
          /\ \A d \in Conn : d \in replayed' => d \in replayed \/ d = x.conn
      BY <1>b, <2>8 DEF ReplaySends
    <3> QED BY <2>2, <2>3, <2>6, <3>1, ReadsFrame DEF InKept, OutKept
  <2>9. CASE ReplayIdle(i, x.conn)
    BY <1>a, <1>b, <2>2, <2>3, <2>9 DEF ReplayIdle
  <2> QED BY <1>6, <2>1, <2>7, <2>8, <2>9 DEF ReplayStep
<1>7. ASSUME NEW i \in Instance, NEW c \in Conn, ConnectStep(c, i) PROVE OneRead'
  <2>1. PICK y : Asks(i, y) /\ ReadsFor(y, c)
    BY <1>7 DEF ConnectStep, ReadsFor, ReadOp
  <2>2. \A j \in Instance : ~HasRead(storeOut[j], c) /\ ~HasRead(storeIn[j], c)
    BY <1>7 DEF ConnectStep, Reading, HasRead, ReadsFor, ReadOp
  <2>3. UNCHANGED <<storeIn, replayed>> /\ at' = [at EXCEPT ![c] = i] /\ at[c] = None
    BY <1>7 DEF ConnectStep
  <2>4. at \in [Conn -> Instance \cup {None}] /\ c \notin replayed
    BY <2>3 DEF GatewayTyped, OrderInv, RegistryTyped, DeviceTyped
  <2>5. at'[c] = i /\ \A d \in Conn \ {c} : at'[d] = at[d]
    BY <2>3, <2>4
  <2> QED BY <1>b, <1>m, <2>1, <2>2, <2>3, <2>4, <2>5
<1>8. ASSUME NEW closed \in SUBSET Conn, Drop(closed) PROVE Stay
  BY <1>8 DEF Drop, Stay
<1>9. ASSUME NEW c \in Conn, CloseStep(c) PROVE OneRead'
  <2>1. {c} \in SUBSET Conn
    OBVIOUS
  <2> QED BY <1>9, <1>a, <1>b, <1>8, <2>1 DEF CloseStep
<1>10. ASSUME NEW i \in Instance, ExitStep(i) PROVE OneRead'
  <2>1. \A j \in Instance : storeOut'[j] \in {storeOut[j], <<>>} /\ storeIn'[j] \in {storeIn[j], <<>>}
    BY <1>10 DEF ExitStep, Exit, GatewayTyped, StoreTyped
  <2>2. OutKept /\ InKept
    BY <1>z, <2>1 DEF OutKept, InKept, OneRead
  <2>3. Drop(Local(i)) /\ Local(i) \in SUBSET Conn
    BY <1>10 DEF ExitStep, Exit, Local
  <2> QED BY <1>a, <1>8, <2>2, <2>3
<1>11. ASSUME NEW i \in Instance, OutageStep(i) PROVE OneRead'
  <2>1. \A j \in Instance : storeOut'[j] \in {storeOut[j], <<>>}
    BY <1>11 DEF OutageStep, GatewayTyped, StoreTyped
  <2>2. OutKept
    BY <1>z, <2>1 DEF OutKept, OneRead
  <2> QED BY <1>11, <1>a, <1>b, <2>2 DEF OutageStep
<1>12. ASSUME UNCHANGED <<at, storeOut, storeIn, replayed>> PROVE OneRead'
  BY <1>12, <1>a, <1>b
<1>13. ASSUME NEW i \in Instance, BlipStep(i) \/ PublishStep(i) \/ MessageStep(i) \/ SubscribeStep(i) PROVE OneRead'
  BY <1>12, <1>13 DEF BlipStep, PublishStep, MessageStep, SubscribeStep, ChannelUnchanged
<1>14. CASE OtherStep
  BY <1>12, <1>14 DEF OtherStep
<1> QED BY <1>1, <1>2, <1>3, <1>4, <1>5, <1>6, <1>7, <1>9, <1>10, <1>11, <1>13, <1>14, EveryStep DEF StepKinds

(* A closed socket shows nothing after any step.                           *)
LEMMA ClosedStep ==
  ASSUME GatewayTyped, ClosedEmpty, OneRead, [Next]_vars
  PROVE  ClosedEmpty'
<1>1. shown \in [Conn -> Snapshot] /\ at \in [Conn -> Instance \cup {None}] /\ None \notin Instance
  BY RedisAssumption DEF GatewayTyped, DeviceTyped, OrderInv, RegistryTyped
<1>2. ASSUME NEW closed \in SUBSET Conn, Drop(closed) PROVE ClosedEmpty'
  BY <1>1, <1>2 DEF Drop, ClosedEmpty
<1>3. ASSUME at' = at, shown' = shown PROVE ClosedEmpty'
  BY <1>3 DEF ClosedEmpty
<1>4. ASSUME at' = at, NEW i \in Instance, NEW n, NEW L, Sent(i, n, L) PROVE ClosedEmpty'
  BY <1>1, <1>4 DEF ClosedEmpty, Sent, Local
<1>5. ASSUME NEW i \in Instance, NEW f, RelayStep(i, f) PROVE ClosedEmpty'
  <2>1. PICK L : L = log'
    OBVIOUS
  <2> QED BY <1>4, <1>5, <2>1 DEF RelayStep, Relay
<1>6. ASSUME NEW i \in Instance, MessageStep(i) PROVE ClosedEmpty'
  <2>1. at' = at /\ (shown' = shown \/ Sent(i, Head(subIn[i]), log))
    BY <1>6 DEF MessageStep, ChannelUnchanged, OnMessage
  <2>2. PICK n, L : n = Head(subIn[i]) /\ L = log
    OBVIOUS
  <2> QED BY <1>3, <1>4, <2>1, <2>2
<1>7. ASSUME NEW i \in Instance, NEW op, NEW stale, ReplayStep(i, op, stale) PROVE ClosedEmpty'
  <2>1. at' = at /\ \A d \in Conn : at[d] # i => shown'[d] = shown[d]
    BY <1>7 DEF ReplayStep, ReplaySends, ReplayIdle
  <2> QED BY <1>1, <2>1 DEF ClosedEmpty
<1>8. ASSUME NEW i \in Instance, NEW c \in Conn, ConnectStep(c, i) PROVE ClosedEmpty'
  BY <1>1, <1>8 DEF ConnectStep, ClosedEmpty
<1>9. ASSUME NEW c \in Conn, CloseStep(c) PROVE ClosedEmpty'
  <2>1. {c} \in SUBSET Conn
    OBVIOUS
  <2> QED BY <1>2, <1>9, <2>1 DEF CloseStep
<1>10. ASSUME NEW i \in Instance, ExitStep(i) PROVE ClosedEmpty'
  BY <1>2, <1>10 DEF ExitStep, Exit, Local
<1>11. ASSUME NEW i \in Instance,
              RefuseStep(i) \/ WriteStep(i) \/ GetStep(i) \/ GetAllStep(i) \/ PruneStep(i)
                \/ OutageStep(i) \/ BlipStep(i) \/ PublishStep(i) \/ SubscribeStep(i)
       PROVE  ClosedEmpty'
  BY <1>3, <1>11 DEF RefuseStep, WriteStep, GetStep, GetAllStep, PruneStep, StoreUnchanged, OutageStep, BlipStep,
       PublishStep, SubscribeStep, ChannelUnchanged
<1>12. ASSUME NEW i \in Instance, NEW h, NEW m, AskStep(i, h, m) PROVE ClosedEmpty'
  BY <1>3, <1>12 DEF AskStep
<1>13. CASE OtherStep
  BY <1>3, <1>13 DEF OtherStep
<1> QED BY <1>5, <1>6, <1>7, <1>8, <1>9, <1>10, <1>11, <1>12, <1>13, EveryStep DEF StepKinds

-----------------------------------------------------------------------------
(* What a socket shows.                                                    *)

CleanFor(c, f) == f \notin dirty[c] \cup torn \cup expired /\ Author[f] # Who[c]
ReadsHold(c, f) ==
  \A i \in Instance : \A x \in ToSet(storeOut[i]) \cup ToSet(storeIn[i]) :
    ReadsFor(x, c) /\ x.op # "getall" => x.snap[f] = hash[f]

(* While a socket joins, no frame of a field that stays clean for it is    *)
(* under way: what it was or will be replayed is what the snapshot holds.  *)
Joins(c) ==
  \A f \in Field : CleanFor(c, f) =>
    /\ f \notin Fields(UnderWay)
    /\ c \in replayed => shown[c][f] = hash[f]
    /\ c \notin replayed => shown[c][f] = None /\ ReadsHold(c, f)

(* Frames of other instances on their way to the sockets of instance i.    *)
Due(i) ==
  {n \in (UNION {ToSet(pubOut[j]) : j \in Instance \ {i}}) \cup ToSet(subIn[i]) : log[n].via # i}

(* A frame of another instance is pushed to instance i, and a later one of *)
(* its field is neither behind it there nor still to be published.         *)
Outrun(i, n, m) ==
  /\ n < m /\ log[m].field = log[n].field /\ log[n].via # i
  /\ m \notin ToSet(pubOut[log[m].via])
  /\ \E q \in 1 .. Len(subIn[i]) :
       subIn[i][q] = n /\ \A r \in q + 1 .. Len(subIn[i]) : subIn[i][r] # m

(* Afterwards it shows the latest frame that it is sent, or that frame is  *)
(* on its way to it, behind the earlier ones wherever these come once more.*)
Follows(c, i) ==
  \A f \in Field, n \in DOMAIN log : log[n].field = f /\ CleanFor(c, f) =>
    /\ LatestFor(Who[c], n) => n \in Due(i) \/ shown[c][f] = log[n].value
    /\ n \in Due(i) => \A m \in DOMAIN log : n < m /\ log[m].field = f => m \in Due(i)
    /\ \A m \in DOMAIN log : ~Outrun(i, n, m)
Watches(c, i) == at[c] = i => (Joining(c) => Joins(c)) /\ (~Joining(c) => Follows(c, i))
JoinInv == \A c \in Conn, i \in Instance : Watches(c, i)

(* Frames on their way are under way.                                      *)
LEMMA DueUnderWay ==
  ASSUME NEW i \in Instance
  PROVE  Due(i) \subseteq UnderWay /\ Due(i)' \subseteq UnderWay'
<1>1. Due(i) \subseteq UnderWay
  BY DEF Due, UnderWay, Queued
<1>2. Due(i)' \subseteq UnderWay'
  BY DEF Due, UnderWay, Queued
<1> QED BY <1>1, <1>2

(* A step that relays nothing leaves nothing more under way.               *)
LEMMA NothingRelayed ==
  ASSUME GatewayTyped, [Next]_vars, log' = log
  PROVE  /\ UnderWay' \subseteq UnderWay
         /\ torn \subseteq torn' /\ expired \subseteq expired'
         /\ Fields(UnderWay)' \subseteq Fields(UnderWay)
<1>1. ASSUME NEW i \in Instance, NEW f, RelayStep(i, f) PROVE FALSE
  BY <1>1 DEF RelayStep, Relayed
<1>2. UnderWay' \subseteq UnderWay /\ torn \subseteq torn' /\ expired \subseteq expired'
  BY <1>1, QueuesStep
<1> QED BY <1>2 DEF Fields

(* A step that a socket does not notice.                                   *)
LEMMA Unnoticed ==
  ASSUME GatewayTyped, JoinInv, [Next]_vars, log' = log, NEW c \in Conn, NEW i \in Instance,
         at[c] = i, at'[c] = i, i \in subs' <=> i \in subs, subOut'[i] = subOut[i],
         c \in replayed' <=> c \in replayed, shown'[c] = shown[c], dirty[c] \subseteq dirty'[c],
         ~Joining(c) => Due(i)' \subseteq Due(i) /\ \A n \in Due(i) : n \in Due(i)' \/ log[n].field \in torn',
         ~Joining(c) => \A n, m \in DOMAIN log : Outrun(i, n, m)' => Outrun(i, n, m) \/ log[n].field \in torn',
         \A f \in Field : f \notin Fields(UnderWay) /\ f \notin expired' => hash'[f] = hash[f],
         \A j \in Instance : \A x \in ToSet(storeOut'[j]) \cup ToSet(storeIn'[j]) :
           ReadsFor(x, c) /\ x.op # "getall" => \A f \in Field \ expired' :
             x.snap[f] = hash[f]
               \/ \E y \in ToSet(storeOut[j]) \cup ToSet(storeIn[j]) :
                    ReadsFor(y, c) /\ y.op # "getall" /\ y.snap[f] = x.snap[f]
  PROVE  Watches(c, i)'
<1>1. /\ UnderWay' \subseteq UnderWay /\ torn \subseteq torn' /\ expired \subseteq expired'
      /\ Fields(UnderWay)' \subseteq Fields(UnderWay)
  BY NothingRelayed
<1>2. \A f : CleanFor(c, f)' => CleanFor(c, f) /\ f \notin torn' \cup expired'
  BY <1>1 DEF CleanFor
<1>3. Joining(c)' <=> Joining(c)
  BY DEF Joining
<1>4. ASSUME Joins(c) PROVE Joins(c)'
  <2> SUFFICES ASSUME NEW f \in Field, CleanFor(c, f)'
               PROVE  /\ f \notin Fields(UnderWay)'
                      /\ c \in replayed' => shown'[c][f] = hash'[f]
                      /\ c \notin replayed' => shown'[c][f] = None /\ ReadsHold(c, f)'
    BY DEF Joins
  <2>1. /\ f \notin Fields(UnderWay) /\ hash'[f] = hash[f] /\ f \notin expired'
        /\ c \in replayed => shown[c][f] = hash[f]
        /\ c \notin replayed => shown[c][f] = None /\ ReadsHold(c, f)
    BY <1>2, <1>4 DEF Joins
  <2>2. ReadsHold(c, f) => ReadsHold(c, f)'
    BY <2>1 DEF ReadsHold
  <2> QED BY <1>1, <2>1, <2>2
<1>5. ASSUME ~Joining(c), Follows(c, i) PROVE Follows(c, i)'
  <2> SUFFICES ASSUME NEW f \in Field, NEW n \in DOMAIN log, log[n].field = f, CleanFor(c, f)'
               PROVE  /\ LatestFor(Who[c], n)' => n \in Due(i)' \/ shown'[c][f] = log[n].value
                      /\ n \in Due(i)' => \A m \in DOMAIN log : n < m /\ log[m].field = f => m \in Due(i)'
                      /\ \A m \in DOMAIN log : ~Outrun(i, n, m)'
    BY DEF Follows
  <2>1. LatestFor(Who[c], n)' => LatestFor(Who[c], n)
    BY DEF LatestFor
  <2>2. \A m : log[m].field = f => (m \in Due(i)' <=> m \in Due(i))
    BY <1>2, <1>5
  <2>3. \A m \in DOMAIN log : Outrun(i, n, m)' => Outrun(i, n, m)
    BY <1>2, <1>5
  <2> QED BY <1>2, <1>5, <2>1, <2>2, <2>3 DEF Follows
<1> QED BY <1>3, <1>4, <1>5 DEF JoinInv, Watches

(* Frames that are due stay due when the channel does not move.            *)
LEMMA DueSame ==
  ASSUME UNCHANGED <<log, pubOut, subIn>>
  PROVE  \A i \in Instance : Due(i)' = Due(i) /\ \A n, m : Outrun(i, n, m)' <=> Outrun(i, n, m)
BY DEF Due, Outrun

(* Steps of Redis and replies that no socket notices.                      *)
LEMMA UnnoticedStep ==
  ASSUME GatewayTyped, StoreInv, JoinInv, [Next]_vars,
         UNCHANGED <<at, subs, subOut, replayed, shown, dirty, log, pubOut, subIn>>,
         hash' = hash \/ \E j \in Instance : WriteStep(j) \/ PruneStep(j),
         \A c \in Conn, j \in Instance : \A x \in ToSet(storeOut'[j]) \cup ToSet(storeIn'[j]) :
           ReadsFor(x, c) /\ x.op # "getall" => \A f \in Field \ expired' :
             x.snap[f] = hash[f]
               \/ \E y \in ToSet(storeOut[j]) \cup ToSet(storeIn[j]) :
                    ReadsFor(y, c) /\ y.op # "getall" /\ y.snap[f] = x.snap[f]
  PROVE  JoinInv'
<1>1. ASSUME NEW f \in Field, f \notin Fields(UnderWay), f \notin expired' PROVE hash'[f] = hash[f]
  <2>0. hash \in [Field -> Value]
    BY DEF GatewayTyped, StoreTyped, Snapshot
  <2>1. ASSUME NEW j \in Instance, WriteStep(j) PROVE hash'[f] = hash[f]
    <3>1. PICK x : x = Head(storeOut[j])
      OBVIOUS
    <3>2. /\ hash' = [hash EXCEPT ![log[x.n].field] = log[x.n].value]
          /\ x \in ToSet(storeOut[j]) /\ x.op = "write"
      BY <2>1, <3>1 DEF WriteStep, Does
    <3>3. x.n \in UnderWay
      BY <3>2 DEF UnderWay, Queued
    <3> QED BY <1>1, <2>0, <3>2, <3>3 DEF Fields
  <2>2. ASSUME NEW j \in Instance, PruneStep(j) PROVE hash'[f] = hash[f]
    <3>1. PICK x : x = Head(storeOut[j])
      OBVIOUS
    <3>2. hash' = [hash EXCEPT ![x.field] = None] /\ x \in ToSet(storeOut[j]) /\ x.op = "prune"
      BY <2>2, <3>1 DEF PruneStep, Does
    <3>3. x.field \in expired /\ expired \subseteq expired'
      BY <3>2, NothingRelayed DEF StoreInv, PrunesExpired
    <3> QED BY <1>1, <2>0, <3>2, <3>3
  <2> QED BY <2>1, <2>2
<1> SUFFICES ASSUME NEW c \in Conn, NEW i \in Instance, at'[c] = i PROVE Watches(c, i)'
  BY DEF JoinInv, Watches
<1> QED BY <1>1, DueSame, Unnoticed

(* Commands and replies that send no socket anything keep what sockets     *)
(* show.                                                                   *)
LEMMA QuietSteps ==
  ASSUME GatewayTyped, StoreInv, JoinInv, [Next]_vars, NEW i \in Instance,
         RefuseStep(i) \/ WriteStep(i) \/ GetStep(i) \/ GetAllStep(i) \/ PruneStep(i) \/ \E h, m : AskStep(i, h, m)
  PROVE  JoinInv'
<1> DEFINE Held(c, j, x) == ReadsFor(x, c) /\ x.op # "getall" => \A f \in Field \ expired' :
             x.snap[f] = hash[f]
               \/ \E y \in ToSet(storeOut[j]) \cup ToSet(storeIn[j]) :
                    ReadsFor(y, c) /\ y.op # "getall" /\ y.snap[f] = x.snap[f]
<1>1. \A c \in Conn, j \in Instance : \A x \in ToSet(storeOut[j]) \cup ToSet(storeIn[j]) : Held(c, j, x)
  OBVIOUS
<1>2. \A c \in Conn, j \in Instance : \A x : x.op \in {"got", "get"} => Held(c, j, x)
  BY DEF ReadsFor, ReadOp
<1>3. /\ UNCHANGED <<at, subs, subOut, replayed, shown, dirty, log, pubOut, subIn>>
      /\ hash' = hash \/ \E j \in Instance : WriteStep(j) \/ PruneStep(j)
  BY DEF RefuseStep, WriteStep, GetStep, GetAllStep, PruneStep, StoreUnchanged, AskStep
<1>4. \A c \in Conn, j \in Instance : \A x \in ToSet(storeOut'[j]) : Held(c, j, x)
  <2>1. ASSUME NEW op, Does(i, op) PROVE \A j \in Instance : \A x \in ToSet(storeOut'[j]) : x \in ToSet(storeOut[j])
    BY <2>1, DoesElements
  <2>2. ASSUME NEW y, Asks(i, y), y.op = "get"
        PROVE  \A j \in Instance : \A x \in ToSet(storeOut'[j]) : x \in ToSet(storeOut[j]) \/ x.op = "get"
    BY <2>2, AsksElements
  <2>3. ASSUME NEW h, NEW m, AskStep(i, h, m) PROVE \E y : Asks(i, y) /\ y.op = "get"
    BY <2>3 DEF AskStep
  <2>4. \A j \in Instance : \A x \in ToSet(storeOut'[j]) : x \in ToSet(storeOut[j]) \/ x.op = "get"
    BY <2>1, <2>2, <2>3 DEF RefuseStep, WriteStep, GetStep, GetAllStep, PruneStep
  <2> HIDE DEF Held
  <2> QED BY <1>1, <1>2, <2>4
<1>5. \A c \in Conn, j \in Instance : \A x \in ToSet(storeIn'[j]) : Held(c, j, x)
  <2>1. CASE storeIn' = storeIn \/ \E op : Takes(i, op)
    <3>1. \A j \in Instance : \A x \in ToSet(storeIn'[j]) : x \in ToSet(storeIn[j])
      BY <2>1, TakesElements
    <3> HIDE DEF Held
    <3> QED BY <1>1, <3>1
  <2>2. ASSUME NEW y, Answers(i, y), \A c \in Conn : Held(c, i, y)
        PROVE  \A c \in Conn, j \in Instance : \A x \in ToSet(storeIn'[j]) : Held(c, j, x)
    <3> HIDE DEF Held
    <3>1. \A j \in Instance : \A x \in ToSet(storeIn'[j]) : x \in ToSet(storeIn[j]) \/ (j = i /\ x = y)
      BY <2>2, AnswersElements
    <3> QED BY <1>1, <2>2, <3>1
  <2>3. CASE GetStep(i)
    <3>1. PICK y : Answers(i, y) /\ y.op = "got"
      BY <2>3 DEF GetStep
    <3> HIDE DEF Held
    <3> QED BY <1>2, <2>2, <3>1
  <2>4. CASE GetAllStep(i)
    <3>1. PICK y : Answers(i, y) /\ y.snap = hash
      BY <2>4 DEF GetAllStep
    <3>2. \A c \in Conn : Held(c, i, y)
      BY <3>1
    <3> HIDE DEF Held
    <3> QED BY <2>2, <3>1, <3>2
  <2>5. CASE PruneStep(i)
    <3>1. PICK x : x = Head(storeOut[i])
      OBVIOUS
    <3>2. PICK y : Answers(i, y) /\ y.conn = x.conn /\ y.snap = x.snap
      BY <2>5, <3>1 DEF PruneStep
    <3>3. x \in ToSet(storeOut[i]) /\ x.op = "prune"
      BY <2>5, <3>1 DEF PruneStep, Does
    <3>4. \A c \in Conn : Held(c, i, y)
      BY <3>2, <3>3 DEF ReadsFor, ReadOp
    <3> HIDE DEF Held
    <3> QED BY <2>2, <3>2, <3>4
  <2> QED BY <2>1, <2>3, <2>4, <2>5 DEF RefuseStep, WriteStep, AskStep
<1> QED BY <1>3, <1>4, <1>5, UnnoticedStep

(* A step at which the queues of the store gain nothing.                   *)
LEMMA PassedBy ==
  ASSUME GatewayTyped, JoinInv, [Next]_vars, log' = log, hash' = hash, NEW c \in Conn, NEW i \in Instance,
         at[c] = i, at'[c] = i, i \in subs' <=> i \in subs, subOut'[i] = subOut[i],
         c \in replayed' <=> c \in replayed, shown'[c] = shown[c], dirty[c] \subseteq dirty'[c],
         ~Joining(c) => Due(i)' \subseteq Due(i) /\ \A n \in Due(i) : n \in Due(i)' \/ log[n].field \in torn',
         ~Joining(c) => \A n, m \in DOMAIN log : Outrun(i, n, m)' => Outrun(i, n, m) \/ log[n].field \in torn',
         \A j \in Instance : /\ ToSet(storeOut'[j]) \subseteq ToSet(storeOut[j])
                             /\ ToSet(storeIn'[j]) \subseteq ToSet(storeIn[j])
  PROVE  Watches(c, i)'
<1>1. \A j \in Instance : \A x \in ToSet(storeOut'[j]) \cup ToSet(storeIn'[j]) :
        x \in ToSet(storeOut[j]) \cup ToSet(storeIn[j])
  OBVIOUS
<1> QED BY <1>1, Unnoticed

(* While no frame of a field is under way, the snapshot holds what a       *)
(* socket was sent last, and the socket shows it.                          *)
LEMMA Current ==
  ASSUME GatewayTyped, StoreInv, RemovalsInv, LogInv, NEW c \in Conn, NEW f \in Field, CleanFor(c, f),
         f \notin Fields(UnderWay), NEW n \in DOMAIN log, log[n].field = f, LatestFor(Who[c], n)
  PROVE  hash[f] = log[n].value
BY HashIsLatestFor DEF CleanFor, Clean

(* A socket that follows a field shows what the snapshot holds once        *)
(* nothing of the field is under way.                                      *)
LEMMA Shows ==
  ASSUME GatewayTyped, StoreInv, Known, RemovalsInv, LogInv, HasLatestFor, NEW c \in Conn, NEW i \in Instance,
         Follows(c, i), NEW f \in Field, CleanFor(c, f), f \notin Fields(UnderWay)
  PROVE  shown[c][f] = hash[f]
<1>0. Who[c] \in Member
  BY DEF Member
<1>1. CASE \E n \in DOMAIN log : log[n].field = f /\ log[n].from # Who[c]
  <2>1. PICK n \in DOMAIN log : log[n].field = f /\ LatestFor(Who[c], n)
    BY <1>0, <1>1 DEF HasLatestFor
  <2>2. n \notin Due(i)
    BY <2>1, DueUnderWay DEF Fields
  <2> QED BY <2>1, <2>2, Current DEF Follows
<1>2. CASE ~\E n \in DOMAIN log : log[n].field = f /\ log[n].from # Who[c]
  <2>1. Author[f] # Who[c]
    BY DEF CleanFor
  <2>2. f \notin Told
    <3>1. CASE f \in Hazard
      BY <1>2, <2>1, <3>1 DEF LogInv
    <3>2. CASE f = Tour
      BY <1>2, <2>1, <3>2 DEF LogInv, Told
    <3> QED BY <3>1, <3>2 DEF Field
  <2> QED BY <2>2 DEF Known, Holds
<1> QED BY <1>1, <1>2

(* A socket goes on joining.                                               *)
LEMMA JoinsOn ==
  ASSUME GatewayTyped, [Next]_vars, log' = log, hash' = hash, NEW c \in Conn, Joins(c),
         c \in replayed' <=> c \in replayed, shown'[c] = shown[c], dirty[c] \subseteq dirty'[c],
         \A j \in Instance : /\ ToSet(storeOut'[j]) \subseteq ToSet(storeOut[j])
                             /\ ToSet(storeIn'[j]) \subseteq ToSet(storeIn[j])
  PROVE  Joins(c)'
<1>1. /\ torn \subseteq torn' /\ expired \subseteq expired'
      /\ Fields(UnderWay)' \subseteq Fields(UnderWay)
  BY NothingRelayed
<1>2. \A f : CleanFor(c, f)' => CleanFor(c, f)
  BY <1>1 DEF CleanFor
<1>3. \A f : ReadsHold(c, f) => ReadsHold(c, f)'
  BY DEF ReadsHold
<1> QED BY <1>1, <1>2, <1>3 DEF Joins

(* A socket that shows the snapshot follows from then on.                  *)
LEMMA CaughtUp ==
  ASSUME GatewayTyped, StoreInv, RemovalsInv, LogInv, [Next]_vars, log' = log, NEW c \in Conn, NEW i \in Instance,
         dirty[c] \subseteq dirty'[c],
         \A f \in Field : CleanFor(c, f)' => f \notin Fields(UnderWay) /\ shown'[c][f] = hash[f]
  PROVE  Follows(c, i)'
<1>1. /\ torn \subseteq torn' /\ expired \subseteq expired'
      /\ Fields(UnderWay)' \subseteq Fields(UnderWay)
  BY NothingRelayed
<1>2. \A f : CleanFor(c, f)' => CleanFor(c, f)
  BY <1>1 DEF CleanFor
<1> SUFFICES ASSUME NEW f \in Field, NEW n \in DOMAIN log, log[n].field = f, CleanFor(c, f)'
             PROVE  /\ LatestFor(Who[c], n)' => n \in Due(i)' \/ shown'[c][f] = log[n].value
                    /\ n \in Due(i)' => \A m \in DOMAIN log : n < m /\ log[m].field = f => m \in Due(i)'
                    /\ \A m \in DOMAIN log : ~Outrun(i, n, m)'
  BY DEF Follows
<1>3. f \notin Fields(UnderWay) /\ f \notin Fields(UnderWay)' /\ shown'[c][f] = hash[f] /\ CleanFor(c, f)
  BY <1>1, <1>2
<1>4. n \notin Due(i)'
  BY <1>3, DueUnderWay DEF Fields
<1>5. LatestFor(Who[c], n)' => LatestFor(Who[c], n)
  BY DEF LatestFor
<1>6. ASSUME NEW m \in DOMAIN log, Outrun(i, n, m)' PROVE FALSE
  <2>1. log'[n].via # i
    BY <1>6 DEF Outrun
  <2>2. PICK q \in 1 .. Len(subIn'[i]) : subIn'[i][q] = n
    BY <1>6 DEF Outrun
  <2>3. subIn'[i] \in Seq(1 .. Len(log'))
    BY TypedStep, StoreQueues DEF GatewayTyped, OrderInv, QueuesTyped
  <2>4. n \in ToSet(subIn'[i])
    BY <2>2, <2>3 DEF ToSet
  <2> QED BY <1>4, <2>1, <2>4 DEF Due
<1> QED BY <1>3, <1>4, <1>5, <1>6, Current

(* Later frames of a field that is not torn are published behind those of  *)
(* it that still are.                                                      *)
LEMMA PublishedBehind ==
  ASSUME GatewayTyped, StoreInv, NEW j \in Instance, NEW n \in ToSet(pubOut[j]),
         NEW m \in DOMAIN log, n < m, log[m].field = log[n].field, log[n].field \notin torn
  PROVE  log[n].via = j /\ log[m].via = j /\ m \in ToSet(pubOut[j])
<1>1. n \in UnderWay
  BY DEF UnderWay, Queued
<1>2. log[n].via = j /\ log[m].via = j
  BY <1>1 DEF StoreInv, SameWay, GatewayTyped, OrderInv, QueuesTyped
<1>3. DOMAIN log = 1 .. Len(log)
  BY StoreQueues
<1> QED BY <1>2, <1>3 DEF GatewayTyped, OrderInv, QueuesTyped

(* Every frame of the log went in through an instance.                     *)
LEMMA ViaInstance ==
  ASSUME GatewayTyped, NEW m \in DOMAIN log
  PROVE  log[m].via \in Instance
<1>1. log \in Seq(Entry) /\ DOMAIN log = 1 .. Len(log)
  BY StoreQueues DEF GatewayTyped, StoreTyped
<1>2. log[m] \in Entry
  BY <1>1
<1> QED BY <1>2 DEF Entry

(* Redis pushes a frame to the subscribers: it stays on its way.           *)
LEMMA PublishDue ==
  ASSUME GatewayTyped, StoreInv, [Next]_vars, NEW j \in Instance, RedisPublish(j),
         NEW i \in Instance, i \in subs
  PROVE  /\ Due(i)' \subseteq Due(i) /\ Due(i) \subseteq Due(i)'
         /\ \A n, m \in DOMAIN log : Outrun(i, n, m)' => Outrun(i, n, m) \/ log[n].field \in torn'
<1>1. PICK n0 : n0 = Head(pubOut[j])
  OBVIOUS
<1>2. /\ pubOut[j] # <<>> /\ pubOut[j] \in Seq(1 .. Len(log)) /\ pubOut' = [pubOut EXCEPT ![j] = Tail(@)]
      /\ subIn' = [k \in Instance |-> IF k \in subs THEN Append(subIn[k], n0) ELSE subIn[k]]
      /\ pubOut \in [Instance -> Seq(1 .. Len(log))]
      /\ log' = log /\ torn' = torn
  BY <1>1, StoreQueues DEF RedisPublish, GatewayTyped, OrderInv, QueuesTyped, histVars
<1>3. /\ ToSet(pubOut[j]) = {n0} \cup ToSet(pubOut'[j]) /\ n0 \in 1 .. Len(log)
      /\ \A k \in Instance \ {j} : pubOut'[k] = pubOut[k]
  BY <1>1, <1>2, Popped
<1>4. log[n0].via = j
  BY <1>3 DEF GatewayTyped, OrderInv, QueuesTyped
<1>5. subIn'[i] = Append(subIn[i], n0) /\ subIn[i] \in Seq(1 .. Len(log))
  BY <1>2, StoreQueues
<1>6. /\ ToSet(subIn'[i]) = ToSet(subIn[i]) \cup {n0}
      /\ Len(subIn[i]) \in Nat /\ Len(subIn'[i]) = Len(subIn[i]) + 1 /\ subIn'[i][Len(subIn[i]) + 1] = n0
      /\ \A q \in 1 .. Len(subIn[i]) : subIn'[i][q] = subIn[i][q]
  BY <1>3, <1>5, Pushed
<1>7. Due(i)' \subseteq Due(i) /\ Due(i) \subseteq Due(i)'
  <2>1. CASE i = j
    BY <1>2, <1>3, <1>4, <1>6, <2>1 DEF Due
  <2>2. CASE i # j
    <3>1. (UNION {ToSet(pubOut[k]) : k \in Instance \ {i}}) \cup ToSet(subIn[i])
            = (UNION {ToSet(pubOut'[k]) : k \in Instance \ {i}}) \cup ToSet(subIn'[i])
      BY <1>3, <1>6, <2>2
    <3> QED BY <1>2, <3>1 DEF Due
  <2> QED BY <2>1, <2>2
<1>8. ASSUME NEW n \in DOMAIN log, NEW m \in DOMAIN log, Outrun(i, n, m)', log[n].field \notin torn
      PROVE  Outrun(i, n, m)
  <2>1. /\ n < m /\ log[m].field = log[n].field /\ log[n].via # i /\ m \notin ToSet(pubOut'[log[m].via])
    BY <1>2, <1>8 DEF Outrun
  <2>2. PICK q \in 1 .. Len(subIn'[i]) :
          subIn'[i][q] = n /\ \A r \in q + 1 .. Len(subIn'[i]) : subIn'[i][r] # m
    BY <1>8 DEF Outrun
  <2>3. CASE q = Len(subIn[i]) + 1
    <3>1. n = n0 /\ n \in ToSet(pubOut[j])
      BY <1>3, <1>6, <2>2, <2>3
    <3>2. log[m].via = j /\ m \in ToSet(pubOut[j])
      BY <1>8, <2>1, <3>1, PublishedBehind
    <3>3. m # n0
      BY <1>3, <2>1, <3>1
    <3>4. m \in ToSet(pubOut'[j])
      BY <1>3, <3>2, <3>3
    <3> QED BY <2>1, <3>2, <3>4
  <2>4. CASE q # Len(subIn[i]) + 1
    <3>1. q \in 1 .. Len(subIn[i]) /\ Len(subIn[i]) + 1 \in q + 1 .. Len(subIn'[i])
      BY <1>6, <2>2, <2>4
    <3>2. subIn[i][q] = n /\ \A r \in q + 1 .. Len(subIn[i]) : subIn[i][r] # m
      <4>1. subIn[i][q] = n
        BY <1>6, <2>2, <3>1
      <4>2. ASSUME NEW r \in q + 1 .. Len(subIn[i]) PROVE subIn[i][r] # m
        <5>1. r \in q + 1 .. Len(subIn'[i]) /\ r \in 1 .. Len(subIn[i])
          BY <1>6, <2>2, <3>1, <4>2
        <5> QED BY <1>6, <2>2, <5>1
      <4> QED BY <4>1, <4>2
    <3>4. m # n0
      BY <1>6, <2>2, <3>1
    <3>5. log[m].via \in Instance
      BY ViaInstance
    <3>3. m \notin ToSet(pubOut[log[m].via])
      BY <1>3, <2>1, <3>4, <3>5
    <3> QED BY <2>1, <3>1, <3>2, <3>3 DEF Outrun
  <2> QED BY <2>3, <2>4
<1> QED BY <1>2, <1>7, <1>8

(* What is published again was due before, and is due behind it.           *)
LEMMA ResendDue ==
  ASSUME GatewayTyped, StoreInv, [Next]_vars, NEW j \in Instance, PublisherBlip(j),
         NEW i \in Instance, i \in subs
  PROVE  /\ Due(i)' \subseteq Due(i) /\ Due(i) \subseteq Due(i)'
         /\ \A n, m \in DOMAIN log : Outrun(i, n, m)' => Outrun(i, n, m) \/ log[n].field \in torn'
<1>1. PICK k \in 1 .. Len(pubOut[j]) :
        subIn' = [l \in Instance |-> IF l \in subs THEN subIn[l] \o SubSeq(pubOut[j], 1, k) ELSE subIn[l]]
  BY DEF PublisherBlip
<1>2. UNCHANGED <<log, torn, pubOut>>
  BY DEF PublisherBlip
<1>3. pubOut[j] \in Seq(1 .. Len(log)) /\ subIn[i] \in Seq(1 .. Len(log))
  BY StoreQueues
<1>4. PICK sent : sent = ToSet(SubSeq(pubOut[j], 1, k))
  OBVIOUS
<1>5. subIn'[i] = subIn[i] \o SubSeq(pubOut[j], 1, k)
  BY <1>1
<1>6. /\ ToSet(subIn'[i]) = ToSet(subIn[i]) \cup sent /\ sent \subseteq ToSet(pubOut[j])
      /\ \A x \in sent : \E q \in 1 .. k : x = pubOut[j][q]
      /\ \A q \in 1 .. k : pubOut[j][q] \in sent
      /\ Len(subIn[i]) \in Nat /\ k \in Nat /\ Len(subIn'[i]) = Len(subIn[i]) + k
      /\ \A q \in 1 .. Len(subIn[i]) : subIn'[i][q] = subIn[i][q]
      /\ \A q \in Len(subIn[i]) + 1 .. Len(subIn[i]) + k : subIn'[i][q] = pubOut[j][q - Len(subIn[i])]
  <2>1. k \in 1 .. Len(pubOut[j])
    BY <1>1
  <2>2. /\ sent \subseteq ToSet(pubOut[j])
        /\ \A x \in sent : \E q \in 1 .. k : x = pubOut[j][q]
        /\ \A q \in 1 .. k : pubOut[j][q] \in sent
    <3>0. PICK u : u = SubSeq(pubOut[j], 1, k)
      OBVIOUS
    <3>1. PICK S, t : S = 1 .. Len(log) /\ t = pubOut[j]
      OBVIOUS
    <3>2. t \in Seq(S) /\ Len(t) \in Nat /\ DOMAIN t = 1 .. Len(t) /\ k \in Nat /\ k \in 1 .. Len(t)
      BY <1>3, <2>1, <3>1, LenProperties
    <3>3. u \in Seq(S) /\ Len(u) = k /\ \A q \in 1 .. k : u[q] = t[q]
      BY <3>0, <3>1, <3>2, Prefix
    <3>4. DOMAIN u = 1 .. k
      BY <3>3, LenProperties
    <3>5. (\A q \in 1 .. k : t[q] \in ToSet(u)) /\ \A x \in ToSet(u) : \E q \in 1 .. k : x = t[q]
      BY <3>3, <3>4 DEF ToSet
    <3>6. ASSUME NEW x \in ToSet(u) PROVE x \in ToSet(t)
      <4>1. PICK q \in 1 .. k : x = t[q]
        BY <3>5
      <4>2. q \in DOMAIN t
        BY <3>2
      <4> QED BY <4>1, <4>2 DEF ToSet
    <3> QED BY <1>4, <3>0, <3>1, <3>5, <3>6
  <2>3. /\ Len(subIn[i]) \in Nat /\ k \in Nat /\ Len(subIn[i] \o SubSeq(pubOut[j], 1, k)) = Len(subIn[i]) + k
        /\ \A q \in 1 .. Len(subIn[i]) : (subIn[i] \o SubSeq(pubOut[j], 1, k))[q] = subIn[i][q]
        /\ \A q \in Len(subIn[i]) + 1 .. Len(subIn[i]) + k :
             (subIn[i] \o SubSeq(pubOut[j], 1, k))[q] = pubOut[j][q - Len(subIn[i])]
        /\ ToSet(subIn[i] \o SubSeq(pubOut[j], 1, k)) = ToSet(subIn[i]) \cup ToSet(SubSeq(pubOut[j], 1, k))
    <3>1. PICK S, s, t : S = 1 .. Len(log) /\ s = subIn[i] /\ t = pubOut[j] /\ s \in Seq(S) /\ t \in Seq(S)
      BY <1>3
    <3>2. k \in 1 .. Len(t)
      BY <2>1, <3>1
    <3>3. /\ Len(s) \in Nat /\ k \in Nat /\ Len(s \o SubSeq(t, 1, k)) = Len(s) + k
          /\ \A q \in 1 .. Len(s) : (s \o SubSeq(t, 1, k))[q] = s[q]
          /\ \A q \in Len(s) + 1 .. Len(s) + k : (s \o SubSeq(t, 1, k))[q] = t[q - Len(s)]
          /\ ToSet(s \o SubSeq(t, 1, k)) = ToSet(s) \cup ToSet(SubSeq(t, 1, k))
      BY <3>1, <3>2, Prefixed
    <3> QED BY <3>1, <3>3
  <2> QED BY <1>4, <1>5, <2>2, <2>3
<1>7. \A n \in sent : log[n].via = j
  BY <1>6 DEF GatewayTyped, OrderInv, QueuesTyped
<1>8. Due(i)' \subseteq Due(i) /\ Due(i) \subseteq Due(i)'
  <2>1. Due(i) \subseteq Due(i)'
    BY <1>2, <1>6 DEF Due
  <2>2. ASSUME NEW n \in Due(i)' PROVE n \in Due(i)
    <3>1. log[n].via # i
      BY <1>2, <2>2 DEF Due
    <3>2. CASE n \in sent
      BY <1>6, <1>7, <3>1, <3>2 DEF Due
    <3>3. CASE n \notin sent
      BY <1>2, <1>6, <2>2, <3>3 DEF Due
    <3> QED BY <3>2, <3>3
  <2> QED BY <2>1, <2>2
<1>9. ASSUME NEW n \in DOMAIN log, NEW m \in DOMAIN log, Outrun(i, n, m)', log[n].field \notin torn
      PROVE  Outrun(i, n, m)
  <2>1. /\ n < m /\ log[m].field = log[n].field /\ log[n].via # i /\ m \notin ToSet(pubOut[log[m].via])
    BY <1>2, <1>9 DEF Outrun
  <2>2. PICK q \in 1 .. Len(subIn'[i]) :
          subIn'[i][q] = n /\ \A r \in q + 1 .. Len(subIn'[i]) : subIn'[i][r] # m
    BY <1>9 DEF Outrun
  <2>3. CASE q \in 1 .. Len(subIn[i])
    <3>1. subIn[i][q] = n /\ \A r \in q + 1 .. Len(subIn[i]) : subIn[i][r] # m
      <4>1. subIn[i][q] = n
        BY <1>6, <2>2, <2>3
      <4>2. ASSUME NEW r \in q + 1 .. Len(subIn[i]) PROVE subIn[i][r] # m
        <5>1. r \in q + 1 .. Len(subIn'[i]) /\ r \in 1 .. Len(subIn[i])
          BY <1>6, <2>2, <2>3, <4>2
        <5> QED BY <1>6, <2>2, <5>1
      <4> QED BY <4>1, <4>2
    <3> QED BY <2>1, <2>3, <3>1 DEF Outrun
  <2>4. CASE q \notin 1 .. Len(subIn[i])
    <3>1. q \in Len(subIn[i]) + 1 .. Len(subIn[i]) + k /\ q - Len(subIn[i]) \in 1 .. k
      BY <1>6, <2>2, <2>4
    <3>2. n \in ToSet(pubOut[j])
      BY <1>6, <2>2, <3>1
    <3> QED BY <1>9, <2>1, <3>2, PublishedBehind
  <2> QED BY <2>3, <2>4
<1> QED BY <1>2, <1>8, <1>9

(* Publishing, once or again, is not noticed by the sockets.               *)
LEMMA PublishWatched ==
  ASSUME GatewayTyped, StoreInv, JoinInv, [Next]_vars, NEW j \in Instance, PublishStep(j)
  PROVE  JoinInv'
<1>1. UNCHANGED <<at, subs, subOut, hash, storeOut, storeIn, shown, replayed, log, dirty, torn, expired>>
  BY DEF PublishStep, ChannelUnchanged
<1>2. RedisPublish(j) \/ PublisherBlip(j)
  BY DEF PublishStep
<1> SUFFICES ASSUME NEW c \in Conn, NEW i \in Instance, at'[c] = i PROVE Watches(c, i)'
  BY DEF JoinInv, Watches
<1>3. ~Joining(c) => i \in subs
  BY <1>1, RedisAssumption DEF Joining
<1>4. i \in subs => /\ Due(i)' \subseteq Due(i) /\ Due(i) \subseteq Due(i)'
                    /\ \A n, m \in DOMAIN log : Outrun(i, n, m)' => Outrun(i, n, m) \/ log[n].field \in torn'
  BY <1>2, PublishDue, ResendDue
<1> QED BY <1>1, <1>3, <1>4, PassedBy

(* A message is sent to the sockets that follow: what they show is no      *)
(* older than what they showed.                                            *)
LEMMA MessageWatched ==
  ASSUME GatewayTyped, StoreInv, JoinInv, [Next]_vars, NEW i \in Instance, MessageStep(i)
  PROVE  JoinInv'
<1>1. PICK N : N = Head(subIn[i])
  OBVIOUS
<1>2. /\ UNCHANGED <<at, subs, subOut, pubOut, hash, storeOut, storeIn, replayed, log, dirty, torn, expired>>
      /\ subIn[i] # <<>> /\ subIn' = [subIn EXCEPT ![i] = Tail(@)]
      /\ \/ log[N].via = i /\ shown' = shown
         \/ log[N].via # i /\ Sent(i, N, log)
  BY <1>1 DEF MessageStep, ChannelUnchanged, OnMessage
<1>3. /\ Len(log) \in Nat /\ DOMAIN log = 1 .. Len(log) /\ subIn[i] \in Seq(1 .. Len(log))
      /\ subIn \in [Instance -> Seq(1 .. Len(log))]
      /\ shown \in [Conn -> Snapshot] /\ log \in Seq(Entry)
  BY StoreQueues DEF GatewayTyped, OrderInv, QueuesTyped, DeviceTyped, StoreTyped
<1>4. /\ ToSet(subIn[i]) = {N} \cup ToSet(subIn'[i]) /\ N \in 1 .. Len(log) /\ subIn'[i] = Tail(subIn[i])
      /\ Len(subIn[i]) \in Nat \ {0} /\ Len(subIn'[i]) = Len(subIn[i]) - 1
      /\ \A q \in 1 .. Len(subIn[i]) - 1 : subIn'[i][q] = subIn[i][q + 1]
      /\ \A k \in Instance \ {i} : subIn'[k] = subIn[k]
  BY <1>1, <1>2, <1>3, Popped
<1>5. \A k \in Instance \ {i} : \A n, m : Outrun(k, n, m)' => Outrun(k, n, m)
  BY <1>2, <1>4 DEF Outrun
<1>6. ASSUME NEW n, NEW m, Outrun(i, n, m)' PROVE Outrun(i, n, m)
  <2>1. PICK q \in 1 .. Len(subIn'[i]) :
          subIn'[i][q] = n /\ \A r \in q + 1 .. Len(subIn'[i]) : subIn'[i][r] # m
    BY <1>6 DEF Outrun
  <2>2. q + 1 \in 1 .. Len(subIn[i]) /\ subIn[i][q + 1] = n
    BY <1>4, <2>1
  <2>3. ASSUME NEW r \in (q + 1) + 1 .. Len(subIn[i]) PROVE subIn[i][r] # m
    <3>1. r - 1 \in q + 1 .. Len(subIn'[i]) /\ r - 1 \in 1 .. Len(subIn[i]) - 1 /\ (r - 1) + 1 = r
      BY <1>4, <2>1, <2>3
    <3> QED BY <1>4, <2>1, <3>1
  <2>4. n < m /\ log[m].field = log[n].field /\ log[n].via # i /\ m \notin ToSet(pubOut[log[m].via])
    BY <1>2, <1>6 DEF Outrun
  <2> QED BY <2>2, <2>3, <2>4 DEF Outrun
<1>8. \A d \in Conn : at[d] # i => shown'[d] = shown[d]
  BY <1>2 DEF Sent, Local
<1>9. \A k \in Instance \ {i} : Due(k)' = Due(k)
  BY <1>2, <1>4 DEF Due
<1>10. Due(i) \subseteq Due(i)' \cup {N} /\ Due(i)' \subseteq Due(i)
  BY <1>2, <1>4 DEF Due
<1> SUFFICES ASSUME NEW c \in Conn, NEW k \in Instance, at'[c] = k PROVE Watches(c, k)'
  BY DEF JoinInv, Watches
<1>11. CASE k # i
  BY <1>2, <1>5, <1>8, <1>9, <1>11, PassedBy
<1>12. CASE k = i /\ log[N].via = i
  <2>1. N \notin Due(i)
    BY <1>12 DEF Due
  <2> QED BY <1>2, <1>6, <1>10, <1>12, <2>1, PassedBy
<1>13. CASE k = i /\ log[N].via # i
  <2>1. log[N] \in Entry
    BY <1>3, <1>4
  <2>2. \A f \in Field : shown'[c][f] = IF Who[c] # log[N].from /\ f = log[N].field
                                        THEN log[N].value ELSE shown[c][f]
    <3>1. Sent(i, N, log) /\ log[N].field \in Field /\ log[N].value \in Value /\ at[c] = i
      BY <1>2, <1>13, <2>1 DEF Entry
    <3>2. \A d \in Conn, f \in Field :
            shown'[d][f] = IF at[d] = i /\ Who[d] # log[N].from /\ f = log[N].field
                           THEN log[N].value ELSE shown[d][f]
      <4>1. PICK L : L = log
        OBVIOUS
      <4>2. Sent(i, N, L) /\ L[N].field \in Field /\ L[N].value \in Value
        BY <3>1, <4>1
      <4>3. \A d \in Conn, f \in Field :
              shown'[d][f] = IF at[d] = i /\ Who[d] # L[N].from /\ f = L[N].field
                             THEN L[N].value ELSE shown[d][f]
        <5>1. shown \in [Conn -> Snapshot]
          BY <1>3
        <5> QED BY <4>2, <5>1, SentShows
      <4> QED BY <4>1, <4>3
    <3> QED BY <3>1, <3>2
  <2>3. N \in Due(i) /\ N \in UnderWay
    BY <1>4, <1>13, DueUnderWay DEF Due
  <2>4. at[c] = i /\ (Joining(c)' <=> Joining(c)) /\ \A f : CleanFor(c, f)' <=> CleanFor(c, f)
    BY <1>2, <1>13 DEF Joining, CleanFor
  <2>5. ASSUME Joins(c) PROVE Joins(c)'
    <3> SUFFICES ASSUME NEW f \in Field, CleanFor(c, f)
                 PROVE  /\ f \notin Fields(UnderWay)'
                        /\ c \in replayed' => shown'[c][f] = hash'[f]
                        /\ c \notin replayed' => shown'[c][f] = None /\ ReadsHold(c, f)'
      BY <2>4 DEF Joins
    <3>1. f \notin Fields(UnderWay)' /\ f # log[N].field /\ f \notin Fields(UnderWay)
      BY <1>2, <2>3, <2>5, NothingRelayed DEF Fields, Joins
    <3>2. ReadsHold(c, f) => ReadsHold(c, f)'
      BY <1>2 DEF ReadsHold
    <3> QED BY <1>2, <2>2, <2>5, <3>1, <3>2 DEF Joins
  <2>6. ASSUME Follows(c, i) PROVE Follows(c, i)'
    <3> SUFFICES ASSUME NEW f \in Field, NEW n \in DOMAIN log, log[n].field = f, CleanFor(c, f)
                 PROVE  /\ LatestFor(Who[c], n) => n \in Due(i)' \/ shown'[c][f] = log[n].value
                        /\ n \in Due(i)' => \A m \in DOMAIN log : n < m /\ log[m].field = f => m \in Due(i)'
                        /\ \A m \in DOMAIN log : ~Outrun(i, n, m)'
      <4>1. \A n : LatestFor(Who[c], n)' <=> LatestFor(Who[c], n)
        BY <1>2 DEF LatestFor
      <4> QED BY <1>2, <2>4 DEF Follows, LatestFor
    <3>1. /\ LatestFor(Who[c], n) => n \in Due(i) \/ shown[c][f] = log[n].value
          /\ n \in Due(i) => \A m \in DOMAIN log : n < m /\ log[m].field = f => m \in Due(i)
          /\ \A m \in DOMAIN log : ~Outrun(i, n, m)
      BY <2>6 DEF Follows
    <3>2. n \in Nat /\ N \in Nat
      BY <1>3, <1>4
    <3>3. ASSUME LatestFor(Who[c], n) PROVE n \in Due(i)' \/ shown'[c][f] = log[n].value
      <4>1. CASE n = N
        BY <2>2, <3>3, <4>1 DEF LatestFor
      <4>2. CASE n # N /\ n \in Due(i)
        BY <1>10, <4>2
      <4>3. CASE n # N /\ n \notin Due(i)
        <5>1. shown[c][f] = log[n].value
          BY <3>1, <3>3, <4>3
        <5>2. CASE log[N].field # f
          BY <2>2, <5>1, <5>2
        <5>3. CASE log[N].field = f
          <6>1. N > n
            <7>1. ASSUME N < n PROVE FALSE
              BY <2>3, <2>6, <4>3, <5>3, <7>1, <1>3, <1>4 DEF Follows
            <7> QED BY <3>2, <4>3, <7>1
          <6>2. log[N].from = Who[c]
            BY <1>3, <1>4, <3>3, <5>3, <6>1 DEF LatestFor
          <6> QED BY <2>2, <5>1, <6>2
        <5> QED BY <5>2, <5>3
      <4> QED BY <4>1, <4>2, <4>3
    <3>4. ASSUME n \in Due(i)', NEW m \in DOMAIN log, n < m, log[m].field = f PROVE m \in Due(i)'
      <4>1. m \in Due(i) /\ n \in UnderWay
        BY <1>10, <3>1, <3>4, DueUnderWay
      <4>2. CASE m = N
        <5>1. log[n].field \notin torn /\ log[n].via # i /\ log[N].via = log[n].via
          BY <1>2, <1>4, <3>4, <4>1, <4>2 DEF StoreInv, SameWay, CleanFor, Due
        <5>2. n \in ToSet(subIn'[i]) \/ \E j \in Instance \ {i} : n \in ToSet(pubOut[j])
          BY <1>2, <3>4 DEF Due
        <5>3. CASE \E j \in Instance \ {i} : n \in ToSet(pubOut[j])
          <6>1. PICK j \in Instance \ {i} : n \in ToSet(pubOut[j])
            BY <5>3
          <6>2. m \in ToSet(pubOut[j])
            BY <3>4, <5>1, <6>1, PublishedBehind
          <6> QED BY <1>2, <4>2, <5>1, <6>1, <6>2 DEF Due
        <5>4. CASE n \in ToSet(subIn'[i])
          <6>1. subIn'[i] \in Seq(1 .. Len(log))
            BY <1>3, <1>4, <1>2, Popped
          <6>2. PICK q \in 1 .. Len(subIn'[i]) : subIn'[i][q] = n
            <7>1. DOMAIN subIn'[i] = 1 .. Len(subIn'[i])
              BY <6>1, LenProperties
            <7> QED BY <5>4, <7>1 DEF ToSet
          <6>3. q + 1 \in 1 .. Len(subIn[i]) /\ subIn[i][q + 1] = n
            BY <1>4, <6>2
          <6>4. \/ m \in ToSet(pubOut[log[m].via])
                \/ \E r \in (q + 1) + 1 .. Len(subIn[i]) : subIn[i][r] = m
            BY <3>1, <3>4, <5>1, <6>3 DEF Outrun
          <6>5. ASSUME NEW r \in (q + 1) + 1 .. Len(subIn[i]), subIn[i][r] = m PROVE m \in ToSet(subIn'[i])
            <7>1. r - 1 \in 1 .. Len(subIn'[i]) /\ subIn'[i][r - 1] = m
              BY <1>4, <6>2, <6>5
            <7>2. DOMAIN subIn'[i] = 1 .. Len(subIn'[i])
              BY <6>1, LenProperties
            <7> QED BY <7>1, <7>2 DEF ToSet
          <6>6. log[m].via \in Instance
            BY ViaInstance
          <6> QED BY <1>2, <4>2, <5>1, <6>4, <6>5, <6>6 DEF Due
        <5> QED BY <5>2, <5>3, <5>4
      <4> QED BY <1>10, <4>1, <4>2
    <3> QED BY <1>6, <3>1, <3>3, <3>4
  <2> QED BY <1>13, <2>4, <2>5, <2>6 DEF JoinInv, Watches
<1> QED BY <1>11, <1>12, <1>13

(* A relayed frame is shown at once, on its way, or of a field that is no  *)
(* longer clean for the socket.                                            *)
LEMMA RelayWatched ==
  ASSUME GatewayTyped, StoreInv, JoinInv, [Next]_vars, NEW i \in Instance, NEW F, RelayStep(i, F)
  PROVE  JoinInv'
<1>1. PICK N : N = Len(log)
  OBVIOUS
<1>2. /\ N \in Nat /\ DOMAIN log = 1 .. N /\ DOMAIN log' = 1 .. N + 1 /\ \A n \in 1 .. N : log'[n] = log[n]
      /\ log'[N + 1].field = F.field /\ log'[N + 1].value = F.value /\ log'[N + 1].from = F.from
      /\ log'[N + 1].via = i
      /\ F.field \in Field /\ F.value \in Value
  BY <1>1 DEF RelayStep, Relayed
<1>3. /\ UNCHANGED <<at, subs, hash, subOut, subIn, replayed, expired>>
      /\ dirty' = [c \in Conn |-> dirty[c] \cup IF Joining(c) THEN {F.field} ELSE {}]
      /\ torn' = torn \cup ({F.field} \cap Fields(ComingFromElsewhere(i)))
      /\ Sent(i, N + 1, log')
  BY <1>1 DEF RelayStep, Relay
<1>4. shown \in [Conn -> Snapshot] /\ dirty \in [Conn -> SUBSET Field]
  BY DEF GatewayTyped, DeviceTyped
<1>5. \A c \in Conn, f \in Field :
        shown'[c][f] = IF at[c] = i /\ Who[c] # F.from /\ f = F.field THEN F.value ELSE shown[c][f]
  <2>1. PICK L, M : L = log' /\ M = N + 1
    OBVIOUS
  <2>2. Sent(i, M, L) /\ L[M].field = F.field /\ L[M].value = F.value /\ L[M].from = F.from
    BY <1>2, <1>3, <2>1
  <2> QED BY <1>2, <1>4, <2>2, SentShows
<1>6. UnderWay' \subseteq UnderWay \cup {N + 1} /\ UnderWay \subseteq 1 .. N
  BY <1>1, RelayQueues, WritesTyped
<1>7. \A j \in Instance : pubOut'[j] = pubOut[j] \/ (j = i /\ ToSet(pubOut'[j]) = ToSet(pubOut[j]) \cup {N + 1})
  <2>1. Relayed(i, F)
    BY <1>1 DEF RelayStep
  <2>2. ToSet(pubOut'[i]) = ToSet(pubOut[i]) \cup {N + 1}
    BY <1>1, <2>1, RelayElements
  <2>3. \A j \in Instance \ {i} : pubOut'[j] = pubOut[j]
    BY <2>1 DEF Relayed
  <2> QED BY <2>2, <2>3
<1>8. ASSUME NEW k \in Instance
      PROVE  /\ \A n \in 1 .. N : n \in Due(k)' <=> n \in Due(k)
             /\ k # i => N + 1 \in Due(k)'
  <2>1. ASSUME NEW n \in 1 .. N PROVE n \in Due(k)' <=> n \in Due(k)
    <3>1. n # N + 1 /\ log'[n].via = log[n].via
      BY <1>2
    <3>2. \A j \in Instance : n \in ToSet(pubOut'[j]) <=> n \in ToSet(pubOut[j])
      BY <1>7, <3>1
    <3> QED BY <1>3, <3>1, <3>2 DEF Due
  <2>2. ToSet(pubOut'[i]) = ToSet(pubOut[i]) \cup {N + 1}
    BY <1>1, RelayElements DEF RelayStep
  <2>3. k # i => N + 1 \in Due(k)'
    BY <1>2, <2>2 DEF Due
  <2> QED BY <2>1, <2>3
<1> SUFFICES ASSUME NEW c \in Conn, NEW k \in Instance, at'[c] = k PROVE Watches(c, k)'
  BY DEF JoinInv, Watches
<1>9. /\ at[c] = k /\ (Joining(c)' <=> Joining(c)) /\ dirty'[c] = dirty[c] \cup IF Joining(c) THEN {F.field} ELSE {}
      /\ \A f : CleanFor(c, f)' => CleanFor(c, f) /\ (Joining(c) => f # F.field)
  BY <1>3 DEF Joining, CleanFor
<1>10. ASSUME Joining(c), Joins(c) PROVE Joins(c)'
  <2> SUFFICES ASSUME NEW f \in Field, CleanFor(c, f)'
               PROVE  /\ f \notin Fields(UnderWay)'
                      /\ c \in replayed' => shown'[c][f] = hash'[f]
                      /\ c \notin replayed' => shown'[c][f] = None /\ ReadsHold(c, f)'
    BY DEF Joins
  <2>1. CleanFor(c, f) /\ f # F.field
    BY <1>9, <1>10
  <2>2. /\ f \notin Fields(UnderWay)
        /\ c \in replayed => shown[c][f] = hash[f]
        /\ c \notin replayed => shown[c][f] = None /\ ReadsHold(c, f)
    BY <1>10, <2>1 DEF Joins
  <2>3. f \notin Fields(UnderWay)'
    BY <1>2, <1>6, <2>1, <2>2 DEF Fields
  <2>4. shown'[c][f] = shown[c][f]
    BY <1>5, <2>1
  <2>5. ReadsHold(c, f) => ReadsHold(c, f)'
    <3>1. \A j \in Instance : \A x \in ToSet(storeOut'[j]) : x \in ToSet(storeOut[j]) \/ x.op = "write"
      <4>1. \A j \in Instance \ {i} : storeOut'[j] = storeOut[j]
        BY DEF RelayStep, Relayed
      <4> QED BY <4>1, RelayElements DEF RelayStep
    <3>2. \A j \in Instance : ToSet(storeIn'[j]) \subseteq ToSet(storeIn[j])
      BY TakesElements DEF RelayStep
    <3> QED BY <1>3, <3>1, <3>2 DEF ReadsHold, ReadsFor, ReadOp
  <2> QED BY <1>3, <2>2, <2>3, <2>4, <2>5
<1>11. ASSUME Follows(c, k) PROVE Follows(c, k)'
  <2> SUFFICES ASSUME NEW f \in Field, NEW n \in 1 .. N + 1, log'[n].field = f, CleanFor(c, f)'
               PROVE  /\ LatestFor(Who[c], n)' => n \in Due(k)' \/ shown'[c][f] = log'[n].value
                      /\ n \in Due(k)' => \A m \in 1 .. N + 1 : n < m /\ log'[m].field = f => m \in Due(k)'
                      /\ \A m \in 1 .. N + 1 : ~Outrun(k, n, m)'
    BY <1>2 DEF Follows
  <2>1. CleanFor(c, f)
    BY <1>9
  <2>2. CASE n = N + 1
    <3>1. f = F.field
      BY <1>2, <2>2
    <3>2. LatestFor(Who[c], n)' => n \in Due(k)' \/ shown'[c][f] = log'[n].value
      BY <1>2, <1>5, <1>8, <1>9, <2>2, <3>1 DEF LatestFor
    <3>3. \A m \in 1 .. N + 1 : ~(n < m)
      BY <1>2, <2>2
    <3> QED BY <3>2, <3>3 DEF Outrun
  <2>3. CASE n # N + 1
    <3>1. n \in 1 .. N /\ log'[n] = log[n] /\ n \in DOMAIN log
      BY <1>2, <2>3
    <3>2. LatestFor(Who[c], n)' => LatestFor(Who[c], n) /\ (f = F.field => F.from = Who[c])
      BY <1>2, <3>1 DEF LatestFor
    <3>3. LatestFor(Who[c], n)' => shown'[c][f] = shown[c][f]
      BY <1>5, <3>2
    <3>4. /\ LatestFor(Who[c], n) => n \in Due(k) \/ shown[c][f] = log[n].value
          /\ n \in Due(k) => \A m \in DOMAIN log : n < m /\ log[m].field = f => m \in Due(k)
          /\ \A m \in DOMAIN log : ~Outrun(k, n, m)
      BY <1>11, <2>1, <3>1 DEF Follows
    <3>5. ASSUME n \in Due(k)', NEW m \in 1 .. N + 1, n < m, log'[m].field = f PROVE m \in Due(k)'
      <4>1. n \in Due(k) /\ n \in UnderWay
        BY <1>8, <3>1, <3>5, DueUnderWay
      <4>2. CASE m = N + 1
        <5>1. f = F.field /\ f \notin torn'
          BY <1>2, <3>5, <4>2 DEF CleanFor
        <5>2. log[n].via = i
          <6>1. n \notin ComingFromElsewhere(i)
            BY <1>3, <3>1, <5>1 DEF Fields
          <6> QED BY <4>1, <6>1 DEF ComingFromElsewhere
        <5>3. k # i
          BY <4>1, <5>2 DEF Due
        <5> QED BY <1>8, <4>2, <5>3
      <4>3. CASE m # N + 1
        <5>1. m \in 1 .. N /\ log'[m] = log[m]
          BY <1>2, <4>3
        <5> QED BY <1>2, <1>8, <3>4, <3>5, <4>1, <5>1
      <4> QED BY <4>2, <4>3
    <3>6. ASSUME NEW m \in 1 .. N + 1, Outrun(k, n, m)' PROVE FALSE
      <4>1. m # N + 1
        <5>1. N + 1 \in ToSet(pubOut'[i])
          BY <1>1, RelayElements DEF RelayStep
        <5> QED BY <1>2, <3>6, <5>1 DEF Outrun
      <4>2. m \in 1 .. N /\ log'[m] = log[m] /\ m \in DOMAIN log
        BY <1>2, <4>1
      <4>3. log[m].via \in Instance
        BY <4>2, ViaInstance
      <4>4. m \notin ToSet(pubOut[log[m].via])
        BY <1>7, <3>6, <4>2, <4>3 DEF Outrun
      <4>5. Outrun(k, n, m)
        BY <1>3, <3>1, <3>6, <4>2, <4>4 DEF Outrun
      <4> QED BY <3>4, <4>2, <4>5
    <3> QED BY <1>8, <3>1, <3>2, <3>3, <3>4, <3>5, <3>6
  <2> QED BY <2>2, <2>3
<1> QED BY <1>9, <1>10, <1>11 DEF JoinInv, Watches


(* A replay goes on, is dropped, or shows the snapshot that is still       *)
(* current where the socket is clean.                                      *)
LEMMA ReplayWatched ==
  ASSUME GatewayTyped, StoreInv, RemovalsInv, LogInv, OneRead, JoinInv, [Next]_vars,
         NEW i \in Instance, NEW op, NEW stale, ReplayStep(i, op, stale)
  PROVE  JoinInv'
<1>1. PICK x : x = Head(storeIn[i])
  OBVIOUS
<1>2. /\ Takes(i, op) /\ x.op \in {"fields", "pruned"} /\ x.conn \in Conn /\ x.snap \in Snapshot
      /\ x \in ToSet(storeIn[i])
      /\ UNCHANGED <<at, subs, hash, subOut, subIn, pubOut, log, dirty, torn, failed, expired>>
      /\ stale = IF op = "fields" THEN expired \cap Present(x.snap) ELSE x.stale
      /\ x.op = op
  BY <1>1 DEF ReplayStep, Takes
<1>3. stale \subseteq expired
  BY <1>2 DEF StoreInv, PrunesExpired
<1>4. \A j \in Instance : ToSet(storeIn'[j]) \subseteq ToSet(storeIn[j])
  BY <1>2, TakesElements
<1>5. \A k \in Instance : Due(k)' = Due(k) /\ \A n, m : Outrun(k, n, m)' <=> Outrun(k, n, m)
  BY <1>2, DueSame
<1>6. CASE ReplaySends(i, x.conn, x.snap)
  <2>1. /\ at[x.conn] = i /\ storeOut' = storeOut /\ replayed' = replayed \cup {x.conn}
        /\ \A d \in Conn \ {x.conn} : shown'[d] = shown[d]
        /\ \A f \in Field : shown'[x.conn][f] = IF x.snap[f] # None THEN x.snap[f] ELSE shown[x.conn][f]
    BY <1>6 DEF ReplaySends
  <2>2. ReadsFor(x, x.conn) /\ x.op # "getall"
    BY <1>2 DEF ReadsFor, ReadOp
  <2>3. x.conn \notin replayed
    <3>1. Awaits(i, x.conn)
      BY <1>2, <2>2 DEF Awaits
    <3> QED BY <1>2, <3>1 DEF OneRead
  <2> SUFFICES ASSUME NEW c \in Conn, NEW k \in Instance, at'[c] = k PROVE Watches(c, k)'
    BY DEF JoinInv, Watches
  <2>4. CASE c # x.conn
    BY <1>2, <1>4, <1>5, <2>1, <2>4, PassedBy
  <2>5. CASE c = x.conn
    <3>1. k = i /\ Joins(c) /\ dirty'[c] = dirty[c]
      BY <1>2, <2>1, <2>3, <2>5, RedisAssumption DEF JoinInv, Watches, Joining
    <3>2. ASSUME NEW f \in Field, CleanFor(c, f)' PROVE f \notin Fields(UnderWay) /\ shown'[c][f] = hash[f]
      <4>1. CleanFor(c, f)
        BY <1>2, <3>2 DEF CleanFor
      <4>2. f \notin Fields(UnderWay) /\ shown[c][f] = None /\ ReadsHold(c, f)
        BY <2>3, <2>5, <3>1, <4>1 DEF Joins
      <4>3. x.snap[f] = hash[f]
        BY <1>2, <2>2, <2>5, <4>2 DEF ReadsHold
      <4> QED BY <2>1, <2>5, <4>2, <4>3
    <3>3. Follows(c, i)'
      BY <1>2, <3>1, <3>2, CaughtUp
    <3>4. Joins(c)'
      <4>1. Fields(UnderWay)' \subseteq Fields(UnderWay)
        BY <1>2, NothingRelayed
      <4> QED BY <1>2, <2>1, <2>5, <3>2, <4>1 DEF Joins
    <3> QED BY <3>1, <3>3, <3>4 DEF Watches
  <2> QED BY <2>4, <2>5
<1>7. CASE ReplayIdle(i, x.conn)
  <2>1. UNCHANGED <<storeOut, shown, replayed>>
    BY <1>7 DEF ReplayIdle
  <2> SUFFICES ASSUME NEW c \in Conn, NEW k \in Instance, at'[c] = k PROVE Watches(c, k)'
    BY DEF JoinInv, Watches
  <2> QED BY <1>2, <1>4, <1>5, <2>1, PassedBy
<1>8. ASSUME NEW h \in stale,
             Asks(i, [op |-> "prune", conn |-> x.conn, field |-> h,
                      snap |-> [x.snap EXCEPT ![h] = None], stale |-> stale \ {h}]),
             UNCHANGED <<shown, replayed>>
      PROVE  JoinInv'
  <2>1. PICK y : Asks(i, y) /\ y.conn = x.conn /\ y.op = "prune" /\ y.snap = [x.snap EXCEPT ![h] = None]
    BY <1>8
  <2>2. \A f \in Field \ expired' : y.snap[f] = x.snap[f]
    BY <1>2, <1>3, <2>1 DEF Snapshot
  <2>3. \A j \in Instance : \A z \in ToSet(storeOut'[j]) : z \in ToSet(storeOut[j]) \/ (j = i /\ z = y)
    BY <2>1, AsksElements
  <2> SUFFICES ASSUME NEW c \in Conn, NEW k \in Instance, at'[c] = k PROVE Watches(c, k)'
    BY DEF JoinInv, Watches
  <2>4. ASSUME NEW j \in Instance, NEW z \in ToSet(storeOut'[j]) \cup ToSet(storeIn'[j]), ReadsFor(z, c), z.op # "getall",
               NEW f \in Field \ expired'
        PROVE  \E w \in ToSet(storeOut[j]) \cup ToSet(storeIn[j]) :
                 ReadsFor(w, c) /\ w.op # "getall" /\ w.snap[f] = z.snap[f]
    <3>1. CASE z \in ToSet(storeOut[j]) \cup ToSet(storeIn[j])
      BY <2>4, <3>1
    <3>2. CASE j = i /\ z = y
      <4>1. ReadsFor(x, c) /\ x.op # "getall"
        BY <1>2, <2>1, <2>4, <3>2 DEF ReadsFor, ReadOp
      <4> QED BY <1>2, <2>2, <2>4, <3>2, <4>1
    <3> QED BY <1>4, <2>3, <2>4, <3>1, <3>2
  <2> QED BY <1>2, <1>5, <1>8, <2>4, Unnoticed
<1> QED BY <1>1, <1>6, <1>7, <1>8 DEF ReplayStep

(* A socket that enters knows nothing, and is dirty where frames are under *)
(* way.                                                                    *)
LEMMA ConnectWatched ==
  ASSUME GatewayTyped, ClosedEmpty, JoinInv, [Next]_vars, NEW i \in Instance, NEW e \in Conn, ConnectStep(e, i)
  PROVE  JoinInv'
<1>1. PICK y : Asks(i, y) /\ y.op = "getall"
  BY DEF ConnectStep
<1>2. /\ at[e] = None /\ at' = [at EXCEPT ![e] = i] /\ ~Reading(e)
      /\ dirty' = [dirty EXCEPT ![e] = Fields(UnderWay)]
      /\ \A d \in Conn \ {e} : at[d] \in Instance => subOut'[at[d]] = subOut[at[d]]
      /\ UNCHANGED <<subs, hash, subIn, pubOut, storeIn, shown, replayed, log, torn, failed, expired>>
  BY DEF ConnectStep
<1>3. /\ at \in [Conn -> Instance \cup {None}] /\ dirty \in [Conn -> SUBSET Field]
      /\ e \notin replayed /\ shown[e] = Empty
  BY <1>2 DEF GatewayTyped, OrderInv, RegistryTyped, DeviceTyped, ClosedEmpty
<1>4. /\ at'[e] = i /\ dirty'[e] = Fields(UnderWay)
      /\ \A d \in Conn \ {e} : at'[d] = at[d] /\ dirty'[d] = dirty[d]
  BY <1>2, <1>3
<1>5. \A j \in Instance : \A x \in ToSet(storeOut'[j]) : x \in ToSet(storeOut[j]) \/ x.op = "getall"
  BY <1>1, AsksElements
<1>6. \A k \in Instance : Due(k)' = Due(k) /\ \A n, m : Outrun(k, n, m)' <=> Outrun(k, n, m)
  BY <1>2, DueSame
<1> SUFFICES ASSUME NEW c \in Conn, NEW k \in Instance, at'[c] = k PROVE Watches(c, k)'
  BY DEF JoinInv, Watches
<1>7. CASE c # e
  <2>1. \A j \in Instance : \A z \in ToSet(storeOut'[j]) \cup ToSet(storeIn'[j]) :
          z.op # "getall" => z \in ToSet(storeOut[j]) \cup ToSet(storeIn[j])
    BY <1>2, <1>5
  <2> QED BY <1>2, <1>4, <1>6, <1>7, <2>1, Unnoticed
<1>8. CASE c = e
  <2>1. Joining(c)'
    BY <1>2, <1>3, <1>4, <1>8, RedisAssumption DEF Joining
  <2>2. \A j \in Instance : \A z \in ToSet(storeOut'[j]) \cup ToSet(storeIn'[j]) : ReadsFor(z, c) => z.op = "getall"
    BY <1>2, <1>5, <1>8 DEF Reading, ReadsFor, ReadOp
  <2>3. Fields(UnderWay)' \subseteq Fields(UnderWay)
    BY <1>2, NothingRelayed
  <2>4. Joins(c)'
    BY <1>2, <1>3, <1>4, <1>8, <2>2, <2>3 DEF Joins, CleanFor, ReadsHold, Empty
  <2> QED BY <2>1, <2>4 DEF Watches
<1> QED BY <1>7, <1>8

(* Sockets that stay are not concerned by those that close, nor by frames  *)
(* lost with an instance: these tear their fields.                         *)
LEMMA CloseWatched ==
  ASSUME GatewayTyped, JoinInv, [Next]_vars, NEW e \in Conn, CloseStep(e)
  PROVE  JoinInv'
<1>1. /\ Drop({e}) /\ \A d \in Conn \ {e} : at[d] \in Instance => subOut'[at[d]] = subOut[at[d]]
      /\ UNCHANGED <<subs, hash, subIn, pubOut, storeOut, storeIn, log, dirty, torn, failed, expired>>
  BY DEF CloseStep
<1>2. \A k \in Instance : Due(k)' = Due(k) /\ \A n, m : Outrun(k, n, m)' <=> Outrun(k, n, m)
  BY <1>1, DueSame
<1> SUFFICES ASSUME NEW c \in Conn, NEW k \in Instance, at'[c] = k PROVE Watches(c, k)'
  BY DEF JoinInv, Watches
<1>3. c # e /\ at[c] = k /\ shown'[c] = shown[c] /\ (c \in replayed' <=> c \in replayed)
  BY <1>1, RedisAssumption DEF Drop
<1> QED BY <1>1, <1>2, <1>3, PassedBy

(* The end of an instance closes its sockets and leaves the others alone.  *)
LEMMA ExitWatched ==
  ASSUME GatewayTyped, JoinInv, [Next]_vars, NEW i \in Instance, ExitStep(i)
  PROVE  JoinInv'
<1>1. /\ Drop(Local(i)) /\ subs' = subs \ {i} /\ subOut' = [subOut EXCEPT ![i] = <<>>]
      /\ subIn' = [subIn EXCEPT ![i] = <<>>] /\ pubOut' = [pubOut EXCEPT ![i] = <<>>]
      /\ storeOut' = [storeOut EXCEPT ![i] = <<>>] /\ storeIn' = [storeIn EXCEPT ![i] = <<>>]
      /\ torn' = torn \cup Fields(Queued(i)) /\ UNCHANGED <<hash, log, dirty, expired>>
  BY DEF ExitStep, Exit
<1>2. \A j \in Instance : /\ ToSet(storeOut'[j]) \subseteq ToSet(storeOut[j])
                          /\ ToSet(storeIn'[j]) \subseteq ToSet(storeIn[j])
                          /\ j # i => pubOut'[j] = pubOut[j] /\ subIn'[j] = subIn[j] /\ subOut'[j] = subOut[j]
  BY <1>1, EmptyQueue DEF GatewayTyped, StoreTyped, OrderInv, QueuesTyped, RegistryTyped
<1>3. ToSet(pubOut'[i]) = {}
  BY <1>1, EmptyQueue DEF GatewayTyped, OrderInv, QueuesTyped
<1> SUFFICES ASSUME NEW c \in Conn, NEW k \in Instance, at'[c] = k PROVE Watches(c, k)'
  BY DEF JoinInv, Watches
<1>4. c \notin Local(i) /\ at[c] = k /\ k # i /\ shown'[c] = shown[c] /\ (c \in replayed' <=> c \in replayed)
  BY <1>1, RedisAssumption DEF Drop, Local
<1>5. ASSUME NEW n \in Due(k)' PROVE n \in Due(k)
  <2>1. subIn'[k] = subIn[k] /\ log' = log
    BY <1>1, <1>2, <1>4
  <2>2. n \in ToSet(subIn[k]) \/ \E j \in Instance \ {k} : n \in ToSet(pubOut'[j])
    BY <1>5, <2>1 DEF Due
  <2>3. \A j \in Instance : ToSet(pubOut'[j]) \subseteq ToSet(pubOut[j])
    BY <1>2, <1>3
  <2>4. log[n].via # k
    BY <1>5, <2>1 DEF Due
  <2> QED BY <2>2, <2>3, <2>4 DEF Due
<1>6. ASSUME NEW n \in Due(k) PROVE n \in Due(k)' \/ log[n].field \in torn'
  <2>1. CASE n \in ToSet(pubOut[i])
    BY <1>1, <2>1 DEF Queued, Fields
  <2>2. CASE n \notin ToSet(pubOut[i])
    BY <1>1, <1>2, <1>4, <2>2 DEF Due
  <2> QED BY <2>1, <2>2
<1>7. ASSUME NEW n \in DOMAIN log, NEW m \in DOMAIN log, Outrun(k, n, m)', log[n].field \notin torn'
      PROVE  Outrun(k, n, m)
  <2>1. m \notin ToSet(pubOut[i])
    BY <1>1, <1>7 DEF Queued, Fields, Outrun
  <2>2. log[m].via \in Instance
    BY ViaInstance
  <2>3. m \notin ToSet(pubOut[log[m].via])
    BY <1>1, <1>2, <1>7, <2>1, <2>2 DEF Outrun
  <2> QED BY <1>1, <1>2, <1>4, <1>7, <2>3 DEF Outrun
<1> QED BY <1>1, <1>2, <1>4, <1>5, <1>6, <1>7, PassedBy

(* When the subscriber's connection breaks, its sockets join again, dirty  *)
(* where frames are under way.                                             *)
LEMMA BreakWatched ==
  ASSUME GatewayTyped, StoreInv, Known, RemovalsInv, LogInv, HasLatestFor, JoinInv, [Next]_vars,
         NEW i \in Instance, BlipStep(i) \/ OutageStep(i)
  PROVE  JoinInv'
<1>1. /\ SubscriberReconnects(i) /\ \A j \in Instance \ {i} : subOut'[j] = subOut[j]
      /\ storeOut' = storeOut \/ storeOut' = [storeOut EXCEPT ![i] = <<>>]
      /\ UNCHANGED <<at, hash, pubOut, storeIn, shown, replayed, log, expired>>
  BY DEF BlipStep, OutageStep
<1>2. /\ subs' = subs \ {i} /\ \A j \in Instance \ {i} : subIn'[j] = subIn[j]
      /\ \A c \in Conn : dirty'[c] = dirty[c] \cup IF at[c] = i THEN Fields(UnderWay) ELSE {}
  BY <1>1 DEF SubscriberReconnects, GatewayTyped, OrderInv, QueuesTyped
<1>3. \A j \in Instance : /\ ToSet(storeOut'[j]) \subseteq ToSet(storeOut[j])
                          /\ ToSet(storeIn'[j]) \subseteq ToSet(storeIn[j])
  BY <1>1, EmptyQueue DEF GatewayTyped, StoreTyped
<1> SUFFICES ASSUME NEW c \in Conn, NEW k \in Instance, at'[c] = k PROVE Watches(c, k)'
  BY DEF JoinInv, Watches
<1>4. CASE k # i
  <2>1. Due(k)' = Due(k) /\ \A n, m : Outrun(k, n, m)' <=> Outrun(k, n, m)
    BY <1>1, <1>2, <1>4 DEF Due, Outrun
  <2> QED BY <1>1, <1>2, <1>3, <1>4, <2>1, PassedBy
<1>5. CASE k = i
  <2>1. Joining(c)' /\ at[c] = i /\ dirty'[c] = dirty[c] \cup Fields(UnderWay)
    BY <1>1, <1>2, <1>5, RedisAssumption DEF Joining
  <2>2. ASSUME Joining(c) PROVE Joins(c)'
    <3>1. Joins(c)
      BY <2>1, <2>2 DEF JoinInv, Watches
    <3> QED BY <1>1, <1>3, <2>1, <3>1, JoinsOn
  <2>3. ASSUME ~Joining(c) PROVE Joins(c)'
    <3>1. Follows(c, i) /\ c \in replayed
      BY <2>1, <2>3, RedisAssumption DEF JoinInv, Watches, Joining
    <3>2. /\ torn \subseteq torn' /\ Fields(UnderWay)' \subseteq Fields(UnderWay)
      BY <1>1, NothingRelayed
    <3>3. ASSUME NEW f \in Field, CleanFor(c, f)' PROVE f \notin Fields(UnderWay)' /\ shown'[c][f] = hash'[f]
      <4>1. CleanFor(c, f) /\ f \notin Fields(UnderWay)
        BY <1>1, <2>1, <3>2, <3>3 DEF CleanFor
      <4>2. shown[c][f] = hash[f]
        BY <3>1, <4>1, Shows
      <4> QED BY <1>1, <3>2, <4>1, <4>2
    <3> QED BY <1>1, <3>1, <3>3 DEF Joins
  <2> QED BY <2>1, <2>2, <2>3 DEF Watches
<1> QED BY <1>4, <1>5

(* Redis subscribes an instance: its replayed sockets follow from then on. *)
LEMMA SubscribeWatched ==
  ASSUME GatewayTyped, StoreInv, RemovalsInv, LogInv, JoinInv, [Next]_vars,
         NEW i \in Instance, SubscribeStep(i)
  PROVE  JoinInv'
<1>1. /\ subOut[i] # <<>> /\ subs' \in {subs \cup {i}, subs \ {i}} /\ subOut' = [subOut EXCEPT ![i] = Tail(@)]
      /\ UNCHANGED <<at, hash, storeOut, storeIn, replayed, log, dirty, torn, failed, expired, subIn, pubOut, shown>>
  BY DEF SubscribeStep, RedisSubscribe, ChannelUnchanged
<1>2. \A j \in Instance \ {i} : subOut'[j] = subOut[j]
  BY <1>1 DEF GatewayTyped, OrderInv, RegistryTyped
<1>3. \A k \in Instance : Due(k)' = Due(k) /\ \A n, m : Outrun(k, n, m)' <=> Outrun(k, n, m)
  BY <1>1, DueSame
<1> SUFFICES ASSUME NEW c \in Conn, NEW k \in Instance, at'[c] = k PROVE Watches(c, k)'
  BY DEF JoinInv, Watches
<1>4. CASE k # i
  BY <1>1, <1>2, <1>3, <1>4, PassedBy
<1>5. CASE k = i
  <2>1. Joins(c) /\ at[c] = i
    BY <1>1, <1>5, RedisAssumption DEF JoinInv, Watches, Joining
  <2>2. Joins(c)'
    BY <1>1, <2>1, JoinsOn
  <2>3. ASSUME ~Joining(c)' PROVE Follows(c, i)'
    <3>1. c \in replayed
      BY <1>1, <2>1, <2>3, RedisAssumption DEF Joining
    <3>2. ASSUME NEW f \in Field, CleanFor(c, f)' PROVE f \notin Fields(UnderWay) /\ shown'[c][f] = hash[f]
      <4>1. CleanFor(c, f)
        BY <1>1, <3>2 DEF CleanFor
      <4> QED BY <1>1, <2>1, <3>1, <4>1 DEF Joins
    <3> QED BY <1>1, <3>2, CaughtUp
  <2> QED BY <1>5, <2>2, <2>3 DEF Watches
<1> QED BY <1>4, <1>5

(* Steps that touch neither queues nor sockets keep what sockets show.     *)
LEMMA OtherWatched ==
  ASSUME GatewayTyped, JoinInv, [Next]_vars, OtherStep
  PROVE  JoinInv'
<1>1. UNCHANGED <<at, subs, hash, subOut, subIn, pubOut, storeOut, storeIn, shown, replayed, log, dirty, torn, failed>>
  BY DEF OtherStep
<1>2. \A k \in Instance : Due(k)' = Due(k) /\ \A n, m : Outrun(k, n, m)' <=> Outrun(k, n, m)
  BY <1>1, DueSame
<1> SUFFICES ASSUME NEW c \in Conn, NEW k \in Instance, at'[c] = k PROVE Watches(c, k)'
  BY DEF JoinInv, Watches
<1> QED BY <1>1, <1>2, PassedBy

(* Every step preserves what sockets show and are due.                     *)
LEMMA JoinStep ==
  ASSUME GatewayTyped, StoreInv, Known, RemovalsInv, LogInv, HasLatestFor, OneRead, ClosedEmpty, JoinInv,
         [Next]_vars
  PROVE  JoinInv'
<1>1. ASSUME NEW i \in Instance, NEW f, RelayStep(i, f) PROVE JoinInv'
  BY <1>1, RelayWatched
<1>2. ASSUME NEW i \in Instance, NEW op, NEW stale, ReplayStep(i, op, stale) PROVE JoinInv'
  BY <1>2, ReplayWatched
<1>3. ASSUME NEW i \in Instance, NEW h, NEW m, AskStep(i, h, m) PROVE JoinInv'
  BY <1>3, QuietSteps
<1>4. ASSUME NEW i \in Instance, NEW c \in Conn, ConnectStep(c, i) PROVE JoinInv'
  BY <1>4, ConnectWatched
<1>5. ASSUME NEW i \in Instance, RefuseStep(i) \/ WriteStep(i) \/ GetStep(i) \/ GetAllStep(i) \/ PruneStep(i)
      PROVE  JoinInv'
  BY <1>5, QuietSteps
<1>6. ASSUME NEW i \in Instance,
             ExitStep(i) \/ BlipStep(i) \/ OutageStep(i) \/ PublishStep(i) \/ MessageStep(i) \/ SubscribeStep(i)
      PROVE  JoinInv'
  BY <1>6, ExitWatched, BreakWatched, PublishWatched, MessageWatched, SubscribeWatched
<1>7. ASSUME NEW c \in Conn, CloseStep(c) PROVE JoinInv'
  BY <1>7, CloseWatched
<1> QED BY <1>1, <1>2, <1>3, <1>4, <1>5, <1>6, <1>7, OtherWatched, EveryStep DEF StepKinds

(* All of it holds initially, when no socket is open.                      *)
LEMMA JoinInit == Init => LogInv /\ HasLatestFor /\ OneRead /\ ClosedEmpty /\ JoinInv
<1> SUFFICES ASSUME Init PROVE LogInv /\ HasLatestFor /\ OneRead /\ ClosedEmpty /\ JoinInv
  OBVIOUS
<1>1. /\ log = <<>> /\ DOMAIN log = {} /\ \A c \in Conn : at[c] = None /\ shown[c] = Empty
      /\ \A i \in Instance : storeOut[i] = <<>> /\ storeIn[i] = <<>>
  BY DEF Init
<1>2. LogInv /\ HasLatestFor
  BY <1>1 DEF LogInv, HasLatestFor, Told
<1>3. OneRead
  <2>1. Len(<<>>) = 0 /\ 1 .. 0 = {}
    OBVIOUS
  <2>2. \A c : OneIn(<<>>, c) /\ ~HasRead(<<>>, c)
    BY <2>1, EmptyQueue DEF OneIn, HasRead
  <2>3. \A i \in Instance, c \in Conn : ~Awaits(i, c)
    BY <1>1, EmptyQueue DEF Awaits
  <2> QED BY <1>1, <2>2, <2>3 DEF OneRead
<1>4. ClosedEmpty
  BY <1>1 DEF ClosedEmpty
<1>5. JoinInv
  BY <1>1, RedisAssumption DEF JoinInv, Watches
<1> QED BY <1>2, <1>3, <1>4, <1>5

(* Once nothing is on its way, every socket that has joined shows what a   *)
(* late joiner would be replayed, in the fields that were not written      *)
(* while it joined, torn or expired: live delivery on every instance and   *)
(* the snapshot that Redis holds do not drift apart.                       *)
THEOREM SocketsShowTheSnapshot == Spec => []JoinersAgree
<1> DEFINE Inv == /\ GatewayTyped /\ StoreInv /\ Known /\ RemovalsInv /\ LogInv /\ HasLatestFor
                  /\ OneRead /\ ClosedEmpty /\ JoinInv
<1>1. Init => Inv
  BY TypedInit, StoreInit, RemovalsInit, JoinInit
<1>2. Inv /\ [Next]_vars => Inv'
  BY TypedStep, StoreStep, KnownStep, RemovalsStep, LogStep, OneReadStep, ClosedStep, JoinStep
<1>3. Inv => JoinersAgree
  <2> SUFFICES ASSUME Inv, Quiet, NEW c \in Conn, at[c] # None, ~Joining(c),
                      NEW f \in Field \ (dirty[c] \cup torn \cup expired), Author[f] # Who[c]
               PROVE  shown[c][f] = hash[f]
    BY DEF JoinersAgree
  <2>1. at[c] \in Instance
    BY DEF GatewayTyped, OrderInv, RegistryTyped
  <2>2. CleanFor(c, f) /\ Follows(c, at[c])
    BY <2>1 DEF CleanFor, JoinInv, Watches
  <2>3. UnderWay = {}
    <3>1. ASSUME NEW i \in Instance PROVE Queued(i) = {}
      BY EmptyQueue DEF Quiet, Queued
    <3> QED BY <3>1 DEF UnderWay
  <2>4. f \notin Fields(UnderWay)
    BY <2>3 DEF Fields
  <2> QED BY <2>1, <2>2, <2>4, Shows
<1> QED BY <1>1, <1>2, <1>3, PTL DEF Spec
=============================================================================

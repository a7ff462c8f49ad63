----------------------- MODULE LocationPipeline_proofs -----------------------
(***************************************************************************)
(* Proofs about LocationPipeline, for any windows, track, times and number *)
(* of faults: the throttle, what is stored and shown, and the warnings.    *)
(***************************************************************************)
EXTENDS LocationPipeline, SequenceTheorems, TLAPS

(* A fix that waits is the newest, or the newest was sent meanwhile; and   *)
(* the timer lies a window after the send before the last.                 *)
PublisherInv ==
  /\ pending # 0 => pending = LastFix \/ emitted = LastFix
  /\ due # 0 /\ prevEmit # 0 => \E v \in Speed : due - prevEmit >= Interval[v]

(* The newest fix, once sent, is stored or about to be.                    *)
NewestKept == LastFix \in saves \/ stored = LastFix

StoreInv ==
  pending # LastFix /\ odd \cap {"lost", "older", "failed"} = {} => NewestKept

(* It is on the map of a connected watcher, or the replay will bring it.   *)
MapInv ==
  pending # LastFix /\ odd = {} /\ "watcher" \in online =>
    map = LastFix \/ (reading = "asked" /\ NewestKept) \/ (reading = "read" /\ snap = LastFix)

WarnInv == WarningsFollow /\ (~warned => warnings = 0)

IInv == TypeOK /\ PublisherInv /\ StoreInv /\ MapInv /\ WarnInv

-----------------------------------------------------------------------------
(* The later of two emissions.                                             *)
LEMMA MaxOfTwo ==
  ASSUME NEW i \in Nat, NEW j \in Nat
  PROVE  Max({i, j}) = IF i >= j THEN i ELSE j
<1> DEFINE m == IF i >= j THEN i ELSE j
<1>1. m \in {i, j} /\ \A y \in {i, j} : m >= y
  OBVIOUS
<1>2. \A x \in {i, j} : (\A y \in {i, j} : x >= y) => x = m
  OBVIOUS
<1> QED BY <1>1, <1>2 DEF Max

(* Measuring fix k after it, and only it, may have become the newest.      *)
LEMMA MeasureKeeps ==
  ASSUME NEW k \in Nat, NEW fix \in [at : Nat, place : Place], NEW t \in Nat,
         warned \in BOOLEAN, warnings \in Nat, warnings <= 1, ~warned => warnings = 0,
         k # 0, Measure(k, fix, t)
  PROVE  /\ warned' \in BOOLEAN /\ warnings' \in Nat /\ warnings' <= 1
         /\ ~warned' => warnings' = 0
         /\ t # 0 /\ ~IsStale(t) /\ ~IsStale(fix.at) =>
              (fix.place = "near" => warned') /\ (fix.place = "far" => ~warned')
<1>1. CASE t = 0 \/ IsStale(t) \/ IsStale(fix.at)
  BY <1>1 DEF Measure
<1>2. CASE ~(t = 0 \/ IsStale(t) \/ IsStale(fix.at))
  <2>1. /\ warned' = (fix.place = "near" \/ (warned /\ fix.place = "band"))
        /\ warnings' = CASE fix.place = "far" -> 0
                         [] ~warned /\ warned' -> warnings + 1
                         [] OTHER -> warnings
    BY <1>2 DEF Measure, Evaluated
  <2>2. fix.place \in {"near", "band", "far"}
    BY DEF Place
  <2>3. CASE fix.place = "far"
    <3>1. ~warned' /\ warned' \in BOOLEAN
      BY <2>1, <2>3
    <3>2. warnings' = 0
      BY <2>1, <2>3
    <3> QED BY <2>3, <3>1, <3>2
  <2>4. CASE fix.place = "near"
    <3>1. warned' /\ warned' \in BOOLEAN
      BY <2>1, <2>4
    <3>2. warned => warnings' = warnings
      BY <2>1, <2>4
    <3>3. ~warned => warnings' = warnings + 1
      BY <2>1, <2>4
    <3> QED BY <2>4, <3>1, <3>2, <3>3
  <2>5. CASE fix.place = "band"
    BY <2>1, <2>5
  <2> QED BY <2>2, <2>3, <2>4, <2>5
<1> QED BY <1>1, <1>2

(* The types, one by one.                                                  *)
LEMMA Types ==
  ASSUME TypeOK
  PROVE  /\ now \in Nat /\ now # 0 /\ LastFix \in Nat
         /\ pending \in 0..LastFix /\ emitted \in 0..LastFix /\ stored \in 0..LastFix
         /\ snap \in 0..LastFix /\ map \in 0..LastFix /\ latest \in 0..LastFix
         /\ lastEmit \in 0..now /\ prevEmit \in 0..lastEmit /\ selfAt \in 0..now
         /\ due \in Nat /\ (due = 0 \/ due >= now) /\ ((pending = 0) <=> (due = 0))
         /\ saves \subseteq 1..LastFix /\ fixes \in Seq([at : 1..now, place : Place])
         /\ warned \in BOOLEAN /\ warnings \in Nat
BY LenProperties DEF TypeOK, LastFix

FixAt(t) == [at : 1..t, place : Place]

(* A fix that is known has a time and a place.                             *)
LEMMA KnownFix ==
  ASSUME TypeOK, NEW k \in 1..LastFix
  PROVE  fixes[k] \in FixAt(now) /\ fixes[k] \in [at : Nat, place : Place]
<1>1. fixes[k] \in FixAt(now)
  BY ElementOfSeq, Types DEF FixAt, LastFix
<1>2. now \in Nat
  BY Types
<1> QED BY <1>1, <1>2 DEF FixAt

(* Who was measured once stays measured while time passes and fixes come.  *)
LEMMA WarnStable ==
  ASSUME TypeOK, WarnInv, UNCHANGED <<latest, map, warned, warnings, selfAt>>,
         now' \in {now, now + 1}, latest # 0 => fixes'[latest] = fixes[latest]
  PROVE  WarnInv'
<1>1. now \in Nat /\ selfAt \in Nat /\ latest \in 0..LastFix /\ LastFix \in Nat
  BY Types
<1>2. MaxAge \in Nat
  BY LocationAssumption
<1>3. latest # 0 => fixes[latest].at \in Nat
  <2> SUFFICES ASSUME latest # 0 PROVE fixes[latest].at \in Nat
    OBVIOUS
  <2>1. fixes[latest] \in [at : Nat, place : Place]
    BY <1>1, KnownFix
  <2> QED BY <2>1
<1>4. ~IsStale(selfAt)' => ~IsStale(selfAt)
  BY <1>1, <1>2 DEF IsStale
<1>5. latest # 0 /\ ~IsStale(fixes[latest].at)' => ~IsStale(fixes[latest].at)
  BY <1>1, <1>2, <1>3 DEF IsStale
<1> QED BY <1>4, <1>5 DEF WarnInv, WarningsFollow

(* Whatever position the watcher takes, its warnings stay right and its    *)
(* map does not go back.                                                   *)
LEMMA TakeKeeps ==
  ASSUME TypeOK, WarnInv, NEW k \in Nat \ {0}, NEW fix \in [at : Nat, place : Place],
         fixes'[k] = fix, now' = now, Take(k, fix)
  PROVE  /\ WarnInv' /\ latest' = k /\ map' = (IF k >= map THEN k ELSE map) /\ selfAt' = selfAt
         /\ warned' \in BOOLEAN /\ warnings' \in Nat
<1>1. latest' = k /\ selfAt' = selfAt /\ Measure(k, fix, selfAt) /\ map' = Max({k, map})
  BY DEF Take
<1>2. map \in Nat /\ selfAt \in Nat /\ warned \in BOOLEAN /\ warnings \in Nat
  BY Types
<1>3. map' = (IF k >= map THEN k ELSE map) /\ latest' <= map'
  BY <1>1, <1>2, MaxOfTwo
<1>4. /\ warned' \in BOOLEAN /\ warnings' \in Nat /\ warnings' <= 1
      /\ ~warned' => warnings' = 0
      /\ selfAt # 0 /\ ~IsStale(selfAt) /\ ~IsStale(fix.at) =>
           (fix.place = "near" => warned') /\ (fix.place = "far" => ~warned')
  <2>1. warnings <= 1 /\ (~warned => warnings = 0)
    BY DEF WarnInv, WarningsFollow
  <2> QED BY <1>1, <1>2, <2>1, MeasureKeeps
<1>5. IsStale(selfAt)' = IsStale(selfAt) /\ IsStale(fixes[latest].at)' = IsStale(fix.at)
  BY <1>1 DEF IsStale
<1> QED BY <1>1, <1>3, <1>4, <1>5 DEF WarnInv, WarningsFollow

(* What sending the newest fix, or an older one after it, keeps.           *)
LEMMA EmitKeeps ==
  ASSUME IInv, NEW fix \in [at : Nat, place : Place], LastFix' \in {LastFix, LastFix + 1},
         NEW k \in 1..LastFix', fixes'[k] = fix, Emit(k, fix),
         k = LastFix' \/ (LastFix' = LastFix /\ pending = k /\ emitted = LastFix),
         UNCHANGED <<now, online, stored, reading, snap>>,
         latest # 0 => fixes'[latest] = fixes[latest]
  PROVE  /\ StoreInv' /\ MapInv' /\ WarnInv'
         /\ lastEmit' = now /\ prevEmit' = lastEmit /\ emitted' = k
         /\ saves' \subseteq 1..LastFix' /\ odd' \subseteq Odd
         /\ map' \in 0..LastFix' /\ latest' \in 0..LastFix' /\ selfAt' = selfAt
         /\ warned' \in BOOLEAN /\ warnings' \in Nat
<1> USE DEF IInv
<1>1. /\ lastEmit' = now /\ prevEmit' = lastEmit /\ emitted' = k
  BY DEF Emit
<1>2. /\ LastFix \in Nat /\ map \in 0..LastFix /\ latest \in 0..LastFix /\ emitted \in 0..LastFix
      /\ saves \subseteq 1..LastFix /\ warned \in BOOLEAN /\ warnings \in Nat /\ odd \subseteq Odd
  BY Types DEF TypeOK
<1>3. CASE "mover" \notin online
  <2>1. UNCHANGED watcherVars /\ saves' = saves /\ odd' = odd \cup {"lost"}
    BY <1>3 DEF Emit
  <2>2. WarnInv'
    BY <2>1, WarnStable DEF watcherVars
  <2>3. StoreInv' /\ MapInv'
    BY <2>1 DEF StoreInv, MapInv
  <2> QED BY <1>1, <1>2, <2>1, <2>2, <2>3 DEF watcherVars, Odd
<1>4. CASE "mover" \in online
  <2>1. /\ IF "watcher" \in online THEN Take(k, fix) ELSE UNCHANGED watcherVars
        /\ saves' = saves \cup {k} /\ odd' = IF k > emitted THEN {} ELSE odd
    BY <1>4 DEF Emit, Relay, Save
  <2>2. /\ WarnInv' /\ map' \in 0..LastFix' /\ latest' \in 0..LastFix' /\ selfAt' = selfAt
        /\ warned' \in BOOLEAN /\ warnings' \in Nat
        /\ "watcher" \in online => map' = IF k >= map THEN k ELSE map
    <3>1. CASE "watcher" \in online
      <4>1. k \in Nat \ {0} /\ Take(k, fix)
        BY <1>2, <2>1, <3>1
      <4>2. /\ WarnInv' /\ latest' = k /\ map' = (IF k >= map THEN k ELSE map)
            /\ selfAt' = selfAt /\ warned' \in BOOLEAN /\ warnings' \in Nat
        BY <4>1, TakeKeeps
      <4> QED BY <1>2, <4>2
    <3>2. CASE "watcher" \notin online
      <4>1. UNCHANGED watcherVars
        BY <2>1, <3>2
      <4>2. WarnInv'
        BY <4>1, WarnStable DEF watcherVars
      <4> QED BY <1>2, <3>2, <4>1, <4>2 DEF watcherVars
    <3> QED BY <3>1, <3>2
  <2>3. saves' \subseteq 1..LastFix' /\ odd' \subseteq Odd
    BY <1>2, <2>1
  <2>4. CASE k = LastFix'
    <3>1. NewestKept' /\ ("watcher" \in online => map' = LastFix')
      BY <1>2, <2>1, <2>2, <2>4 DEF NewestKept
    <3> QED BY <1>1, <2>2, <2>3, <3>1 DEF StoreInv, MapInv
  <2>5. CASE k # LastFix'
    <3>1. LastFix' = LastFix /\ pending # LastFix /\ emitted = LastFix /\ k < LastFix
      BY <1>2, <2>5
    <3>2. odd' = odd /\ (NewestKept => NewestKept') /\ (map = LastFix => map' = LastFix)
      BY <1>2, <2>1, <2>2, <3>1 DEF NewestKept, watcherVars
    <3>3. StoreInv'
      BY <3>1, <3>2 DEF StoreInv
    <3>4. MapInv'
      BY <3>1, <3>2 DEF MapInv
    <3> QED BY <1>1, <2>2, <2>3, <3>3, <3>4
  <2> QED BY <2>4, <2>5
<1> QED BY <1>3, <1>4

-----------------------------------------------------------------------------
(* Fixes.                                                                  *)

(* A fix is put behind the others.                                         *)
LEMMA NewFix ==
  ASSUME TypeOK, NEW v \in Speed, NEW p \in Place, Fix(v, p)
  PROVE  /\ fixes' \in Seq(FixAt(now)) /\ LastFix' = LastFix + 1
         /\ fixes'[LastFix + 1] = [at |-> now, place |-> p]
         /\ [at |-> now, place |-> p] \in [at : Nat, place : Place]
         /\ \A i \in 1..LastFix : fixes'[i] = fixes[i]
<1> DEFINE x == [at |-> now, place |-> p]
<1>1. fixes' = Append(fixes, x) /\ fixes \in Seq(FixAt(now)) /\ now \in Nat /\ now # 0
  BY Types DEF Fix, FixAt
<1>2. x \in FixAt(now) /\ x \in [at : Nat, place : Place]
  BY <1>1 DEF FixAt
<1> HIDE DEF x
<1>3. /\ Append(fixes, x) \in Seq(FixAt(now)) /\ Len(Append(fixes, x)) = Len(fixes) + 1
      /\ \A i \in 1..Len(fixes) : Append(fixes, x)[i] = fixes[i]
      /\ Append(fixes, x)[Len(fixes) + 1] = x
  BY <1>1, <1>2, AppendProperties
<1> QED BY <1>1, <1>2, <1>3 DEF LastFix, x

(* The invariant after a fix or a flush: nothing else than the publisher's *)
(* part and what EmitKeeps gives has changed.                              *)
LEMMA TypesAgain ==
  ASSUME TypeOK, fixes' \in Seq(FixAt(now)), LastFix' \in {LastFix, LastFix + 1},
         UNCHANGED <<now, online, stored, reading, snap, faults>>,
         pending' \in 0..LastFix', emitted' \in 0..LastFix', due' \in Nat,
         due' = 0 \/ due' >= now, (pending' = 0) <=> (due' = 0),
         lastEmit' \in 0..now, prevEmit' \in 0..lastEmit',
         saves' \subseteq 1..LastFix', odd' \subseteq Odd,
         map' \in 0..LastFix', latest' \in 0..LastFix', selfAt' = selfAt,
         warned' \in BOOLEAN, warnings' \in Nat
  PROVE  TypeOK'
<1>1. LastFix \in Nat /\ stored \in 0..LastFix /\ snap \in 0..LastFix
  BY Types
<1>2. stored' \in 0..LastFix' /\ snap' \in 0..LastFix'
  BY <1>1
<1>3. /\ now' \in Nat \ {0} /\ selfAt' \in 0..now' /\ online' \subseteq {"mover", "watcher"}
      /\ reading' \in {"no", "asked", "read"} /\ faults' \in 0..MaxFaults
  BY DEF TypeOK
<1>4. fixes' \in Seq([at : 1..now', place : Place])
  BY DEF FixAt
<1>5. ((pending' = 0) = (due' = 0))
  OBVIOUS
<1> QED BY <1>2, <1>3, <1>4, <1>5 DEF TypeOK

(* Sending a fix, or holding it back, preserves the invariant.             *)
LEMMA FixKeeps ==
  ASSUME IInv, NEW v \in Speed, NEW p \in Place, Fix(v, p)
  PROVE  IInv'
<1> USE DEF IInv
<1> DEFINE k == LastFix + 1
           fix == [at |-> now, place |-> p]
<1>1. /\ fixes' \in Seq(FixAt(now)) /\ LastFix' = k /\ fixes'[k] = fix
      /\ fix \in [at : Nat, place : Place]
      /\ \A i \in 1..LastFix : fixes'[i] = fixes[i]
  BY NewFix
<1>2. /\ now \in Nat /\ now # 0 /\ LastFix \in Nat /\ pending \in 0..LastFix
      /\ emitted \in 0..LastFix /\ latest \in 0..LastFix /\ map \in 0..LastFix
      /\ lastEmit \in 0..now /\ prevEmit \in 0..lastEmit
      /\ due \in Nat /\ (due = 0 \/ due >= now) /\ ((pending = 0) <=> (due = 0))
      /\ saves \subseteq 1..LastFix /\ warned \in BOOLEAN /\ warnings \in Nat
  BY Types
<1>3. UNCHANGED <<now, online, stored, reading, snap, faults>>
  BY DEF Fix
<1>4. latest # 0 => fixes'[latest] = fixes[latest]
  BY <1>1, <1>2
<1>5. Interval[v] \in Nat \ {0}
  BY LocationAssumption
<1>6. CASE WindowOver(Interval[v])
  <2>1. Emit(k, fix) /\ UNCHANGED <<pending, due>>
    BY <1>6 DEF Fix
  <2>2. k \in 1..LastFix' /\ k = LastFix' /\ LastFix' \in {LastFix, LastFix + 1}
    BY <1>1, <1>2
  <2> HIDE DEF fix, k
  <2>3. /\ StoreInv' /\ MapInv' /\ WarnInv'
        /\ lastEmit' = now /\ prevEmit' = lastEmit /\ emitted' = k
        /\ saves' \subseteq 1..LastFix' /\ odd' \subseteq Odd
        /\ map' \in 0..LastFix' /\ latest' \in 0..LastFix' /\ selfAt' = selfAt
        /\ warned' \in BOOLEAN /\ warnings' \in Nat
    BY <1>1, <1>3, <1>4, <2>1, <2>2, EmitKeeps
  <2>4. TypeOK'
    BY <1>1, <1>2, <1>3, <2>1, <2>2, <2>3, TypesAgain
  <2>5. due # 0 /\ lastEmit # 0 => due - lastEmit >= Interval[v]
    BY <1>2, <1>5, <1>6 DEF WindowOver
  <2>6. PublisherInv'
    BY <2>1, <2>2, <2>3, <2>5 DEF PublisherInv
  <2> QED BY <2>3, <2>4, <2>6
<1>7. CASE ~WindowOver(Interval[v])
  <2>1. /\ pending' = k /\ due' = IF due # 0 THEN due ELSE lastEmit + Interval[v]
        /\ UNCHANGED <<lastEmit, prevEmit, emitted, saves, watcherVars, odd>>
    BY <1>7 DEF Fix, Withhold
  <2>2. lastEmit # 0 /\ now - lastEmit < Interval[v]
    BY <1>2, <1>5, <1>7 DEF WindowOver
  <2>3. due' \in Nat /\ due' # 0 /\ due' >= now
    BY <1>2, <1>5, <2>1, <2>2
  <2>4. PublisherInv'
    <3>1. prevEmit # 0 => \E w \in Speed : due' - prevEmit >= Interval[w]
      <4>1. CASE due # 0
        BY <2>1, <4>1 DEF PublisherInv
      <4>2. CASE due = 0
        BY <1>2, <1>5, <2>1, <4>2
      <4> QED BY <4>1, <4>2
    <3> QED BY <1>1, <2>1, <3>1 DEF PublisherInv
  <2>5. StoreInv' /\ MapInv'
    BY <1>1, <2>1 DEF StoreInv, MapInv
  <2>6. WarnInv'
    BY <1>3, <1>4, <2>1, WarnStable DEF watcherVars
  <2>7. TypeOK'
    <3>1. odd' \subseteq Odd /\ selfAt' = selfAt
      BY <2>1 DEF TypeOK, watcherVars
    <3>2. saves' \subseteq 1..LastFix' /\ map' \in 0..LastFix' /\ latest' \in 0..LastFix'
      BY <1>1, <1>2, <2>1 DEF watcherVars
    <3> QED BY <1>1, <1>2, <1>3, <2>1, <2>3, <3>1, <3>2, TypesAgain DEF watcherVars
  <2> QED BY <2>4, <2>5, <2>6, <2>7
<1> QED BY <1>6, <1>7

(* So does sending the fix that waits.                                     *)
LEMMA FlushKeeps ==
  ASSUME IInv, FlushPending
  PROVE  IInv'
<1> USE DEF IInv
<1>1. /\ now \in Nat /\ now # 0 /\ LastFix \in Nat /\ pending \in 0..LastFix
      /\ emitted \in 0..LastFix /\ lastEmit \in 0..now /\ prevEmit \in 0..lastEmit
      /\ due \in Nat /\ ((pending = 0) <=> (due = 0))
      /\ fixes \in Seq(FixAt(now))
  BY Types DEF FixAt
<1>2. /\ due = now /\ pending' = 0 /\ due' = 0 /\ Emit(pending, fixes[pending])
      /\ UNCHANGED <<now, fixes, online, stored, reading, snap, faults>>
  BY DEF FlushPending, Flushed
<1>3. LastFix' = LastFix /\ pending \in 1..LastFix
  BY <1>1, <1>2 DEF LastFix
<1>4. fixes[pending] \in [at : Nat, place : Place]
  BY <1>3, KnownFix
<1>5. pending = LastFix \/ emitted = LastFix
  BY <1>3 DEF PublisherInv
<1>6. /\ StoreInv' /\ MapInv' /\ WarnInv'
      /\ lastEmit' = now /\ prevEmit' = lastEmit /\ emitted' = pending
      /\ saves' \subseteq 1..LastFix' /\ odd' \subseteq Odd
      /\ map' \in 0..LastFix' /\ latest' \in 0..LastFix' /\ selfAt' = selfAt
      /\ warned' \in BOOLEAN /\ warnings' \in Nat
  BY <1>2, <1>3, <1>4, <1>5, EmitKeeps
<1>7. PublisherInv'
  BY <1>2 DEF PublisherInv
<1>8. TypeOK'
  BY <1>1, <1>2, <1>3, <1>6, TypesAgain
<1> QED BY <1>6, <1>7, <1>8

-----------------------------------------------------------------------------
(* The store, the replay, the sockets and the clock.                       *)

(* A fault uses the budget.                                                *)
LEMMA FaultCounts ==
  ASSUME TypeOK, Fault
  PROVE  faults' \in 0..MaxFaults
<1>1. MaxFaults \in Nat /\ faults \in 0..MaxFaults
  BY LocationAssumption DEF TypeOK
<1> QED BY <1>1 DEF Fault

(* A save that is done or fails preserves the invariant, in any order.     *)
LEMMA SaveKeeps ==
  ASSUME IInv, NEW k \in saves, Saved(k) \/ SaveFails(k)
  PROVE  IInv'
<1> USE DEF IInv
<1>1. LastFix \in Nat /\ k \in 1..LastFix /\ stored \in 0..LastFix /\ saves \subseteq 1..LastFix
  BY Types
<1>2. /\ saves' = saves \ {k} /\ LastFix' = LastFix
      /\ UNCHANGED <<now, fixes, publisherVars, online, reading, snap, watcherVars>>
  BY DEF Saved, SaveFails, LastFix
<1>3. \/ stored' = k /\ odd' = (IF k < stored THEN odd \cup {"older"} ELSE odd) /\ faults' = faults
      \/ stored' = stored /\ odd' = odd \cup {"failed"} /\ faults' \in 0..MaxFaults
  <2>1. CASE Saved(k)
    <3>1. stored' = k /\ faults' = faults
      BY <2>1 DEF Saved
    <3>2. odd' = IF k < stored THEN odd \cup {"older"} ELSE odd
      BY <2>1 DEF Saved
    <3> QED BY <3>1, <3>2
  <2>2. CASE SaveFails(k)
    BY <2>2, FaultCounts DEF SaveFails
  <2> QED BY <2>1, <2>2
<1>4. TypeOK'
  <2>0. faults \in 0..MaxFaults /\ odd \subseteq Odd
    BY DEF TypeOK
  <2>1. faults' \in 0..MaxFaults /\ odd' \subseteq Odd /\ stored' \in 0..LastFix
    <3>1. odd \cup {"older"} \subseteq Odd /\ odd \cup {"failed"} \subseteq Odd
      BY <2>0 DEF Odd
    <3>2. stored' \in 0..LastFix /\ faults' \in 0..MaxFaults
      BY <1>1, <1>3, <2>0
    <3>3. odd' \in {odd, odd \cup {"older"}, odd \cup {"failed"}}
      BY <1>3
    <3> QED BY <2>0, <3>1, <3>2, <3>3
  <2> QED BY <1>2, <2>1 DEF TypeOK, publisherVars, watcherVars
<1>5. PublisherInv'
  BY <1>2 DEF PublisherInv, publisherVars
<1>6. odd \subseteq odd' /\ (odd' \cap {"lost", "older", "failed"} = {} => (NewestKept => NewestKept'))
  BY <1>1, <1>2, <1>3 DEF NewestKept
<1>7. StoreInv'
  BY <1>2, <1>6 DEF StoreInv, publisherVars
<1>8. MapInv'
  BY <1>2, <1>6 DEF MapInv, publisherVars, watcherVars
<1>9. WarnInv'
  BY <1>2, WarnStable DEF watcherVars
<1> QED BY <1>4, <1>5, <1>7, <1>8, <1>9

(* So does reading the store for a replay.                                 *)
LEMMA ReadKeeps ==
  ASSUME IInv, Read \/ ReadFails
  PROVE  IInv'
<1> USE DEF IInv
<1>1. /\ LastFix \in Nat /\ stored \in 0..LastFix /\ snap \in 0..LastFix /\ map \in 0..LastFix
      /\ saves \subseteq 1..LastFix
  BY Types
<1>2. /\ reading = "asked" /\ LastFix' = LastFix
      /\ UNCHANGED <<now, fixes, publisherVars, online, storeVars, watcherVars>>
  BY DEF Read, ReadFails, LastFix
<1>3. \/ /\ reading' = "read" /\ snap' = stored /\ faults' = faults
         /\ odd' = IF \E k \in saves : k > Max({stored, map}) THEN odd \cup {"unsaved"} ELSE odd
      \/ /\ reading' = "no" /\ snap' = snap /\ faults' \in 0..MaxFaults
         /\ odd' = odd \cup {"unread"}
  <2>1. CASE Read
    BY <2>1 DEF Read
  <2>2. CASE ReadFails
    BY <2>2, FaultCounts DEF ReadFails
  <2> QED BY <2>1, <2>2
<1>4. TypeOK'
  <2>1. /\ faults' \in 0..MaxFaults /\ odd' \subseteq Odd /\ snap' \in 0..LastFix
        /\ reading' \in {"no", "asked", "read"}
    BY <1>1, <1>3 DEF TypeOK, Odd
  <2> QED BY <1>2, <2>1 DEF TypeOK, publisherVars, watcherVars, storeVars
<1>5. PublisherInv'
  BY <1>2 DEF PublisherInv, publisherVars
<1>6. odd' \cap {"lost", "older", "failed"} = odd \cap {"lost", "older", "failed"} /\ odd \subseteq odd'
  BY <1>3
<1>7. StoreInv'
  BY <1>2, <1>6 DEF StoreInv, NewestKept, publisherVars, storeVars
<1>8. MapInv'
  <2> SUFFICES ASSUME pending' # LastFix', odd' = {}, "watcher" \in online', map' # LastFix'
               PROVE  reading' = "read" /\ snap' = LastFix'
    BY DEF MapInv
  <2>1. /\ reading' = "read" /\ snap' = stored /\ odd = {}
        /\ ~\E k \in saves : k > Max({stored, map})
    BY <1>3
  <2>2. NewestKept /\ map # LastFix
    BY <1>2, <2>1 DEF MapInv, publisherVars, watcherVars
  <2>3. Max({stored, map}) = IF stored >= map THEN stored ELSE map
    BY <1>1, MaxOfTwo
  <2>4. stored = LastFix
    BY <1>1, <2>1, <2>2, <2>3 DEF NewestKept
  <2> QED BY <1>2, <2>1, <2>4
<1>9. WarnInv'
  BY <1>2, WarnStable DEF watcherVars
<1> QED BY <1>4, <1>5, <1>7, <1>8, <1>9

(* So does a replay that comes after what was relayed meanwhile.           *)
LEMMA ReplayKeeps ==
  ASSUME IInv, Replay
  PROVE  IInv'
<1> USE DEF IInv
<1>1. /\ LastFix \in Nat /\ snap \in 0..LastFix /\ map \in 0..LastFix /\ latest \in 0..LastFix
      /\ warned \in BOOLEAN /\ warnings \in Nat
  BY Types
<1>2. /\ reading = "read" /\ reading' = "no" /\ snap' = 0 /\ LastFix' = LastFix
      /\ UNCHANGED <<now, fixes, publisherVars, online, storeVars, faults, odd>>
      /\ IF snap = 0 THEN UNCHANGED watcherVars ELSE Take(snap, fixes[snap])
  BY DEF Replay, LastFix
<1>3. /\ WarnInv' /\ map' \in 0..LastFix /\ latest' \in 0..LastFix /\ selfAt' = selfAt
      /\ warned' \in BOOLEAN /\ warnings' \in Nat
      /\ map' = map \/ map' = snap
      /\ map' >= map /\ map' >= snap
  <2>1. CASE snap = 0
    <3>1. UNCHANGED watcherVars
      BY <1>2, <2>1
    <3>2. WarnInv'
      BY <1>2, <3>1, WarnStable DEF watcherVars
    <3> QED BY <1>1, <2>1, <3>1, <3>2 DEF watcherVars
  <2>2. CASE snap # 0
    <3>1. Take(snap, fixes[snap]) /\ snap \in 1..LastFix /\ snap \in Nat \ {0}
      BY <1>1, <1>2, <2>2
    <3>2. fixes[snap] \in [at : Nat, place : Place]
      BY <3>1, KnownFix
    <3>3. fixes'[snap] = fixes[snap] /\ now' = now
      BY <1>2
    <3>4. /\ WarnInv' /\ latest' = snap /\ map' = (IF snap >= map THEN snap ELSE map)
          /\ selfAt' = selfAt /\ warned' \in BOOLEAN /\ warnings' \in Nat
      BY <3>1, <3>2, <3>3, TakeKeeps
    <3> QED BY <1>1, <3>4
  <2> QED BY <2>1, <2>2
<1>4. TypeOK'
  <2>1. selfAt' \in 0..now' /\ reading' \in {"no", "asked", "read"} /\ snap' \in 0..LastFix'
    BY <1>1, <1>2, <1>3, Types
  <2> QED BY <1>2, <1>3, <2>1 DEF TypeOK, publisherVars, storeVars
<1>5. PublisherInv' /\ StoreInv'
  BY <1>2 DEF PublisherInv, StoreInv, NewestKept, publisherVars, storeVars
<1>6. MapInv'
  <2> SUFFICES ASSUME pending' # LastFix', odd' = {}, "watcher" \in online'
               PROVE  map' = LastFix'
    BY DEF MapInv
  <2>1. map = LastFix \/ snap = LastFix
    BY <1>2 DEF MapInv, publisherVars
  <2> QED BY <1>1, <1>2, <1>3, <2>1
<1> QED BY <1>3, <1>4, <1>5, <1>6

(* So does a member that connects or drops.                                *)
LEMMA SocketKeeps ==
  ASSUME IInv, NEW m \in {"mover", "watcher"}, Connect(m) \/ Drop(m)
  PROVE  IInv'
<1> USE DEF IInv
<1>1. /\ UNCHANGED <<now, fixes, publisherVars, storeVars, watcherVars, odd>> /\ LastFix' = LastFix
  BY DEF Connect, Drop, LastFix
<1>2. /\ reading' \in {"no", "asked", "read"} /\ online' \subseteq {"mover", "watcher"}
      /\ faults' \in 0..MaxFaults /\ snap' \in {snap, 0}
  <2>1. /\ reading \in {"no", "asked", "read"} /\ online \subseteq {"mover", "watcher"}
        /\ faults \in 0..MaxFaults
    BY DEF TypeOK
  <2>2. CASE Connect(m)
    BY <2>1, <2>2 DEF Connect
  <2>3. CASE Drop(m)
    BY <2>1, <2>3, FaultCounts DEF Drop
  <2> QED BY <2>2, <2>3
<1>3. TypeOK'
  <2>1. LastFix \in Nat
    BY Types
  <2> QED BY <1>1, <1>2, <2>1 DEF TypeOK, publisherVars, storeVars, watcherVars
<1>4. PublisherInv' /\ StoreInv'
  BY <1>1 DEF PublisherInv, StoreInv, NewestKept, publisherVars, storeVars
<1>5. "watcher" \in online' =>
        \/ "watcher" \in online /\ reading' = reading /\ snap' = snap
        \/ reading' = "asked"
  BY DEF Connect, Drop
<1>6. MapInv'
  <2> SUFFICES ASSUME pending' # LastFix', odd' = {}, "watcher" \in online', map' # LastFix'
               PROVE  \/ reading' = "asked" /\ NewestKept'
                      \/ reading' = "read" /\ snap' = LastFix'
    BY DEF MapInv
  <2>1. NewestKept'
    BY <1>1 DEF StoreInv, NewestKept, publisherVars, storeVars
  <2>2. CASE reading' = "asked"
    BY <2>1, <2>2
  <2>3. CASE "watcher" \in online /\ reading' = reading /\ snap' = snap
    BY <1>1, <2>1, <2>3 DEF MapInv, publisherVars, watcherVars
  <2> QED BY <1>5, <2>2, <2>3
<1>7. WarnInv'
  BY <1>1, WarnStable DEF watcherVars
<1> QED BY <1>3, <1>4, <1>6, <1>7

(* So does a position of the watcher itself.                               *)
LEMMA SelfFixKeeps ==
  ASSUME IInv, SelfFix
  PROVE  IInv'
<1> USE DEF IInv
<1>1. /\ now \in Nat /\ now # 0 /\ LastFix \in Nat /\ latest \in 0..LastFix
      /\ warned \in BOOLEAN /\ warnings \in Nat
  BY Types
<1>2. /\ selfAt' = now /\ LastFix' = LastFix
      /\ Measure(latest, fixes[Max({latest, 1})], now)
      /\ UNCHANGED <<now, fixes, publisherVars, online, storeVars, reading, snap, map, latest, faults,
                     odd>>
  BY DEF SelfFix, LastFix
<1>3. PublisherInv' /\ StoreInv' /\ MapInv'
  BY <1>2 DEF PublisherInv, StoreInv, MapInv, NewestKept, publisherVars, storeVars
<1>4. WarnInv' /\ warned' \in BOOLEAN /\ warnings' \in Nat
  <2>1. CASE latest = 0
    <3>1. UNCHANGED <<warned, warnings>>
      BY <1>2, <2>1 DEF Measure
    <3> QED BY <1>1, <1>2, <2>1, <3>1 DEF WarnInv, WarningsFollow
  <2>2. CASE latest # 0
    <3>1. Max({latest, 1}) = latest
      BY <1>1, <2>2, MaxOfTwo
    <3>2. fixes[latest] \in [at : Nat, place : Place]
      BY <1>1, <2>2, KnownFix
    <3>3. warnings <= 1 /\ (~warned => warnings = 0) /\ latest <= map
      BY DEF WarnInv, WarningsFollow
    <3>4. /\ warned' \in BOOLEAN /\ warnings' \in Nat /\ warnings' <= 1
          /\ ~warned' => warnings' = 0
          /\ now # 0 /\ ~IsStale(now) /\ ~IsStale(fixes[latest].at) =>
               /\ fixes[latest].place = "near" => warned'
               /\ fixes[latest].place = "far" => ~warned'
      BY <1>1, <1>2, <2>2, <3>1, <3>2, <3>3, MeasureKeeps
    <3>5. ~IsStale(now)
      BY <1>1, LocationAssumption DEF IsStale
    <3>6. IsStale(fixes[latest].at)' = IsStale(fixes[latest].at)
      BY <1>2 DEF IsStale
    <3> QED BY <1>1, <1>2, <3>3, <3>4, <3>5, <3>6 DEF WarnInv, WarningsFollow
  <2> QED BY <2>1, <2>2
<1>5. TypeOK'
  <2>1. selfAt' \in 0..now'
    BY <1>1, <1>2
  <2> QED BY <1>2, <1>4, <2>1 DEF TypeOK, publisherVars, storeVars
<1> QED BY <1>3, <1>4, <1>5

(* So does time, which waits for the timer that is due.                    *)
LEMMA TickKeeps ==
  ASSUME IInv, Tick
  PROVE  IInv'
<1> USE DEF IInv
<1>1. /\ due # now /\ now' = now + 1 /\ LastFix' = LastFix
      /\ UNCHANGED <<fixes, publisherVars, online, storeVars, reading, snap, watcherVars, faults,
                     odd>>
  BY DEF Tick, LastFix
<1>2. /\ now \in Nat /\ due \in Nat /\ (due = 0 \/ due >= now) /\ ((pending = 0) <=> (due = 0))
      /\ lastEmit \in 0..now /\ prevEmit \in 0..lastEmit /\ selfAt \in 0..now
      /\ fixes \in Seq(FixAt(now))
  BY Types DEF FixAt
<1>3. PublisherInv' /\ StoreInv' /\ MapInv'
  BY <1>1 DEF PublisherInv, StoreInv, MapInv, NewestKept, publisherVars, storeVars, watcherVars
<1>4. WarnInv'
  BY <1>1, WarnStable DEF watcherVars
<1>5. TypeOK'
  <2>1. fixes' \in Seq([at : 1..now', place : Place])
    <3>1. FixAt(now) \subseteq FixAt(now + 1)
      BY <1>2 DEF FixAt
    <3>2. fixes \in Seq(FixAt(now + 1))
      BY <1>2, <3>1, SeqMonotonic
    <3> QED BY <1>1, <3>2 DEF FixAt
  <2>2. /\ now' \in Nat \ {0} /\ lastEmit' \in 0..now' /\ prevEmit' \in 0..lastEmit'
        /\ selfAt' \in 0..now' /\ due' \in Nat /\ (due' = 0 \/ due' >= now')
    BY <1>1, <1>2 DEF publisherVars, watcherVars
  <2>3. /\ {pending, emitted, stored, snap, map, latest}' \subseteq 0..LastFix'
        /\ saves' \subseteq 1..LastFix' /\ ((pending' = 0) = (due' = 0))
        /\ online' \subseteq {"mover", "watcher"} /\ reading' \in {"no", "asked", "read"}
        /\ warned' \in BOOLEAN /\ warnings' \in Nat /\ faults' \in 0..MaxFaults
        /\ odd' \subseteq Odd
    BY <1>1 DEF TypeOK, publisherVars, storeVars, watcherVars
  <2> QED BY <2>1, <2>2, <2>3 DEF TypeOK
<1> QED BY <1>3, <1>4, <1>5

(* The invariant holds initially.                                          *)
LEMMA IInvInit ==
  ASSUME Init
  PROVE  IInv
<1>1. LastFix = 0 /\ fixes \in Seq(FixAt(1))
  BY DEF Init, LastFix
<1>2. TypeOK
  <2>1. MaxFaults \in Nat
    BY LocationAssumption
  <2>2. fixes \in Seq([at : 1..now, place : Place])
    BY <1>1 DEF Init, FixAt
  <2>3. warned = FALSE
    BY DEF Init
  <2>4. /\ now \in Nat \ {0} /\ {pending, emitted, stored, snap, map, latest} \subseteq 0..LastFix
        /\ saves \subseteq 1..LastFix /\ lastEmit \in 0..now /\ prevEmit \in 0..lastEmit
        /\ selfAt \in 0..now /\ due \in Nat /\ (due = 0 \/ due >= now)
        /\ ((pending = 0) = (due = 0)) /\ online \subseteq {"mover", "watcher"}
        /\ reading \in {"no", "asked", "read"} /\ warnings \in Nat /\ odd \subseteq Odd
    BY <1>1 DEF Init
  <2>5. faults \in 0..MaxFaults
    BY <2>1 DEF Init
  <2> QED BY <2>2, <2>3, <2>4, <2>5 DEF TypeOK
<1>3. PublisherInv /\ StoreInv /\ MapInv
  BY <1>1 DEF Init, PublisherInv, StoreInv, MapInv
<1>4. WarnInv
  BY DEF Init, WarnInv, WarningsFollow
<1> QED BY <1>2, <1>3, <1>4 DEF IInv

(* Every step preserves it.                                                *)
LEMMA IInvStep ==
  ASSUME IInv, [Next]_vars
  PROVE  IInv'
<1>1. CASE UNCHANGED vars
  BY <1>1 DEF vars, publisherVars, storeVars, watcherVars, IInv, TypeOK, PublisherInv, StoreInv,
              MapInv, NewestKept, WarnInv, WarningsFollow, IsStale, LastFix
<1>2. CASE \E v \in Speed, p \in Place : Fix(v, p)
  BY <1>2, FixKeeps
<1>3. CASE FlushPending
  BY <1>3, FlushKeeps
<1>4. CASE \E k \in saves : Saved(k) \/ SaveFails(k)
  BY <1>4, SaveKeeps
<1>5. CASE Read \/ ReadFails
  BY <1>5, ReadKeeps
<1>6. CASE Replay
  BY <1>6, ReplayKeeps
<1>7. CASE \E m \in {"mover", "watcher"} : Connect(m) \/ Drop(m)
  BY <1>7, SocketKeeps
<1>8. CASE SelfFix
  BY <1>8, SelfFixKeeps
<1>9. CASE Tick
  BY <1>9, TickKeeps
<1> QED BY <1>1, <1>2, <1>3, <1>4, <1>5, <1>6, <1>7, <1>8, <1>9 DEF Next

-----------------------------------------------------------------------------
(* It holds in every reachable state.                                      *)
LEMMA Invariant == Spec => []IInv
BY IInvInit, IInvStep, PTL DEF Spec

(* Every variable keeps its type, a fix waits exactly while a timer runs,  *)
(* and no timer is late.                                                   *)
THEOREM LocationTypeCorrect == Spec => []TypeOK
<1>1. IInv => TypeOK
  BY DEF IInv
<1> QED BY <1>1, Invariant, PTL

(* Whatever the speeds and whenever the operating system delivers fixes,   *)
(* no third fix is sent within a window.                                   *)
THEOREM NoThirdWithinWindow == Spec => Throttled
<1>1. IInv /\ [Next]_vars =>
        [emitted' # emitted /\ prevEmit # 0
           => \E v \in Speed : now - prevEmit >= Interval[v]]_vars
  <2> SUFFICES ASSUME IInv, Next, emitted' # emitted, prevEmit # 0
               PROVE  \E v \in Speed : now - prevEmit >= Interval[v]
    BY DEF vars, publisherVars
  <2>1. now \in Nat /\ lastEmit \in 0..now /\ prevEmit \in 0..lastEmit /\ now # 0
    BY Types DEF IInv
  <2>2. CASE FlushPending
    BY <2>1, <2>2 DEF FlushPending, IInv, PublisherInv
  <2>3. CASE \E v \in Speed, p \in Place : Fix(v, p)
    <3>1. PICK v \in Speed : WindowOver(Interval[v])
      BY <2>3 DEF Fix
    <3>2. Interval[v] \in Nat
      BY LocationAssumption
    <3> QED BY <2>1, <3>1, <3>2 DEF WindowOver
  <2> QED
    BY <2>2, <2>3 DEF Next, Saved, SaveFails, Read, Replay, ReadFails, Connect, Drop, SelfFix, Tick,
                      publisherVars
<1> QED BY <1>1, Invariant, PTL DEF Spec, Throttled

(* However saves, sends and timers are ordered: once nothing is under way  *)
(* the store holds the newest fix, unless a fix was lost, a save failed or *)
(* an older one was done after a newer.                                    *)
THEOREM NewestIsStored == Spec => []StoredIsLatest
<1>1. IInv => StoredIsLatest
  BY Types DEF IInv, StoreInv, NewestKept, StoredIsLatest
<1> QED BY <1>1, Invariant, PTL

(* However relay, registration, replay and saves interleave: once nothing  *)
(* is under way the map shows the newest fix, unless one of the races that *)
(* are named in odd happened after it was sent.                            *)
THEOREM NewestIsShown == Spec => []LatestShown
<1>1. IInv => LatestShown
  BY Types DEF IInv, MapInv, LatestShown
<1> QED BY <1>1, Invariant, PTL

(* Warnings follow the position that was measured last, for any track.     *)
THEOREM WarningsRight == Spec => []WarningsFollow
<1>1. IInv => WarningsFollow
  BY DEF IInv, WarnInv
<1> QED BY <1>1, Invariant, PTL

=============================================================================

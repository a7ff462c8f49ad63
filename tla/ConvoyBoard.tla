---------------------------- MODULE ConvoyBoard ----------------------------
(***************************************************************************)
(* What the realtime layer promises the members of a convoy, without       *)
(* sockets, queues or snapshots: one board of hazards and one route plan.  *)
(* Every change to the board is a single step that also reaches everybody  *)
(* who is tuned in, its author apart; whoever tunes in is handed the whole *)
(* board.  What a device kept from before it tuned in is its own affair.   *)
(***************************************************************************)
EXTENDS Naturals

CONSTANTS Member, Owner, HazardId, Reporter, Plan, NoPlan

VARIABLES
  hazards,   \* current hazards on the board
  plan,      \* the leader's plan, or NoPlan
  tuned,     \* members that are tuned in
  due        \* due[m]: what m shows of others, once it has caught up

boardVars == <<hazards, plan, tuned, due>>

PlanOrNone == Plan \cup {NoPlan}
Blank == [hazards |-> {}, plan |-> NoPlan]

ByOthers(m, S) == {h \in S : Reporter[h] # m}

TypeOK ==
  /\ hazards \subseteq HazardId /\ plan \in PlanOrNone
  /\ tuned \subseteq Member
  /\ due \in [Member -> [hazards : SUBSET HazardId, plan : PlanOrNone]]

Init ==
  /\ hazards = {} /\ plan = NoPlan /\ tuned = {}
  /\ due = [m \in Member |-> Blank]

Report(h) ==
  /\ hazards' = hazards \cup {h}
  /\ due' = [m \in Member |-> IF m \in tuned /\ m # Reporter[h]
                              THEN [due[m] EXCEPT !.hazards = @ \cup {h}] ELSE due[m]]
  /\ UNCHANGED <<plan, tuned>>

(* By its reporter, or because its time has run out.                       *)
Withdraw(h) ==
  /\ hazards' = hazards \ {h}
  /\ due' = [m \in Member |-> [due[m] EXCEPT !.hazards = @ \ {h}]]
  /\ UNCHANGED <<plan, tuned>>

SetPlan(p) ==
  /\ plan' = p
  /\ due' = [m \in Member |-> IF m \in tuned \ {Owner}
                              THEN [due[m] EXCEPT !.plan = p] ELSE due[m]]
  /\ UNCHANGED <<hazards, tuned>>

TuneIn(m) ==
  /\ m \notin tuned
  /\ tuned' = tuned \cup {m}
  /\ \E kept \in SUBSET HazardId, old \in PlanOrNone :
       due' = [due EXCEPT ![m] =
                 [hazards |-> ByOthers(m, hazards \cup kept),
                  plan    |-> CASE m = Owner -> NoPlan
                                [] m # Owner /\ plan # NoPlan -> plan
                                [] OTHER -> old]]
  /\ UNCHANGED <<hazards, plan>>

TuneOut(m) ==
  /\ tuned' = tuned \ {m}
  /\ due' = [due EXCEPT ![m] = Blank]
  /\ UNCHANGED <<hazards, plan>>

(* The board is lost, and everybody drops out with it.                     *)
Wipe == hazards' = {} /\ plan' = NoPlan /\ tuned' = {} /\ due' = [m \in Member |-> Blank]

Next ==
  \/ \E h \in HazardId : Report(h) \/ Withdraw(h)
  \/ \E p \in PlanOrNone : SetPlan(p)
  \/ \E m \in Member : TuneIn(m) \/ TuneOut(m)
  \/ Wipe

Spec == Init /\ [][Next]_boardVars

(* The promise: whoever is tuned in ends up with the whole board.          *)
WholeBoard ==
  \A m \in tuned : /\ ByOthers(m, hazards) \subseteq due[m].hazards
                   /\ m # Owner /\ plan # NoPlan => due[m].plan = plan

=============================================================================

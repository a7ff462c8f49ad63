------------------------ MODULE ConvoyBoard_proofs ------------------------
(***************************************************************************)
(* The abstract board keeps its promise, for any members, hazards and      *)
(* plans.  The detailed gateway implements the board.                      *)
(***************************************************************************)
EXTENDS ConvoyBoard, TLAPS

(* The board and what members are due keep their types.                    *)
LEMMA BoardTyped == TypeOK /\ [Next]_boardVars => TypeOK'
<1> SUFFICES ASSUME TypeOK, [Next]_boardVars
             PROVE  TypeOK'
  OBVIOUS
<1> USE DEF TypeOK, Blank, ByOthers
<1>1. ASSUME NEW h \in HazardId, Report(h) \/ Withdraw(h) PROVE TypeOK'
  BY <1>1 DEF Report, Withdraw
<1>2. ASSUME NEW p \in PlanOrNone, SetPlan(p) PROVE TypeOK'
  BY <1>2 DEF SetPlan
<1>3. ASSUME NEW m \in Member, TuneIn(m) PROVE TypeOK'
  BY <1>3 DEF TuneIn, PlanOrNone
<1>4. ASSUME NEW m \in Member, TuneOut(m) PROVE TypeOK'
  BY <1>4 DEF TuneOut, PlanOrNone
<1>5. CASE Wipe
  BY <1>5 DEF Wipe, PlanOrNone
<1>6. CASE UNCHANGED boardVars
  BY <1>6 DEF boardVars
<1> QED BY <1>1, <1>2, <1>3, <1>4, <1>5, <1>6 DEF Next

(* Whoever is tuned in stays due the whole board.                          *)
LEMMA BoardWhole == TypeOK /\ WholeBoard /\ [Next]_boardVars => WholeBoard'
<1> SUFFICES ASSUME TypeOK, WholeBoard, [Next]_boardVars
             PROVE  WholeBoard'
  OBVIOUS
<1> USE DEF TypeOK, WholeBoard, ByOthers
<1>1. ASSUME NEW h \in HazardId, Report(h) PROVE WholeBoard'
  BY <1>1 DEF Report
<1>2. ASSUME NEW h \in HazardId, Withdraw(h) PROVE WholeBoard'
  BY <1>2 DEF Withdraw
<1>3. ASSUME NEW p \in PlanOrNone, SetPlan(p) PROVE WholeBoard'
  BY <1>3 DEF SetPlan
<1>4. ASSUME NEW m \in Member, TuneIn(m) PROVE WholeBoard'
  BY <1>4 DEF TuneIn
<1>5. ASSUME NEW m \in Member, TuneOut(m) PROVE WholeBoard'
  BY <1>5 DEF TuneOut
<1>6. CASE Wipe
  BY <1>6 DEF Wipe
<1>7. CASE UNCHANGED boardVars
  BY <1>7 DEF boardVars
<1> QED BY <1>1, <1>2, <1>3, <1>4, <1>5, <1>6, <1>7 DEF Next

(* Whoever is tuned in ends up with all hazards of others and with the     *)
(* plan: what the abstract board promises, it keeps.                       *)
THEOREM PromiseKept == Spec => []WholeBoard
<1>1. Init => TypeOK /\ WholeBoard
  BY DEF Init, TypeOK, WholeBoard, Blank, PlanOrNone
<1> QED BY <1>1, BoardTyped, BoardWhole, PTL DEF Spec

=============================================================================

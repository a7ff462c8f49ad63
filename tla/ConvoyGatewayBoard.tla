------------------------- MODULE ConvoyGatewayBoard -------------------------
(***************************************************************************)
(* The single-process gateway implements ConvoyBoard.  The board is the    *)
(* snapshot store without what has expired; a member is tuned in while its *)
(* socket is registered, works and is still in use; what it is due is what *)
(* its device shows once the frames on their way to it are handled.        *)
(***************************************************************************)
EXTENDS MCConvoyGateway

TunedIn == {m \in Member : Tuned(m)}

DueOf(m) ==
  IF ~Tuned(m) THEN [hazards |-> {}, plan |-> NoPlan]
  ELSE [hazards |-> {h \in HazardId \ expired : Reporter[h] # m /\ WillShow(m, h)},
        plan    |-> IF m = Owner THEN NoPlan
                    ELSE CHOOSE p \in PlanOrNone : WillHavePlan(m, p)]

Board == INSTANCE ConvoyBoard WITH
           hazards <- storeHaz \ expired,
           plan    <- storePlan,
           tuned   <- TunedIn,
           due     <- [m \in Member |-> DueOf(m)]

(* Every step of gateway, network and devices is a step of the board or    *)
(* leaves it alone: relaying and recording a frame are one change, and a   *)
(* connecting socket misses none of them.                                  *)
ImplementsBoard == Board!Spec
=============================================================================

-------------------------- MODULE MCConvoyGateway --------------------------
(* Constant values for the runs of ConvoyGateway.                          *)
EXTENDS ConvoyGateway, TLC

CONSTANTS o, a

(* Each hazard id carries its reporter.                                    *)
OwnerReports  == [h \in HazardId |-> o]
MemberReports == [h \in HazardId |-> a]

Calm == [k \in Kind |-> 0]

Restarts      == [Calm EXCEPT !["edit"] = 2, !["rebuild"] = 1, !["appRestart"] = 1,
                              !["serverRestart"] = 1, !["leave"] = 1, !["expire"] = 1]
BrokenLinks   == [Calm EXCEPT !["edit"] = 2, !["cut"] = 1, !["silence"] = 1]
Undisturbed   == [Calm EXCEPT !["edit"] = 4]
TwoEdits      == [Calm EXCEPT !["edit"] = 2]
TwoEditsOneCut     == [TwoEdits EXCEPT !["cut"] = 1]
TwoEditsOneRebuild == [TwoEdits EXCEPT !["rebuild"] = 1]

ConnSymmetry == Permutations(Conn)
=============================================================================

------------------------- MODULE MCLocationPipeline -------------------------
EXTENDS LocationPipeline

(* The windows of a parked and of a driving phone.                         *)
MCInterval == [slow |-> 3, fast |-> 1]

(* Near, at the edge, away, and back.                                      *)
MCTrack == <<{"near"}, {"band"}, {"far"}, {"near"}>>
=============================================================================

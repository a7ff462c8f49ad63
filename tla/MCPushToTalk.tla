---------------------------- MODULE MCPushToTalk ----------------------------
(* Two presses, three joins and one break: one press, its interruption     *)
(* and its release, and the next press can all be under way together.      *)
EXTENDS PushToTalk
=============================================================================

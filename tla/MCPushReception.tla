-------------------------- MODULE MCPushReception --------------------------
(* Two JPush messages, one of them unreadable, and a GeTui message: enough *)
(* for deliveries of several messages to interleave and overwrite pushDict.*)
EXTENDS PushReception

CONSTANTS j1, j2, g1
JPushTwo == {j1, j2}
GeTuiOne == {g1}
ReadableTwo == {j1, g1}
=============================================================================

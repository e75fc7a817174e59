-------------------------- MODULE MCGamepadBridge --------------------------
(***************************************************************************)
(* Sources and the threads that speak for them: the native clients share   *)
(* the accept thread, the browsers the GStreamer thread.                   *)
(***************************************************************************)
EXTENDS GamepadBridge

CONSTANTS accept, gst

MCCallerOf == [s \in Sources |-> IF s \in Natives THEN accept ELSE gst]

=============================================================================

----------------------------- MODULE MCEventStream -----------------------------
(* Model checking instance of EventStream, for simulators that copy an       *)
(* event's map before they add to it (fleet, remote-edge) and the one that   *)
(* does not (fire-water): two deliveries overlap, one browser whose channel  *)
(* one frame fills, one reader of a log that has room for both events.       *)
EXTENDS EventStream
================================================================================

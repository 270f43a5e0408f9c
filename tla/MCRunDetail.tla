---------------------------- MODULE MCRunDetail ----------------------------
(* The detail page on one run. *)
EXTENDS RunDetail

CONSTANT c1

OneCli == {c1}
OneStep == {<<"step">>}
PageFaults == {"start_reply", "event_write", "finish_reply", "crash"}
NoFaults == {}
OnlyCrash == {"crash"}
=============================================================================

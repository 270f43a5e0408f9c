----------------------------- MODULE MCAgentRun -----------------------------
(* AgentRun with every failure, and Places, which share no state: a         *)
(* behaviour is one of one of them, which part chooses.  What is fair in    *)
(* the one is never enabled in the initial state of the other.              *)
EXTENDS AgentRun, Places, TLC

CONSTANTS c1, p1, p2, Cafe

VARIABLE part

agentOrPlaceVars == <<part, vars, placeVars>>

AgentOrPlaceInit == part \in {"run", "places"} /\ Init /\ PlacesInit

AgentOrPlaceNext ==
  /\ UNCHANGED part
  /\ \/ part = "run" /\ Next /\ UNCHANGED placeVars
     \/ part = "places" /\ PlacesNext /\ UNCHANGED vars

AgentOrPlaceSpec ==
  /\ AgentOrPlaceInit /\ [][AgentOrPlaceNext]_agentOrPlaceVars
  /\ AgentFairness /\ PlacesFairness

-----------------------------------------------------------------------------
OneCli == {c1}
SmallBatches == {<<"step">>, <<"tool_error", "step">>}
AllFaults == {"start", "start_reply", "event_write", "finish", "finish_reply",
              "crash"}

(* Two sessions save a café.  It is on the map until an import drops it,    *)
(* and comes back.                                                          *)
TwoSessions == {p1, p2}
Mapped == {11}
Unmapped == {Cafe}
OneCafe == {{11}, {Cafe}, {11, Cafe}}
Filled == (11 :> 2) @@ (Cafe :> 2)
=============================================================================

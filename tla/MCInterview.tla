---------------------------- MODULE MCInterview ----------------------------
(* Interviews beside a busy feed. *)
EXTENDS Interview

CONSTANTS k1, region, towns, profile, t1, t2, missing

OneKey == {k1}
ThreeFiles == {region, towns, profile}

(* The profile can change; the other files are there or not. *)
TwoProfiles == [a \in Artifact |-> IF a = profile THEN {t1, t2} ELSE {t1}]

ColdMachine == {[a \in Artifact |-> missing]}
SetUpByHand == {[a \in Artifact |-> t1]}
=============================================================================

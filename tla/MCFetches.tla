----------------------------- MODULE MCFetches -----------------------------
(* Short fetch logs of two hosts, read through a window shorter than they   *)
(* can grow.                                                                *)
EXTENDS Fetches, TLC

CONSTANTS h1, h2, s1, s2

TwoHosts == {h1, h2}
TwoScouts == {s1, s2}

(* Hosts and scouts are interchangeable, and every property is a safety     *)
(* property.                                                                *)
Alike == Permutations(TwoHosts) \cup Permutations(TwoScouts)
=============================================================================

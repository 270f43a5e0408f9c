------------------------------ MODULE MCTools ------------------------------
(* Six parts that share no state: the fetch log, the feedback cursor, the   *)
(* configuration files, the migrations, the registry of sources, and the    *)
(* pure algorithms.  A behaviour is one of one of them, which part chooses; *)
(* every interleaving of two is a product of what is checked here.          *)
EXTENDS Fetches, Feedback, ConfigFiles, Migrations, Sources, Cases

CONSTANTS h1, h2, s1, s2, east, west

VARIABLE part

toolVars == <<part, vars, feedbackVars, cfgVars, migrationVars, sourcesVars, input>>

ToolsInit ==
  /\ part \in {"fetches", "feedback", "files", "migrations", "sources",
             "cases"}
  /\ FetchInit /\ FeedbackInit /\ CfgInit /\ MigrationsInit /\ SourcesInit
  /\ IF part = "cases" THEN CasesInit
     ELSE input = [kind |-> "none", rows |-> <<>>]

ToolsNext ==
  /\ UNCHANGED part
  /\ \/ /\ part = "fetches" /\ FetchNext
        /\ UNCHANGED <<feedbackVars, cfgVars, migrationVars, sourcesVars, input>>
     \/ /\ part = "feedback" /\ FeedbackNext
        /\ UNCHANGED <<vars, cfgVars, migrationVars, sourcesVars, input>>
     \/ /\ part = "files" /\ CfgNext
        /\ UNCHANGED <<vars, feedbackVars, migrationVars, sourcesVars, input>>
     \/ /\ part = "migrations" /\ MigrationsNext
        /\ UNCHANGED <<vars, feedbackVars, cfgVars, sourcesVars, input>>
     \/ /\ part = "sources" /\ SourcesNext
        /\ UNCHANGED <<vars, feedbackVars, cfgVars, migrationVars, input>>
     \/ /\ part = "cases" /\ CasesNext
        /\ UNCHANGED <<vars, feedbackVars, cfgVars, migrationVars, sourcesVars>>

ToolsSpec == ToolsInit /\ [][ToolsNext]_toolVars

(* Every part keeps its types.                                              *)
ToolsTypeOK ==
  /\ FetchTypeOK /\ FeedbackTypeOK /\ CfgTypeOK
  /\ MigrationsTypeOK /\ SourcesTypeOK

-----------------------------------------------------------------------------
TwoHosts == {h1, h2}
TwoScouts == {s1, s2}

(* Hosts and scouts are interchangeable, and every property is a safety     *)
(* property; no other part knows them.                                      *)
Alike == Permutations(TwoHosts) \cup Permutations(TwoScouts)

(* A template with one town; hand edits that leave nothing, two boxes of    *)
(* one name, or a box no reader takes.                                      *)
OneTown(name, box) == [name |-> name, box |-> box]
TownsOf(towns) == [towns |-> towns, comment |-> TRUE]
MCTownsTemplate == TownsOf(<<OneTown(east, 1)>>)
MCHandTowns ==
  {Missing, Malformed, TownsOf(<<OneTown(east, 2), OneTown(east, 1)>>),
   TownsOf(<<OneTown(east, Bad), OneTown(west, 2)>>)}

(* Two kinds of shops and what somebody may sort into two tiers.            *)
Cheese == [key |-> "shop", value |-> "cheese"]
AnyShop == [key |-> "shop", value |-> "*"]
Bank == [key |-> "amenity", value |-> "bank"]
MCCategory == {Cheese, AnyShop, Bank}
MCKind == {Cheese, Bank}
MCCategoryTemplate == <<{Cheese}, {AnyShop}>>
MCCategoryInput ==
  {<<{AnyShop}, {Cheese}>>, <<{Cheese, Bank}, {Cheese, AnyShop}>>,
   <<{[key |-> "shop", value |-> Bad]}, {}>>}
=============================================================================

---------------------------- MODULE ConfigFiles ----------------------------
(* The configuration files the interviewer writes and everything reads:     *)
(* config.ts with the tools of interview-tools.ts.  Hand edits may come at  *)
(* any time, and between the reading of set_towns and its write lie the     *)
(* calls of the geocoder.  A file is missing, malformed, or its content; a  *)
(* malformed or missing one gives way to the committed template.            *)
EXTENDS Selections, FiniteSetsExt

CONSTANTS
  None, Missing, Malformed,
  Bad,           \* a box isValidTownBox refuses, the value of a category
                 \* of no shape
  RegionName,    \* names of regions
  Escaped,       \* those JSON.stringify has to escape, which no reader undoes
  TownName,      \* names of towns, in lower case
  Box,           \* valid bounding boxes
  TownsTemplate, \* towns.json.example
  HandTowns,     \* contents somebody may give towns.json by hand
  CategoryTemplate, \* categories.json.example
  Category,      \* "key=value" and "key=*" as [key, value]
  Kind,          \* kinds of places, those with value "*" excepted
  CategoryInput, \* inputs of set_categories: tier -> set of categories, or
                 \* of things of no shape
  Prose,         \* contents of the ICP profile
  IcpTemplate,   \* profile.md.example
  MaxTowns       \* bound: towns of a file and of a call

ASSUME ConfigParameters ==
  /\ Escaped \subseteq RegionName
  /\ IcpTemplate \in Prose
  /\ MaxTowns \in Nat
  /\ Kind \subseteq Category
  /\ \A kind \in Kind : kind.value # "*"
  /\ \A tiers \in CategoryInput : DOMAIN tiers \subseteq Nat

VARIABLES
  region,     \* the name in region.md, or Missing
  townsFile,  \* towns.json
  catFile,    \* categories.json
  profile,    \* profile.md of the prospector, or Missing
  call,       \* the set_towns call under way, or None
  reported    \* what the last call on each file reported as written, if any

cfgVars == <<region, townsFile, catFile, profile, call, reported>>

Town == [name : TownName, box : Box \cup {Bad}]
TownsContent == [towns : UNION {[1 .. n -> Town] : n \in 0 .. MaxTowns},
                 comment : BOOLEAN]
TownsFile == TownsContent \cup {Missing, Malformed}

(* A set_towns call: what it was given, the file it read, the towns it      *)
(* found there, and the answers of the geocoder so far.                     *)
TownsCall == [inputs : Seq(TownName), file : TownsFile, existing : Seq(Town),
              comment : BOOLEAN, boxes : Seq(Box \cup {Bad})]

(* Malformed and missing are no contents, and None is no call and no town.  *)
ASSUME ConfigContents ==
  /\ TownsTemplate \in TownsFile
  /\ HandTowns \subseteq TownsFile
  /\ {Missing, Malformed} \cap (TownsContent \cup CategoryInput \cup Prose) = {}
  /\ None \notin TownsCall \cup Town

-----------------------------------------------------------------------------
(* The readers.                                                             *)
ReadName(file) == IF file \in Escaped THEN "with backslashes" ELSE file

(* The first candidate that parses, or nothing at all. *)
FirstParsed(file, template, nothing) ==
  IF file \notin {Missing, Malformed} THEN file
  ELSE IF template \notin {Missing, Malformed} THEN template
  ELSE nothing

isValidTownBox(town) == town.box # Bad

(* The towns that have a box, in their order. *)
WithBox(towns) ==
  ElementsAt(towns, {i \in DOMAIN towns : isValidTownBox(towns[i])})

readTownsConfig(file) ==
  WithBox(FirstParsed(file, TownsTemplate, [towns |-> <<>>]).towns)

readIcpProfile(file) == IF file \in {Missing, IcpTemplate} THEN None ELSE file

(* The maps of readCategoryConfig: a later tier replaces an earlier one.    *)
LaterWins(tiers, isWild) ==
  LET listed == {c \in UNION {tiers[n] : n \in DOMAIN tiers} :
                   (c.value = "*") = isWild}
  IN  [c \in listed |-> Max({n \in DOMAIN tiers : c \in tiers[n]})]

(* Mutant of Resolve: the wildcards are asked first. *)
ResolveWildFirst(kind, exact, wild, other) ==
  LET any == [kind EXCEPT !.value = "*"]
  IN  IF any \in DOMAIN wild THEN wild[any]
      ELSE IF kind \in DOMAIN exact THEN exact[kind]
      ELSE other

(* tierOf: exact, then key=*, then the default. *)
Resolve(kind, exact, wild, other) ==
  LET any == [kind EXCEPT !.value = "*"]
  IN  IF kind \in DOMAIN exact THEN exact[kind]
      ELSE IF any \in DOMAIN wild THEN wild[any]
      ELSE other

tierOf(tiers, defaultTier, kind) ==
  Resolve(kind, LaterWins(tiers, FALSE), LaterWins(tiers, TRUE), defaultTier)

readCategoryConfig(file) == FirstParsed(file, CategoryTemplate, <<>>)

-----------------------------------------------------------------------------
CfgInit ==
  /\ region = Missing /\ townsFile = Missing
  /\ catFile = Missing /\ profile = Missing
  /\ call = None
  /\ reported = [file \in {"region", "towns", "categories", "icp"} |-> None]

Report(file, what) == reported' = [reported EXCEPT ![file] = what]

(* Mutant of SetRegion: the name is not read back. *)
SetRegionUnchecked(name) ==
  /\ region' = name
  /\ Report("region", name)
  /\ UNCHANGED <<townsFile, catFile, profile, call>>

(* writeRegionConfig writes, reads back and throws: the file stays.  *)
SetRegion(name) ==
  /\ region' = name
  /\ Report("region", IF ReadName(name) = name THEN name ELSE None)
  /\ UNCHANGED <<townsFile, catFile, profile, call>>

(* runSetTowns up to the geocoder: without a region it throws. *)
StartSetTowns(inputs) ==
  /\ call = None
  /\ region # Missing
  /\ call' = [inputs |-> inputs, file |-> townsFile,
              existing |-> readTownsConfig(townsFile),
              comment |-> IF townsFile \in {Missing, Malformed} THEN FALSE
                          ELSE townsFile.comment,
              boxes |-> <<>>]
  /\ UNCHANGED <<region, townsFile, catFile, profile, reported>>

(* byName: the last of several towns of one name. *)
Existing(name) ==
  LET of == {i \in DOMAIN call.existing : call.existing[i].name = name}
  IN  IF of = {} THEN None ELSE call.existing[Max(of)]

(* Mutant of ToGeocode: every town of the call. *)
ToGeocodeAll == call.inputs

ToGeocode ==
  ElementsAt(call.inputs,
             {i \in DOMAIN call.inputs : Existing(call.inputs[i]) = None})

(* geocodeTowns: the next town in order, with a box or an error. *)
GeocodeTown(box) ==
  /\ call # None
  /\ Len(call.boxes) < Len(ToGeocode)
  /\ call' = [call EXCEPT !.boxes = Append(@, box)]
  /\ UNCHANGED <<region, townsFile, catFile, profile, reported>>

(* geoByName: the last answer for a name. *)
Geocoded(name) ==
  LET of == {i \in DOMAIN call.boxes : ToGeocode[i] = name}
  IN  IF of = {} THEN Bad ELSE call.boxes[Max(of)]

BoxFor(name) ==
  IF name \in {ToGeocode[i] : i \in DOMAIN ToGeocode} THEN Geocoded(name)
  ELSE Existing(name).box

(* resolveTowns and writeTownsConfig: towns without a box are left out. *)
WriteTowns ==
  /\ call # None
  /\ Len(call.boxes) = Len(ToGeocode)
  /\ LET resolved == [i \in DOMAIN call.inputs |->
                        [name |-> call.inputs[i], box |-> BoxFor(call.inputs[i])]]
         towns == WithBox(resolved)
     IN  /\ townsFile' = [towns |-> towns, comment |-> call.comment]
         /\ Report("towns", towns)
  /\ call' = None
  /\ UNCHANGED <<region, catFile, profile>>

(* writeCategoryConfig: everything is looked at before anything is written. *)
SetCategories(tiers) ==
  /\ IF \E n \in DOMAIN tiers : Bad \in {c.value : c \in tiers[n]}
     THEN UNCHANGED <<catFile, reported>>
     ELSE catFile' = tiers /\ Report("categories", tiers)
  /\ UNCHANGED <<region, townsFile, profile, call>>

WriteIcp(prose) ==
  /\ profile' = prose
  /\ Report("icp", prose)
  /\ UNCHANGED <<region, townsFile, catFile, call>>

(* Somebody edits or removes a file by hand. *)
EditTowns ==
  /\ townsFile' \in HandTowns
  /\ townsFile' # townsFile
  /\ Report("towns", None)
  /\ UNCHANGED <<region, catFile, profile, call>>

EditOther ==
  /\ \/ /\ region' \in RegionName \cup {Missing}
        /\ Report("region", None)
        /\ UNCHANGED <<catFile, profile>>
     \/ /\ catFile' \in {Missing, Malformed}
        /\ Report("categories", None)
        /\ UNCHANGED <<region, profile>>
     \/ /\ profile' = Missing
        /\ Report("icp", None)
        /\ UNCHANGED <<region, catFile>>
  /\ UNCHANGED <<townsFile, call>>

CfgNext ==
  \/ \E name \in RegionName : SetRegion(name)
  \/ \E n \in 0 .. MaxTowns : \E inputs \in [1 .. n -> TownName] :
       StartSetTowns(inputs)
  \/ \E box \in Box \cup {Bad} : GeocodeTown(box)
  \/ WriteTowns
  \/ \E tiers \in CategoryInput : SetCategories(tiers)
  \/ \E prose \in Prose : WriteIcp(prose)
  \/ EditTowns \/ EditOther

CfgSpec == CfgInit /\ [][CfgNext]_cfgVars
-----------------------------------------------------------------------------
CfgTypeOK ==
  /\ region \in RegionName \cup {Missing}
  /\ townsFile \in TownsFile
  /\ catFile \in CategoryInput \cup {Missing, Malformed}
  /\ profile \in Prose \cup {Missing}
  /\ call \in TownsCall \cup {None}

NamesIn(towns) == {towns[i].name : i \in DOMAIN towns}
BoxesOf(towns, name) ==
  {towns[i].box : i \in {j \in DOMAIN towns : towns[j].name = name}}

(* set_towns promises (interview-tools.ts:88) that an existing town keeps   *)
(* its exact box and only new towns are geocoded.  If the file is still the *)
(* one the call read, every town that has a box and is asked for has one of *)
(* its own boxes afterwards; and whatever happened meanwhile, no town that  *)
(* had a box when the call began takes one the geocoder found.              *)
TownsKept ==
  [][call # None /\ call' = None =>
       LET now == readTownsConfig(townsFile)
           new == townsFile'.towns
           asked == {call.inputs[i] : i \in DOMAIN call.inputs}
       IN  /\ townsFile = call.file =>
                \A name \in NamesIn(now) \cap asked :
                  /\ name \in NamesIn(new)
                  /\ BoxesOf(new, name) \subseteq BoxesOf(now, name)
           /\ \A name \in NamesIn(call.existing) \cap NamesIn(new) :
                BoxesOf(new, name) \subseteq BoxesOf(call.existing, name)]_cfgVars

(* What a tool reported as written is what the readers of the agents find,  *)
(* until somebody edits the file: the name of the region, the towns with    *)
(* their boxes, the tier of a kind that one tier lists, the profile unless  *)
(* it is the template's text, which reads as none.                          *)
WritesReadBack ==
  /\ reported["region"] # None => ReadName(region) = reported["region"]
  /\ reported["towns"] # None => readTownsConfig(townsFile) = reported["towns"]
  /\ reported["categories"] # None =>
       \A kind \in Kind : \A n \in DOMAIN reported["categories"] :
         {m \in DOMAIN reported["categories"] :
            kind \in reported["categories"][m]} = {n}
           => tierOf(readCategoryConfig(catFile), 3, kind) = n
  /\ reported["icp"] \notin {None, IcpTemplate} =>
       readIcpProfile(profile) = reported["icp"]
=============================================================================

------------------------------- MODULE Places -------------------------------
(* The directory of places: what OSM has and what agents add to it, behind  *)
(* a materialized view that lags, with an overlay of annotations that does  *)
(* not.  Runs of agents save places and annotate them, and refresh the view *)
(* when they end; a sweep marks duplicates from a reading it took earlier.  *)
EXTENDS DuplicateGroups

CONSTANTS
  None,         \* no call, no such row
  Osm,          \* ids of named OSM elements, behind those of custom_places
  Business,     \* what agents ask to save, with an address the geocoder knows
  Same,         \* pairs with one name, in one town or within 100 m
  Near,         \* pairs with one name within 50 m: the sweep's duplicates
  Facts,        \* how many optional fields each has filled
  Session,      \* runs of agents
  Overrides,    \* values annotate_place is given as status_override
  Original,     \* ids annotate_place is given as duplicate_of
  Moving,       \* the OSM elements an import may drop or bring back
  MaxCustom,    \* bound: rows of custom_places
  MaxNotes      \* bound: annotations agents write

Content == Osm \cup Business

ASSUME PlacesParameters ==
  /\ Near \subseteq Same
  /\ \A x \in Business : {x} \in Near
  /\ Facts \in [Content -> Nat]
  /\ Overrides \subseteq PlaceStatus \cup {"clear"}
  /\ Moving \subseteq Osm
  /\ MaxCustom \in Nat
  /\ MaxNotes \in Nat
  /\ IsFiniteSet(Osm) /\ \A o \in Osm : o \in Nat /\ o > MaxCustom
  /\ None \notin Osm \cup 1 .. MaxCustom

VARIABLES
  osm,      \* the ids in the OSM tables
  custom,   \* custom_places: what each row describes, in the order of its id
  view,     \* the ids in osm_places
  notes,    \* place_annotations: [status, duplicateOf] of an id
  noted,    \* how many annotations agents have written (a bound)
  stage,    \* where each run stands
  call,     \* the save_place call of each run, or None
  added,    \* the rows the run has been told it created
  sweep     \* the groups in the rows dedupePlaces has read, {} for no sweep

placeVars == <<osm, custom, view, notes, noted, stage, call, added, sweep>>

CustomId == 1 .. MaxCustom
PlaceId == Osm \cup CustomId
Stage == {"out", "up", "refreshing", "over", "stale"}
CallStage == {"viewed", "checked"}

-----------------------------------------------------------------------------
(* What an id describes, and localfinds.places: the view with its overlay.  *)
Describes(id) == IF id \in Osm THEN id ELSE custom[id]

Alike(pairs, x, id) == {x, Describes(id)} \in pairs

NoNote == [status |-> "active", duplicateOf |-> None]

Shown == {id \in view : notes[id].duplicateOf = None}

(* What a sweep reads, in the order of the ids.  Near holds the names too,  *)
(* and every row of the view has a point.                                   *)
DedupeRow(id) ==
  [osmId |-> id, name |-> "as in Near", located |-> TRUE,
   status |-> notes[id].status, facts |-> Facts[Describes(id)]]

UnmarkedRows ==
  [n \in 1 .. Cardinality(Shown) |-> DedupeRow(NthOf(Shown, n))]

NearIds == {ids \in {{i, j} : i, j \in view} :
              \A i, j \in ids : i # j => Alike(Near, Describes(i), j)}

(* localeCompare: "custom/..." comes before OSM's "node/..." and "way/...". *)
IdOrder == {p \in PlaceId \X PlaceId : p[1] < p[2]}

-----------------------------------------------------------------------------
PlacesInit ==
  /\ osm = Osm
  /\ custom = <<>>
  /\ view = Osm
  /\ notes = [id \in PlaceId |-> NoNote]
  /\ noted = 0
  /\ stage = [r \in Session |-> "out"]
  /\ call = [r \in Session |-> None]
  /\ added = [r \in Session |-> {}]
  /\ sweep = {}

StartSession(r) ==
  /\ stage[r] = "out"
  /\ stage' = [stage EXCEPT ![r] = "up"]
  /\ UNCHANGED <<osm, custom, view, notes, noted, call, added, sweep>>

EndCall(r) == call' = [call EXCEPT ![r] = None]

(* save_place with an address the geocoder knows, as far as the first query *)
(* of insertCustomPlace: a row of the view, marked or not, makes the place  *)
(* a duplicate.  The tools of a run come one after the other; calls of two  *)
(* runs interleave.  known (for a property) are the rows there are when the *)
(* transaction reads for the first time, as long as they stay.              *)
SavePlace(r, place) ==
  /\ stage[r] = "up" /\ call[r] = None
  /\ ~ \E id \in view : Alike(Same, place, id)
  /\ call' = [call EXCEPT ![r] = [place |-> place, at |-> "viewed",
                                 known |-> view \cup DOMAIN custom]]
  /\ UNCHANGED <<osm, custom, view, notes, noted, stage, added, sweep>>

(* Mutant of CheckTable: what the view has not seen yet is not looked at. *)
CheckTableSkipped(r) ==
  /\ call[r] # None /\ call[r].at = "viewed"
  /\ call' = [call EXCEPT ![r].at = "checked"]
  /\ UNCHANGED <<osm, custom, view, notes, noted, stage, added, sweep>>

(* Second query: the table itself. *)
CheckTable(r) ==
  /\ call[r] # None /\ call[r].at = "viewed"
  /\ IF \E id \in DOMAIN custom : Alike(Same, call[r].place, id) THEN EndCall(r)
     ELSE call' = [call EXCEPT ![r].at = "checked"]
  /\ UNCHANGED <<osm, custom, view, notes, noted, stage, added, sweep>>

(* INSERT and COMMIT.  The answer may be lost with the connection; then     *)
(* placesAdded does not count the row.                                      *)
InsertPlace(r) ==
  /\ call[r] # None /\ call[r].at = "checked"
  /\ Len(custom) < MaxCustom
  /\ custom' = Append(custom, call[r].place)
  /\ \/ added' = [added EXCEPT ![r] = @ \cup {Len(custom')}]
     \/ UNCHANGED added
  /\ EndCall(r)
  /\ UNCHANGED <<osm, view, notes, noted, stage, sweep>>

(* An error of the database; the bound on the rows is one, too. *)
CallFails(r) ==
  /\ call[r] # None
  /\ EndCall(r)
  /\ UNCHANGED <<osm, custom, view, notes, noted, stage, added, sweep>>

(* Mutant of Annotate: "clear" is stored as it was given. *)
AnnotateClear(r, id, status, original) ==
  /\ stage[r] = "up" /\ call[r] = None
  /\ noted < MaxNotes /\ noted' = noted + 1
  /\ id \in view \cup DOMAIN custom
  /\ notes' = [notes EXCEPT
       ![id].status = IF status = None THEN @ ELSE status,
       ![id].duplicateOf = IF original = None THEN @ ELSE original]
  /\ UNCHANGED <<osm, custom, view, stage, call, added, sweep>>

(* annotate_place: a field that is not given (None) stays.  The original is *)
(* not looked up.                                                           *)
Annotate(r, id, status, original) ==
  /\ stage[r] = "up" /\ call[r] = None
  /\ noted < MaxNotes /\ noted' = noted + 1
  /\ id \in view \cup DOMAIN custom
  /\ notes' = [notes EXCEPT
       ![id].status = CASE status = None    -> @
                        [] status = "clear" -> "active"
                        [] OTHER            -> status,
       ![id].duplicateOf = IF original = None THEN @ ELSE original]
  /\ UNCHANGED <<osm, custom, view, stage, call, added, sweep>>

-----------------------------------------------------------------------------
(* Mutant of EndSession: the refresh is part of the success path. *)
EndSessionThrowing(r, threw) ==
  /\ stage[r] = "up"
  /\ threw \/ call[r] = None
  /\ stage' = [stage EXCEPT ![r] = IF added[r] # {} /\ ~ threw THEN "refreshing"
                             ELSE "over"]
  /\ UNCHANGED <<osm, custom, view, notes, noted, call, added, sweep>>

(* The message stream ends, or throws; finally asks for the refresh if      *)
(* anything was added.  A call that is under way when the stream throws     *)
(* goes on behind it.                                                       *)
EndSession(r, threw) ==
  /\ stage[r] = "up"
  /\ threw \/ call[r] = None
  /\ stage' = [stage EXCEPT ![r] = IF added[r] # {} THEN "refreshing" ELSE "over"]
  /\ UNCHANGED <<osm, custom, view, notes, noted, call, added, sweep>>

RefreshView ==
  /\ view' = osm' \cup DOMAIN custom
  /\ call' = [r \in Session |-> IF call[r] = None THEN None
                            ELSE [call[r] EXCEPT !.known = @ \cap view']]
  /\ UNCHANGED <<custom, notes, noted, added, sweep>>

refreshOsmPlaces(r) ==
  /\ stage[r] = "refreshing"
  /\ stage' = [stage EXCEPT ![r] = "over"]
  /\ UNCHANGED osm
  /\ RefreshView

(* The error is logged and swallowed. *)
RefreshFails(r) ==
  /\ stage[r] = "refreshing"
  /\ stage' = [stage EXCEPT ![r] = "stale"]
  /\ UNCHANGED <<osm, custom, view, notes, noted, call, added, sweep>>

(* The process of the run dies, or exits at its end: its call goes with it. *)
SessionDies(r) ==
  /\ stage[r] \in {"up", "refreshing"}
  /\ stage' = [stage EXCEPT ![r] = "stale"]
  /\ EndCall(r)
  /\ UNCHANGED <<osm, custom, view, notes, noted, added, sweep>>

(* The view is refreshed by hand, or behind a new extract of OSM, in which  *)
(* an element may be missing or be back; both external.                     *)
RefreshByHand ==
  /\ osm' \in {osm} \cup {osm \ {id} : id \in Moving} \cup {osm \cup {id} : id \in Moving}
  /\ RefreshView
  /\ UNCHANGED stage

-----------------------------------------------------------------------------
(* dedupePlaces reads the rows, and groups them; without a group that is    *)
(* all.                                                                     *)
Groups == groupPlaceDuplicates(UnmarkedRows, NearIds)

SweepRead ==
  /\ sweep = {}
  /\ sweep' = Groups
  /\ UNCHANGED <<osm, custom, view, notes, noted, stage, call, added>>

(* Mutant of MarkedBy: ON CONFLICT DO NOTHING. *)
MarkedByInsert(groups) ==
  [id \in PlaceId |->
     LET of == {g \in groups : id \in {row.osmId : row \in g}}
     IN  IF of = {} \/ notes[id] # NoNote THEN notes[id]
         ELSE LET canonical == chooseCanonical(CHOOSE g \in of : TRUE, IdOrder)
              IN  IF canonical.osmId = id THEN notes[id]
                  ELSE [notes[id] EXCEPT !.duplicateOf = canonical.osmId]]

MarkedBy(groups) ==
  [id \in PlaceId |->
     LET of == {g \in groups : id \in {row.osmId : row \in g}}
     IN  IF of = {} THEN notes[id]
         ELSE LET canonical == chooseCanonical(CHOOSE g \in of : TRUE, IdOrder)
              IN  IF canonical.osmId = id THEN notes[id]
                  ELSE [notes[id] EXCEPT !.duplicateOf = canonical.osmId]]

(* It marks what it has read, in one transaction, or fails, or dies. *)
SweepMark ==
  /\ sweep # {}
  /\ notes' = MarkedBy(sweep)
  /\ sweep' = {}
  /\ UNCHANGED <<osm, custom, view, noted, stage, call, added>>

SweepFails ==
  /\ sweep # {}
  /\ sweep' = {}
  /\ UNCHANGED <<osm, custom, view, notes, noted, stage, call, added>>

SessionStep(r) ==
  \/ StartSession(r)
  \/ \E place \in Business : SavePlace(r, place)
  \/ CheckTable(r) \/ InsertPlace(r) \/ CallFails(r)
  \/ \E id \in PlaceId, status \in Overrides \cup {None},
        original \in Original \cup {None} : Annotate(r, id, status, original)
  \/ \E threw \in BOOLEAN : EndSession(r, threw)
  \/ refreshOsmPlaces(r) \/ RefreshFails(r) \/ SessionDies(r)

PlacesNext ==
  \/ \E r \in Session : SessionStep(r)
  \/ RefreshByHand \/ SweepRead \/ SweepMark \/ SweepFails

(* A run ends: its turns and its budget are capped.  A refresh ends, too,   *)
(* one way or the other.                                                    *)
PlacesFairness ==
  \A r \in Session :
    /\ WF_placeVars(\E threw \in BOOLEAN : EndSession(r, threw))
    /\ WF_placeVars(refreshOsmPlaces(r) \/ RefreshFails(r))

PlacesSpec ==
  PlacesInit /\ [][PlacesNext]_placeVars /\ PlacesFairness
-----------------------------------------------------------------------------
Note == [status : PlaceStatus, duplicateOf : PlaceId \cup Original \cup {None}]
Call == [place : Business, at : CallStage, known : SUBSET PlaceId]

(* The state of the directory; a status an overlay can give is one of the   *)
(* three the view knows (place_annotations' CHECK).                         *)
PlacesTypeOK ==
  /\ osm \subseteq Osm
  /\ custom \in Seq(Business) /\ Len(custom) <= MaxCustom
  /\ view \subseteq Osm \cup DOMAIN custom
  /\ notes \in [PlaceId -> Note]
  /\ noted \in 0 .. MaxNotes
  /\ stage \in [Session -> Stage]
  /\ \A r \in Session : call[r] # None => call[r] \in Call
  /\ added \in [Session -> SUBSET (DOMAIN custom)]
  /\ \A g \in sweep : {row.osmId : row \in g} \subseteq PlaceId

(* insertCustomPlace saves nothing that is there already (custom-places.ts: *)
(* 32): only a row that another run has inserted since the transaction read *)
(* for the first time can be a twin of a new one, or one that a refresh has *)
(* brought into the view since.  A lagging view, marks and rows nobody was  *)
(* told of change nothing.                                                  *)
TwinsOverlap ==
  [][\A r \in Session :
       call[r] # None /\ call'[r] = None /\ custom' # custom =>
         ~ \E id \in call[r].known : Alike(Same, call[r].place, id)]_placeVars

(* A sweep whose reading is still true when it marks leaves nothing to the  *)
(* next one (dedupePlaces "is idempotent", queries.ts:566), and whatever it *)
(* hides points at a row that is shown.                                     *)
SweepIsClean ==
  [][sweep # {} /\ notes' # notes /\ sweep' = {} /\ sweep = Groups =>
       /\ Groups' = {}
       /\ \A id \in PlaceId : notes'[id].duplicateOf # notes[id].duplicateOf =>
            notes'[id].duplicateOf \in Shown']_placeVars

(* A place that an agent was told it created comes into the directory once  *)
(* its run has ended, however that ends, unless the refresh fails or the    *)
(* process dies (run-agent.ts:331-340).                                     *)
AddedIsShown ==
  \A r \in Session : \A id \in CustomId :
    (id \in added[r] /\ stage[r] = "up")
      ~> (id \in view \/ stage[r] = "stale")
=============================================================================

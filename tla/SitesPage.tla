----------------------------- MODULE SitesPage -----------------------------
(***************************************************************************)
(* The console's site library: a filter bar whose search box is debounced  *)
(* and whose chips are not, the list query its values key, and a map whose *)
(* viewport becomes one more part of that key.                             *)
(*                                                                         *)
(* Geography is abstracted to areas: the map shows a set of them, a site   *)
(* lies in one or has no coordinates, and snapping a viewport outward to   *)
(* the tile grid leaves the areas in it the same.  The list is one page;   *)
(* picks, bulk changes and paging are left to ConsoleCache and             *)
(* DataGridRows.                                                           *)
(***************************************************************************)
EXTENDS Integers, FiniteSets

CONSTANTS
  Words,     \* what the search box may hold; "" among them
  Chips,     \* the status sets a filter tree may mean; {} keeps every status
  Sites,     \* the sites in scope
  Areas,     \* the areas of the map
  AreaOf,    \* the area of each site with coordinates
  Hits,      \* the sites a word and a set of statuses keep
  MaxHeld    \* bound: lists in the cache at a time

ASSUME SitesAssumption ==
  /\ "" \in Words /\ {} \in Chips /\ Areas # {}
  /\ DOMAIN AreaOf \subseteq Sites /\ \A s \in DOMAIN AreaOf : AreaOf[s] \in Areas
  /\ Hits \in [Words \X Chips -> SUBSET Sites]
  /\ MaxHeld \in Nat \ {0}

VARIABLES
  q, debouncedQ,          \* the search box, and what it settled on
  chips,                  \* the statuses its filter tree means
  filter, statusFilter,   \* what the page was handed: parts of the list's key
  early,                  \* a chip handed the box's text over before it settled
  view,                   \* "table" or "map"
  viewport,               \* the areas last reported by the map; {} for none
  held,                   \* keys whose list the cache holds
  failed,                 \* the page says it could not load, in place of bar and map
  map,                    \* "none", "creating", "created" or "loaded"
  frame,                  \* the areas it shows; {} for its default place
  positioned,             \* the place means something
  emitting,               \* a debounced report of the viewport is due
  missed                  \* a fit to scope found nothing to fit, and nothing moved since

barVars == <<q, debouncedQ, chips, filter, statusFilter, early>>
mapVars == <<map, frame, positioned, emitting>>
siteVars == <<barVars, view, viewport, held, failed, mapVars, missed>>

\* The list's key: the box only exists in the map view.
key == <<filter, statusFilter, IF view = "map" THEN viewport ELSE {}>>
Rows(k) == {s \in Hits[<<k[1], k[2]>>] : k[3] = {} \/ (s \in DOMAIN AreaOf /\ AreaOf[s] \in k[3])}
\* The rows on the page; none before the key's first answer.
sites == IF key \in held THEN Rows(key) ELSE {}
points == sites \cap DOMAIN AreaOf
bounds(ps) == {AreaOf[s] : s \in ps}

SitesInit ==
  /\ q = "" /\ debouncedQ = "" /\ filter = "" /\ chips = {} /\ statusFilter = {} /\ early = FALSE
  /\ view = "table" /\ viewport = {} /\ held = {} /\ failed = FALSE
  /\ map = "none" /\ frame = {} /\ positioned = FALSE /\ emitting = FALSE /\ missed = FALSE

\* A render with other points: a map that was created before its points
\* existed is placed by the first of them, and reports that it moved.
Placed ==
  IF map \in {"created", "loaded"} /\ ~positioned /\ points' # points /\ points' # {}
  THEN frame' = bounds(points') /\ positioned' = TRUE /\ emitting' = TRUE /\ UNCHANGED map
  ELSE UNCHANGED mapVars

---------------------------------------------------------------------------
(* The filter bar *)

Type(w) ==
  /\ w # q /\ q' = w
  /\ UNCHANGED <<debouncedQ, chips, filter, statusFilter, early, view, viewport, held, mapVars, missed>>

\* Bug variant: the box, once settled, is handed over alone.
SettledAlone ==
  /\ q # debouncedQ
  /\ debouncedQ' = q /\ filter' = q /\ statusFilter' = {} /\ early' = FALSE
  /\ UNCHANGED <<q, chips, view, viewport, held, missed>>
  /\ Placed

\* The box rests for 250 ms: its effect hands its text and the chips over. A
\* text that settles where it settled before runs no effect.
BoxSettles ==
  /\ q # debouncedQ
  /\ debouncedQ' = q /\ filter' = q /\ statusFilter' = chips /\ early' = FALSE
  /\ UNCHANGED <<q, chips, view, viewport, held, missed>>
  /\ Placed

\* A chip is added, changed or removed: handed over at once, with the text.
SetChips(c) ==
  /\ c # chips /\ chips' = c
  /\ filter' = q /\ statusFilter' = c /\ early' = (early \/ q # debouncedQ)
  /\ UNCHANGED <<q, debouncedQ, view, viewport, held, missed>>
  /\ Placed

---------------------------------------------------------------------------
(* The list *)

ListArrives ==
  /\ key \notin held /\ Cardinality(held) < MaxHeld /\ held' = held \cup {key}
  /\ UNCHANGED <<barVars, view, viewport, missed>>
  /\ Placed

\* A list, or its refresh, cannot be loaded: the bar and the map go, with what
\* was typed and chosen in them; what they handed over stays.
ListFails ==
  /\ failed' = TRUE
  /\ q' = "" /\ debouncedQ' = "" /\ chips' = {} /\ early' = FALSE
  /\ map' = "none" /\ frame' = {} /\ positioned' = FALSE /\ emitting' = FALSE /\ missed' = FALSE
  /\ UNCHANGED <<filter, statusFilter, view, viewport, held>>

\* A later attempt succeeds: an empty bar mounts and hands itself over.
ListRecovers ==
  /\ failed /\ failed' = FALSE
  /\ key \in held \/ Cardinality(held) < MaxHeld
  /\ held' = held \cup {key}
  /\ filter' = "" /\ statusFilter' = {}
  /\ map' = IF view = "map" THEN "creating" ELSE "none"
  /\ UNCHANGED <<q, debouncedQ, chips, early, view, viewport, frame, positioned, emitting, missed>>

\* A list nobody looks at is dropped from the cache.
Collected(k) ==
  /\ k \in held \ {key} /\ held' = held \ {k}
  /\ UNCHANGED <<barVars, view, viewport, failed, mapVars, missed>>

---------------------------------------------------------------------------
(* The map *)

\* The toggle mounts the map, and unmounts it with its timer.
SetView(v) ==
  /\ v # view /\ view' = v
  /\ map' = IF v = "map" THEN "creating" ELSE "none"
  /\ frame' = {} /\ positioned' = FALSE /\ emitting' = FALSE /\ missed' = FALSE
  /\ UNCHANGED <<barVars, viewport, held>>

\* The library has arrived: a map over the points there are, or its default.
Created ==
  /\ map = "creating" /\ map' = "created"
  /\ frame' = bounds(points) /\ positioned' = (points # {})
  /\ UNCHANGED <<barVars, view, viewport, held, emitting, missed>>

\* Bug variant: only moves are reported.
MapLoadsQuietly ==
  /\ map = "created" /\ map' = "loaded"
  /\ UNCHANGED <<barVars, view, viewport, held, frame, positioned, emitting, missed>>

\* Its style has loaded: the list follows from the first frame.
MapLoads ==
  /\ map = "created" /\ map' = "loaded"
  /\ emitting' = (emitting \/ positioned)
  /\ UNCHANGED <<barVars, view, viewport, held, frame, positioned, missed>>

\* The user drags or zooms, or opens a cluster.
Move(areas) ==
  /\ map \in {"created", "loaded"} /\ areas # frame
  /\ frame' = areas /\ positioned' = TRUE /\ emitting' = TRUE /\ missed' = FALSE
  /\ UNCHANGED <<barVars, view, viewport, held, map>>

\* The debounced report: the page's viewport, and with it the list's key.
EmitViewport ==
  /\ emitting
  /\ viewport' = frame
  /\ emitting' = FALSE /\ missed' = FALSE
  /\ UNCHANGED <<barVars, view, held, map, frame, positioned>>

\* Fit to scope drops the box and asks the map to fit what the page shows with
\* the box gone, once: points that arrive later are not fitted.
FitToScope ==
  /\ view = "map"
  /\ viewport' = {}
  /\ UNCHANGED <<barVars, view, held, map>>
  /\ IF map \in {"created", "loaded"} /\ points' # {}
     THEN frame' = bounds(points') /\ positioned' = TRUE /\ emitting' = TRUE /\ missed' = FALSE
     ELSE missed' = TRUE /\ UNCHANGED <<frame, positioned, emitting>>

OnPage ==
  \/ BoxSettles \/ ListArrives \/ Created \/ MapLoads \/ EmitViewport \/ FitToScope
  \/ \E w \in Words : Type(w)
  \/ \E c \in Chips : SetChips(c)
  \/ \E v \in {"table", "map"} : SetView(v)
  \/ \E areas \in SUBSET Areas \ {{}} : Move(areas)

SitesNext ==
  \/ ~failed /\ ((OnPage /\ UNCHANGED failed) \/ ListFails)
  \/ ListRecovers
  \/ \E k \in held : Collected(k)

SitesSpec == SitesInit /\ [][SitesNext]_siteVars

---------------------------------------------------------------------------
\* The list is asked for what the bar says: always by its chips, and by its
\* text once it has settled, whichever of the two changed last, also by a bar
\* that came back empty after a failure.  Left out is a text that a chip handed
\* over before it settled and that was then typed back.
BarIsTheQuery == ~failed => statusFilter = chips /\ (q = debouncedQ /\ ~early => filter = q)

\* "List follows the map": once the map has reported, the rows are asked for
\* the areas it shows.  Left out is a fit to scope that found no points.
ListFollowsMap ==
  view = "map" /\ map = "loaded" /\ positioned /\ ~emitting /\ ~missed => viewport = frame

\* The rows on the page are the ones its filter bar and its map ask for.
ListFollowsPage == BarIsTheQuery /\ ListFollowsMap
=============================================================================

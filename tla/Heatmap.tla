-------------------------------- MODULE Heatmap --------------------------------
(* The map of a market (api/heatmap.py): which day's closes a view is served,   *)
(* from the board of live prices, from a snapshot of closes fetched from Naver  *)
(* and kept for good, or from the stored bars, and what it says of them.  A     *)
(* close is known by its day; sizes, colours and groups are left out.           *)
EXTENDS Integers, FiniteSetsExt, Functions

CONSTANTS
    KrCodes, UsCodes,
    LastMapDay,     \* weekdays 0..LastMapDay
    Holidays,       \* weekdays without trading
    Viewers, NoSnapshot

MapDays == 0..LastMapDay
\* Before the market, in it, in its after-hours, at night; the break of ten minutes
\* before the opening is part of "early".
Phases == <<"early", "open", "after", "late">>

ASSUME HeatmapAssumption ==
    LastMapDay \in Nat \ {0} /\ Holidays \subseteq MapDays \ {0} /\ KrCodes # {} /\ UsCodes # {}

VARIABLES
    wall,        \* the day and the phase of it
    barsTo,      \* the last day a code has a bar of; it has one of each before
    closeCache,  \* _close_snapshot_cache: by day, the closes it was filled with
    view,        \* a request for the map, between two awaits
    shown        \* the last answer

heatmapVars == <<wall, barsTo, closeCache, view, shown>>

LastTraded(d) == Max({e \in 0..d : e \notin Holidays})

\* get_market_session with is_live_market_session
LiveSession == wall.day \notin Holidays /\ Phases[wall.phase] \in {"open", "after"}

\* _target_close_date: a weekday, whether there was trading on it or not.
TargetClose == IF Phases[wall.phase] \in {"early", "open"} THEN wall.day - 1 ELSE wall.day

\* _latest_price_date and _latest_us_price_date: of any of the codes.
LatestBar(codes) == Max({barsTo[c] : c \in codes})

AtRest == [at |-> "idle", forced |-> FALSE, day |-> 0, stale |-> FALSE, warned |-> FALSE]
NothingShown == [from |-> "nothing", asOf |-> 0, due |-> 0, forced |-> FALSE, warned |-> FALSE,
                 closes |-> <<>>]
CloseMaps == UNION {[S -> MapDays] : S \in SUBSET KrCodes}

HeatmapTypeOK ==
    /\ wall \in [day : MapDays, phase : 1..4] /\ barsTo \in [KrCodes \union UsCodes -> MapDays]
    /\ closeCache \in [MapDays -> CloseMaps \union {NoSnapshot}]
    /\ view \in [Viewers -> [at : {"idle", "latest", "look", "fetch", "board", "build", "past"},
                             forced : BOOLEAN, day : MapDays, stale : BOOLEAN, warned : BOOLEAN]]
    /\ shown.from \in {"nothing", "board", "naver", "bars", "past", "us"}
    /\ shown.asOf \in MapDays /\ shown.due \in MapDays
    /\ shown.forced \in BOOLEAN /\ shown.warned \in BOOLEAN

Serve(v, from, asOf, warned, closes) ==
    /\ shown' = [from |-> from, asOf |-> asOf, due |-> TargetClose, forced |-> view[v].forced,
                 warned |-> warned, closes |-> closes]
    /\ view' = [view EXCEPT ![v] = AtRest]

Step(v, at) == view' = [view EXCEPT ![v].at = at] /\ UNCHANGED shown
-----------------------------------------------------------------------------
(* get_heatmap                                                                 *)

AskMap(v, forced) ==
    /\ view[v].at = "idle"
    /\ view' = [view EXCEPT ![v] = [AtRest EXCEPT !.at = IF LiveSession THEN "board" ELSE "latest",
                                                  !.forced = forced, !.day = TargetClose]]
    /\ UNCHANGED <<wall, barsTo, closeCache, shown>>

AskPast(v, d) ==
    /\ view[v].at = "idle" /\ d <= wall.day
    /\ view' = [view EXCEPT ![v] = [AtRest EXCEPT !.at = "past", !.day = d]]
    /\ UNCHANGED <<wall, barsTo, closeCache, shown>>

\* The bars are as of the target day, or a snapshot is looked for.
CompareLatest(v) ==
    LET stale == LatestBar(KrCodes) < view[v].day
    IN /\ view[v].at = "latest"
       /\ view' = [view EXCEPT ![v].at = IF view[v].forced \/ stale THEN "look" ELSE "build",
                               ![v].stale = stale]
       /\ UNCHANGED <<wall, barsTo, closeCache, shown>>

\* _load_naver_close_snapshot, forced or not, takes what the cache has for the day.
LookInCache(v) ==
    LET snapshot == closeCache[view[v].day]
    IN /\ view[v].at = "look"
       /\ IF snapshot = NoSnapshot THEN Step(v, "fetch")
                             ELSE Serve(v, "naver", view[v].day, view[v].stale, snapshot)
       /\ UNCHANGED <<wall, barsTo, closeCache>>

\* Mutant of CloseUpTo: the last close there is.
CloseUpToNow(d) == LastTraded(wall.day)

\* _parse_naver_close_row: the last close that is not after the day.
CloseUpTo(d) == LastTraded(d)

\* _load_naver_close_snapshot_for_date: some codes answer; the day before is tried
\* when none does.
FetchCloses(v) ==
    LET d == view[v].day
    IN /\ view[v].at = "fetch"
       /\ \E answered \in SUBSET KrCodes :
             LET closes == [c \in answered |-> CloseUpTo(d)]
             IN IF answered # {}
                THEN /\ closeCache' = [closeCache EXCEPT ![d] = closes]
                     /\ Serve(v, "naver", d, view[v].stale, closes)
                ELSE /\ view' = [view EXCEPT ![v] =
                            IF d > 0 THEN [@ EXCEPT !.at = "look", !.day = d - 1]
                            ELSE [@ EXCEPT !.at = "build", !.warned = TRUE]]
                     /\ UNCHANGED <<closeCache, shown>>
       /\ UNCHANGED <<wall, barsTo>>

\* The board of live prices, which may hold some of the codes, or none, with or
\* without an error that is passed on.  MARKET_SNAPSHOT_AUTOSTART is true, the default:
\* a board that is not of the last minutes is replaced before it is shown.
ReadLiveBoard(v) ==
    /\ view[v].at = "board"
    /\ \/ \E priced \in SUBSET KrCodes \ {{}} :
             Serve(v, "board", wall.day, priced # KrCodes, [c \in priced |-> wall.day])
       \/ \E failed \in BOOLEAN :
             view' = [view EXCEPT ![v].at = "build", ![v].warned = failed] /\ UNCHANGED shown
    /\ UNCHANGED <<wall, barsTo, closeCache>>

\* _load_price_changes and _load_price_changes_us: the last bar not after the day.
BarUpTo(c, d) == Min({barsTo[c], LastTraded(d)})

\* Mutant of OlderThanDue: an old close is passed off as the current one.
OlderThanNothing(d) == FALSE

OlderThanDue(d) == d < TargetClose

\* _build_heatmap
BuildMap(v) ==
    LET latest == LatestBar(KrCodes)
    IN /\ view[v].at = "build"
       /\ Serve(v, "bars", latest, view[v].warned \/ OlderThanDue(latest),
                [c \in KrCodes |-> BarUpTo(c, latest)])
       /\ UNCHANGED <<wall, barsTo, closeCache>>

BuildPastMap(v) ==
    /\ view[v].at = "past"
    /\ Serve(v, "past", view[v].day, FALSE, [c \in KrCodes |-> BarUpTo(c, view[v].day)])
    /\ UNCHANGED <<wall, barsTo, closeCache>>

\* _build_us_heatmap: the stored bars, however old.
BuildUsMap(v) ==
    LET latest == LatestBar(UsCodes)
    IN /\ view[v].at = "idle"
       /\ Serve(v, "us", latest, FALSE, [c \in UsCodes |-> BarUpTo(c, latest)])
       /\ UNCHANGED <<wall, barsTo, closeCache>>
-----------------------------------------------------------------------------
(* The surroundings.                                                           *)

NextPhase ==
    /\ wall.phase < 4 \/ wall.day < LastMapDay
    /\ wall' = IF wall.phase < 4 THEN [wall EXCEPT !.phase = @ + 1]
                                 ELSE [day |-> wall.day + 1, phase |-> 1]
    /\ UNCHANGED <<barsTo, closeCache, view, shown>>

\* The ingestion reaches a code.
LoadBars(c) ==
    /\ barsTo[c] < LastTraded(TargetClose)
    /\ barsTo' = [barsTo EXCEPT ![c] = LastTraded(TargetClose)]
    /\ UNCHANGED <<wall, closeCache, view, shown>>

HeatmapInit ==
    /\ wall = [day |-> 1, phase |-> 1]
    /\ barsTo = [c \in KrCodes \union UsCodes |-> 0]
    /\ closeCache = [d \in MapDays |-> NoSnapshot]
    /\ view = [v \in Viewers |-> AtRest] /\ shown = NothingShown

HeatmapNext ==
    \/ \E v \in Viewers :
          \/ \E forced \in BOOLEAN : AskMap(v, forced)
          \/ \E d \in MapDays : AskPast(v, d)
          \/ CompareLatest(v) \/ LookInCache(v) \/ FetchCloses(v) \/ ReadLiveBoard(v)
          \/ BuildMap(v) \/ BuildPastMap(v) \/ BuildUsMap(v)
    \/ NextPhase \/ \E c \in KrCodes \union UsCodes : LoadBars(c)

\* However requests, the ingestion and the clock interleave: no close shown is later than
\* the day the map is said to be of, and a Korean map of now that is older than the last
\* close due says so, unless it was asked to be refreshed.
MapIsHonest ==
    /\ \A c \in DOMAIN shown.closes : shown.closes[c] <= shown.asOf
    /\ shown.from \in {"board", "naver", "bars"} /\ shown.asOf < shown.due /\ ~shown.forced =>
          shown.warned

\* The closes are of the day the map is said to be of ("as_of", api/heatmap.py:239).
DayIsAsSaid == \A c \in DOMAIN shown.closes : shown.closes[c] = shown.asOf

\* A refresh never shows an older day than the stored bars would.
RefreshIsNoStepBack == shown.from = "naver" => shown.warned \/ shown.asOf >= shown.due

\* A snapshot of closes that lacks codes is not taken for a whole one.
SnapshotIsWhole == shown.from = "naver" => DOMAIN shown.closes = KrCodes
=============================================================================

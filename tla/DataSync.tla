------------------------------ MODULE DataSync --------------------------------
(* Ingestion of daily bars into research.db (services/batch/data_sync.py), as *)
(* one table of it sees the runs: the cron job at 18:00, the catch-up run     *)
(* after a start of the server and its retry.  A run first computes, for each *)
(* table, the day to resume from; it then asks the source for every series of *)
(* the table, and what is answered is inserted.                               *)
(*                                                                           *)
(* The tables share nothing but the fallback of an empty one, so a behaviour  *)
(* is about one table, and that one is never empty.  A series is a stock code *)
(* of prices_daily, market_caps or investor_flows_daily, a ticker of          *)
(* prices_daily_us, or an index code of market_index, where the Korean        *)
(* indices and the macro series live together.  Days are trading days, and    *)
(* Overlap is what the five calendar days of the code span of them.           *)
EXTENDS Integers, FiniteSets, FiniteSetsExt

CONSTANTS
    Tables,     \* the tables, see Table
    Overlap,    \* trading days that a run asks for again
    LastDay     \* bound: the days of a behaviour

(* scope:   the series whose last days decide where a run resumes             *)
(* grouped: by the least of these last days, not by the greatest              *)
(* upsert:  a day that is stored already is overwritten, not left alone       *)
(* portal:  the source is the KRX portal, given up once it stops answering    *)
(* asksAll: a run also asks for series of which the table has no row          *)
(* lag:     how many days the newest bar of a series is behind the run's day  *)
Table(t) ==
    /\ t.scope \subseteq DOMAIN t.lag /\ t.scope # {}
    /\ t.grouped \in BOOLEAN /\ t.upsert \in BOOLEAN /\ t.portal \in BOOLEAN
    /\ t.asksAll \in BOOLEAN
    /\ \A s \in DOMAIN t.lag : t.lag[s] \in {0, 1}

ASSUME DataSyncAssumption ==
    /\ \A t \in Tables : Table(t)
    /\ Overlap \in Nat /\ LastDay \in Nat \ {0}

VARIABLES
    table,       \* the table this behaviour is about
    bars,        \* what is stored for a series and a day
    today,
    session,     \* the newest bar of each series is still moving
    window,      \* the days that a run under way asks for, or NoWindow
    catchUp,     \* what the start of the server still has to run: the run, its retry, nothing
    portalDown   \* module global _krx_portal_broken: true until a restart

syncVars == <<table, bars, today, session, window, catchUp, portalDown>>

Runs == {"cron", "startup"}
NoWindow == [from |-> 0, to |-> 0]
Series == DOMAIN table.lag
DaysOf(s) == {d \in 1..LastDay : bars[s][d] # "none"}
Known == {s \in table.scope : DaysOf(s) # {}}

SyncTypeOK ==
    /\ table \in Tables
    /\ bars \in [Series -> [1..LastDay -> {"none", "early", "final"}]]
    /\ today \in 1..LastDay /\ session \in BOOLEAN /\ portalDown \in BOOLEAN
    /\ catchUp \in {"run", "retry", "none"}
    /\ window \in [Runs -> [from : 0..LastDay, to : 0..LastDay]]

\* The bulk loaders ran on the first day; a series may have been added since.
SyncInit ==
    /\ table \in Tables
    /\ \E listed \in SUBSET Series :
        /\ listed \cap table.scope # {} /\ (table.asksAll \/ listed = Series)
        /\ bars = [s \in Series |-> [d \in 1..LastDay |->
                     IF s \in listed /\ d = 1 THEN "final" ELSE "none"]]
    /\ today = 1 /\ session = FALSE /\ portalDown = FALSE
    /\ window = [r \in Runs |-> NoWindow] /\ catchUp = "run"

-----------------------------------------------------------------------------
LastDays == {Max(DaysOf(s)) : s \in Known}

\* Mutant of ResumeDay: GROUP BY dropped, the freshest series decides for all.
ResumeFreshest == Max({1, Max(LastDays) - Overlap})

\* _incremental_start: MIN over the series of MAX(date), or MAX(date) of them all.
ResumeDay ==
    Max({1, (IF table.grouped THEN Min(LastDays) ELSE Max(LastDays)) - Overlap})

\* The cron job starts at 18:00, the catch-up run when the server was started.
Due(r) == IF r = "cron" THEN ~session ELSE catchUp # "none"

\* A run takes the day and every resume date before it downloads anything.
Begin(r) ==
    /\ window[r] = NoWindow /\ Due(r)
    /\ window' = [window EXCEPT ![r] = [from |-> ResumeDay, to |-> today]]
    /\ UNCHANGED <<table, bars, today, session, catchUp, portalDown>>

\* The days of an answer: American sources are asked up to the day before the run.
Downloaded(s, w) == w.from..(w.to - table.lag[s])

\* The bar the source returns for a day: the newest one moves until its close.
Fetched(s, d) == IF d = today - table.lag[s] /\ session THEN "early" ELSE "final"

\* The rows of a series after the answer for window w: ON CONFLICT DO NOTHING, or
\* DO UPDATE where the table is upserted.
Inserted(s, w) ==
    [d \in 1..LastDay |->
        IF d \in Downloaded(s, w) /\ (table.upsert \/ bars[s][d] = "none")
        THEN Fetched(s, d) ELSE bars[s][d]]

\* Once the portal has been given up, none of its series is asked for.  It is
\* given up at an exception, or after several empty answers in a row.
PortalAllows(answered) == table.portal /\ portalDown => answered = {}
GivesUp(answered) == {portalDown, portalDown \/ (table.portal /\ answered # Series)}

\* One retry follows a catch-up run that counted an error; an empty answer is none.
CatchUpAfter(answered) ==
    {"none"} \cup (IF catchUp = "run" /\ answered # Series THEN {"retry"} ELSE {})

\* The run's leg for this table, of which only some series may be answered: a
\* download fails, or comes back empty, for one series or for all.
Load(r, answered) ==
    /\ window[r] # NoWindow /\ PortalAllows(answered)
    /\ bars' = [s \in Series |-> IF s \in answered THEN Inserted(s, window[r]) ELSE bars[s]]
    /\ window' = [window EXCEPT ![r] = NoWindow]
    /\ portalDown' \in GivesUp(answered)
    /\ IF r = "startup" THEN catchUp' \in CatchUpAfter(answered) ELSE UNCHANGED catchUp
    /\ UNCHANGED <<table, today, session>>

\* The process ends: runs are lost, and the portal is asked again.
RestartSync ==
    /\ window' = [r \in Runs |-> NoWindow]
    /\ portalDown' = FALSE /\ catchUp' = "run"
    /\ UNCHANGED <<table, bars, today, session>>

\* A run takes minutes: it ends, or is lost, before the next market day.
MarketOpens ==
    /\ today < LastDay /\ ~session /\ \A r \in Runs : window[r] = NoWindow
    /\ today' = today + 1 /\ session' = TRUE
    /\ UNCHANGED <<table, bars, window, catchUp, portalDown>>

MarketCloses ==
    /\ session /\ session' = FALSE
    /\ UNCHANGED <<table, bars, today, window, catchUp, portalDown>>

SyncNext ==
    \/ \E r \in Runs : Begin(r) \/ \E answered \in SUBSET Series : Load(r, answered)
    \/ RestartSync
    \/ MarketOpens
    \/ MarketCloses

SyncSpec == SyncInit /\ [][SyncNext]_syncVars

-----------------------------------------------------------------------------
Gapless(s) == DaysOf(s) = {} \/ DaysOf(s) = Min(DaysOf(s))..Max(DaysOf(s))

\* Where a run resumes from the most stale series, no trading day is missing
\* between the first and the last stored day of any series, whatever runs were
\* skipped, overlapped, were lost or failed for some series only.
NoHoles == table.grouped => \A s \in Series : Gapless(s)

\* The same of every table: "one dataset's freshness can't mask another's gap"
\* (data_sync.py:180).
NoMaskedGap == \A s \in Series : Gapless(s)

\* A run that is answered for every series once the market has closed leaves no
\* bar of its window that was taken before the close ("running it here is safe
\* even if the 18:00 cron job also runs later the same day", main.py:332).
ClosingBarStays ==
    [][\A r \in Runs :
        (window[r] # NoWindow /\ Load(r, Series) /\ ~session)
            => \A s \in Series, d \in window[r].from..window[r].to : bars'[s][d] # "early"]_syncVars
=============================================================================

-------------------------------- MODULE MCDesk --------------------------------
(* An instance for TLC of ten components around the desk that share no state:  *)
(* the blending of sleeves, the reports of research runs, the fundamentals, the *)
(* account profiles, the universe files, the brokers' credentials, the map of a *)
(* market, the overview of the accounts, the insights of a day and the trade    *)
(* journal.  As in MCParts, a behaviour moves one and leaves the others alone.  *)
EXTENDS SleeveBlend, ResearchRuns, Fundamentals, AccountProfiles, UniverseFiles,
        BrokerAccess, Heatmap, UnifiedPortfolio, DailyInsights, TradeJournal

\* Two sleeves, one of them American, over two periods of two days; years of three days.
MCNavs == [1..4 -> {1, 2}] \union [2..4 -> {1, 3}]
MCWeights == {[s \in SleeveIds |-> IF s = 1 THEN 1 ELSE 0], [s \in SleeveIds |-> s],
              [s \in SleeveIds |-> 1]}
MCRates == {<<>>, [d \in {2, 4} |-> d]}
MCPeriodOf(d) == (d + 1) \div 2
MCSpans == {<<1, 1>>, <<1, 9>>, <<1, 13>>}

\* Runs of two strategies, and of portfolios.
CONSTANTS r1, r2, r3, p1, p2
MCKindOf(j) == IF j \in {p1, p2} THEN "portfolio" ELSE "run"
MCSlugOf(j) == IF j \in {r1, r2, p1} THEN "a" ELSE "b"

MCTagged == {<<"discrete", "discrete", "discrete", "ytd">>, <<"discrete", "ytd", "ytd", "ytd">>,
             <<"discrete", "ytd", "discrete", "ytd">>, <<"discrete", "none", "none", "ytd">>}

CONSTANTS paper, dc
Strategy(universe, weight) == [kind |-> "strategy", what |-> universe, weight |-> weight]
Hold(code, weight) == [kind |-> "hold", what |-> code, weight |-> weight]
MCDefaultType(a) == IF a = dc THEN "DC" ELSE "PERSONAL"
MCDefaultSleeves(a) == IF a = dc THEN <<Strategy("dc", 68), Hold("safe", 32)>>
                                 ELSE <<Strategy("kr_stock", 100)>>
NoFields == [type |-> None, sleeves |-> None, on |-> None, ramp |-> None]
MCPatches == {
    [NoFields EXCEPT !.on = TRUE],
    [NoFields EXCEPT !.type = "PENSION", !.sleeves = <<Strategy("kr_etf", 70), Strategy("dc", 31)>>,
                     !.on = FALSE],
    [NoFields EXCEPT !.sleeves = <<Hold("stock", 100)>>, !.ramp = 6, !.on = TRUE]}
\* A type without its sleeves.
MCTypeOnly == {[NoFields EXCEPT !.type = "PENSION"], [NoFields EXCEPT !.on = TRUE]}
\* A rise, which may be revised away, and a correction, in the market of the patches.
MCRefClose == [KR |-> [d \in 0..2 |-> <<{100}, {110, 100}, {100}>>[d + 1]]]

CONSTANTS u1, u2, u3
MCLookupKind(j) == IF j = u3 THEN "load" ELSE "refresh"
MCLookupDay(j) == IF j = u2 THEN 0 ELSE Today

\* Toss is configured in the settings alone, KIS in the environment.
CONSTANTS ours, others
MCEnvKeys == [TOSS |-> NoKeys, KIS |-> ours]

Purse(kr, us, krw, usd) == [k \in Assets |-> CASE k = "kr"  -> kr  [] k = "us" -> us
                                               [] k = "krw" -> krw [] OTHER    -> usd]
MCPurses == {[a \in BrokerAccounts |-> IF a = "toss" THEN Purse(1, 2, 1, 1) ELSE Purse(2, 0, 1, 0)]}

MCAnalyses == {<<1, 2>>, <<2, 3>>}
-----------------------------------------------------------------------------
CONSTANT Moving    \* the components of which one moves

ASSUME MovingAssumption ==
    Moving \subseteq {"blend", "runs", "fundamentals", "profiles", "universe", "access",
                     "heatmap", "portfolio", "insights", "advice", "journal"}

VARIABLE part      \* the one that does
deskVars == <<part, blendVars, runsVars, fundVars, profileVars, universeVars, accessVars,
              heatmapVars, portfolioVars, insightsVars, journalVars>>

\* Curves are blended where the strategies leave nothing to search, and the search,
\* which takes its scores from outside, is run for one choice of the curves.
SplitInit ==
    /\ BlendInit
    /\ span # <<1, 1>> \/ part # "blend" =>
          /\ navs = [s \in SleeveIds |-> CHOOSE n \in Navs : TRUE]
          /\ weights = [s \in SleeveIds |-> s] /\ rates = <<>> /\ rebalance
    /\ part # "blend" => span = <<1, 1>>

\* The components at rest start from one state, the moving one from each of its own.
DeskInit ==
    /\ part \in Moving
    /\ SplitInit /\ RunsInit /\ ProfilesInit /\ AccessInit /\ HeatmapInit /\ PortfolioInit
    /\ JournalInit
    /\ FundInit /\ (part # "fundamentals" => ~edgar)
    /\ part # "runs" => board["run"].heading = "absent"
    /\ UniverseInit /\ (part # "universe" => file = NoCodes /\ index = "KOSPI200")
    /\ InsightsInit /\ (part # "insights" => commentMode = "on_view")

AtRestBut(resting) == UNCHANGED <<part, resting>>

DeskNext ==
    \/ /\ part = "blend" /\ BlendNext
       /\ AtRestBut(<<runsVars, fundVars, profileVars, universeVars, accessVars,
                      heatmapVars, portfolioVars, insightsVars, journalVars>>)
    \/ /\ part = "runs" /\ RunsNext
       /\ AtRestBut(<<blendVars, fundVars, profileVars, universeVars, accessVars,
                      heatmapVars, portfolioVars, insightsVars, journalVars>>)
    \/ /\ part = "fundamentals" /\ FundNext
       /\ AtRestBut(<<blendVars, runsVars, profileVars, universeVars, accessVars,
                      heatmapVars, portfolioVars, insightsVars, journalVars>>)
    \/ /\ part = "profiles" /\ ProfilesNext
       /\ AtRestBut(<<blendVars, runsVars, fundVars, universeVars, accessVars,
                      heatmapVars, portfolioVars, insightsVars, journalVars>>)
    \/ /\ part = "universe" /\ UniverseNext
       /\ AtRestBut(<<blendVars, runsVars, fundVars, profileVars, accessVars,
                      heatmapVars, portfolioVars, insightsVars, journalVars>>)
    \/ /\ part = "access" /\ AccessNext
       /\ AtRestBut(<<blendVars, runsVars, fundVars, profileVars, universeVars,
                      heatmapVars, portfolioVars, insightsVars, journalVars>>)
    \/ /\ part = "heatmap" /\ HeatmapNext
       /\ AtRestBut(<<blendVars, runsVars, fundVars, profileVars, universeVars,
                      accessVars, portfolioVars, insightsVars, journalVars>>)
    \/ /\ part = "portfolio" /\ PortfolioNext
       /\ AtRestBut(<<blendVars, runsVars, fundVars, profileVars, universeVars,
                      accessVars, heatmapVars, insightsVars, journalVars>>)
    \/ /\ \/ part = "insights" /\ CommentaryNext
          \/ part = "advice" /\ AdviceNext
       /\ AtRestBut(<<blendVars, runsVars, fundVars, profileVars, universeVars,
                      accessVars, heatmapVars, portfolioVars, journalVars>>)
    \/ /\ part = "journal" /\ JournalNext
       /\ AtRestBut(<<blendVars, runsVars, fundVars, profileVars, universeVars,
                      accessVars, heatmapVars, portfolioVars, insightsVars>>)

DeskSpec == DeskInit /\ [][DeskNext]_deskVars

\* Every variable of the component that moves keeps its type.
DeskTypeOK ==
    CASE part = "blend"        -> BlendTypeOK
      [] part = "runs"         -> RunsTypeOK
      [] part = "fundamentals" -> FundTypeOK
      [] part = "profiles"     -> ProfilesTypeOK
      [] part = "universe"     -> UniverseTypeOK
      [] part = "access"       -> AccessTypeOK
      [] part = "heatmap"      -> HeatmapTypeOK
      [] part = "portfolio"    -> PortfolioTypeOK
      [] part \in {"insights", "advice"} -> InsightsTypeOK
      [] part = "journal"      -> JournalTypeOK

\* What research leaves behind holds: blended curves are those of an account, weights are
\* tested on days they were not chosen on, runs that the leaderboard names can be opened, a
\* reported figure is of its quarters, and a universe file is whole.
ResearchHolds ==
    /\ part = "blend" => BlendIsAnAccount /\ OutOfSample
    /\ part = "runs" => ListedIsServed
    /\ part = "fundamentals" => FiguresHold
    /\ part = "universe" => FileIsWhole

\* Accounts are safe from settings and sums: no live account is switched on while the lock
\* was never opened, a token of other credentials is used no longer than it lives, and
\* the overview adds up.
AccountsHold ==
    /\ part = "profiles" => LiveNeedsUnlock
    /\ part = "access" => ForeignTokenExpires
    /\ part = "portfolio" => TotalIsRight

\* What the screens show is what it claims to be: a map says when it is old, a commentary
\* is made while it is awaited and paid for once, and once more for each answer that was
\* lost, and the analysis of an entry is of the entry.
ScreensAreHonest ==
    /\ part = "heatmap" => MapIsHonest
    /\ part = "insights" => CommentaryIsLazy
    /\ part = "journal" => JournalIsSound
=============================================================================

\* One component moves in each behaviour; Moving names those that may.  A what-if keeps one
\* of them, gives the constants named here and the invariant or property it is about:
\*   {"blend"}: CompoundsCorrectly or TestsApart is violated.
\*   {"runs"}: NoStrayHeading or BoardAccumulates is violated.
\*   {"fundamentals"}: TtmIsAYear, LastFourAreAYear or QuartersAreDiscrete is violated.
\*   {"profiles"}: RampIsFixed is violated; with Patches <- MCTypeOnly RegulationHolds.
\*   {"universe"}: MembersOfTheDay or IndexIsTaken is violated.
\*   {"access"}: ServedAsAsked, TradesUseTheirOwn or SettingsAreUsable is violated.
\*   {"heatmap"}: DayIsAsSaid, RefreshIsNoStepBack or SnapshotIsWhole is violated.
\*   {"portfolio"}: TotalIsOfAMoment or GapsAreListed is violated.
\*   {"insights"}: RanksAreDistinct, CommentIsOfRanking or ReadyIsCommented is violated.
\*   {"advice"}: AdvisoryIsCurrent is violated.
\*   {"journal"}: AnalysisIsLatest, NamedIsKept or FoundIsKept is violated.
SPECIFICATION DeskSpec
CONSTANTS
    Moving = {"blend", "runs", "fundamentals", "profiles", "universe",
              "access", "heatmap", "portfolio", "insights", "advice", "journal"}
    SleeveIds = {1, 2}
    Navs <- MCNavs
    WeightsTried <- MCWeights
    RatesTried <- MCRates
    Dollar = {2}
    PeriodOf <- MCPeriodOf
    Spans <- MCSpans
    Cap = 60
    YearDays = 3
    TrainYears = 2
    TestYears = 1
    StepYears = 1
    Trials = 2
    FailedScore = 0
    r1 = r1
    r2 = r2
    r3 = r3
    p1 = p1
    p2 = p2
    Jobs = {r1, r2, r3}
    KindOf <- MCKindOf
    SlugOf <- MCSlugOf
    LastSecond = 1
    MaxKills = 1
    Quarters = {1, 2, 3, 4, 5, 6, 7}
    Tags <- MCTagged
    MaxCorrections = 1
    MaxLost = 1
    None = None
    paper = paper
    dc = dc
    Accounts = {paper, dc}
    PaperAccount = paper
    DefaultType <- MCDefaultType
    DefaultSleeves <- MCDefaultSleeves
    Patches <- MCPatches
    SafeHoldings = {"safe"}
    RefClose <- MCRefClose
    Callers = {c1, c2}
    MaxPatches = 2
    MaxEvenings = 3
    u1 = u1
    u2 = u2
    u3 = u3
    Lookups = {u1, u2, u3}
    LookupKind <- MCLookupKind
    LookupDay <- MCLookupDay
    Today = 1
    Answers = {0, 60, 200}
    Stocks = {0, 900}
    MaxStops = 1
    ours = ours
    others = others
    NoKeys = NoKeys
    Keys = {ours, others}
    EnvKeys <- MCEnvKeys
    Operations = {"order", "sync", "trade", "test"}
    Lifetime = 2
    LastInstant = 2
    MaxEdits = 2
    Users = {b1}
    KrCodes = {1, 2}
    UsCodes = {3}
    LastMapDay = 2
    Holidays = {2}
    Viewers = {m1}
    NoSnapshot = NoSnapshot
    StartPurses <- MCPurses
    Rate = 3
    Unheard = Unheard
    Analyses <- MCAnalyses
    Readers = {i1, i2}
    MaxAnalyses = 2
    MaxRestarts = 1
    MaxUnkept = 1
    Nothing = Nothing
    Trades = {1}
    Writing = {j1, j2}
    Given = {10}
    Added = {11}
    MaxChanges = 3
    MaxCrashes = 1
INVARIANTS
    DeskTypeOK
    ResearchHolds
    AccountsHold
    ScreensAreHonest
PROPERTY
    RampSettles
CHECK_DEADLOCK FALSE

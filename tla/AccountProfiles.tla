---------------------------- MODULE AccountProfiles ----------------------------
(* The accounts' profiles: the rows of account_profiles, their patches through  *)
(* the API (api/accounts.py, services/accounts/profiles.py) and the length of   *)
(* the entry that the nightly job derives from them (auto_ramp.py,              *)
(* services/batch/account_proposals.py).                                        *)
EXTENDS Integers, FiniteSets, FiniteSetsExt, Functions

CONSTANTS
    Accounts, PaperAccount,
    DefaultType(_), DefaultSleeves(_),    \* what a row is seeded with
    Patches,       \* bodies of PATCH /api/accounts/...; None is a field left out
    SafeHoldings,  \* codes the allowlist of DC and IRP calls safe
    RefClose,      \* by market and day, what its reference stock may be stored to close at
    Callers,       \* requests that may be open at once
    MaxPatches, MaxEvenings, None

Types == {"PERSONAL", "ISA", "DC", "IRP", "PENSION", "US"}
Markets == DOMAIN RefClose
ProfileDays == DOMAIN RefClose["KR"]

\* ALLOWED_UNIVERSES and HOLD_ALLOWED.
Allowed == [type \in Types |->
    CASE type \in {"PERSONAL", "ISA"} -> {"kr_stock", "kr_etf"}
      [] type \in {"DC", "IRP"}       -> {"dc"}
      [] type = "PENSION"             -> {"kr_etf", "dc"}
      [] type = "US"                  -> {"us_stock", "us_etf"}]
MayHold(type, code) ==
    /\ type # "US"
    /\ type \in {"DC", "IRP"} => code \in SafeHoldings

\* A sleeve is a strategy of a universe or a stock that is held; weights are percents.
SleeveFits(s, type) == IF s.kind = "strategy" THEN s.what \in Allowed[type]
                                             ELSE MayHold(type, s.what)
WeightOf(sleeves) == FoldFunction(LAMBDA s, w : s.weight + w, 0, sleeves)

\* validate_sleeves; that it scales the weights to one is left out.
SleevesFit(sleeves, type) ==
    /\ sleeves # <<>> /\ WeightOf(sleeves) \in 99..101
    /\ \A i \in DOMAIN sleeves : SleeveFits(sleeves[i], type)

ASSUME ProfilesAssumption ==
    /\ PaperAccount \in Accounts /\ MaxPatches \in Nat /\ MaxEvenings \in Nat
    /\ ProfileDays \subseteq Nat /\ 0 \in ProfileDays
    /\ \A m \in Markets : RefClose[m] \in [ProfileDays -> SUBSET (Nat \ {0}) \ {{}}]
    /\ \A a \in Accounts : DefaultType(a) \in Types /\ SleevesFit(DefaultSleeves(a), DefaultType(a))
    /\ \A p \in Patches : p.on \in BOOLEAN \union {None}

VARIABLES
    profile,    \* the row of an account, or None
    unlocked,   \* Setting live_quant_unlocked
    opened,     \* history: the lock has been open
    thisDay,
    storedClose,    \* by market, the closes of its reference stock that are stored, by day
    open,       \* the request of a caller, with what it has read
    patches,    \* requests so far
    nightly,    \* the rows the job in progress has read and not yet come to, or None
    lastMonths,    \* the months it applied last to an account, with the row, or None
    settled,    \* history: those of the last evening whose reads all succeeded, or None
                \* once a close of the days up to the entry was stored or revised
    evenings    \* runs of the job so far

rampVars == <<nightly, lastMonths, settled, evenings>>
profileVars == <<profile, unlocked, opened, thisDay, storedClose, open, patches, rampVars>>

AutoRamp == -1
Menus == ({p.sleeves : p \in Patches} \ {None}) \union {DefaultSleeves(a) : a \in Accounts}
Profiles == [type : Types, sleeves : Menus, on : BOOLEAN,
             since : ProfileDays \union {None}, ramp : AutoRamp..24]
ASSUME NoneAssumption == None \notin Profiles

\* The closes of the days up to now, as they may be stored.
Storable(m) ==
    {f \in [{d \in ProfileDays : d <= thisDay} -> UNION Range(RefClose[m])] :
        \A d \in DOMAIN f : f[d] \in RefClose[m][d]}

ProfilesTypeOK ==
    /\ profile \in [Accounts -> Profiles \union {None}]
    /\ unlocked \in BOOLEAN /\ opened \in BOOLEAN
    /\ thisDay \in ProfileDays /\ patches \in 0..MaxPatches /\ evenings \in 0..MaxEvenings
    /\ \A m \in Markets : DOMAIN storedClose[m] \subseteq 0..thisDay
    /\ \A a \in Accounts : nightly[a] \in Profiles \union {None}
    /\ \A c \in Callers :
          /\ open[c].at \in {"idle", "seed", "load", "lock", "write"}
          /\ open[c].account \in Accounts /\ open[c].patch \in Patches \union {None}
          /\ open[c].missing \subseteq Accounts /\ open[c].lock \in BOOLEAN
          /\ open[c].row \in Profiles \union {None}

Idle == [at |-> "idle", account |-> PaperAccount, patch |-> None, missing |-> {},
         row |-> None, lock |-> FALSE]
-----------------------------------------------------------------------------
(* A patch.                                                                    *)

\* ensure_account_profiles reads the rows there are ...
AskPatch(c, a, p) ==
    LET missing == {b \in Accounts : profile[b] = None}
    IN /\ open[c].at = "idle" /\ patches < MaxPatches
       /\ open' = [open EXCEPT ![c] = [Idle EXCEPT !.at = IF missing = {} THEN "load" ELSE "seed",
                                                   !.account = a, !.patch = p, !.missing = missing]]
       /\ patches' = patches + 1
       /\ UNCHANGED <<profile, unlocked, opened, thisDay, storedClose, rampVars>>

Seeded(a) == [type |-> DefaultType(a), sleeves |-> DefaultSleeves(a), on |-> FALSE,
              since |-> None, ramp |-> AutoRamp]

\* ... and inserts the others; a row that came in between fails the request.
SeedRows(c) ==
    /\ open[c].at = "seed"
    /\ IF \A a \in open[c].missing : profile[a] = None
       THEN /\ profile' = [a \in Accounts |-> IF a \in open[c].missing THEN Seeded(a) ELSE profile[a]]
            /\ open' = [open EXCEPT ![c].at = "load", ![c].missing = {}]
       ELSE open' = [open EXCEPT ![c] = Idle] /\ UNCHANGED profile
    /\ UNCHANGED <<unlocked, opened, thisDay, storedClose, patches, rampVars>>

LoadRow(c) ==
    /\ open[c].at = "load"
    /\ open' = [open EXCEPT ![c].at = "lock", ![c].row = profile[open[c].account]]
    /\ UNCHANGED <<profile, unlocked, opened, thisDay, storedClose, patches, rampVars>>

\* is_live_quant_unlocked
ReadLock(c) ==
    /\ open[c].at = "lock"
    /\ open' = [open EXCEPT ![c].at = "write", ![c].lock = unlocked]
    /\ UNCHANGED <<profile, unlocked, opened, thisDay, storedClose, patches, rampVars>>

\* Mutant of Refused: the lock is not looked at.
RefusedUnfit(a, row, p, lock) ==
    LET type == IF p.type = None THEN row.type ELSE p.type
    IN \/ type \notin Types
       \/ p.sleeves # None /\ ~SleevesFit(p.sleeves, type)
       \/ p.ramp # None /\ p.ramp \notin AutoRamp..24

\* What apply_account_patch raises for: sleeves are held against the new type, a type
\* by itself is not held against the sleeves.
Refused(a, row, p, lock) ==
    LET type == IF p.type = None THEN row.type ELSE p.type
    IN \/ type \notin Types
       \/ p.sleeves # None /\ ~SleevesFit(p.sleeves, type)
       \/ p.ramp # None /\ p.ramp \notin AutoRamp..24
       \/ p.on = TRUE /\ a # PaperAccount /\ ~lock

Or(new, old) == IF new = None THEN old ELSE new
Patched(row, p) ==
    [type |-> Or(p.type, row.type), sleeves |-> Or(p.sleeves, row.sleeves),
     ramp |-> Or(p.ramp, row.ramp), on |-> Or(p.on, row.on),
     since |-> IF p.on = TRUE /\ ~row.on THEN thisDay ELSE row.since]

\* The session writes the columns that differ from what it loaded, over whatever the
\* row holds by now.
WriteRow(c) ==
    LET a == open[c].account
        row == open[c].row
        new == Patched(row, open[c].patch)
    IN /\ open[c].at = "write"
       /\ IF Refused(a, row, open[c].patch, open[c].lock)
          THEN UNCHANGED profile
          ELSE profile' = [profile EXCEPT ![a] =
                   [col \in DOMAIN new |-> IF new[col] = row[col] THEN profile[a][col] ELSE new[col]]]
       /\ open' = [open EXCEPT ![c] = Idle]
       /\ UNCHANGED <<unlocked, opened, thisDay, storedClose, patches, rampVars>>
-----------------------------------------------------------------------------
(* The surroundings.                                                           *)

\* The owner sets the lock in the database; no endpoint does.
TurnLock ==
    /\ unlocked' = ~unlocked /\ opened' = TRUE
    /\ UNCHANGED <<profile, thisDay, storedClose, open, patches, rampVars>>

NextDay ==
    /\ thisDay + 1 \in ProfileDays
    /\ thisDay' = thisDay + 1
    /\ UNCHANGED <<profile, unlocked, opened, storedClose, open, patches, rampVars>>

-----------------------------------------------------------------------------
(* The months over which a sleeve enters.                                      *)

MarketOf(universe) == IF universe \in {"us_stock", "us_etf"} THEN "US" ELSE "KR"

\* There is a reference stock for every strategy on a menu.
ASSUME MarketsAssumption ==
    \A menu \in Menus : \A s \in Range(menu) : s.kind = "strategy" => MarketOf(s.what) \in Markets

\* Mutant of StoredCloses: the closes up to now.
StoredToday(universe, day) == DOMAIN storedClose[MarketOf(universe)]

StoredCloses(universe, day) == {d \in DOMAIN storedClose[MarketOf(universe)] : d <= day}

\* entry_drawdown, where the closes can be read; the days modelled all lie within its year.
EntryDrawdown(universe, day) ==
    LET close == storedClose[MarketOf(universe)]
        stored == StoredCloses(universe, day)
        peak == Max({close[d] : d \in stored})
        last == 100 * close[Max(stored)]
    IN IF Cardinality(stored) < 2 \/ 95 * peak < last THEN "none"
       ELSE IF last <= 85 * peak THEN "crash" ELSE "correction"

AutoRampMonths(universe, drawdown) ==
    CASE universe = "us_stock" -> 1
      [] universe = "us_etf"   -> IF drawdown = "none" THEN 3 ELSE 1
      [] universe = "kr_stock" -> IF drawdown = "crash" THEN 1
                                  ELSE IF drawdown = "correction" THEN 6 ELSE 3
      [] universe = "kr_etf"   -> IF drawdown = "correction" THEN 6 ELSE 1
      [] universe = "dc"       -> IF drawdown = "crash" THEN 1 ELSE 3

\* Closes that cannot be read count as no drawdown.
ResolveRampMonths(ramp, universe, since, read) ==
    IF ramp # AutoRamp THEN ramp
    ELSE IF since = None THEN 1
    ELSE AutoRampMonths(universe, IF read THEN EntryDrawdown(universe, since) ELSE "none")

Strategies(row) == {s \in Range(row.sleeves) : s.kind = "strategy"}
MonthsOf(row, read) ==
    [s \in Strategies(row) |-> ResolveRampMonths(row.ramp, s.what, row.since, s \in read)]

\* run_all_account_proposals: the rows are read once, whatever accounts the evening
\* before failed to come to, ...
StartEvening ==
    /\ evenings < MaxEvenings /\ evenings' = evenings + 1
    /\ \E a \in Accounts : profile[a] # None /\ profile[a].on
    /\ nightly' = [a \in Accounts |-> IF profile[a] # None /\ profile[a].on THEN profile[a] ELSE None]
    /\ UNCHANGED <<profile, unlocked, opened, thisDay, storedClose, open, patches, lastMonths, settled>>

\* ... then the closes, for each strategy of an account.
ApplyRamp(a) ==
    LET row == nightly[a]
    IN /\ row # None
       /\ \E read \in SUBSET Strategies(row) :
             LET months == [row |-> row, of |-> MonthsOf(row, read)]
             IN /\ lastMonths' = [lastMonths EXCEPT ![a] = months]
                /\ settled' = IF read = Strategies(row) THEN [settled EXCEPT ![a] = months]
                                                        ELSE settled
       /\ nightly' = [nightly EXCEPT ![a] = None]
       /\ UNCHANGED <<profile, unlocked, opened, thisDay, storedClose, open, patches, evenings>>

\* The closes a row is entered on are the same in f and in g.
SameUpTo(since, f, g) == \A d \in DOMAIN f \union DOMAIN g : d <= since =>
    d \in DOMAIN f \intersect DOMAIN g /\ f[d] = g[d]
StaysSettled(months, f, g) ==
    months # None /\ months.row.since # None => SameUpTo(months.row.since, f, g)

\* The daily bars of a market come in, the reference stock's among them; those of
\* earlier days may be revised.
LoadCloses(m) ==
    /\ \E new \in Storable(m) \ {storedClose[m]} :
          /\ storedClose' = [storedClose EXCEPT ![m] = new]
          /\ settled' = [a \in Accounts |->
                            IF StaysSettled(settled[a], storedClose[m], new) THEN settled[a] ELSE None]
    /\ UNCHANGED <<profile, unlocked, opened, thisDay, open, patches, nightly, lastMonths, evenings>>
-----------------------------------------------------------------------------
ProfilesInit ==
    /\ profile = [a \in Accounts |-> None]
    /\ unlocked = FALSE /\ opened = FALSE /\ thisDay = 0
    /\ storedClose \in {f \in [Markets -> UNION {Storable(m) : m \in Markets}] :
                      \A m \in Markets : f[m] \in Storable(m)}
    /\ open = [c \in Callers |-> Idle] /\ patches = 0 /\ evenings = 0
    /\ nightly = [a \in Accounts |-> None] /\ lastMonths = nightly /\ settled = nightly

ProfilesNext ==
    \/ \E c \in Callers : \/ \E a \in Accounts, p \in Patches : AskPatch(c, a, p)
                          \/ SeedRows(c) \/ LoadRow(c) \/ ReadLock(c) \/ WriteRow(c)
    \/ TurnLock \/ NextDay \/ \E m \in Markets : LoadCloses(m)
    \/ StartEvening \/ \E a \in Accounts : ApplyRamp(a)

On(a) == profile[a] # None /\ profile[a].on

\* No account but the paper one is ever switched on, by requests however interleaved
\* with each other, with the seeding and with the lock, unless the lock was opened.
LiveNeedsUnlock == (\E a \in Accounts \ {PaperAccount} : On(a)) => opened

AppliesSettled(a) == settled[a] # None /\ settled'[a] # None =>
    /\ settled'[a].row = settled[a].row => settled'[a] = settled[a]
    /\ lastMonths'[a].row = settled[a].row => \A s \in Strategies(settled[a].row) :
          lastMonths'[a].of[s] \in {settled[a].of[s], AutoRampMonths(s.what, "none")}

\* The months of an entry do not drift from evening to evening: with the same row, and as
\* long as no close of the days up to the entry is stored late or revised, every evening
\* whose reads succeed applies the same, whatever closes came since; and where a read
\* fails a strategy is given the months of a peak, for that evening.
RampSettles == [][\A a \in Accounts : AppliesSettled(a)]_profileVars

\* The months of an entry are those of the moment it was switched on
\* (services/accounts/auto_ramp.py).
RampIsFixed ==
    [][\A a \in Accounts : lastMonths[a] # None /\ lastMonths'[a].row = lastMonths[a].row
                               => UNCHANGED lastMonths[a]]_profileVars

\* Every account holds what its type allows (services/accounts/profiles.py).
RegulationHolds ==
    \A a \in Accounts : profile[a] # None => SleevesFit(profile[a].sleeves, profile[a].type)
=============================================================================

----------------------------- MODULE Fundamentals -----------------------------
(* Financial statements as the factors see them: how reports are loaded         *)
(* (research/data_ingestion/financial_loader.py for DART, sec_edgar_loader.py   *)
(* for EDGAR) and what a factor of a past day reads (research/factors/quality   *)
(* .py, value.py, fundamental_us.py).                                           *)
(*                                                                              *)
(* Quarters are numbered, four to a year; the report of a fourth quarter is the *)
(* annual one.  An amount of a flow (income, revenue) is the set of quarters it *)
(* is earned in: adding amounts is their union, subtracting their difference.   *)
(* Report q is published on day q at the earliest; it may be corrected later.   *)
EXTENDS Integers, FiniteSets, FiniteSetsExt, Sequences, SequencesExt

CONSTANTS
    Quarters,               \* 1..n
    Tags,                   \* how a company tags the first year: functions tried from
                            \* its quarters to "none", "discrete" and "ytd"
    MaxCorrections, MaxLost \* bounds: corrected reports, requests DART refuses

ASSUME FundamentalsAssumption ==
    /\ IsFiniteSet(Quarters) /\ Quarters = 1..Cardinality(Quarters) /\ Cardinality(Quarters) >= 4
    /\ Tags \subseteq [1..4 -> {"none", "discrete", "ytd"}]
    /\ MaxCorrections \in Nat /\ MaxLost \in Nat

VARIABLES
    edgar,     \* whose reports: EDGAR's, or DART's
    today,
    filed,     \* the days on which a report was filed, the corrections included
    tags,
    table,     \* rows: for a quarter its disclosed_at and the filing it was taken from
    lost

fundVars == <<edgar, today, filed, tags, table, lost>>

LastQuarter == Max(Quarters)
Days == 1..LastQuarter
NoRow == [date |-> 0, version |-> 0]
Versions == 1..(MaxCorrections + 1)

FundTypeOK ==
    /\ edgar \in BOOLEAN /\ today \in Days /\ lost \in 0..MaxLost /\ tags \in Tags
    /\ filed \in [Quarters -> Seq(Days)]
    /\ \A q \in Quarters : table[q] = NoRow \/ table[q] \in [date : Days, version : Versions]

YearOf(q) == (q - 1) \div 4
Annual(q) == q % 4 = 0
YearUpTo(q) == (4 * YearOf(q) + 1)..q
-----------------------------------------------------------------------------
(* Loading.                                                                    *)

\* parse_dart_response: the answer is the filing that stands now, under its own date.
Fetched(q) == [date |-> Last(filed[q]), version |-> Len(filed[q])]

\* Mutant of Stored: a report that is in the table is replaced, its date is not.
StoredAnew(q) == IF table[q] = NoRow THEN Fetched(q)
                 ELSE [table[q] EXCEPT !.version = Len(filed[q])]

\* _insert_ignore_financials keeps the row there is; _upsert of EDGAR replaces it.
Stored(q) == IF edgar \/ table[q] = NoRow THEN Fetched(q) ELSE table[q]

\* update_financials, update_us_financials_edgar: every report of the years asked for
\* in one transaction; a report that DART refuses is left out without a word.
LoadReports(refused) ==
    /\ lost + Cardinality(refused) <= MaxLost /\ (edgar => refused = {})
    /\ lost' = lost + Cardinality(refused)
    /\ table' = [q \in Quarters |-> IF filed[q] = <<>> \/ q \in refused THEN table[q] ELSE Stored(q)]
    /\ UNCHANGED <<edgar, today, filed, tags>>

\* The company (external) files the next report.
FileReport ==
    /\ today < LastQuarter /\ today' = today + 1
    /\ filed' = [filed EXCEPT ![today + 1] = Append(@, today + 1)]
    /\ UNCHANGED <<edgar, tags, table, lost>>

\* It corrects an old one.
CorrectReport(q) ==
    /\ filed[q] # <<>> /\ Last(filed[q]) < today
    /\ Cardinality({p \in Quarters : Len(filed[p]) > 1}) < MaxCorrections /\ Len(filed[q]) = 1
    /\ filed' = [filed EXCEPT ![q] = Append(@, today)]
    /\ UNCHANGED <<edgar, today, tags, table, lost>>
-----------------------------------------------------------------------------
(* What a row holds.                                                           *)

\* The quarters of the first year that carry a figure at all.
Tagged == {p \in 1..4 : tags[p] # "none"}

\* _duration_quarterly: a discrete figure as it is, of a cumulative one what is not
\* yet booked of the year.
Booked(q) ==
    LET booked[p \in 0..4] ==
            IF p = 0 \/ p \notin Tagged THEN {}
            ELSE IF tags[p] = "discrete" THEN {p}
            ELSE (1..p) \ UNION {booked[e] : e \in 0..(p - 1)}
    IN IF q > 4 THEN {q} ELSE booked[q]

\* The flow of a row: a DART annual report covers its year, an interim its quarter.
Flow(q) == IF edgar THEN Booked(q) ELSE IF Annual(q) THEN YearUpTo(q) ELSE {q}

\* extract_financials makes a row of the quarters that carry a figure.
HasFlow(q) == edgar => (q > 4 \/ q \in Tagged)

\* Rows a factor of day d may read, and the newest of them by disclosure.
Known(d) == {q \in Quarters : table[q] # NoRow /\ table[q].date <= d /\ HasFlow(q)}
Newer(p, q) == \/ table[p].date > table[q].date
               \/ table[p].date = table[q].date /\ p > q
Newest(rowset, n) == {q \in rowset : Cardinality({p \in rowset : Newer(p, q)}) < n}

\* _reconstruct_ttm: a fourth quarter is what the annual report has beyond the three
\* interims; the four last quarters there are, unless an annual report is newer.
ReconstructTtm(rowset) ==
    LET interims == {q \in rowset : ~Annual(q)}
        annuals == {q \in rowset : Annual(q)}
        derived == {q \in annuals : YearUpTo(q - 1) \subseteq interims}
        quarters == interims \union derived
        last(n) == {q \in quarters : Cardinality({p \in quarters : p > q}) < n}
    IN IF Cardinality(quarters) >= 4 /\ (annuals = {} \/ Max(quarters) >= Max(annuals)) THEN last(4)
       ELSE IF annuals # {} THEN YearUpTo(Max(annuals))
       ELSE last(4)

\* flow_ttm_series on day d: the twelve rows disclosed last, four for EDGAR.
Ttm(d) == IF edgar THEN UNION {Flow(q) : q \in Newest(Known(d), 4)}
          ELSE ReconstructTtm(Newest(Known(d), 12))

\* _latest_financials, _latest: equity, shares and earnings per share of this row.
LatestRow(d) == Newest(Known(d), 1)

\* calculate_quality_factors, calculate_value_factors: a flow of a year over the
\* figures of the latest row.
Ratio(d) == [flow |-> Ttm(d), base |-> LatestRow(d)]
-----------------------------------------------------------------------------
FundInit ==
    /\ today = 1 /\ filed = [q \in Quarters |-> IF q = 1 THEN <<1>> ELSE <<>>]
    /\ edgar \in BOOLEAN /\ tags \in Tags /\ (~edgar => tags = CHOOSE t \in Tags : TRUE)
    /\ table = [q \in Quarters |-> NoRow] /\ lost = 0

FundNext ==
    \/ FileReport
    \/ \E q \in Quarters : CorrectReport(q)
    \/ \E refused \in SUBSET {q \in Quarters : filed[q] # <<>>} : LoadReports(refused)

-----------------------------------------------------------------------------
(* Properties.                                                                 *)

Consecutive(S) == S = {} \/ S = Min(S)..Max(S)
WholeYear == edgar => \A p \in 1..4 : tags[p] # "none"

\* A factor of a past day rests on filings of that day or before, whenever the
\* reports were loaded; no quarter is counted that no row covers, and where the rows
\* it may read start with a year, leave no quarter out and follow each other in time,
\* the flow is that of the last four quarters, or of those there are.
FiguresHold ==
    \A d \in 1..today :
        LET flow == Ratio(d).flow
            rows == Known(d)
            inTime == \A p, q \in rows : p < q => ~Newer(p, q)
        IN /\ \A q \in rows : filed[q][table[q].version] <= d
           /\ flow \subseteq UNION {Flow(q) : q \in rows}
           /\ (WholeYear /\ inTime /\ rows # {} /\ rows = 1..Max(rows)) =>
                 flow = {q \in UNION {Flow(p) : p \in rows} : q > Max(rows) - 4}

\* "falling back to the latest annual ... when quarters are incomplete"
\* (quality.py:212-213): a sum over DART rows never has a hole.
TtmIsAYear == ~edgar => \A d \in 1..today : Consecutive(Ttm(d))

\* "the plain last-4 sum is already a correct TTM there" (quality.py:100-101).
LastFourAreAYear == edgar => \A d \in 1..today : Consecutive(Ttm(d))

\* "stored as discrete 3-month quarterly values" (sec_edgar_loader.py:15).
QuartersAreDiscrete == edgar => \A q \in 1..4 : Cardinality(Booked(q)) <= 1
=============================================================================

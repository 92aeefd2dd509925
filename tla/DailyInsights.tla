----------------------------- MODULE DailyInsights -----------------------------
(* The insights of one day (services/batch/daily_analysis.py, daily_report.py,  *)
(* us_advisory.py, api/quant.py): the analysis ranks stocks, a commentary on    *)
(* the ranking is bought from a language model when somebody looks or when the  *)
(* evening report runs, and the US advice ranks once for a day's prices.  One   *)
(* day and the default strategy; the budget is module LanguageModel's.          *)
EXTENDS Integers, Sequences, SequencesExt, FiniteSets

CONSTANTS
    Analyses,       \* the rankings an analysis of the day may come to
    Readers,
    MaxAnalyses, MaxRestarts, MaxUnkept,    \* bounds; the last on answers paid for and lost
    Nothing

Ranked == UNION {Range(r) : r \in Analyses}

ASSUME InsightsAssumption ==
    /\ IsFiniteSet(Ranked) /\ "report" \notin Readers
    /\ \A r \in Analyses : r \in Seq(Range(r)) /\ IsInjective(r)
    /\ MaxAnalyses \in Nat /\ MaxRestarts \in Nat /\ MaxUnkept \in Nat

VARIABLES
    rows,        \* BatchAnalysisResult: by stock, its rank and commentary
    inflight,    \* _commentary_inflight holds the day
    making,      \* commentaries in the making, one for each reader and the report's
    reading,     \* a reader's request, between two awaits
    commentMode, \* the setting llm_commentary_mode
    answers,     \* LLMCache: the rankings whose commentary is kept
    paid,        \* by ranking, how often its commentary was bought
    unkept,      \* history: and how often what was bought was lost
    analyses, restarts, moded, misses,      \* what the bounds count
    advice       \* us_advisory: the rows of the day in the table, those the target ranks

insightsVars == <<rows, inflight, making, reading, commentMode, answers, paid,
                  unkept, analyses, restarts, moded, misses, advice>>
bounds == <<analyses, restarts, moded, misses>>

Writers == Readers \union {"report"}
\* What a prompt says: the ranks of the stocks at the top.
Prompts == UNION {[s -> 1..Cardinality(Ranked)] : s \in SUBSET Ranked}
NoWriter == [at |-> "idle", prompt |-> <<>>]

InsightsTypeOK ==
    /\ DOMAIN rows \subseteq Ranked
    /\ \A s \in DOMAIN rows : rows[s].rank \in 1..Cardinality(Ranked)
    /\ inflight \in BOOLEAN /\ moded \in BOOLEAN /\ commentMode \in {"on_view", "scheduled"}
    /\ \A w \in Writers : making[w].at \in {"idle", "rows", "answer", "keep", "store"}
    /\ reading \in [Readers -> {"idle", "rows", "plain"}]
    /\ answers \subseteq Prompts /\ DOMAIN paid \subseteq Prompts /\ DOMAIN unkept \subseteq Prompts
    /\ analyses \in 0..MaxAnalyses /\ restarts \in 0..MaxRestarts /\ misses \in 0..MaxUnkept
    /\ advice \in [loaded : {"none", "part", "whole"}, target : {Nothing, "part", "whole"}]
-----------------------------------------------------------------------------
(* The analysis, and what is commented on.                                     *)

\* Mutant of Persisted: ranks are counted from zero.
PersistedFromZero(ranking) ==
    [s \in DOMAIN rows \union Range(ranking) |->
        IF s \in Range(ranking)
        THEN [rank |-> (CHOOSE i \in DOMAIN ranking : ranking[i] = s) - 1, comment |-> Nothing]
        ELSE rows[s]]

\* _persist_rows: the rows of the ranking are written without a commentary, the day's
\* other rows stay.
Persisted(ranking) ==
    [s \in DOMAIN rows \union Range(ranking) |->
        IF s \in Range(ranking)
        THEN [rank |-> CHOOSE i \in DOMAIN ranking : ranking[i] = s, comment |-> Nothing]
        ELSE rows[s]]

\* run_daily_analysis, by the daily or the weekly job.
RunAnalysis ==
    /\ analyses < MaxAnalyses
    /\ \E ranking \in Analyses : rows' = Persisted(ranking)
    /\ analyses' = analyses + 1
    /\ UNCHANGED <<inflight, making, reading, commentMode, answers, paid, unkept, restarts,
                   moded, misses, advice>>

RanksOf == [s \in DOMAIN rows |-> rows[s].rank]

\* _update_commentary: on every row of the day.
Commented(comment) == [s \in DOMAIN rows |-> [rows[s] EXCEPT !.comment = comment]]
-----------------------------------------------------------------------------
(* get_undervalued                                                             *)

HasCommentary == \E s \in DOMAIN rows : rows[s].comment # Nothing

\* The rows are read before the mode; without any there is nothing to decide.
ReadInsights(r) ==
    /\ reading[r] = "idle" /\ making[r].at = "idle" /\ DOMAIN rows # {}
    /\ reading' = [reading EXCEPT ![r] = IF HasCommentary THEN "rows" ELSE "plain"]
    /\ UNCHANGED <<rows, inflight, making, commentMode, answers, paid, unkept, bounds, advice>>

\* Mutant of MaySchedule: the key in flight is not looked at.
MayScheduleAgain(r) == reading[r] = "plain" /\ commentMode = "on_view"

\* _commentary_status_and_maybe_schedule
MaySchedule(r) == reading[r] = "plain" /\ commentMode = "on_view" /\ ~inflight

DecideOnCommentary(r) ==
    /\ reading[r] # "idle" /\ reading' = [reading EXCEPT ![r] = "idle"]
    /\ IF MaySchedule(r)
       THEN inflight' = TRUE /\ making' = [making EXCEPT ![r].at = "rows"]
       ELSE UNCHANGED <<inflight, making>>
    /\ UNCHANGED <<rows, commentMode, answers, paid, unkept, bounds, advice>>
-----------------------------------------------------------------------------
(* _lazy_commentary with generate_and_store_commentary, and run_daily_report   *)

\* The evening report buys a commentary in its mode only.
StartReport ==
    /\ making["report"].at = "idle" /\ commentMode = "scheduled"
    /\ making' = [making EXCEPT !["report"].at = "rows"]
    /\ UNCHANGED <<rows, inflight, reading, commentMode, answers, paid, unkept, bounds, advice>>

\* _load_analysis_rows, and the look into the cache.
LoadRows(w) ==
    /\ making[w].at = "rows"
    /\ making' = [making EXCEPT ![w] = [at |-> IF RanksOf \in answers THEN "store" ELSE "answer",
                                          prompt |-> RanksOf]]
    /\ UNCHANGED <<rows, inflight, reading, commentMode, answers, paid, unkept, bounds, advice>>

HowOften(count, p) == IF p \in DOMAIN count THEN count[p] ELSE 0
OnceMore(count, p) ==
    [q \in DOMAIN count \union {p} |-> HowOften(count, q) + (IF q = p THEN 1 ELSE 0)]

\* The model answers and is paid ...
HearCommentary(w) ==
    /\ making[w].at = "answer"
    /\ making' = [making EXCEPT ![w].at = "keep"]
    /\ paid' = OnceMore(paid, making[w].prompt)
    /\ UNCHANGED <<rows, inflight, reading, commentMode, answers, unkept, bounds, advice>>

\* ... then complete_cached writes the answer to the cache.
KeepCommentary(w) ==
    /\ making[w].at = "keep"
    /\ making' = [making EXCEPT ![w].at = "store"]
    /\ answers' = answers \union {making[w].prompt}
    /\ UNCHANGED <<rows, inflight, reading, commentMode, paid, unkept, bounds, advice>>

\* An answer paid for is lost on its way, and the client of the model asks again.
AskAgain(w) ==
    /\ making[w].at = "keep" /\ misses < MaxUnkept /\ misses' = misses + 1
    /\ unkept' = OnceMore(unkept, making[w].prompt)
    /\ making' = [making EXCEPT ![w].at = "answer"]
    /\ UNCHANGED <<rows, inflight, reading, commentMode, answers, paid, analyses, restarts,
                   moded, advice>>

\* Mutant of Released: only a commentary that was stored releases the key.
ReleasedIfStored(w, stored) == inflight /\ (w = "report" \/ ~stored)

\* The finally of _lazy_commentary
Released(w, stored) == inflight /\ w = "report"

Comment(w, by) == [of |-> making[w].prompt, by |-> by]

\* A call that fails, with nothing paid or with an answer paid for that is lost or cannot
\* be kept: a lazy commentary leaves the rows alone; the report stores a summary of its
\* own instead, if that can be written.
FailCommentary(w) ==
    /\ \/ making[w].at = "answer" /\ UNCHANGED <<unkept, misses>>
       \/ /\ making[w].at = "keep" /\ misses < MaxUnkept /\ misses' = misses + 1
          /\ unkept' = OnceMore(unkept, making[w].prompt)
    /\ rows' \in {rows} \union (IF w = "report" THEN {Commented(Comment(w, "fallback"))} ELSE {})
    /\ making' = [making EXCEPT ![w] = NoWriter]
    /\ inflight' = Released(w, FALSE)
    /\ UNCHANGED <<reading, commentMode, answers, paid, analyses, restarts, moded, advice>>

StoreCommentary(w) ==
    /\ making[w].at = "store"
    /\ rows' \in {rows, Commented(Comment(w, "model"))}    \* the write may fail
    /\ making' = [making EXCEPT ![w] = NoWriter]
    /\ inflight' = Released(w, TRUE)
    /\ UNCHANGED <<reading, commentMode, answers, paid, unkept, bounds, advice>>

ChangeMode ==
    /\ ~moded /\ moded' = TRUE
    /\ commentMode' = IF commentMode = "on_view" THEN "scheduled" ELSE "on_view"
    /\ UNCHANGED <<rows, inflight, making, reading, answers, paid, unkept, analyses, restarts,
                   misses, advice>>

\* The process is restarted: the rows and the cache stay.
Restart ==
    /\ restarts < MaxRestarts /\ restarts' = restarts + 1
    /\ inflight' = FALSE /\ making' = [w \in Writers |-> NoWriter]
    /\ reading' = [r \in Readers |-> "idle"] /\ advice' = [advice EXCEPT !.target = Nothing]
    /\ UNCHANGED <<rows, commentMode, answers, paid, unkept, analyses, moded, misses>>
-----------------------------------------------------------------------------
(* generate_us_advisory                                                        *)

\* The loader commits the US prices of the day in pieces.
LoadUsPrices ==
    /\ advice.loaded # "whole"
    /\ advice' = [advice EXCEPT !.loaded = IF @ = "none" THEN "part" ELSE "whole"]
    /\ UNCHANGED <<rows, inflight, making, reading, commentMode, answers, paid, unkept, bounds>>

\* _ranked_target: once for a day, a strategy and a number.
RankUsTarget ==
    /\ advice.loaded # "none" /\ advice.target = Nothing
    /\ advice' = [advice EXCEPT !.target = advice.loaded]
    /\ UNCHANGED <<rows, inflight, making, reading, commentMode, answers, paid, unkept, bounds>>
-----------------------------------------------------------------------------
InsightsInit ==
    /\ rows = <<>> /\ inflight = FALSE /\ making = [w \in Writers |-> NoWriter]
    /\ reading = [r \in Readers |-> "idle"] /\ commentMode \in {"on_view", "scheduled"}
    /\ answers = {} /\ paid = <<>> /\ unkept = <<>>
    /\ analyses = 0 /\ restarts = 0 /\ moded = FALSE /\ misses = 0
    /\ advice = [loaded |-> "none", target |-> Nothing]

CommentaryNext ==
    \/ RunAnalysis \/ StartReport \/ ChangeMode \/ Restart
    \/ \E r \in Readers : ReadInsights(r) \/ DecideOnCommentary(r)
    \/ \E w \in Writers : \/ LoadRows(w) \/ HearCommentary(w) \/ KeepCommentary(w) \/ AskAgain(w)
                          \/ FailCommentary(w) \/ StoreCommentary(w)

\* The US advice has nothing in common with the rest but the restarts of the process.
AdviceNext == LoadUsPrices \/ RankUsTarget \/ Restart

InsightsNext == CommentaryNext \/ AdviceNext

\* The day is in flight only while a reader's task is at work on it, however tasks fail
\* or the process restarts: a key left behind would keep the commentary from ever being
\* made; and unless the mode was changed or the process restarted, the commentary of one
\* ranking is bought at most once, and once more for each answer paid for and lost,
\* however many look at the same time.
CommentaryIsLazy ==
    /\ inflight => \E r \in Readers : making[r].at # "idle"
    /\ ~moded /\ restarts = 0 => \A p \in DOMAIN paid : paid[p] <= 1 + HowOften(unkept, p)

\* The ranks of a day are distinct (a list of ten in order, api/quant.py:113).
RanksAreDistinct == \A s, t \in DOMAIN rows : s # t => rows[s].rank # rows[t].rank

\* A commentary is of the ranking it stands beside.
CommentIsOfRanking == \A s \in DOMAIN rows : rows[s].comment # Nothing => rows[s].comment.of = RanksOf

\* What counts as ready has a commentary on its first row.
ReadyIsCommented ==
    HasCommentary => \E s \in DOMAIN rows : rows[s].rank = 1 /\ rows[s].comment # Nothing

\* A ranking kept for a day is that of its prices ("if the day, the strategy and the number
\* are the same, so is the result", services/batch/us_advisory.py:35).
AdvisoryIsCurrent == advice.target \in {Nothing, advice.loaded}
=============================================================================

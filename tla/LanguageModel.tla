---------------------------- MODULE LanguageModel -----------------------------
(* Cached completions of the language model and the tokens they may use on a  *)
(* day (services/llm/cache.py, services/llm/client.py).  A request that the   *)
(* cache does not answer reserves an upper bound of its tokens in a log file, *)
(* under a lock, then calls the provider, then books what was used and takes  *)
(* the reservation back.  The log is only ever summed up by day, and that sum *)
(* is what the model keeps of it.                                             *)
EXTENDS Integers, FiniteSets, FiniteSetsExt

CONSTANTS
    Requests,   \* calls of complete_cached
    Prompt,     \* the prompt of a request
    Estimate,   \* _estimate_token_upper_bound of a prompt and its max_tokens
    Usages,     \* the tokens that the provider may bill for a prompt
    Budget,     \* LLM_DAILY_TOKEN_BUDGET
    Ttl,        \* how long an answer is kept, in half days
    LastHalf,   \* bound: the half days of a behaviour
    MaxLosses   \* bound: what is billed in a behaviour without an answer that tells so

Prompts == {Prompt[q] : q \in Requests}
DayOf(t) == t \div 2
LogDays == 0..DayOf(LastHalf)

ASSUME LanguageModelAssumption ==
    /\ IsFiniteSet(Requests)
    /\ \A p \in Prompts : Estimate[p] \in Nat \ {0} /\ Usages[p] \subseteq Nat
    /\ Budget \in Nat /\ Ttl \in Nat /\ LastHalf \in Nat /\ MaxLosses \in Nat

VARIABLES
    clock,
    call,      \* the requests: where they are, and what the log has of them
    booked,    \* tokens and reservations that the log has for a day
    kept,      \* table llm_cache: when the answer to a prompt expires, 0 for none
    losses,    \* what MaxLosses counts
    untold     \* history: tokens of a request that were billed and no answer told of

llmVars == <<clock, call, booked, kept, losses, untold>>
CurrentDay == DayOf(clock)

\* An answer, a refusal and an error all end a request.
Stages == {"waiting", "missed", "calling", "answered", "over"}
NeverDay == -1

LlmTypeOK ==
    /\ clock \in 0..LastHalf
    /\ call \in [Requests -> [stage : Stages, at : 0..LastHalf, reserved : LogDays \cup {NeverDay},
                              released : LogDays \cup {NeverDay}, used : Nat]]
    /\ booked \in [LogDays -> Int]
    /\ kept \in [Prompts -> 0..(LastHalf + Ttl)]
    /\ losses \in 0..MaxLosses /\ untold \in [Requests -> Nat]

LlmInit ==
    /\ clock = 0
    /\ call = [q \in Requests |-> [stage |-> "waiting", at |-> 0, reserved |-> NeverDay,
                                   released |-> NeverDay, used |-> 0]]
    /\ booked = [d \in LogDays |-> 0]
    /\ kept = [p \in Prompts |-> 0]
    /\ losses = 0 /\ untold = [q \in Requests |-> 0]

Reservation(q) == Estimate[Prompt[q]]
To(q, stage) == call' = [call EXCEPT ![q].stage = stage]

-----------------------------------------------------------------------------
\* complete_cached reads the clock once, then the row of the prompt.
ReadCache(q) ==
    /\ call[q].stage = "waiting"
    /\ call' = [call EXCEPT ![q].at = clock,
                            ![q].stage = IF kept[Prompt[q]] > clock THEN "over" ELSE "missed"]
    /\ UNCHANGED <<clock, booked, kept, losses, untold>>

\* Mutant of Affords: what the request itself may use is left out of the sum.
AffordsSoFar(q) == booked[CurrentDay] < Budget

Affords(q) == booked[CurrentDay] < Budget /\ booked[CurrentDay] + Reservation(q) <= Budget

\* _reserve_budget, under the lock of the log.
Reserve(q) ==
    /\ call[q].stage = "missed"
    /\ \/ /\ Affords(q)
          /\ booked' = [booked EXCEPT ![CurrentDay] = @ + Reservation(q)]
          /\ call' = [call EXCEPT ![q].stage = "calling", ![q].reserved = CurrentDay]
       \/ /\ ~Affords(q)
          /\ To(q, "over") /\ UNCHANGED booked
    /\ UNCHANGED <<clock, kept, losses, untold>>

\* The reservation goes back to the log, on the day it goes back.
Release(q, used) ==
    /\ call[q].stage = "calling"
    /\ booked' = [booked EXCEPT ![CurrentDay] = @ + used - Reservation(q)]

\* The call ends with nothing more under way, and books these tokens.
Ends(q, stage, told) ==
    /\ Release(q, told)
    /\ call' = [call EXCEPT ![q].stage = stage, ![q].released = CurrentDay, ![q].used = told]
    /\ UNCHANGED <<clock, kept>>

GoesUntold(q, used) ==
    /\ losses < MaxLosses /\ losses' = losses + 1
    /\ untold' = [untold EXCEPT ![q] = @ + used]

\* An attempt times out or its connection breaks after the provider has generated: it
\* is billed, and the SDK asks again or raises.
LoseAttempt(q) ==
    /\ call[q].stage = "calling"
    /\ \E used \in Usages[Prompt[q]] : GoesUntold(q, used)
    /\ UNCHANGED <<clock, call, booked, kept>>

\* The answer says what it used, or has no usage and is booked as none.
Complete(q) ==
    \E used \in Usages[Prompt[q]] :
        \/ Ends(q, "answered", used) /\ UNCHANGED <<losses, untold>>
        \/ Ends(q, "answered", 0) /\ GoesUntold(q, used)

\* The call raises: _release_reservation, whatever its attempts have been billed.
CompleteFails(q) == Ends(q, "over", 0) /\ UNCHANGED <<losses, untold>>

\* The task is cancelled, the answer has no choices, or the process ends: nothing
\* gives a reservation back, whatever the provider bills.  A restart interrupts
\* every request that is under way.
Interrupted(q) ==
    /\ call[q].stage \in {"missed", "calling", "answered"}
    /\ \E used \in Usages[Prompt[q]] \cup {0} :
        call' = [call EXCEPT ![q].stage = "over",
                             ![q].used = IF call[q].stage = "calling" THEN used ELSE @]
    /\ UNCHANGED <<clock, booked, kept, losses, untold>>

\* The answer is cached for Ttl from the time of the look-up, and returned.
KeepAnswer(q) ==
    /\ call[q].stage = "answered"
    /\ kept' \in {kept, [kept EXCEPT ![Prompt[q]] = call[q].at + Ttl]}    \* the write may fail
    /\ To(q, "over")
    /\ UNCHANGED <<clock, booked, losses, untold>>

HalfDay == clock < LastHalf /\ clock' = clock + 1 /\ UNCHANGED <<call, booked, kept, losses, untold>>

LlmNext ==
    \/ \E q \in Requests : \/ ReadCache(q) \/ Reserve(q) \/ LoseAttempt(q)
                           \/ Complete(q) \/ CompleteFails(q)
                           \/ Interrupted(q) \/ KeepAnswer(q)
    \/ HalfDay

LlmSpec == LlmInit /\ [][LlmNext]_llmVars

-----------------------------------------------------------------------------
ReservedOn(d) == {q \in Requests : call[q].reserved = d}

\* What the log has, or should have, of a request: what its answer told, and the
\* reservation while it is under way.
Use(q) == IF call[q].stage = "calling" THEN Reservation(q) ELSE call[q].used

Overrun(q) == Max({0, Use(q) - Reservation(q)})      \* what an answer used beyond its estimate
Spare(q) == Max({0, Reservation(q) - call[q].used})  \* what it left of it

\* What a request is billed for, and the part of it that no answer told of.
Untold(q) == untold[q]
Billed(q) == Use(q) + Untold(q)

\* What requests of earlier days gave back to the log of day d.
CarriedInto(d) == {q \in Requests : call[q].released = d /\ call[q].reserved # d}

\* The requests admitted on a day are billed for no more than the budget between
\* them, however they overlap, fail, are retried or cancelled, except for what was
\* reserved before midnight and released after it, for answers longer than their
\* estimate and for what no answer told of.
BudgetRespected ==
    \A d \in LogDays :
        MapThenSumSet(Billed, ReservedOn(d)) <=
            Budget + MapThenSumSet(Overrun, ReservedOn(d)) + MapThenSumSet(Untold, ReservedOn(d))
                   + MapThenSumSet(Spare, CarriedInto(d))

\* The plain cap of README.md:247, "하루 LLM 토큰 예산 상한".
DailyCap == \A d \in LogDays : MapThenSumSet(Billed, ReservedOn(d)) <= Budget
=============================================================================

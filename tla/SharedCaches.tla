----------------------------- MODULE SharedCaches -----------------------------
(* Values that coroutines of the backend share until they expire: the access  *)
(* token and the approval key of an account, in one file (services/kis/       *)
(* auth.py), the exchange rate (services/market_data/fx.py) and the board of  *)
(* current prices (services/kis/market_snapshot.py).  A caller that finds no  *)
(* good value waits for a lock and asks the network.  Every KISRestClient has *)
(* a token manager, and so a lock, of its own; the file they share.           *)
EXTENDS Naturals

CONSTANTS
    Callers,      \* coroutines
    Wants,        \* what a caller may want: a value and the lock it takes for it
    Lifetime,     \* how long a value is good, for a key without the safety buffer
    LastInstant   \* bound

Keys == {"token", "approval"}        \* both in the file of the account
ValueNames == Keys \cup {"rate", "board"}

ASSUME SharedCachesAssumption ==
    /\ \A want \in Wants : want.value \in ValueNames
    /\ Lifetime \in [ValueNames -> Nat] /\ LastInstant \in Nat

VARIABLES
    instant,
    caller,     \* a caller's place, what it wants, whether it fetches in any case, and
                \* since when it does
    expiry,     \* the stored values: when each expires, 0 without one
    obtained,   \* history: when the newest value of each name expires
    underLock   \* history: the same for the values fetched under each lock

cachesVars == <<instant, caller, expiry, obtained, underLock>>

NoWant == [value |-> "none", lock |-> "none"]
Absent == [n \in ValueNames |-> 0]
Away == [place |-> "away", want |-> NoWant, forced |-> FALSE, since |-> 0]

CachesTypeOK ==
    /\ instant \in 0..LastInstant
    /\ \A c \in Callers : /\ caller[c].place \in {"away", "queued", "fetching"}
                          /\ caller[c].want \in Wants \cup {NoWant}
                          /\ caller[c].forced \in BOOLEAN /\ caller[c].since \in 0..LastInstant
    /\ expiry \in [ValueNames -> Nat] /\ obtained \in [ValueNames -> Nat]
    /\ underLock \in [Wants -> Nat]

\* _is_valid, now - fetched_at < ttl, is_stale
Good(value) == instant < expiry[value]

Busy(lock) == \E c \in Callers : caller[c].place = "fetching" /\ caller[c].want.lock = lock

\* The rate and the board are looked at before the lock is taken.
WantValue(c, want) ==
    /\ caller[c].place = "away"
    /\ want.value \in {"rate", "board"} => ~Good(want.value)
    /\ caller' = [caller EXCEPT ![c] = [Away EXCEPT !.place = "queued", !.want = want]]
    /\ UNCHANGED <<instant, expiry, obtained, underLock>>

\* The job of the board refreshes it whether it is good or not.
RefreshBoard(c, want) ==
    /\ caller[c].place = "away" /\ want.value = "board"
    /\ caller' = [caller EXCEPT ![c] = [Away EXCEPT !.place = "queued", !.want = want, !.forced = TRUE]]
    /\ UNCHANGED <<instant, expiry, obtained, underLock>>

\* Mutant of FoundInside: what came while the caller waited goes unnoticed.
FoundNowhere(want) == FALSE

\* The keys and the rate are looked at under the lock, the board is not.
FoundInside(want) == want.value # "board" /\ Good(want.value)

EnterLock(c) ==
    /\ caller[c].place = "queued" /\ ~Busy(caller[c].want.lock)
    /\ caller' = [caller EXCEPT ![c] = IF FoundInside(@.want) THEN Away
                     ELSE [@ EXCEPT !.place = "fetching", !.since = instant]]
    /\ UNCHANGED <<instant, expiry, obtained, underLock>>

\* A board is as old as its request, a rate or a key as its answer.
ExpiryOf(c) ==
    LET value == caller[c].want.value
    IN (IF value = "board" THEN caller[c].since ELSE instant) + Lifetime[value]

\* _write_cache reads the file again, changes its key and replaces it, without
\* an await between; the other values are variables.
Saved(c) == [expiry EXCEPT ![caller[c].want.value] = ExpiryOf(c)]

ValueArrives(c) ==
    /\ caller[c].place = "fetching"
    /\ expiry' = Saved(c)
    /\ obtained' = [obtained EXCEPT ![caller[c].want.value] = ExpiryOf(c)]
    /\ underLock' = [underLock EXCEPT ![caller[c].want] = ExpiryOf(c)]
    /\ caller' = [caller EXCEPT ![c] = Away]
    /\ UNCHANGED instant

\* The network fails, or the caller is cancelled: nothing is stored.
FetchFails(c) ==
    /\ caller[c].place # "away"
    /\ caller' = [caller EXCEPT ![c] = Away]
    /\ UNCHANGED <<instant, expiry, obtained, underLock>>

InstantPasses ==
    /\ instant < LastInstant /\ instant' = instant + 1
    /\ UNCHANGED <<caller, expiry, obtained, underLock>>

CachesInit ==
    /\ instant = 0 /\ caller = [c \in Callers |-> Away]
    /\ expiry = Absent /\ obtained = Absent /\ underLock = [want \in Wants |-> 0]

CachesNext ==
    \/ \E c \in Callers :
          \/ \E want \in Wants : WantValue(c, want) \/ RefreshBoard(c, want)
          \/ EnterLock(c) \/ ValueArrives(c) \/ FetchFails(c)
    \/ InstantPasses

CachesSpec == CachesInit /\ [][CachesNext]_cachesVars
-----------------------------------------------------------------------------
\* No value that is good is fetched again by those who share a lock.
FetchedOnce(values) ==
    \A c \in Callers :
        caller[c].place = "fetching" /\ ~caller[c].forced /\ caller[c].want.value \in values =>
            underLock[caller[c].want] <= caller[c].since

\* A key or a rate is asked of the network only when the one fetched under the
\* same lock has expired, however many callers found it missing together; and
\* what was obtained stays stored until a newer one takes its place, whichever
\* clients of the account write the file of its keys in between.
SharedValuesHold == FetchedOnce(Keys \cup {"rate"}) /\ expiry = obtained

\* The board is refreshed "once when the cache is empty/stale"
\* (market_snapshot.py:130).
BoardRefreshedOnce == FetchedOnce({"board"})

\* "Concurrent refresh requests collapse to a single network call"
\* (test_kis_auth.py:8), for the account and not for one client of it.
KeyFetchedOnce ==
    \A c \in Callers : caller[c].place = "fetching" /\ caller[c].want.value \in Keys =>
        ~\E d \in Callers \ {c} : caller[d].place = "fetching" /\ caller[d].want.value = caller[c].want.value
=============================================================================

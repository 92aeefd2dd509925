----------------------------- MODULE UniverseFiles -----------------------------
(* The lists of an index's members (research/universe/kospi200.py,              *)
(* kosdaq150.py): a cascade of sources that each may fail, the cache it leaves  *)
(* by date, the file of codes that a refresh through the API rewrites, and what *)
(* the engine takes for the index.  A list is known by where it came from, the  *)
(* day whose members it holds and its length.                                   *)
EXTENDS Integers, FiniteSetsExt

CONSTANTS
    Lookups, LookupKind(_), LookupDay(_),    \* "refresh" or "load", and the day asked for
    Today,
    Answers,       \* lengths of the lists a source of the network may return; 0: it fails
    Stocks,        \* stocks the research database may hold for the market
    MaxStops       \* restarts in the middle of a lookup

MinListed == 50     \* MIN_DB_FALLBACK_CODES
MinRefresh == [KOSPI200 |-> 180, KOSDAQ150 |-> 130]
Limit == [KOSPI200 |-> 200, KOSDAQ150 |-> 150]
ListDays == 0..Today

ASSUME UniverseAssumption ==
    /\ Today \in Nat /\ MaxStops \in Nat
    /\ Answers \subseteq Nat /\ 0 \in Answers /\ Stocks \subseteq Nat
    /\ \A j \in Lookups : LookupKind(j) \in {"refresh", "load"} /\ LookupDay(j) \in ListDays

VARIABLES
    index,     \* which of the two
    file,      \* the file of codes
    cache,     \* lists by day, NoCodes where there is none
    lookup,    \* where a job is, and the list it found
    taken,     \* what the engine took last
    stops

universeVars == <<index, file, cache, lookup, taken, stops>>

Origins == {"official", "snapshot", "encyclopedia", "ranking", "database", "hand"}
NoCodes == [from |-> "none", of |-> Today, size |-> 0]
Lists == [from : Origins, of : ListDays, size : Nat \ {0}] \union {NoCodes}

Stages == {"official", "exact", "snapshot", "encyclopedia", "ranking", "latest", "hand",
           "database", "compare", "write", "done", "failed"}

UniverseTypeOK ==
    /\ index \in DOMAIN MinRefresh /\ file \in Lists /\ cache \in [ListDays -> Lists]
    /\ lookup \in [Lookups -> [at : Stages, found : Lists]]
    /\ taken \in Lists /\ stops \in 0..MaxStops

-----------------------------------------------------------------------------
(* resolve_kospi200 and resolve_kosdaq150.                                     *)

GoOn(j, stage) == lookup' = [lookup EXCEPT ![j].at = stage]

\* A list is found: kept in the cache when it came from the network.
Find(j, list, cached) ==
    /\ lookup' = [lookup EXCEPT ![j] = [at |-> IF LookupKind(j) = "refresh" THEN "compare" ELSE "done",
                                  found |-> list]]
    /\ cache' = IF cached THEN [cache EXCEPT ![LookupDay(j)] = list] ELSE cache
    /\ UNCHANGED <<index, file, taken, stops>>

Miss(j, stage) == GoOn(j, stage) /\ UNCHANGED <<index, file, cache, taken, stops>>

\* The exchange, asked for the members of the day; any list that is not empty will do.
AskOfficial(j) ==
    /\ lookup[j].at = "official"
    /\ \E n \in Answers :
          IF n > 0 THEN Find(j, [from |-> "official", of |-> LookupDay(j), size |-> n], TRUE)
                   ELSE Miss(j, IF LookupKind(j) = "load" THEN "exact" ELSE "snapshot")

\* prefer_cache
ReadExactCache(j) ==
    /\ lookup[j].at = "exact"
    /\ IF cache[LookupDay(j)] # NoCodes THEN Find(j, cache[LookupDay(j)], FALSE) ELSE Miss(j, "snapshot")

\* FinanceDataReader returns the members of now, whatever day was asked for.
AskSnapshot(j) ==
    /\ lookup[j].at = "snapshot"
    /\ \E n \in Answers :
          IF n > 0 THEN Find(j, [from |-> "snapshot", of |-> Today, size |-> n], TRUE)
                   ELSE Miss(j, IF index = "KOSPI200" THEN "encyclopedia" ELSE "ranking")

\* Wikipedia, for KOSPI200 alone.
AskEncyclopedia(j) ==
    /\ lookup[j].at = "encyclopedia"
    /\ \E n \in Answers :
          IF n >= MinListed THEN Find(j, [from |-> "encyclopedia", of |-> Today, size |-> n], TRUE)
                            ELSE Miss(j, "ranking")

\* The largest by the market cap of the day, else of the listing of now, else the
\* first of the ticker list.
AskRanking(j) ==
    /\ lookup[j].at = "ranking"
    /\ \E n \in Answers, day \in {LookupDay(j), Today} :
          IF n > 0 THEN Find(j, [from |-> "ranking", of |-> day, size |-> Min({n, Limit[index]})], TRUE)
                   ELSE Miss(j, "latest")

\* _read_latest_cache: the greatest day that has a list.
ReadLatestCache(j) ==
    LET stored == {d \in ListDays : cache[d] # NoCodes}
    IN /\ lookup[j].at = "latest"
       /\ IF stored # {} THEN Find(j, cache[Max(stored)], FALSE)
                         ELSE Miss(j, IF LookupKind(j) = "load" THEN "hand" ELSE "database")

\* include_manual_file
ReadCodesFile(j) ==
    /\ lookup[j].at = "hand"
    /\ IF file.size >= MinListed THEN Find(j, file, FALSE) ELSE Miss(j, "database")

\* Every stock of the market that was listed on the day; there is no upper bound.
ReadDatabase(j) ==
    /\ lookup[j].at = "database"
    /\ \E n \in Stocks :
          IF n >= MinListed THEN Find(j, [from |-> "database", of |-> LookupDay(j), size |-> n], FALSE)
                            ELSE Miss(j, IF LookupKind(j) = "load" THEN "done" ELSE "failed")
-----------------------------------------------------------------------------
(* refresh_kospi200_codes_file and refresh_kosdaq150_codes_file.               *)

\* Mutant of Enough: the length is not looked at.
EnoughAny(list) == TRUE

Enough(list) == list.size >= MinRefresh[index]

\* Too few codes are refused, a list like the file's own is left; otherwise the file
\* is opened for writing, which empties it.
CompareFile(j) ==
    /\ lookup[j].at = "compare"
    /\ IF ~Enough(lookup[j].found) THEN GoOn(j, "failed") /\ UNCHANGED file
       ELSE IF lookup[j].found = file THEN GoOn(j, "done") /\ UNCHANGED file
       ELSE GoOn(j, "write") /\ file' = NoCodes
    /\ UNCHANGED <<index, cache, taken, stops>>

\* _write_codes_file: the lines go out in one piece.
WriteCodes(j) ==
    /\ lookup[j].at = "write"
    /\ file' = lookup[j].found
    /\ GoOn(j, "done")
    /\ UNCHANGED <<index, cache, taken, stops>>

StopLookup(j) ==
    /\ stops < MaxStops /\ lookup[j].at \notin {"done", "failed"}
    /\ stops' = stops + 1
    /\ GoOn(j, "failed")
    /\ UNCHANGED <<index, file, cache, taken>>
-----------------------------------------------------------------------------
\* _index_membership_universe and the query behind it: the file's codes, or every
\* stock of the market.  The table index_memberships has no writer.
TakeUniverse ==
    /\ taken' \in (IF file.size > 0 THEN {file}
                   ELSE {[from |-> "database", of |-> Today, size |-> n] : n \in Stocks \ {0}})
    /\ UNCHANGED <<index, file, cache, lookup, stops>>

\* The file comes with the checkout, or has been lost.
UniverseInit ==
    /\ index \in DOMAIN MinRefresh
    /\ file \in {NoCodes, [from |-> "hand", of |-> 0, size |-> Limit[index]]}
    /\ cache = [d \in ListDays |-> NoCodes]
    /\ lookup = [j \in Lookups |-> [at |-> "official", found |-> NoCodes]]
    /\ taken = NoCodes /\ stops = 0

UniverseNext ==
    \/ \E j \in Lookups : \/ AskOfficial(j) \/ ReadExactCache(j) \/ AskSnapshot(j) \/ AskEncyclopedia(j)
                       \/ AskRanking(j) \/ ReadLatestCache(j) \/ ReadCodesFile(j) \/ ReadDatabase(j)
                       \/ CompareFile(j) \/ WriteCodes(j) \/ StopLookup(j)
    \/ TakeUniverse

\* Refreshes that race, fail or take a cached list, however poor, leave the file with
\* the members of an index or empty while one writes it; it stays empty only when one
\* is killed in between, or when it was from the start.
FileIsWhole ==
    /\ file = NoCodes \/ file.size >= MinRefresh[index]
    /\ file = NoCodes /\ stops = 0 =>
          \/ \E j \in Lookups : lookup[j].at = "write"
          \/ \A j \in Lookups : LookupKind(j) = "refresh" => lookup[j].at # "done"

\* What is returned for a day are the members of that day ("Return KOSPI200 constituent
\* stock codes as of a given date.", research/universe/kospi200.py).
MembersOfTheDay ==
    \A j \in Lookups : lookup[j].at = "done" /\ lookup[j].found # NoCodes => lookup[j].found.of = LookupDay(j)

\* The engine never takes more stocks for an index than the index has.
IndexIsTaken == taken = NoCodes \/ taken.size <= Limit[index]
=============================================================================

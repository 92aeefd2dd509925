------------------------------ MODULE TradeJournal ------------------------------
(* The journal of trades and the investor's principles (api/trade_journal.py,   *)
(* api/principles.py, services/llm/journal_analyzer.py): an entry for a trade    *)
(* names principles, principles come and go, and each change of an entry starts  *)
(* an analysis in the background.  Every request reads, waits and then commits.  *)
EXTENDS Integers, FiniteSets

CONSTANTS
    Trades, Writing,        \* trades, and the callers that write about them
    Given,                  \* principles there at first that may not be edited
    Added,                  \* principles that may be added, in the order of their ids
    MaxChanges, MaxCrashes

ASSUME JournalAssumption ==
    Given \intersect Added = {} /\ MaxChanges \in Nat /\ MaxCrashes \in Nat

VARIABLES
    entries,     \* trade_journal: by trade, its entry; the association rows with it
    principles,  \* the ids in the table
    spent,       \* ids given out so far
    write,       \* by caller, its request between reading and committing
    analysis,    \* by caller, the background task its last request started
    changes, crashes,
    overlapped   \* trades of which two analyses ran at a time

journalVars == <<entries, principles, spent, write, analysis, changes, crashes, overlapped>>

Principles == Given \union Added
NoWrite == [at |-> "idle", trade |-> 0, seen |-> {}, wanted |-> {}, gone |-> 0]
NoAnalysis == [at |-> "idle", trade |-> 0, version |-> 0]

JournalTypeOK ==
    /\ DOMAIN entries \subseteq Trades /\ principles \subseteq Principles /\ spent \subseteq Added
    /\ \A t \in DOMAIN entries :
          entries[t] \in [applied : SUBSET Principles, version : 1..MaxChanges,
                          analysed : 0..MaxChanges, found : BOOLEAN]
    /\ \A c \in Writing : /\ write[c].at \in {"idle", "create", "patch", "delete"}
                          /\ write[c].seen \subseteq Principles \union Trades
                          /\ analysis[c].at \in {"idle", "read", "ask"}
    /\ changes \in 0..MaxChanges /\ crashes \in 0..MaxCrashes /\ overlapped \subseteq Trades
-----------------------------------------------------------------------------
(* What a commit demands.                                                      *)

\* Mutant of KeysHold: PRAGMA foreign_keys is off.
KeysUnchecked(ids) == TRUE

\* The principles an association row names exist.
KeysHold(ids) == ids \subseteq principles

Done(c) == write' = [write EXCEPT ![c] = NoWrite]

Analysing(t) == \E c \in Writing : analysis[c].at # "idle" /\ analysis[c].trade = t

\* Mutant of StartsAnalysis: only a new entry is analysed.
StartsAnalysisOnce(t) == t \notin DOMAIN entries

\* background_tasks.add_task
StartsAnalysis(t) == TRUE

\* A commit that is accepted: a new version of the entry, and its analysis.
Accept(c, t, applied) ==
    /\ changes < MaxChanges /\ changes' = changes + 1
    /\ entries' = [u \in DOMAIN entries \union {t} |->
          IF u # t THEN entries[u]
          ELSE [applied |-> applied, version |-> changes + 1,
                analysed |-> IF t \in DOMAIN entries THEN entries[t].analysed ELSE 0,
                found    |-> t \in DOMAIN entries /\ entries[t].found]]
    /\ IF StartsAnalysis(t)
       THEN /\ analysis' = [analysis EXCEPT ![c] = [at |-> "read", trade |-> t, version |-> 0]]
            /\ overlapped' = IF Analysing(t) THEN overlapped \union {t} ELSE overlapped
       ELSE UNCHANGED <<analysis, overlapped>>
    /\ Done(c) /\ UNCHANGED <<principles, spent, crashes>>

Reject(c) ==
    Done(c) /\ UNCHANGED <<entries, principles, spent, analysis, changes, crashes, overlapped>>
-----------------------------------------------------------------------------
(* create_trade_journal_entry and patch_trade_journal_entry                    *)

Free(c) == write[c].at = "idle" /\ analysis[c].at = "idle"

BeginWrite(c, request) ==
    /\ Free(c) /\ write' = [write EXCEPT ![c] = request]
    /\ UNCHANGED <<entries, principles, spent, analysis, changes, crashes, overlapped>>

\* The trade and the principles are there, or the answer is 404.
BeginCreate(c, t, wanted) ==
    KeysHold(wanted) /\ BeginWrite(c, [NoWrite EXCEPT !.at = "create", !.trade = t, !.wanted = wanted])

CommitCreate(c) ==
    /\ write[c].at = "create"
    /\ IF write[c].trade \notin DOMAIN entries /\ KeysHold(write[c].wanted)
       THEN Accept(c, write[c].trade, write[c].wanted)
       ELSE Reject(c)

\* The entry is read with its principles, which a patch of the text leaves as they are.
BeginPatch(c, t, wanted) ==
    /\ t \in DOMAIN entries /\ KeysHold(wanted)
    /\ BeginWrite(c, [NoWrite EXCEPT !.at = "patch", !.trade = t, !.seen = entries[t].applied, !.wanted = wanted])

\* Association rows are removed and added against those read: one that is missing, there
\* already or of no principle fails the whole commit.
CommitPatch(c) ==
    LET t == write[c].trade
        removed == write[c].seen \ write[c].wanted
        added   == write[c].wanted \ write[c].seen
    IN /\ write[c].at = "patch"
       /\ IF /\ removed \subseteq entries[t].applied
             /\ added \intersect entries[t].applied = {} /\ KeysHold(added)
          THEN Accept(c, t, (entries[t].applied \ removed) \union added)
          ELSE Reject(c)
-----------------------------------------------------------------------------
(* create_principle and delete_principle                                       *)

CreatePrinciple ==
    \E p \in Added \ spent :
       /\ \A q \in Added \ spent : p <= q
       /\ principles' = principles \union {p} /\ spent' = spent \union {p}
       /\ UNCHANGED <<entries, write, analysis, changes, crashes, overlapped>>

Naming(p) == {t \in DOMAIN entries : p \in entries[t].applied}

\* The session finds the entries that name the principle, to remove their rows with it.
BeginDelete(c, p) ==
    /\ p \in principles \ Given
    /\ BeginWrite(c, [NoWrite EXCEPT !.at = "delete", !.seen = Naming(p), !.gone = p])

\* 409 when an entry not found before names it, an error when a row found is gone.
CommitDelete(c) ==
    LET p == write[c].gone
    IN /\ write[c].at = "delete"
       /\ IF p \in principles /\ write[c].seen = Naming(p)
          THEN /\ principles' = principles \ {p}
               /\ entries' = [t \in DOMAIN entries |-> IF t \in write[c].seen
                                THEN [entries[t] EXCEPT !.applied = @ \ {p}] ELSE entries[t]]
               /\ Done(c) /\ UNCHANGED <<spent, analysis, changes, crashes, overlapped>>
          ELSE Reject(c)
-----------------------------------------------------------------------------
(* analyze_trade_journal_entry                                                 *)

ReadEntry(c) ==
    /\ analysis[c].at = "read"
    /\ analysis' = [analysis EXCEPT ![c].at = "ask", ![c].version = entries[analysis[c].trade].version]
    /\ UNCHANGED <<entries, principles, spent, write, changes, crashes, overlapped>>

\* What the model says, or that it is unavailable, is stored.
StoreAnalysis(c) ==
    /\ analysis[c].at = "ask"
    /\ \E found \in BOOLEAN :
          entries' = [entries EXCEPT ![analysis[c].trade].analysed = analysis[c].version,
                                     ![analysis[c].trade].found = found]
    /\ analysis' = [analysis EXCEPT ![c] = NoAnalysis]
    /\ UNCHANGED <<principles, spent, write, changes, crashes, overlapped>>

\* A restart loses requests and analyses.
RestartJournal ==
    /\ crashes < MaxCrashes /\ crashes' = crashes + 1
    /\ write' = [c \in Writing |-> NoWrite] /\ analysis' = [c \in Writing |-> NoAnalysis]
    /\ UNCHANGED <<entries, principles, spent, changes, overlapped>>
-----------------------------------------------------------------------------
JournalInit ==
    /\ entries = <<>> /\ principles = Given /\ spent = {}
    /\ write = [c \in Writing |-> NoWrite] /\ analysis = [c \in Writing |-> NoAnalysis]
    /\ changes = 0 /\ crashes = 0 /\ overlapped = {}

JournalNext ==
    \/ CreatePrinciple \/ RestartJournal
    \/ \E c \in Writing :
          \/ \E t \in Trades, wanted \in SUBSET Principles : BeginCreate(c, t, wanted) \/ BeginPatch(c, t, wanted)
          \/ \E p \in Added : BeginDelete(c, p)
          \/ CommitCreate(c) \/ CommitPatch(c) \/ CommitDelete(c)
          \/ ReadEntry(c) \/ StoreAnalysis(c)

\* However requests and analyses interleave: no entry names a principle that is gone, and
\* when the analyses of an entry are through, none was lost and no two ran at a time, the
\* one stored is of the entry as it stands.
JournalIsSound ==
    \A t \in DOMAIN entries :
       /\ entries[t].applied \subseteq principles
       /\ ~Analysing(t) /\ crashes = 0 /\ t \notin overlapped => entries[t].analysed = entries[t].version

\* The analysis stored is of the entry as it stands once none is running.
AnalysisIsLatest ==
    \A t \in DOMAIN entries : ~Analysing(t) /\ crashes = 0 => entries[t].analysed = entries[t].version

\* A principle an entry names is not deleted ("Principle is referenced by a trade journal
\* entry", api/principles.py:137).
NamedIsKept == [][\A t \in DOMAIN entries : entries[t].applied \ principles' = {}]_journalVars

\* What the model found is not replaced by the note that it was unavailable.
FoundIsKept == [][\A t \in DOMAIN entries :
                     entries[t].found /\ entries[t].analysed = entries[t].version
                     => entries'[t].found]_journalVars
=============================================================================

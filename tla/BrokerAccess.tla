----------------------------- MODULE BrokerAccess ------------------------------
(* Under which credentials the brokers are called: those saved through the      *)
(* settings API (api/settings.py) and those of the environment, the clients     *)
(* that take the one or the other (toss/rest_client.py, kis/rest_client.py,     *)
(* kis/auth.py) and the token files that all of them share.                     *)
EXTENDS Integers

CONSTANTS
    Keys,          \* sets of credentials
    EnvKeys,       \* those of the environment, by broker, or NoKeys
    Operations,    \* kinds of calls that are made
    Lifetime,      \* of a token, in instants that are longer than a call
    LastInstant, MaxEdits, Users, NoKeys

Brokers == {"TOSS", "KIS"}
\* An order or a look at the account at Toss; the order sync, the name sync and the
\* US advice; every call to KIS; the test of the KIS credentials in the settings.
CallKinds == {"order", "sync", "trade", "test"}

ASSUME AccessAssumption ==
    /\ NoKeys \notin Keys /\ EnvKeys \in [Brokers -> Keys \union {NoKeys}]
    /\ Operations \subseteq CallKinds
    /\ Lifetime \in Nat \ {0} /\ LastInstant \in Nat /\ MaxEdits \in Nat

VARIABLES
    now,
    saved,     \* credentials in the database: toss_client_id, accounts.app_key
    seq,       \* toss_account_seq: "unset", "blank", "number" or "word"
    token,     \* the file of a broker's token: whose it is and when it expires
    call,      \* the call of a user
    edits,
    since      \* history: when the Toss credentials were last saved

accessVars == <<now, saved, seq, token, call, edits, since>>

NoToken == [of |-> NoKeys, until |-> 0]
Tokens == [of : Keys, until : 0..LastInstant + Lifetime] \union {NoToken}
AtEase == [at |-> "idle", kind |-> "trade", keys |-> NoKeys, token |-> NoToken]

AccessTypeOK ==
    /\ now \in 0..LastInstant /\ since \in 0..LastInstant /\ edits \in 0..MaxEdits
    /\ saved \in [Brokers -> Keys \union {NoKeys}]
    /\ seq \in {"unset", "blank", "number", "word"}
    /\ token \in [Brokers -> Tokens]
    /\ call \in [Users -> [at : {"idle", "token", "issue", "keep", "send", "answered", "failed"},
                           kind : CallKinds, keys : Keys \union {NoKeys}, token : Tokens]]
-----------------------------------------------------------------------------
(* The settings.                                                               *)

Edit == edits < MaxEdits /\ edits' = edits + 1

\* POST /api/settings/toss; a field left out is stored as a blank.
UpdateTossSettings(keys, number) ==
    /\ Edit
    /\ saved' = [saved EXCEPT !["TOSS"] = keys]
    /\ seq' = IF number THEN "number" ELSE "blank"
    /\ since' = now
    /\ UNCHANGED <<now, token, call>>

\* PATCH /api/settings stores what it is given; only sleeve_etf_weight is checked.
PatchSettings(value) ==
    /\ Edit
    /\ seq' = value
    /\ UNCHANGED <<now, saved, token, call, since>>

\* POST /api/settings/accounts/...
UpdateAccount(keys) ==
    /\ Edit
    /\ saved' = [saved EXCEPT !["KIS"] = keys]
    /\ UNCHANGED <<now, seq, token, call, since>>
-----------------------------------------------------------------------------
(* A call.                                                                     *)

BrokerOf(kind) == IF kind \in {"order", "sync"} THEN "TOSS" ELSE "KIS"

\* from_settings_map and _account_config put the saved before the environment's;
\* TossRestClient() and KISRestClient() know the environment's alone.
KeysOf(kind) ==
    LET broker == BrokerOf(kind)
    IN IF kind \in {"order", "test"} /\ saved[broker] # NoKeys THEN saved[broker] ELSE EnvKeys[broker]

\* A client is made; a toss_account_seq that is no number raises there.
BeginCall(u, kind) ==
    /\ call[u].at \in {"idle", "answered", "failed"}
    /\ KeysOf(kind) # NoKeys
    /\ call' = [call EXCEPT ![u] = [at |-> IF kind = "order" /\ seq = "word" THEN "failed" ELSE "token",
                                    kind |-> kind, keys |-> KeysOf(kind), token |-> NoToken]]
    /\ UNCHANGED <<now, saved, seq, token, edits, since>>

\* Mutant of Valid: a token does not expire.
ValidForever(t) == t # NoToken

Valid(t) == t # NoToken /\ now < t.until

\* _access_token: the file does not say whose token it holds.
TakeToken(u) ==
    LET kept == token[BrokerOf(call[u].kind)]
    IN /\ call[u].at = "token"
       /\ call' = [call EXCEPT ![u].at = IF Valid(kept) THEN "send" ELSE "issue",
                               ![u].token = IF Valid(kept) THEN kept ELSE NoToken]
       /\ UNCHANGED <<now, saved, seq, token, edits, since>>

\* _refresh_token and _refresh_access_token_locked: the broker issues a token ...
IssueToken(u) ==
    /\ call[u].at = "issue"
    /\ \/ call' = [call EXCEPT ![u].at = "keep",
                               ![u].token = [of |-> call[u].keys, until |-> now + Lifetime]]
       \/ call' = [call EXCEPT ![u].at = "failed"]
    /\ UNCHANGED <<now, saved, seq, token, edits, since>>

\* ... that is written over whatever the file holds by now.
KeepToken(u) ==
    /\ call[u].at = "keep"
    /\ token' = [token EXCEPT ![BrokerOf(call[u].kind)] = call[u].token]
    /\ call' = [call EXCEPT ![u].at = "send"]
    /\ UNCHANGED <<now, saved, seq, edits, since>>

\* _request: answered, or refused, timed out or garbled, which raises.  KIS is also
\* shown the keys and refuses a token that is not theirs; a 401 does not drop a token.
Send(u) ==
    /\ call[u].at = "send"
    /\ \/ /\ BrokerOf(call[u].kind) = "TOSS" \/ call[u].token.of = call[u].keys
          /\ call' = [call EXCEPT ![u].at = "answered"]
       \/ call' = [call EXCEPT ![u].at = "failed"]
    /\ UNCHANGED <<now, saved, seq, token, edits, since>>

\* No call lasts from one instant to the next.
NextInstant ==
    /\ now < LastInstant /\ \A u \in Users : call[u].at \in {"idle", "answered", "failed"}
    /\ now' = now + 1
    /\ call' = [u \in Users |-> AtEase]
    /\ UNCHANGED <<saved, seq, token, edits, since>>

AccessInit ==
    /\ now = 0 /\ since = 0 /\ edits = 0
    /\ saved = [b \in Brokers |-> NoKeys] /\ seq = "unset"
    /\ token = [b \in Brokers |-> NoToken]
    /\ call = [u \in Users |-> AtEase]

AccessNext ==
    \/ \E keys \in Keys : \/ \E number \in BOOLEAN : UpdateTossSettings(keys, number)
                          \/ UpdateAccount(keys)
    \/ \E value \in {"number", "word"} : PatchSettings(value)
    \/ \E u \in Users : \/ \E kind \in Operations : BeginCall(u, kind)
                        \/ TakeToken(u) \/ IssueToken(u) \/ KeepToken(u) \/ Send(u)
    \/ NextInstant

Foreign(u) == call[u].at = "answered" /\ call[u].token.of # call[u].keys

\* While the environment has no credentials for Toss, an order made with the saved ones
\* goes to the account of others for no longer than a token lives after the change.
ForeignTokenExpires ==
    EnvKeys["TOSS"] = NoKeys =>
        \A u \in Users : call[u].kind = "order" /\ Foreign(u) => now < since + Lifetime

\* A call is answered for the account whose credentials it was made with.
ServedAsAsked == \A u \in Users : ~Foreign(u)

\* A call to KIS never presents the token of credentials that were only being tested.
TradesUseTheirOwn ==
    \A u \in Users : call[u].kind = "trade" /\ call[u].at = "send" => call[u].token.of = call[u].keys

\* Whatever the settings API accepted, an account with credentials can be called.
SettingsAreUsable ==
    \A u \in Users : call[u].kind = "order" /\ call[u].at = "failed" => call[u].token # NoToken
=============================================================================

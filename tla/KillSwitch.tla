------------------------------ MODULE KillSwitch ------------------------------
(***************************************************************************)
(* The automation kill switch: a flag in the process that every live order *)
(* is checked against (backend/app/services/automation/safety.py), a row   *)
(* of the settings table that mirrors it (store.py), the endpoint that     *)
(* sets both (api/system.py) and the start-up that reads the row back      *)
(* (main.py).  AlertMonitor extends this module with one of the order      *)
(* paths the switch guards.                                                *)
(***************************************************************************)
EXTENDS Integers

CONSTANTS
    Requests,        \* calls of POST /api/automation/kill-switch
    Overlapping,     \* TRUE: a call may start before another is answered
    EnvSwitch,       \* settings.AUTOMATION_KILL_SWITCH
    Faults,          \* what may go wrong, a subset of FaultKinds
    MaxRestarts, MaxLocks       \* bounds

\* "restart": the process dies and comes back.  "restore": the start-up cannot
\* read the row.  "locked": a transaction finds the database locked for too long.
FaultKinds == {"restart", "restore", "locked"}

ASSUME SwitchAssumption ==
    /\ Overlapping \in BOOLEAN
    /\ EnvSwitch \in BOOLEAN
    /\ Faults \subseteq FaultKinds
    /\ MaxRestarts \in Nat /\ MaxLocks \in Nat

VARIABLES
    enabled,       \* _state.kill_switch_enabled, in memory
    stored,        \* the row automation.kill_switch: "absent", "true" or "false"
    call,          \* call[t]: where request t stands, what it asks and what it read
    newest,        \* history: the requests that started last
    armed,         \* history: the switch was turned on for good, see SwitchHolds
    restarts, locks

switchVars == <<enabled, stored, call, newest, armed, restarts, locks>>

Stored == {"absent", "true", "false"}
Shown(on) == IF on THEN "true" ELSE "false"
CallSteps == {"new", "read", "write", "answered", "failed"}

\* A request that is not under way remembers nothing.
Over(step) == [pc |-> step, on |-> FALSE, seen |-> "absent"]

SwitchTypeOK ==
    /\ enabled \in BOOLEAN /\ armed \in BOOLEAN
    /\ stored \in Stored
    /\ call \in [Requests -> [pc : CallSteps, on : BOOLEAN, seen : Stored]]
    /\ newest \subseteq Requests
    /\ restarts \in 0..MaxRestarts /\ locks \in 0..MaxLocks

SwitchInit ==
    /\ enabled = EnvSwitch /\ stored = "absent" /\ armed = FALSE
    /\ call = [t \in Requests |-> Over("new")]
    /\ newest = {}
    /\ restarts = 0 /\ locks = 0

InFlight(t) == call[t].pc \in {"read", "write"}

\* update_kill_switch: memory first, without giving way before store.py's first await.
SetSwitch(t, on) ==
    /\ call[t].pc = "new"
    /\ Overlapping \/ \A u \in Requests : ~InFlight(u)
    /\ enabled' = on
    /\ call' = [call EXCEPT ![t].pc = "read", ![t].on = on]
    /\ newest' = {t}
    /\ armed' = FALSE
    /\ UNCHANGED <<stored, restarts, locks>>

\* _upsert reads the row that it is about to write.
ReadStored(t) ==
    /\ call[t].pc = "read"
    /\ call' = [call EXCEPT ![t].pc = "write", ![t].seen = stored]
    /\ UNCHANGED <<enabled, stored, newest, armed, restarts, locks>>

\* A request that is answered arms the switch if it turned it on and is the last word.
Answer(t) ==
    /\ call' = [call EXCEPT ![t] = Over("answered")]
    /\ armed' = (armed \/ /\ call[t].on
                          /\ newest = {t}
                          /\ \A u \in Requests \ {t} : ~InFlight(u))

\* The flush writes only what differs from what was read; a second INSERT is refused.
WriteStored(t) ==
    /\ call[t].pc = "write"
    /\ call[t].seen = "absent" => stored = "absent"
    /\ stored' = IF call[t].seen = Shown(call[t].on) THEN stored ELSE Shown(call[t].on)
    /\ Answer(t)
    /\ UNCHANGED <<enabled, newest, restarts, locks>>

\* The caller gets a 500; what is in memory stays.
WriteFails(t) ==
    /\ call[t].pc = "write"
    /\ \/ /\ call[t].seen = "absent" /\ stored # "absent"
          /\ UNCHANGED locks
       \/ /\ "locked" \in Faults /\ locks < MaxLocks
          /\ locks' = locks + 1
    /\ call' = [call EXCEPT ![t] = Over("failed")]
    /\ UNCHANGED <<enabled, stored, newest, armed, restarts>>

\* Mutant of Restored: the start-up goes by .env alone.
RestoredFromEnv == EnvSwitch

\* _restore_kill_switch: the row, if it was ever written, overrides .env.
Restored == IF stored = "absent" THEN EnvSwitch ELSE stored = "true"

\* A restart kills the requests; a start-up that cannot read the row only logs it.
RestartSwitch ==
    /\ "restart" \in Faults /\ restarts < MaxRestarts
    /\ restarts' = restarts + 1
    /\ \/ enabled' = Restored /\ UNCHANGED armed
       \/ "restore" \in Faults /\ enabled' = EnvSwitch /\ armed' = FALSE
    /\ call' = [t \in Requests |-> IF InFlight(t) THEN Over("failed") ELSE call[t]]
    /\ UNCHANGED <<stored, newest, locks>>

CallStep(t) == ReadStored(t) \/ WriteStored(t) \/ WriteFails(t)

SwitchNext ==
    \/ \E t \in Requests : (\E on \in BOOLEAN : SetSwitch(t, on)) \/ CallStep(t)
    \/ RestartSwitch

SwitchSpec == SwitchInit /\ [][SwitchNext]_switchVars

-----------------------------------------------------------------------------
\* Once turning the switch on was answered, with no other request under way,
\* the switch stays on, across restarts, until somebody asks for something else
\* (store.py: the row exists so that the switch survives a backend restart).
SwitchHolds == armed => enabled
=============================================================================

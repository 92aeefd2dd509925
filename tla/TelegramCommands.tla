-------------------------- MODULE TelegramCommands ----------------------------
(* The approval track of Telegram (services/notify/telegram_commands.py): a   *)
(* loop asks for taps on the buttons under one message, the proposals of one  *)
(* batch, and acts on them.  Telegram keeps a tap until a later poll asks for *)
(* what comes after it; the loop keeps its offset in memory only.             *)
(*                                                                           *)
(* What approve_and_execute does is the subject of OrderApproval: here it     *)
(* decides a proposal that is still PROPOSED, as rejecting it does.  Taps of  *)
(* strangers and malformed ones have no effect and are left out.              *)
EXTENDS Integers, Sequences, FiniteSets, FiniteSetsExt

CONSTANTS
    Batch,      \* proposals of the message, numbered in the order of their ids
    MaxTaps,    \* bound: taps of the user
    MaxCrashes  \* bound: restarts of the server

ASSUME TelegramAssumption == Batch \subseteq Nat \ {0} /\ MaxTaps \in Nat /\ MaxCrashes \in Nat

All == 0    \* the target of a button for the whole batch
First == {"ap", "apall", "rjall"}
SecondTaps == {"cf:ap", "cf:apall", "cf:rjall"}
Button == [action : First \cup SecondTaps \cup {"rj", "back"}, target : Batch \cup {All}]

VARIABLES
    decided,    \* proposals that are no longer PROPOSED
    shown,      \* the buttons under the message
    taps,       \* callbacks sent to Telegram
    acked,      \* how many of them Telegram has dropped
    offset,     \* self._offset: the next callback asked for, 0 for whatever there is
    fetched,    \* the last callback of the poll that is being worked through
    current,    \* the callback being handled, 0 for none
    todo,       \* the proposals it has still to decide
    raised,     \* history: deciding callbacks whose handling ended in an exception
    crashes

telegramVars == <<decided, shown, taps, acked, offset, fetched, current, todo, raised, crashes>>

TelegramTypeOK ==
    /\ decided \subseteq Batch /\ todo \subseteq Batch /\ shown \subseteq Button
    /\ taps \in Seq(Button) /\ Len(taps) <= MaxTaps
    /\ acked \in 0..Len(taps) /\ offset \in 0..(Len(taps) + 1)
    /\ fetched \in 0..Len(taps) /\ current \in 0..Len(taps)
    /\ raised \subseteq DOMAIN taps /\ crashes \in 0..MaxCrashes

\* proposal_keyboard: the proposals that are still to be decided (the code shows ten of them).
KeyboardOf(open) ==
    IF open = {} THEN {}
    ELSE [action : {"ap", "rj"}, target : open] \cup [action : {"apall", "rjall"}, target : {All}]

\* confirm_markup: the second tap, or back to the keyboard.
ConfirmMarkup(b) ==
    {[action |-> CASE b.action = "ap" -> "cf:ap" [] b.action = "apall" -> "cf:apall"
                   [] b.action = "rjall" -> "cf:rjall", target |-> b.target],
     [action |-> "back", target |-> All]}

TelegramInit ==
    /\ decided = {} /\ shown = KeyboardOf(Batch)
    /\ taps = <<>> /\ acked = 0 /\ offset = 0 /\ fetched = 0
    /\ current = 0 /\ todo = {} /\ raised = {} /\ crashes = 0

-----------------------------------------------------------------------------
Tap ==
    /\ Len(taps) < MaxTaps
    /\ \E b \in shown : taps' = Append(taps, b)
    /\ UNCHANGED <<decided, shown, acked, offset, fetched, current, todo, raised, crashes>>

\* The proposal is approved, rejected or expired elsewhere.
DecideElsewhere ==
    /\ \E p \in Batch \ decided : decided' = decided \cup {p}
    /\ UNCHANGED <<shown, taps, acked, offset, fetched, current, todo, raised, crashes>>

NextUpdate == IF offset = 0 THEN acked + 1 ELSE offset
Pending == current = 0 /\ NextUpdate <= fetched

\* Mutant of MayPoll: updates are handled by a task of its own.
PollsAhead == TRUE

\* The loop polls when it is through with the updates it got.
MayPoll == current = 0 /\ ~Pending

\* getUpdates drops what is before the offset, whether or not its answer arrives.
Poll ==
    /\ MayPoll
    /\ acked' = Max({acked, offset - 1})
    /\ fetched' \in {fetched, Len(taps)}
    /\ UNCHANGED <<decided, shown, taps, offset, current, todo, raised, crashes>>

\* The offset moves on before the update is handled, not after it.
Take(i) == offset' = Max({offset, i + 1})

\* A first tap, or a step back, changes the keyboard and nothing else; Telegram may refuse.
Ask ==
    /\ Pending /\ Take(NextUpdate)
    /\ LET b == taps[NextUpdate] IN
        /\ b.action \in First \cup {"back"}
        /\ shown' \in {shown, IF b.action = "back" THEN KeyboardOf(Batch \ decided)
                              ELSE ConfirmMarkup(b)}
    /\ UNCHANGED <<decided, taps, acked, fetched, current, todo, raised, crashes>>

\* Whom a tap decides: its proposal, or what is left of the batch.
TargetsOf(b) == IF b.target = All THEN Batch ELSE {b.target}
Decides(b) == b.action \in SecondTaps \cup {"rj"}

Act ==
    /\ Pending /\ Take(NextUpdate)
    /\ Decides(taps[NextUpdate])
    /\ current' = NextUpdate
    /\ todo' = TargetsOf(taps[NextUpdate]) \ (IF taps[NextUpdate].target = All THEN decided ELSE {})
    /\ UNCHANGED <<decided, shown, taps, acked, fetched, raised, crashes>>

\* _bulk, _approve, _reject: one proposal after the other.
DecideNext ==
    /\ todo # {}
    /\ decided' = decided \cup {Min(todo)}
    /\ todo' = todo \ {Min(todo)}
    /\ UNCHANGED <<shown, taps, acked, offset, fetched, current, raised, crashes>>

\* An exception skips what is left; the loop logs it and goes on.
HandlingRaises ==
    /\ current # 0
    /\ raised' = raised \cup {current}
    /\ current' = 0 /\ todo' = {}
    /\ UNCHANGED <<decided, shown, taps, acked, offset, fetched, crashes>>

\* _finish: the keyboard of what is left, unless the message cannot be edited.
FinishHandling ==
    /\ current # 0 /\ todo = {}
    /\ shown' \in {shown, KeyboardOf(Batch \ decided)}
    /\ current' = 0
    /\ UNCHANGED <<decided, taps, acked, offset, fetched, todo, raised, crashes>>

RestartTelegram ==
    /\ crashes < MaxCrashes /\ crashes' = crashes + 1
    /\ offset' = 0 /\ fetched' = acked /\ current' = 0 /\ todo' = {}
    /\ UNCHANGED <<decided, shown, taps, acked, raised>>

TelegramNext ==
    \/ Tap \/ DecideElsewhere
    \/ Poll \/ Ask \/ Act \/ DecideNext \/ HandlingRaises \/ FinishHandling
    \/ RestartTelegram

TelegramSpec == TelegramInit /\ [][TelegramNext]_telegramVars

-----------------------------------------------------------------------------
\* A tap that decides is dropped by Telegram only when all its proposals are
\* decided, or its handling was seen to fail: a restart in the middle of a batch
\* loses none of the user's decisions.
DroppedIsDone ==
    \A i \in 1..acked :
        Decides(taps[i]) /\ i \notin raised => TargetsOf(taps[i]) \subseteq decided
=============================================================================

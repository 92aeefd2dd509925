------------------------------ MODULE PartsProofs ------------------------------
(***************************************************************************)
(* Proofs about parts of the back end that share no state (see MCParts):   *)
(* orders by hand, taps in Telegram, the shared caches, the ingestion of   *)
(* daily bars, the ratings, the budget of the language model and the       *)
(* proposals of an evening, each for any values of its constants; and what *)
(* holds of all the parts, with those of BooksProofs, in any of them.      *)
(***************************************************************************)
EXTENDS MCParts, BooksProofs

-----------------------------------------------------------------------------
(* Orders by hand.                                                         *)

Underway == {"looked up", "sent", "accepted"}

\* A submission that may become an order has not been told of a stored row with its
\* key: it looked the key up after that answer, and the row was there to be found.
ManualInv ==
    /\ at \in [Submissions -> {"new", "done"} \cup Underway]
    /\ reply \in [Submissions -> Replies] /\ told \in [Submissions -> SUBSET Submissions]
    /\ taken \subseteq Submissions
    /\ \A s \in Submissions :
        /\ at[s] = "new" => s \notin taken /\ reply[s] = "none"
        /\ reply[s] = "stored" => s \in records /\ at[s] = "done"
        /\ s \in taken \/ at[s] \in Underway => \A t \in told[s] : ~Same(s, t)

USE DEF Underway

LEMMA ManualStepInv ==
    ASSUME ManualInv, ManualNext
    PROVE  ManualInv'
<1>1. ASSUME NEW s \in Submissions, LookUp(s) PROVE ManualInv'
  <2>1. UNCHANGED <<form, taken, records>> /\ at[s] = "new"
        /\ told' = [told EXCEPT ![s] = {t \in Submissions : reply[t] = "stored"}]
    BY <1>1 DEF LookUp
  <2>2. CASE Found(s)
    <3>1. at' = [at EXCEPT ![s] = "done"] /\ reply' = [reply EXCEPT ![s] = "replayed"]
      BY <1>1, <2>2 DEF LookUp, Answer, Go
    <3> QED
      BY <2>1, <3>1 DEF ManualInv, Same, Replies
  <2>3. CASE ~Found(s)
    <3>1. at' = [at EXCEPT ![s] = "looked up"] /\ reply' = reply
      BY <1>1, <2>3 DEF LookUp, Go
    <3>2. \A t \in told'[s] : ~Same(s, t)'
      BY <2>1, <2>3 DEF ManualInv, Same, Found
    <3> QED
      BY <2>1, <3>1, <3>2 DEF ManualInv, Same
  <2> QED
    BY <2>2, <2>3
<1>2. ASSUME NEW s \in Submissions, Guard(s) PROVE ManualInv'
    BY <1>2 DEF Guard, Answer, Go, ManualInv, Same, Replies
<1>3. ASSUME NEW s \in Submissions, BrokerTakes(s) PROVE ManualInv'
    BY <1>3 DEF BrokerTakes, ManualInv, Same
<1>4. ASSUME NEW s \in Submissions, Accepted(s) PROVE ManualInv'
    BY <1>4 DEF Accepted, Go, ManualInv, Same
<1>5. ASSUME NEW s \in Submissions, OrderFails(s) PROVE ManualInv'
    BY <1>5 DEF OrderFails, Answer, Go, ManualInv, Same, Replies
<1>6. ASSUME NEW s \in Submissions, Persist(s) PROVE ManualInv'
  <2>1. at[s] = "accepted" /\ UNCHANGED <<form, taken, told>>
    BY <1>6 DEF Persist
  <2>2. PICK what \in {"stored", "unstored"} :
           /\ at' = [at EXCEPT ![s] = "done"] /\ reply' = [reply EXCEPT ![s] = what]
           /\ records \subseteq records' /\ (what = "stored" => s \in records')
    BY <1>6 DEF Persist, Answer, Go
  <2> QED
    BY <2>1, <2>2 DEF ManualInv, Same, Replies
<1>7. CASE RestartServer
    BY <1>7 DEF RestartServer, ManualInv, Same
<1>8. CASE Toggle
    BY <1>8 DEF Toggle, ManualInv, Same
<1> QED
    BY <1>1, <1>2, <1>3, <1>4, <1>5, <1>6, <1>7, <1>8 DEF ManualNext

LEMMA ManualInitInv == ManualInit => ManualInv
  BY DEF ManualInit, ManualInv, Replies

LEMMA ManualQuietInv == ManualInv /\ UNCHANGED manualVars => ManualInv'
  BY DEF ManualInv, manualVars, Same

LEMMA ManualInvHolds == ManualInv => NoRepeatOfStored
  BY DEF ManualInv, NoRepeatOfStored

-----------------------------------------------------------------------------
(* Taps in Telegram.                                                       *)

Settled(i) == Decides(taps[i]) /\ i \notin raised => TargetsOf(taps[i]) \subseteq decided

\* Every callback before the next one has been dealt with, the one being handled
\* excepted: what it has still to decide is in todo, and Telegram has not dropped it.
TelegramInv ==
    /\ taps \in Seq(Button) /\ shown \subseteq Button
    /\ acked \in 0..Len(taps) /\ offset \in 0..(Len(taps) + 1)
    /\ fetched \in 0..Len(taps) /\ current \in 0..Len(taps)
    /\ offset # 0 => offset > acked
    /\ current = 0 => todo = {}
    /\ current # 0 => /\ current = offset - 1 /\ current > acked
                      /\ Decides(taps[current])
                      /\ TargetsOf(taps[current]) \subseteq decided \cup todo
    /\ \A i \in 1..(NextUpdate - 1) : i # current => Settled(i)

LEMMA KeyboardIsButtons ==
    ASSUME NEW open, open \subseteq Batch
    PROVE  KeyboardOf(open) \subseteq Button
  BY DEF KeyboardOf, Button, First, SecondTaps

LEMMA ConfirmIsButtons ==
    ASSUME NEW b \in Button, b.action \in First
    PROVE  ConfirmMarkup(b) \subseteq Button
<1>1. b.target \in Batch \cup {All} /\ b.action \in {"ap", "apall", "rjall"}
    BY DEF Button, First
<1>2. CASE b.action = "ap"
    BY <1>1, <1>2 DEF ConfirmMarkup, Button, SecondTaps
<1>3. CASE b.action = "apall"
    BY <1>1, <1>3 DEF ConfirmMarkup, Button, SecondTaps
<1>4. CASE b.action = "rjall"
    BY <1>1, <1>4 DEF ConfirmMarkup, Button, SecondTaps
<1> QED
    BY <1>1, <1>2, <1>3, <1>4

LEMMA TelegramInitInv == TelegramInit => TelegramInv
<1>1. <<>> \in Seq(Button) /\ Len(<<>>) = 0
    BY EmptySeq
<1>2. shown = KeyboardOf(Batch) => shown \subseteq Button
    BY KeyboardIsButtons
<1> QED
    BY <1>1, <1>2 DEF TelegramInit, TelegramInv, NextUpdate

LEMMA TelegramQuietInv == TelegramInv /\ UNCHANGED telegramVars => TelegramInv'
  BY DEF TelegramInv, telegramVars, NextUpdate, Settled, Decides, TargetsOf

\* Where the offset goes, in numbers.
LEMMA TakeMovesOn ==
    ASSUME TelegramInv, Take(NextUpdate)
    PROVE  offset' = NextUpdate + 1 /\ NextUpdate \in Nat /\ NextUpdate > acked
<1>1. acked \in Nat /\ offset \in Nat /\ (offset # 0 => offset > acked)
    BY DEF TelegramInv
<1>2. NextUpdate \in Nat /\ NextUpdate > acked /\ offset <= NextUpdate
    BY <1>1 DEF NextUpdate
<1>3. Max({offset, NextUpdate + 1}) = NextUpdate + 1
    BY <1>1, <1>2, LargerOf, NextUpdate + 1 \in Int
<1> QED
    BY <1>2, <1>3 DEF Take

LEMMA TelegramStepInv ==
    ASSUME TelegramInv, TelegramNext
    PROVE  TelegramInv'
<1>1. CASE Tap
  <2>1. PICK b \in shown : taps' = Append(taps, b)
    BY <1>1 DEF Tap
  <2>2. b \in Button /\ taps \in Seq(Button)
    BY DEF TelegramInv
  <2>3. /\ taps' \in Seq(Button) /\ Len(taps') = Len(taps) + 1 /\ Len(taps) \in Nat
        /\ \A i \in 1..Len(taps) : taps'[i] = taps[i]
    BY <2>1, <2>2
  <2>4. UNCHANGED <<decided, shown, acked, offset, fetched, current, todo, raised, crashes>>
    BY <1>1 DEF Tap
  <2> QED
    BY <2>3, <2>4 DEF TelegramInv, NextUpdate, Settled, Decides, TargetsOf
<1>2. CASE DecideElsewhere
    BY <1>2 DEF DecideElsewhere, TelegramInv, NextUpdate, Settled, Decides, TargetsOf
<1>3. CASE Poll
  <2>1. acked \in Nat /\ offset \in Nat /\ Len(taps) \in Nat
    BY DEF TelegramInv
  <2>2. acked' = IF acked >= offset - 1 THEN acked ELSE offset - 1
    BY <1>3, <2>1, LargerOf DEF Poll
  <2>3. /\ UNCHANGED <<decided, shown, taps, offset, current, todo, raised, crashes>>
        /\ current = 0 /\ fetched' \in {fetched, Len(taps)}
    BY <1>3 DEF Poll, MayPoll
  <2> QED
    BY <2>1, <2>2, <2>3 DEF TelegramInv, NextUpdate, Settled, Decides, TargetsOf
<1>4. CASE Ask
  <2>1. /\ offset' = NextUpdate + 1 /\ NextUpdate \in Nat /\ NextUpdate > acked
        /\ UNCHANGED <<decided, taps, acked, fetched, current, todo, raised, crashes>>
        /\ current = 0 /\ NextUpdate <= fetched
    BY <1>4, TakeMovesOn DEF Ask, Pending
  <2>2. taps[NextUpdate].action \in First \cup {"back"}
    BY <1>4 DEF Ask
  <2>3. ~Decides(taps[NextUpdate])
    BY <2>2 DEF Decides, First, SecondTaps
  <2>4. shown' \subseteq Button
    <3>1. taps[NextUpdate] \in Button
      BY <2>1 DEF TelegramInv
    <3>2. shown' \in {shown, IF taps[NextUpdate].action = "back" THEN KeyboardOf(Batch \ decided)
                              ELSE ConfirmMarkup(taps[NextUpdate])}
      BY <1>4 DEF Ask
    <3>3. KeyboardOf(Batch \ decided) \subseteq Button
      BY KeyboardIsButtons, Batch \ decided \subseteq Batch
    <3>4. CASE taps[NextUpdate].action = "back"
      BY <3>2, <3>3, <3>4 DEF TelegramInv
    <3>5. CASE taps[NextUpdate].action # "back"
      BY <2>2, <3>1, <3>2, <3>5, ConfirmIsButtons DEF TelegramInv
    <3> QED
      BY <3>4, <3>5
  <2>5. NextUpdate' = NextUpdate + 1
    BY <2>1 DEF NextUpdate
  <2>6. ASSUME NEW i \in 1..NextUpdate PROVE Settled(i)'
    <3>1. Settled(i)
      <4>1. CASE i = NextUpdate
        BY <2>3, <4>1 DEF Settled
      <4>2. CASE i # NextUpdate
        BY <2>1, <4>2 DEF TelegramInv
      <4> QED
        BY <4>1, <4>2
    <3> QED
      BY <2>1, <3>1 DEF Settled, Decides, TargetsOf
  <2> QED
    BY <2>1, <2>4, <2>5, <2>6 DEF TelegramInv
<1>5. CASE Act
  <2>1. /\ offset' = NextUpdate + 1 /\ NextUpdate \in Nat /\ NextUpdate > acked
        /\ UNCHANGED <<decided, shown, taps, acked, fetched, raised, crashes>>
        /\ current = 0 /\ NextUpdate <= fetched /\ current' = NextUpdate
        /\ Decides(taps[NextUpdate])
    BY <1>5, TakeMovesOn DEF Act, Pending
  <2>2. NextUpdate' = NextUpdate + 1
    BY <2>1 DEF NextUpdate
  <2>3. TargetsOf(taps[NextUpdate]) \subseteq decided \cup todo'
    BY <1>5 DEF Act
  <2>4. ASSUME NEW i \in 1..NextUpdate, i # NextUpdate PROVE Settled(i)'
    <3>1. UNCHANGED <<taps, raised, decided>> /\ i \in 1..(NextUpdate - 1)
      BY <2>1, <2>4
    <3>2. Settled(i)
      BY <2>1, <2>4, <3>1 DEF TelegramInv
    <3> QED
      BY <3>1, <3>2 DEF Settled, Decides, TargetsOf
  <2>5. TargetsOf(taps'[current']) \subseteq decided' \cup todo' /\ Decides(taps'[current'])
    BY <2>1, <2>3
  <2>6. taps' = taps /\ current' \in 0..Len(taps') /\ offset' \in 0..(Len(taps') + 1)
    BY <2>1 DEF TelegramInv
  <2> QED
    BY <2>1, <2>2, <2>4, <2>5, <2>6 DEF TelegramInv, Decides, TargetsOf
<1>6. CASE DecideNext
  <2>1. /\ UNCHANGED <<shown, taps, acked, offset, fetched, current, raised, crashes>>
        /\ decided \subseteq decided' /\ decided \cup todo \subseteq decided' \cup todo'
        /\ todo # {}
    BY <1>6 DEF DecideNext
  <2> QED
    BY <2>1 DEF TelegramInv, NextUpdate, Settled, Decides, TargetsOf
<1>7. CASE HandlingRaises
    BY <1>7 DEF HandlingRaises, TelegramInv, NextUpdate, Settled, Decides, TargetsOf
<1>8. CASE FinishHandling
  <2>1. shown' \subseteq Button
    BY <1>8, KeyboardIsButtons, Batch \ decided \subseteq Batch DEF FinishHandling, TelegramInv
  <2> QED
    BY <1>8, <2>1 DEF FinishHandling, TelegramInv, NextUpdate, Settled, Decides, TargetsOf
<1>9. CASE RestartTelegram
    BY <1>9 DEF RestartTelegram, TelegramInv, NextUpdate, Settled, Decides, TargetsOf
<1> QED
    BY <1>1, <1>2, <1>3, <1>4, <1>5, <1>6, <1>7, <1>8, <1>9 DEF TelegramNext

LEMMA TelegramInvHolds == TelegramInv => DroppedIsDone
  BY DEF TelegramInv, DroppedIsDone, NextUpdate, Settled

-----------------------------------------------------------------------------
(* Shared caches.                                                          *)

Fetching(c) == caller[c].place = "fetching"

\* One caller fetches under a lock at a time; a key or a rate fetched under it was
\* never good for longer than the stored one is, which in turn is good for one
\* lifetime from now at most; and the fetch began when that one had expired.
CachesInv ==
    /\ instant \in Nat /\ expiry = obtained
    /\ expiry \in [ValueNames -> Nat] /\ underLock \in [Wants -> Nat]
    /\ caller \in [Callers -> [place : {"away", "queued", "fetching"}, want : Wants \cup {NoWant},
                                forced : BOOLEAN, since : Nat]]
    /\ \A c \in Callers : caller[c].place # "away" => caller[c].want \in Wants
    /\ \A c \in Callers : Fetching(c) => caller[c].since <= instant
    /\ \A c, d \in Callers : Fetching(c) /\ Fetching(d) /\ c # d
                                => caller[c].want.lock # caller[d].want.lock
    /\ \A n \in ValueNames : n # "board" => expiry[n] <= instant + Lifetime[n]
    /\ \A want \in Wants : want.value # "board" => underLock[want] <= expiry[want.value]
    /\ \A c \in Callers : Fetching(c) /\ caller[c].want.value # "board"
                            => underLock[caller[c].want] <= caller[c].since

LEMMA CachesInitInv == CachesInit => CachesInv
  BY SharedCachesAssumption DEF CachesInit, CachesInv, Fetching, Away, Absent

LEMMA CachesQuietInv == CachesInv /\ UNCHANGED cachesVars => CachesInv'
  BY DEF CachesInv, cachesVars, Fetching

\* A caller that does not fetch disturbs no other.
LEMMA CallerStep ==
    ASSUME CachesInv, NEW c \in Callers, NEW want \in Wants \cup {NoWant},
           NEW place \in {"away", "queued"}, NEW forced \in BOOLEAN,
           place # "away" => want \in Wants,
           caller' = [caller EXCEPT ![c] = [place |-> place, want |-> want,
                                           forced |-> forced, since |-> 0]],
           UNCHANGED <<instant, expiry, obtained, underLock>>
    PROVE  CachesInv'
  BY DEF CachesInv, Fetching

LEMMA CachesStepInv ==
    ASSUME CachesInv, CachesNext
    PROVE  CachesInv'
<1>1. ASSUME NEW c \in Callers, NEW want \in Wants, WantValue(c, want) \/ RefreshBoard(c, want)
      PROVE  CachesInv'
  <2>1. PICK forced \in BOOLEAN :
           /\ caller' = [caller EXCEPT ![c] = [place |-> "queued", want |-> want,
                                              forced |-> forced, since |-> 0]]
           /\ UNCHANGED <<instant, expiry, obtained, underLock>>
    BY <1>1 DEF WantValue, RefreshBoard, Away
  <2> QED
    BY <2>1, CallerStep
<1>2. ASSUME NEW c \in Callers, EnterLock(c) PROVE CachesInv'
  <2>1. CASE FoundInside(caller[c].want)
    BY <1>2, <2>1, CallerStep DEF EnterLock, Away
  <2>2. CASE ~FoundInside(caller[c].want)
    <3>1. /\ caller' = [caller EXCEPT ![c].place = "fetching", ![c].since = instant]
          /\ caller[c].want \in Wants /\ ~Busy(caller[c].want.lock)
          /\ UNCHANGED <<instant, expiry, obtained, underLock>>
      <4>1. caller' = [caller EXCEPT ![c] = [@ EXCEPT !.place = "fetching", !.since = instant]]
        BY <1>2, <2>2 DEF EnterLock
      <4> QED
        BY <1>2, <4>1 DEF EnterLock, CachesInv
    <3>2. caller[c].want.value # "board" => underLock[caller[c].want] <= instant
      <4> DEFINE want == caller[c].want
      <4>1. ASSUME want.value # "board" PROVE underLock[want] <= instant
        <5>1. want \in Wants /\ want.value \in ValueNames
          BY <3>1, SharedCachesAssumption
        <5>2. ~(instant < expiry[want.value])
          BY <2>2, <4>1 DEF FoundInside, Good
        <5>3. underLock[want] <= expiry[want.value] /\ underLock[want] \in Nat
              /\ expiry[want.value] \in Nat /\ instant \in Nat
          BY <4>1, <5>1 DEF CachesInv
        <5> QED
          BY <5>2, <5>3
      <4> QED
        BY <4>1
    <3>3. /\ caller' \in [Callers -> [place : {"away", "queued", "fetching"},
                                     want : Wants \cup {NoWant}, forced : BOOLEAN, since : Nat]]
          /\ \A d \in Callers : d # c => caller'[d] = caller[d]
          /\ caller'[c].want = caller[c].want /\ caller'[c].since = instant
      BY <3>1 DEF CachesInv
    <3>4. \A d \in Callers : Fetching(d) => caller[d].want.lock # caller[c].want.lock
      BY <3>1 DEF Fetching, Busy
    <3>5. \A d \in Callers : caller'[d].place # "away" => caller'[d].want \in Wants
      BY <3>1, <3>3 DEF CachesInv
    <3>6. \A d \in Callers : Fetching(d)' => caller'[d].since <= instant
      BY <3>1, <3>3 DEF CachesInv, Fetching
    <3>7. \A d, e \in Callers : Fetching(d)' /\ Fetching(e)' /\ d # e
                                => caller'[d].want.lock # caller'[e].want.lock
      BY <3>3, <3>4 DEF CachesInv, Fetching
    <3>8. \A d \in Callers : Fetching(d)' /\ caller'[d].want.value # "board"
                              => underLock[caller'[d].want] <= caller'[d].since
      BY <3>2, <3>3 DEF CachesInv, Fetching
    <3> QED
      BY <3>1, <3>3, <3>5, <3>6, <3>7, <3>8 DEF CachesInv, Fetching
  <2> QED
    BY <2>1, <2>2
<1>3. ASSUME NEW c \in Callers, ValueArrives(c) PROVE CachesInv'
  <2> DEFINE want == caller[c].want
             new == ExpiryOf(c)
  <2>1. want \in Wants /\ want.value \in ValueNames /\ Fetching(c)
    BY <1>3, SharedCachesAssumption DEF ValueArrives, CachesInv, Fetching
  <2>2. new \in Nat /\ (want.value # "board" => new = instant + Lifetime[want.value])
    BY <2>1, SharedCachesAssumption DEF ExpiryOf, CachesInv
  <2>3. /\ expiry' = [expiry EXCEPT ![want.value] = new] /\ obtained' = [obtained EXCEPT ![want.value] = new]
        /\ underLock' = [underLock EXCEPT ![want] = new] /\ instant' = instant
        /\ caller' = [caller EXCEPT ![c] = [place |-> "away", want |-> NoWant,
                                           forced |-> FALSE, since |-> 0]]
    BY <1>3 DEF ValueArrives, Saved, Away
  <2> HIDE DEF new
  <2>4. \A n \in ValueNames : n # "board" => expiry'[n] <= instant + Lifetime[n]
    <3> TAKE n \in ValueNames
    <3>1. CASE n = want.value
      BY <2>1, <2>2, <2>3, <3>1, SharedCachesAssumption DEF CachesInv
    <3>2. CASE n # want.value
      BY <2>3, <3>2 DEF CachesInv
    <3> QED
      BY <3>1, <3>2
  <2>5. \A w \in Wants : w.value # "board" => underLock'[w] <= expiry'[w.value]
    <3> TAKE w \in Wants
    <3>1. w.value \in ValueNames
      BY SharedCachesAssumption
    <3>2. CASE w.value = want.value /\ w.value # "board"
      <4>1. underLock[w] <= expiry[w.value] /\ expiry[w.value] <= new
        BY <2>2, <3>1, <3>2 DEF CachesInv
      <4>2. expiry'[w.value] = new /\ underLock'[w] \in {underLock[w], new}
        BY <2>1, <2>3, <3>1, <3>2 DEF CachesInv
      <4>3. underLock[w] \in Nat /\ expiry[w.value] \in Nat /\ new \in Nat
        BY <2>2, <3>1 DEF CachesInv
      <4> QED
        BY <4>1, <4>2, <4>3
    <3>3. CASE w.value # want.value /\ w.value # "board"
      <4>1. expiry'[w.value] = expiry[w.value] /\ underLock'[w] = underLock[w]
        BY <2>1, <2>3, <3>1, <3>3 DEF CachesInv
      <4> QED
        BY <3>3, <4>1 DEF CachesInv
    <3> QED
      BY <3>2, <3>3
  <2>6. ASSUME NEW d \in Callers, Fetching(d)'
        PROVE  d # c /\ caller'[d] = caller[d] /\ caller[d].want # want /\ Fetching(d)
    BY <2>1, <2>3, <2>6 DEF CachesInv, Fetching
  <2>7. \A d \in Callers : Fetching(d)' /\ caller'[d].want.value # "board"
                            => underLock'[caller'[d].want] <= caller'[d].since
    BY <2>1, <2>3, <2>6 DEF CachesInv, Fetching
  <2>8. expiry' \in [ValueNames -> Nat] /\ underLock' \in [Wants -> Nat] /\ expiry' = obtained'
    BY <2>1, <2>2, <2>3 DEF CachesInv
  <2> QED
    BY <2>3, <2>4, <2>5, <2>6, <2>7, <2>8 DEF CachesInv, Fetching
<1>4. ASSUME NEW c \in Callers, FetchFails(c) PROVE CachesInv'
  BY <1>4, CallerStep DEF FetchFails, Away
<1>5. CASE InstantPasses
  BY <1>5, SharedCachesAssumption DEF InstantPasses, CachesInv, Fetching
<1> QED
  BY <1>1, <1>2, <1>3, <1>4, <1>5 DEF CachesNext

LEMMA CachesInvHolds == CachesInv => SharedValuesHold
  BY DEF CachesInv, SharedValuesHold, FetchedOnce, Fetching, Keys

-----------------------------------------------------------------------------
(* Daily bars.                                                             *)

\* The resume date of a grouped table is made of all its series.
GroupedByAll == \A t \in Tables : t.grouped => t.scope = DOMAIN t.lag

Newest(s) == today - table.lag[s]

\* What a run asks for begins where every series that has a day reaches to.
Reaches(s, w) == DaysOf(s) # {} /\ w.from <= Newest(s) => \E d \in DaysOf(s) : w.from <= d

\* No day is missing between two that are stored, none is stored that the source does
\* not have, and what the runs under way ask for joins on to both ends.
SyncInv ==
    /\ table \in Tables /\ table.grouped /\ today \in 1..LastDay
    /\ DOMAIN bars = Series
    /\ window \in [Runs -> [from : Int, to : Int]]
    /\ \E s \in Series : DaysOf(s) # {}
    /\ \A s \in Series : \A d, e \in DaysOf(s) : d..e \subseteq DaysOf(s)
    /\ \A s \in Series : \A d \in DaysOf(s) : d = 1 \/ d <= Newest(s)
    /\ \A r \in Runs : window[r] # NoWindow =>
          window[r].to = today /\ \A s \in Series : Reaches(s, window[r])

\* Either the resume date of the table is not made of all its series, or SyncInv holds.
GroupedInv == SyncInv \/ (table \in Tables /\ ~table.grouped)

LEMMA DaysAre == ASSUME NEW s PROVE DaysOf(s) \subseteq 0..LastDay /\ DaysOf(s) \subseteq Nat \ {0}
  BY DataSyncAssumption DEF DaysOf

LEMMA SyncInitInv ==
    ASSUME SyncInit, GroupedByAll PROVE GroupedInv
<1>1. PICK listed \in SUBSET Series :
          /\ listed \cap table.scope # {}
          /\ bars = [s \in Series |-> [d \in 1..LastDay |->
                       IF s \in listed /\ d = 1 THEN "final" ELSE "none"]]
    BY DEF SyncInit
<1>2. table \in Tables /\ today = 1 /\ window = [r \in Runs |-> NoWindow]
    BY DEF SyncInit
<1>3. \A s \in Series : DaysOf(s) = IF s \in listed THEN {1} ELSE {}
    BY <1>1, DataSyncAssumption DEF DaysOf
<1>4. \E s \in Series : DaysOf(s) # {}
    BY <1>1, <1>3
<1>5. \A s \in Series : \A d, e \in DaysOf(s) : d..e \subseteq DaysOf(s)
    BY <1>3
<1> QED
    BY <1>1, <1>2, <1>3, <1>4, <1>5, DataSyncAssumption DEF GroupedInv, SyncInv, NoWindow

LEMMA SyncQuietInv == GroupedInv /\ UNCHANGED syncVars => GroupedInv'
  BY DEF GroupedInv, SyncInv, syncVars, Reaches, Newest, DaysOf, Series

\* The resume date is not after the newest day of any series that has one.
LEMMA ResumeReaches ==
    ASSUME SyncInv, GroupedByAll, NEW s \in Series, DaysOf(s) # {}
    PROVE  ResumeDay \in Int /\ \E d \in DaysOf(s) : ResumeDay <= d
<1>1. table.scope = Series /\ table.grouped /\ s \in Known
    BY DEF SyncInv, GroupedByAll, Known, Series
<1>2. \A k \in Known : Max(DaysOf(k)) \in DaysOf(k) /\ Max(DaysOf(k)) \in Nat
    BY DaysAre, GreatestIsMax, DataSyncAssumption DEF Known
<1>3. Min(LastDays) \in LastDays /\ Min(LastDays) <= Max(DaysOf(s))
  <2>1. LastDays \subseteq Nat /\ Max(DaysOf(s)) \in LastDays
    BY <1>1, <1>2 DEF LastDays
  <2> HIDE DEF LastDays
  <2> QED
    BY <2>1, LeastIsMin
<1>4. Min(LastDays) \in Nat
    BY <1>2, <1>3 DEF LastDays
<1> DEFINE m == Min(LastDays)
           x == Max(DaysOf(s))
<1>5. ResumeDay = Max({1, m - Overlap})
    BY <1>1 DEF ResumeDay
<1>6. m \in Nat /\ x \in DaysOf(s) /\ x \in Nat /\ x >= 1 /\ m <= x
  <2>1. x \in DaysOf(s) /\ x \in Nat \ {0}
    BY <1>1, <1>2, DaysAre
  <2> QED
    BY <1>3, <1>4, <2>1
<1> HIDE DEF m, x
<1>7. ResumeDay = IF 1 >= m - Overlap THEN 1 ELSE m - Overlap
    BY <1>5, <1>6, LargerOf, DataSyncAssumption, m - Overlap \in Int
<1> QED
    BY <1>6, <1>7, DataSyncAssumption

LEMMA SyncStepInv ==
    ASSUME GroupedInv, GroupedByAll, SyncNext
    PROVE  GroupedInv'
<1>0. table' = table
    BY DEF SyncNext, Begin, Load, RestartSync, MarketOpens, MarketCloses
<1>q. CASE ~SyncInv
    BY <1>0, <1>q DEF GroupedInv
<1> SUFFICES ASSUME SyncInv PROVE SyncInv'
    BY <1>q DEF GroupedInv
<1>1. ASSUME NEW r \in Runs, Begin(r) PROVE SyncInv'
  <2>1. /\ UNCHANGED <<table, bars, today>>
        /\ window' = [window EXCEPT ![r] = [from |-> ResumeDay, to |-> today]]
    BY <1>1 DEF Begin
  <2>2. ResumeDay \in Int /\ \A s \in Series : DaysOf(s) # {} => \E d \in DaysOf(s) : ResumeDay <= d
    BY ResumeReaches DEF SyncInv
  <2> DEFINE w == [from |-> ResumeDay, to |-> today]
  <2>3. \A s \in Series : Reaches(s, w)
    BY <2>2 DEF Reaches
  <2>4. window' \in [Runs -> [from : Int, to : Int]] /\ window'[r] = w
    BY <2>1, <2>2 DEF SyncInv
  <2>5. ASSUME NEW q \in Runs, window'[q] # NoWindow
        PROVE  window'[q].to = today /\ \A s \in Series : Reaches(s, window'[q])
    <3>1. CASE q = r
      BY <2>3, <2>4, <3>1
    <3>2. CASE q # r
      BY <2>1, <2>5, <3>2 DEF SyncInv
    <3> QED
      BY <3>1, <3>2
  <2> HIDE DEF w
  <2> QED
    BY <2>1, <2>4, <2>5 DEF SyncInv, Reaches, Newest, DaysOf, Series
<1>2. ASSUME NEW r \in Runs, NEW answered \in SUBSET Series, Load(r, answered) PROVE SyncInv'
  <2> DEFINE w == window[r]
             W(s) == IF s \in answered THEN {d \in 1..LastDay : w.from <= d /\ d <= Newest(s)} ELSE {}
  <2>1. /\ UNCHANGED <<table, today>> /\ window' = [window EXCEPT ![r] = NoWindow]
        /\ bars' = [s \in Series |-> IF s \in answered THEN Inserted(s, w) ELSE bars[s]]
        /\ w # NoWindow
    BY <1>2 DEF Load
  <2>2. w.from \in Int /\ w.to = today /\ \A s \in Series : Reaches(s, w)
    BY <2>1 DEF SyncInv
  <2>3. today \in Int /\ \A s \in Series : table.lag[s] \in {0, 1}
    BY DataSyncAssumption DEF SyncInv, Table, Series
  <2>4. ASSUME NEW s \in Series PROVE DaysOf(s)' = DaysOf(s) \cup W(s)
    <3>1. CASE s \in answered
      <4>1. bars'[s] = Inserted(s, w)
        BY <2>1, <3>1
      <4>2. ASSUME NEW d \in 1..LastDay
            PROVE  Inserted(s, w)[d] # "none" <=> (d \in W(s) \/ bars[s][d] # "none")
        <5>1. d \in Downloaded(s, w) <=> d \in W(s)
          BY <2>2, <2>3, <3>1 DEF Downloaded, Newest
        <5>2. Inserted(s, w)[d] = IF d \in W(s) /\ (table.upsert \/ bars[s][d] = "none")
                                  THEN Fetched(s, d) ELSE bars[s][d]
          BY <5>1 DEF Inserted
        <5>3. Fetched(s, d) # "none"
          BY DEF Fetched
        <5> QED
          BY <5>2, <5>3
      <4> QED
        BY <4>1, <4>2 DEF DaysOf
    <3>2. CASE s \notin answered
      BY <2>1, <3>2 DEF DaysOf
    <3> QED
      BY <3>1, <3>2
  <2>5. \A s \in Series : Newest(s)' = Newest(s)
    BY <2>1 DEF Newest
  <2>6. Series' = Series
    BY <2>1 DEF Series
  <2>7. ASSUME NEW s \in Series PROVE \A d, e \in DaysOf(s)' : d..e \subseteq DaysOf(s)'
    <3> DEFINE D == DaysOf(s)
               N == W(s)
               n == Newest(s)
    <3>1. n \in Int /\ D \subseteq Nat /\ D \subseteq 1..LastDay
      BY <2>3, DaysAre DEF Newest, DaysOf
    <3>2. \A d, e \in D : d..e \subseteq D
      BY DEF SyncInv
    <3>3. \A d \in D : d = 1 \/ d <= n
      BY DEF SyncInv
    <3>4. D # {} /\ w.from <= n => \E d \in D : w.from <= d
      BY <2>2 DEF Reaches
    <3>5. N = {} \/ N = {d \in 1..LastDay : w.from <= d /\ d <= n}
      OBVIOUS
    <3> HIDE DEF D, N, n
    <3>a. N \subseteq 1..LastDay
      BY <3>5
    <3>b. \A y \in D \cup N : y \in 1..LastDay
      BY <3>1, <3>a
    <3>c. \A y \in 1..LastDay : y \in Int /\ 1 <= y /\ y <= LastDay
      OBVIOUS
    <3>6. ASSUME NEW d \in D \cup N, NEW e \in D \cup N, NEW x \in d..e PROVE x \in D \cup N
      <4>0. x \in Int /\ x \in 1..LastDay /\ d <= x /\ x <= e
        <5>1. d \in Int /\ 1 <= d /\ e \in Int /\ e <= LastDay
          BY <3>b, <3>c
        <5>2. x \in Int /\ d <= x /\ x <= e
          BY <5>1
        <5> QED
          BY <5>1, <5>2, DataSyncAssumption
      <4>1. CASE d \in D /\ e \in D
        BY <3>2, <4>1
      <4>2. CASE d \in N /\ e \in N
        BY <2>2, <3>1, <3>5, <4>0, <4>2
      <4>3. CASE d \in D /\ e \in N
        <5>1. PICK b \in D : w.from <= b
          BY <2>2, <3>1, <3>4, <3>5, <4>3
        <5>2. CASE w.from <= x
          BY <2>2, <3>1, <3>5, <4>0, <4>3, <5>2
        <5>3. CASE x < w.from
          <6>1. x \in d..b
            BY <2>2, <3>1, <4>0, <5>1, <5>3
          <6> QED
            BY <3>2, <4>3, <5>1, <6>1
        <5> QED
          BY <2>2, <4>0, <5>2, <5>3
      <4>4. CASE d \in N /\ e \in D
        <5>1. CASE e = 1
          BY <3>1, <4>0, <4>4, <5>1
        <5>2. CASE e <= n
          BY <2>2, <3>1, <3>5, <4>0, <4>4, <5>2
        <5> QED
          BY <3>3, <4>4, <5>1, <5>2
      <4> QED
        BY <4>1, <4>2, <4>3, <4>4
    <3> QED
      BY <2>4, <3>6 DEF D, N
  <2>8. \A s \in Series : \A d \in DaysOf(s)' : d = 1 \/ d <= Newest(s)'
    BY <2>4, <2>5 DEF SyncInv
  <2>9. ASSUME NEW q \in Runs, window'[q] # NoWindow
        PROVE  window'[q].to = today /\ \A s \in Series : Reaches(s, window[q])'
    <3>1. window'[q] = window[q] /\ window[q] # NoWindow
      BY <2>1, <2>9 DEF SyncInv
    <3>2. window[q].to = today /\ window[q].from \in Int
      BY <3>1 DEF SyncInv
    <3>3. ASSUME NEW s \in Series, DaysOf(s)' # {}, window[q].from <= Newest(s)
          PROVE  \E d \in DaysOf(s)' : window[q].from <= d
      <4>1. CASE DaysOf(s) # {}
        <5>1. Reaches(s, window[q])
          BY <3>1 DEF SyncInv
        <5> QED
          BY <2>4, <3>3, <4>1, <5>1 DEF Reaches
      <4>2. CASE DaysOf(s) = {}
        <5>1. PICK d \in W(s) : TRUE
          BY <2>4, <3>3, <4>2
        <5>2. Newest(s) \in W(s)
          <6>1. /\ s \in answered /\ d \in Nat /\ 1 <= d /\ d <= Newest(s)
                /\ W(s) = {k \in 1..LastDay : w.from <= k /\ k <= Newest(s)}
            BY <5>1
          <6>2. Newest(s) \in Int /\ Newest(s) <= LastDay
            BY <2>3, DataSyncAssumption DEF Newest, SyncInv
          <6>3. w.from <= Newest(s)
            BY <2>2, <5>1, <6>1, <6>2
          <6> HIDE DEF W, w
          <6> QED
            BY <6>1, <6>2, <6>3, DataSyncAssumption
        <5> QED
          BY <2>4, <3>3, <5>2
      <4> QED
        BY <4>1, <4>2
    <3> QED
      BY <2>5, <3>1, <3>2, <3>3 DEF Reaches
  <2>10. \E s \in Series : DaysOf(s)' # {}
    BY <2>4 DEF SyncInv
  <2>11. window' \in [Runs -> [from : Int, to : Int]]
    BY <2>1 DEF SyncInv, NoWindow
  <2>12. /\ table' \in Tables /\ table'.grouped /\ today' \in 1..LastDay /\ today' = today
         /\ DOMAIN bars' = Series
    BY <2>1 DEF SyncInv
  <2> QED
    <3> HIDE DEF w, W
    <3> QED
      BY <2>6, <2>7, <2>8, <2>9, <2>10, <2>11, <2>12 DEF SyncInv
<1>3. CASE RestartSync
    BY <1>3 DEF RestartSync, SyncInv, NoWindow, Newest, DaysOf, Series
<1>4. CASE MarketOpens
  <2>1. /\ UNCHANGED <<table, bars, window>> /\ today' = today + 1 /\ today < LastDay
        /\ \A r \in Runs : window[r] = NoWindow
    BY <1>4 DEF MarketOpens
  <2>2. \A s \in Series : table.lag[s] \in {0, 1}
    BY DataSyncAssumption DEF SyncInv, Table, Series
  <2> QED
    BY <2>1, <2>2, DataSyncAssumption DEF SyncInv, Newest, DaysOf, Series
<1>5. CASE MarketCloses
    BY <1>5 DEF MarketCloses, SyncInv, Reaches, Newest, DaysOf, Series
<1> QED
    BY <1>1, <1>2, <1>3, <1>4, <1>5 DEF SyncNext

LEMMA SyncInvHolds == ASSUME GroupedInv PROVE NoHoles
<1> SUFFICES ASSUME SyncInv, NEW s \in Series, DaysOf(s) # {}
             PROVE  DaysOf(s) = Min(DaysOf(s))..Max(DaysOf(s))
    BY DEF NoHoles, Gapless, GroupedInv
<1> DEFINE D == DaysOf(s)
<1>1. D # {} /\ D \subseteq Nat /\ D \subseteq 0..LastDay
    BY DaysAre
<1>2. \A d, e \in D : d..e \subseteq D
    BY DEF SyncInv
<1> HIDE DEF D
<1>3. Min(D) \in D /\ \A d \in D : Min(D) <= d
    BY <1>1, LeastIsMin DEF D
<1>4. Max(D) \in D /\ \A d \in D : d <= Max(D)
    BY <1>1, GreatestIsMax, DataSyncAssumption DEF D
<1>5. D = Min(D)..Max(D)
  <2>1. Min(D)..Max(D) \subseteq D
    BY <1>2, <1>3, <1>4
  <2>2. ASSUME NEW d \in D PROVE d \in Min(D)..Max(D)
    <3>1. d \in Nat /\ Min(D) \in Nat /\ Max(D) \in Nat
      BY <1>1, <1>3, <1>4, <2>2, Zenon
    <3>2. Min(D) <= d /\ d <= Max(D)
      BY <1>3, <1>4, <2>2, Zenon
    <3> QED
      BY <3>1, <3>2
  <2> QED
    BY <2>1, <2>2
<1> QED
    BY <1>5 DEF D

-----------------------------------------------------------------------------
(* Ratings.                                                                *)

RowGrades == SellGrades \cup {NoRow}
Low(p) == {c \in HeldIn(p) : p[c].rate <= -StopLoss}

TellsOf == [known : BOOLEAN, rate : [Graded -> Int], held : SUBSET Graded,
            dipped : SUBSET Graded, evening : [Graded -> RowGrades]]

\* The grades that a lane has made agree with the positions it saw, and one it has
\* carried over from the old rows is accounted for by what the rows told.
Made(w) ==
    LET p == job.seen[w].at
        grade == job.seen[w].grade
    IN /\ p \in Portfolios /\ grade \in [Graded -> RowGrades]
       /\ \A c \in Graded :
            /\ grade[c] # NoRow <=> c \in HeldIn(p)
            /\ c \in Low(p) => grade[c] = "SELL_NOW"
            /\ grade[c] = "SELL_NOW" => \/ c \in Low(p)
                                        \/ job.lane # "EOD" /\ c \in tells[w].dipped

\* Between its two transactions a lane has deleted the rows of the accounts that
\* answered, and it holds the grades of all of them.
RatingsInv ==
    /\ portfolio \in [Wallets -> Portfolios]
    /\ tells \in [Wallets -> TellsOf] /\ sellRow \in [Wallets -> [Graded -> RowGrades]]
    /\ job = [stage |-> job.stage, lane |-> job.lane, reached |-> job.reached, seen |-> job.seen]
    /\ job.reached \subseteq Wallets /\ DOMAIN job.seen = Wallets
    /\ job.stage \in {"rest", "reached", "halfway", "graded", "cleared"}
    /\ job.stage \in {"reached", "halfway", "graded"} =>
          \A w \in job.reached : job.seen[w] \in Portfolios
    /\ job.stage = "cleared" => \A w \in job.reached : ~tells[w].known /\ Made(w)
    /\ RowsFollowTheAccount

LEMMA RatedForSaleAtOnce ==
    ASSUME NEW p \in Portfolios, NEW c \in Graded
    PROVE  /\ RatePosition(p, c) \in SellGrades
           /\ RatePosition(p, c) = "SELL_NOW" <=> p[c].rate <= -StopLoss
<1>1. \A n : PercentGrade(n) \in SellGrades \ {"SELL_NOW"}
    BY DEF PercentGrade, SellGrades
<1> QED
    BY <1>1 DEF RatePosition, SellGrades

LEMMA RatingsInitInv == RatingsInit => RatingsInv
  BY DEF RatingsInit, RatingsInv, Rested, Untells, TellsOf, RowGrades, RowsFollowTheAccount, NoRow, Made

LEMMA RatingsQuietInv == RatingsInv /\ UNCHANGED ratingsVars => RatingsInv'
  BY DEF RatingsInv, ratingsVars, RowsFollowTheAccount, Made

\* What a lane does to its job alone, before it has deleted rows.
LEMMA JobStep ==
    ASSUME RatingsInv, job' = [job EXCEPT !.stage = job'.stage],
           job.stage \in {"reached", "halfway"}, job'.stage \in {"halfway", "graded"},
           UNCHANGED <<portfolio, sellRow, tells>>
    PROVE  RatingsInv'
<1>1. /\ job' = [stage |-> job'.stage, lane |-> job'.lane, reached |-> job'.reached, seen |-> job'.seen]
      /\ UNCHANGED <<job.lane, job.reached, job.seen>>
    BY DEF RatingsInv
<1> QED
    BY <1>1 DEF RatingsInv, RowsFollowTheAccount

LEMMA RatingsStepInv ==
    ASSUME RatingsInv, RatingsNext
    PROVE  RatingsInv'
<1>1. ASSUME NEW lane \in {"EOD", "INTRADAY"}, FetchAccounts(lane) PROVE RatingsInv'
  <2>1. PICK reached \in SUBSET Wallets :
           job' = [stage |-> IF lane = "EOD" THEN "reached" ELSE "graded", lane |-> lane,
                   reached |-> reached,
                   seen |-> [w \in Wallets |-> IF w \in reached THEN portfolio[w] ELSE {}]]
    BY <1>1 DEF FetchAccounts
  <2>2. UNCHANGED <<portfolio, sellRow, tells>>
    BY <1>1 DEF FetchAccounts
  <2> QED
    BY <2>1, <2>2 DEF RatingsInv, RowsFollowTheAccount
<1>2. CASE GradeStocks
  <2>1. job' = [job EXCEPT !.stage = "halfway"] /\ job'.stage = "halfway"
    BY <1>2 DEF GradeStocks, RatingsInv
  <2> QED
    BY <1>2, <2>1, JobStep DEF GradeStocks
<1>3. CASE GradeFunds
  <2>1. job' = [job EXCEPT !.stage = "graded"] /\ job'.stage = "graded"
    BY <1>3 DEF GradeFunds, RatingsInv
  <2> QED
    BY <1>3, <2>1, JobStep DEF GradeFunds
<1>4. CASE ClearRows
  <2> DEFINE seen(w) == [at |-> job.seen[w], grade |-> Grade(job.lane, w)]
  <2>1. /\ job' = [job EXCEPT !.stage = "cleared",
                     !.seen = [w \in Wallets |-> IF w \in job.reached THEN seen(w) ELSE {}]]
        /\ job.stage = "graded" /\ UNCHANGED portfolio
        /\ sellRow' = [w \in Wallets |-> IF w \in job.reached THEN [c \in Graded |-> NoRow]
                                         ELSE sellRow[w]]
        /\ tells' = [w \in Wallets |-> IF w \in job.reached THEN [tells[w] EXCEPT !.known = FALSE]
                                       ELSE tells[w]]
    BY <1>4 DEF ClearRows, ClearedBy
  <2>2. /\ job' = [stage |-> "cleared", lane |-> job.lane, reached |-> job.reached, seen |-> job'.seen]
        /\ job'.seen = [w \in Wallets |-> IF w \in job.reached THEN seen(w) ELSE {}]
    BY <2>1 DEF RatingsInv
  <2>3. /\ sellRow' \in [Wallets -> [Graded -> RowGrades]]
        /\ tells' \in [Wallets -> TellsOf]
        /\ \A w \in Wallets : tells'[w].dipped = tells[w].dipped
        /\ \A w \in job.reached : ~tells'[w].known
    <3>1. sellRow' \in [Wallets -> [Graded -> RowGrades]]
      BY <2>1 DEF RatingsInv, RowGrades
    <3>2. ASSUME NEW t \in TellsOf
          PROVE  LET u == [t EXCEPT !.known = FALSE]
                 IN u \in TellsOf /\ u.dipped = t.dipped /\ u.known = FALSE
      BY DEF TellsOf
    <3>3. tells \in [Wallets -> TellsOf] /\ job.reached \subseteq Wallets
      BY DEF RatingsInv
    <3>4. ASSUME NEW w \in Wallets
          PROVE  /\ tells'[w] \in TellsOf /\ tells'[w].dipped = tells[w].dipped
                 /\ w \in job.reached => tells'[w].known = FALSE
      BY <2>1, <3>2, <3>3
    <3>5. tells' \in [Wallets -> TellsOf]
      BY <2>1, <3>4
    <3> QED
      BY <3>1, <3>3, <3>4, <3>5
  <2>4. ASSUME NEW w \in job.reached PROVE Made(w)'
    <3> DEFINE p == job.seen[w]
               grade == Grade(job.lane, w)
    <3>1. p \in Portfolios /\ w \in Wallets
      BY <2>1 DEF RatingsInv
    <3>2. job'.seen[w].at = p /\ job'.seen[w].grade = grade /\ job'.lane = job.lane
      BY <2>2, <3>1
    <3>3. grade = [c \in Graded |-> IF c \notin HeldIn(p) THEN NoRow
                                    ELSE IF job.lane = "EOD" THEN RatePosition(p, c)
                                    ELSE Regraded(p, c, sellRow[w][c])]
      BY DEF Grade
    <3> HIDE DEF p, grade
    <3>4. ASSUME NEW c \in HeldIn(p)
          PROVE  /\ grade[c] \in SellGrades
                 /\ c \in Low(p) => grade[c] = "SELL_NOW"
                 /\ grade[c] = "SELL_NOW" => c \in Low(p) \/ (job.lane # "EOD" /\ c \in tells[w].dipped)
      <4>1. c \in Graded
        BY DEF HeldIn
      <4>2. CASE job.lane = "EOD"
        <5>1. grade[c] = RatePosition(p, c)
          BY <3>3, <4>1, <4>2
        <5> QED
          BY <3>1, <4>1, <5>1, RatedForSaleAtOnce DEF Low
      <4>3. CASE job.lane # "EOD"
        <5>1. grade[c] = Regraded(p, c, sellRow[w][c])
          BY <3>3, <4>1, <4>3
        <5>2. sellRow[w][c] = "SELL_NOW" => c \in tells[w].dipped
          BY <3>1, <4>1 DEF RatingsInv, RowsFollowTheAccount, NoRow
        <5>3. sellRow[w][c] \in SellGrades \cup {NoRow}
          BY <3>1, <4>1 DEF RatingsInv, RowGrades
        <5> QED
          BY <4>3, <5>1, <5>2, <5>3 DEF Regraded, Low, SellGrades
      <4> QED
        BY <4>2, <4>3
    <3>5. \A c \in Graded : c \notin HeldIn(p) => grade[c] = NoRow
      BY <3>3
    <3>6. grade \in [Graded -> RowGrades]
      BY <3>3, <3>4, <3>5 DEF RowGrades
    <3>7. NoRow \notin SellGrades /\ NoRow # "SELL_NOW" /\ Low(p) \subseteq HeldIn(p)
      BY DEF NoRow, SellGrades, Low
    <3>8. tells'[w].dipped = tells[w].dipped
      BY <2>3, <3>1
    <3> QED
      BY <3>1, <3>2, <3>4, <3>5, <3>6, <3>7, <3>8 DEF Made
  <2>5. RowsFollowTheAccount'
    BY <2>1, <2>3 DEF RatingsInv, RowsFollowTheAccount
  <2>6. /\ portfolio' \in [Wallets -> Portfolios] /\ job'.reached = job.reached
        /\ job.reached \subseteq Wallets /\ DOMAIN job'.seen = Wallets /\ job'.stage = "cleared"
        /\ job' = [stage |-> job'.stage, lane |-> job'.lane, reached |-> job'.reached, seen |-> job'.seen]
    BY <2>1, <2>2 DEF RatingsInv
  <2> QED
    BY <2>3, <2>4, <2>5, <2>6 DEF RatingsInv
<1>5. CASE WriteRows
  <2>1. /\ job' = Rested /\ job.stage = "cleared" /\ UNCHANGED portfolio
        /\ sellRow' = [w \in Wallets |-> IF w \in job.reached THEN job.seen[w].grade ELSE sellRow[w]]
        /\ tells' = [w \in Wallets |-> IF w \in job.reached THEN Telling(w) ELSE tells[w]]
    BY <1>5 DEF WriteRows
  <2>2. ASSUME NEW w \in job.reached
        PROVE  LET t == Telling(w)
                   row == job.seen[w].grade
               IN /\ t \in TellsOf /\ t.known /\ row \in [Graded -> RowGrades]
                  /\ \A c \in Graded :
                       /\ row[c] # NoRow <=> c \in t.held
                       /\ c \in t.held /\ t.rate[c] <= -StopLoss => row[c] = "SELL_NOW"
                       /\ row[c] = "SELL_NOW" => c \in t.dipped
    <3> DEFINE p == job.seen[w].at
               row == job.seen[w].grade
               t == Telling(w)
    <3>1. /\ p \in Portfolios /\ row \in [Graded -> RowGrades] /\ tells[w] \in TellsOf
          /\ \A c \in Graded :
               /\ row[c] # NoRow <=> c \in HeldIn(p)
               /\ c \in Low(p) => row[c] = "SELL_NOW"
               /\ row[c] = "SELL_NOW" => \/ c \in Low(p)
                                         \/ job.lane # "EOD" /\ c \in tells[w].dipped
      BY <2>1 DEF RatingsInv, Made
    <3>2. /\ t.known = TRUE /\ t.rate = [c \in Graded |-> p[c].rate] /\ t.held = HeldIn(p)
          /\ t.dipped = IF job.lane = "EOD" THEN Low(p) ELSE Low(p) \cup (tells[w].dipped \cap HeldIn(p))
          /\ t.evening = IF job.lane = "EOD" THEN row
                         ELSE [c \in Graded |-> IF c \in HeldIn(p) THEN tells[w].evening[c] ELSE NoRow]
          /\ t = [known |-> t.known, rate |-> t.rate, held |-> t.held, dipped |-> t.dipped,
                  evening |-> t.evening]
      BY DEF Telling, Low
    <3> HIDE DEF p, row, t
    <3>3. HeldIn(p) \subseteq Graded /\ Low(p) \subseteq HeldIn(p)
          /\ Low(p) = {c \in HeldIn(p) : p[c].rate <= -StopLoss}
      BY DEF HeldIn, Low
    <3>4. t.rate \in [Graded -> Int]
      BY <3>1, <3>2, RatingsAssumption
    <3>5. t.evening \in [Graded -> RowGrades]
      BY <3>1, <3>2 DEF TellsOf, RowGrades
    <3>6. t \in TellsOf
      <4>1. t.held \subseteq Graded /\ t.dipped \subseteq Graded /\ t.known \in BOOLEAN
        BY <3>2, <3>3
      <4> QED
        BY <3>2, <3>4, <3>5, <4>1 DEF TellsOf
    <3>7. NoRow # "SELL_NOW"
      BY DEF NoRow
    <3>8. \A c \in Graded :
               /\ row[c] # NoRow <=> c \in t.held
               /\ c \in t.held /\ t.rate[c] <= -StopLoss => row[c] = "SELL_NOW"
               /\ row[c] = "SELL_NOW" => c \in t.dipped
      BY <3>1, <3>2, <3>3, <3>7
    <3> QED
      BY <3>1, <3>2, <3>6, <3>8 DEF p, row, t
  <2>3. sellRow' \in [Wallets -> [Graded -> RowGrades]] /\ tells' \in [Wallets -> TellsOf]
    BY <2>1, <2>2 DEF RatingsInv
  <2>4. RowsFollowTheAccount'
    <3> SUFFICES ASSUME NEW w \in Wallets
                 PROVE  IF tells'[w].known
                        THEN \A c \in Graded :
                               /\ sellRow'[w][c] # NoRow <=> c \in tells'[w].held
                               /\ c \in tells'[w].held /\ tells'[w].rate[c] <= -StopLoss
                                    => sellRow'[w][c] = "SELL_NOW"
                               /\ sellRow'[w][c] = "SELL_NOW" => c \in tells'[w].dipped
                        ELSE \A c \in Graded : sellRow'[w][c] = NoRow
      BY DEF RowsFollowTheAccount
    <3>1. CASE w \in job.reached
      BY <2>1, <2>2, <3>1
    <3>2. CASE w \notin job.reached
      <4>1. sellRow'[w] = sellRow[w] /\ tells'[w] = tells[w]
        BY <2>1, <3>2
      <4> QED
        BY <4>1 DEF RatingsInv, RowsFollowTheAccount
    <3> QED
      BY <3>1, <3>2
  <2> QED
    BY <2>1, <2>3, <2>4 DEF RatingsInv, Rested
<1>6. CASE LaneFails
  <2>1. /\ job' = Rested /\ UNCHANGED <<portfolio, sellRow>>
        /\ tells' = [w \in Wallets |-> IF tells[w].known THEN tells[w] ELSE Untells]
    BY <1>6 DEF LaneFails
  <2>2. Untells \in TellsOf /\ ~Untells.known
    BY DEF Untells, TellsOf, RowGrades
  <2> QED
    BY <2>1, <2>2 DEF RatingsInv, Rested, RowsFollowTheAccount
<1>7. CASE UNCHANGED <<portfolio, job, sellRow, tells>>
    BY <1>7 DEF RatingsInv, RowsFollowTheAccount, Made
<1>8. CASE PortfolioMoves
    BY <1>8 DEF PortfolioMoves, RatingsInv, RowsFollowTheAccount, Made
<1> QED
    BY <1>1, <1>2, <1>3, <1>4, <1>5, <1>6, <1>7, <1>8
       DEF RatingsNext, AskFor, ComputeOne, ScoresMove

-----------------------------------------------------------------------------
(* The budget of the language model.                                       *)

Asking == [stage : Stages, at : 0..LastHalf, reserved : LogDays \cup {NeverDay},
           released : LogDays \cup {NeverDay}, used : Nat]

\* What a request has in the log of a day, what of its use that day's reservation stands
\* for, and what it gave back to a day that had not reserved it.
RowOf(d, q) == (IF call[q].reserved = d THEN Reservation(q) ELSE 0)
               + (IF call[q].released = d THEN call[q].used - Reservation(q) ELSE 0)
Within(q) == IF Use(q) <= Reservation(q) THEN Use(q) ELSE Reservation(q)
HeldOf(d, q) == IF call[q].reserved = d THEN Within(q) ELSE 0
GivenOf(d, q) == IF q \in CarriedInto(d) THEN Spare(q) ELSE 0

RowsOf(d) == [q \in Requests |-> RowOf(d, q)]
AllHeld(d) == [q \in Requests |-> HeldOf(d, q)]
AllGiven(d) == [q \in Requests |-> GivenOf(d, q)]

\* The log of a day is the sum of what its requests have in it, and what its reservations
\* stand for exceeds the budget by no more than others gave back to that day.
LlmShape ==
    /\ clock \in 0..LastHalf
    /\ call \in [Requests -> Asking] /\ booked \in [LogDays -> Int]
    /\ \A q \in Requests :
        /\ call[q].stage \in {"waiting", "missed", "calling"} =>
              call[q].released = NeverDay /\ call[q].used = 0
        /\ call[q].stage \in {"waiting", "missed"} => call[q].reserved = NeverDay
LlmLog ==
    /\ LlmShape
    /\ \A d \in LogDays :
        /\ booked[d] = SumOf(RowsOf(d), Requests)
        /\ SumOf(AllHeld(d), Requests) <= Budget + SumOf(AllGiven(d), Requests)

LEMMA HalvesAreDays ==
    /\ \A t \in 0..LastHalf : DayOf(t) \in LogDays
    /\ LogDays \subseteq Nat /\ NeverDay \notin LogDays
  BY LanguageModelAssumption DEF DayOf, LogDays, NeverDay

LEMMA EstimatesAreNat ==
    ASSUME NEW q \in Requests
    PROVE  /\ Reservation(q) \in Nat \ {0} /\ Usages[Prompt[q]] \subseteq Nat
           /\ Budget \in Nat /\ Prompt[q] \in Prompts
  BY LanguageModelAssumption DEF Reservation, Prompts

LEMMA SpareIs ==
    ASSUME LlmShape, NEW q \in Requests
    PROVE  Spare(q) = IF call[q].used <= Reservation(q) THEN Reservation(q) - call[q].used ELSE 0
<1> DEFINE r == Reservation(q)
           u == call[q].used
<1>1. r \in Nat /\ u \in Nat
  BY EstimatesAreNat DEF LlmShape, Asking
<1>2. Max({0, r - u}) = IF 0 >= r - u THEN 0 ELSE r - u
  <2> HIDE DEF r, u
  <2> QED
    BY <1>1, LargerOf
<1>3. Spare(q) = Max({0, r - u})
  BY DEF Spare
<1> HIDE DEF r, u
<1>4. Spare(q) = IF u <= r THEN r - u ELSE 0
  BY ONLY <1>1, <1>2, <1>3
<1> QED
  BY <1>4 DEF r, u

LEMMA UseIs ==
    ASSUME LlmShape, NEW q \in Requests
    PROVE  /\ Use(q) \in Nat /\ Within(q) \in Nat
           /\ Overrun(q) \in Nat /\ Use(q) = Within(q) + Overrun(q)
<1> DEFINE r == Reservation(q)
           u == Use(q)
<1>1. r \in Nat /\ u \in Nat
  BY EstimatesAreNat DEF LlmShape, Asking, Use
<1>2. Max({0, u - r}) = IF 0 >= u - r THEN 0 ELSE u - r
  <2> HIDE DEF r, u
  <2> QED
    BY <1>1, LargerOf
<1>3. Overrun(q) = Max({0, u - r}) /\ Within(q) = IF u <= r THEN u ELSE r
  BY DEF Overrun, Within
<1> HIDE DEF r, u
<1>4. Within(q) \in Nat /\ Overrun(q) \in Nat /\ u = Within(q) + Overrun(q)
  BY ONLY <1>1, <1>2, <1>3
<1> QED
  BY <1>1, <1>4 DEF u

LEMMA CellsAre ==
    ASSUME LlmShape, NEW d \in LogDays, NEW q \in Requests
    PROVE  /\ RowOf(d, q) \in Int /\ HeldOf(d, q) \in Nat /\ GivenOf(d, q) \in Nat
           /\ HeldOf(d, q) <= RowOf(d, q) + GivenOf(d, q)
<1> DEFINE r == Reservation(q)
           u == call[q].used
           w == Within(q)
           s == Spare(q)
           on == call[q].reserved = d
           off == call[q].released = d
<1>1. r \in Nat /\ u \in Nat /\ w \in Nat /\ s \in Nat /\ on \in BOOLEAN /\ off \in BOOLEAN
  BY EstimatesAreNat, UseIs, SpareIs DEF LlmShape, Asking
<1>2. s = IF u <= r THEN r - u ELSE 0
  BY SpareIs
<1>3. w <= r /\ (off => w <= u)
  <2>1. Use(q) \in Nat
    BY UseIs
  <2>2. off => Use(q) = u
    BY HalvesAreDays DEF Use, LlmShape, Asking
  <2> QED
    BY <1>1, <2>1, <2>2 DEF Within
<1>4. /\ RowOf(d, q) = (IF on THEN r ELSE 0) + (IF off THEN u - r ELSE 0)
      /\ HeldOf(d, q) = IF on THEN w ELSE 0
      /\ GivenOf(d, q) = IF off /\ ~on THEN s ELSE 0
  BY DEF RowOf, HeldOf, GivenOf, CarriedInto
<1> HIDE DEF r, u, w, s, on, off
<1> QED
  BY ONLY <1>1, <1>2, <1>3, <1>4

LEMMA CellsAreNext ==
    ASSUME NEW d \in LogDays, NEW q \in Requests
    PROVE  (LlmShape => RowOf(d, q) \in Int /\ HeldOf(d, q) \in Nat /\ GivenOf(d, q) \in Nat)'
<1>1. LlmShape => RowOf(d, q) \in Int /\ HeldOf(d, q) \in Nat /\ GivenOf(d, q) \in Nat
  BY CellsAre
<1> QED
  BY <1>1, PTL

LEMMA FewRequests == IsFiniteSet(Requests)
  BY LanguageModelAssumption

\* What reservations stand for is in the log, or was given back.
LEMMA HeldIsBooked ==
    ASSUME LlmShape, NEW d \in LogDays
    PROVE  SumOf(AllHeld(d), Requests) <= SumOf(RowsOf(d), Requests) + SumOf(AllGiven(d), Requests)
<1> DEFINE both == [q \in Requests |-> RowOf(d, q) + GivenOf(d, q)]
           f == AllHeld(d)
           g == RowsOf(d)
           h == AllGiven(d)
<1>1. \A q \in Requests : /\ f[q] \in Int /\ g[q] \in Int /\ h[q] \in Int /\ both[q] \in Int
                          /\ both[q] = g[q] + h[q] /\ f[q] <= both[q]
  <2> TAKE q \in Requests
  <2>1. f[q] = HeldOf(d, q) /\ g[q] = RowOf(d, q) /\ h[q] = GivenOf(d, q)
        /\ both[q] = RowOf(d, q) + GivenOf(d, q)
    BY DEF AllHeld, RowsOf, AllGiven
  <2> HIDE DEF f, g, h, both
  <2> QED
    BY <2>1, CellsAre
<1> HIDE DEF f, g, h, both
<1>2. SumOf(f, Requests) <= SumOf(both, Requests)
  BY <1>1, FewRequests, SumLeq
<1>3. SumOf(both, Requests) = SumOf(g, Requests) + SumOf(h, Requests)
  BY <1>1, FewRequests, SumPlus
<1> QED
  BY <1>2, <1>3 DEF f, g, h

\* A step that moves one request, keeps the log right, and neither adds to what
\* reservations stand for nor takes from what was given back, on a day that admits none.
LEMMA OneMoves ==
    ASSUME LlmLog, LlmShape', NEW q \in Requests,
           \A y \in Requests \ {q} : call'[y] = call[y],
           \A d \in LogDays :
              /\ booked'[d] = booked[d] + RowOf(d, q)' - RowOf(d, q)
              /\ \/ booked'[d] <= Budget
                 \/ HeldOf(d, q)' <= HeldOf(d, q) /\ GivenOf(d, q) <= GivenOf(d, q)'
    PROVE  LlmLog'
<1> SUFFICES ASSUME NEW d \in LogDays
             PROVE  /\ booked'[d] = SumOf(RowsOf(d)', Requests)
                    /\ SumOf(AllHeld(d)', Requests) <= Budget + SumOf(AllGiven(d)', Requests)
  BY DEF LlmLog
<1> DEFINE g == RowsOf(d)
           h == RowsOf(d)'
           m == AllHeld(d)
           n == AllHeld(d)'
           k == AllGiven(d)
           l == AllGiven(d)'
<1>1. /\ LlmShape /\ booked[d] = SumOf(g, Requests) /\ IsFiniteSet(Requests) /\ Budget \in Nat
      /\ SumOf(m, Requests) <= Budget + SumOf(k, Requests) /\ booked[d] \in Int /\ booked'[d] \in Int
  BY FewRequests, LanguageModelAssumption DEF LlmLog, LlmShape
<1>2. \A y \in Requests :
        /\ g[y] = RowOf(d, y) /\ h[y] = RowOf(d, y)' /\ m[y] = HeldOf(d, y) /\ n[y] = HeldOf(d, y)'
        /\ k[y] = GivenOf(d, y) /\ l[y] = GivenOf(d, y)'
  BY DEF RowsOf, AllHeld, AllGiven
<1>3. \A y \in Requests : /\ RowOf(d, y) \in Int /\ HeldOf(d, y) \in Nat /\ GivenOf(d, y) \in Nat
                          /\ RowOf(d, y)' \in Int /\ HeldOf(d, y)' \in Nat /\ GivenOf(d, y)' \in Nat
  <2> TAKE y \in Requests
  <2>1. RowOf(d, y) \in Int /\ HeldOf(d, y) \in Nat /\ GivenOf(d, y) \in Nat
    BY <1>1, CellsAre
  <2> QED
    BY <2>1, CellsAreNext
<1>4. \A y \in Requests \ {q} : /\ RowOf(d, y)' = RowOf(d, y) /\ HeldOf(d, y)' = HeldOf(d, y)
                                /\ GivenOf(d, y)' = GivenOf(d, y)
  BY DEF RowOf, HeldOf, GivenOf, Within, Use, Spare, CarriedInto, Reservation
<1> HIDE DEF g, h, m, n, k, l
<1>5. booked'[d] = SumOf(h, Requests)
  <2>1. SumOf(h, Requests) = SumOf(g, Requests) + h[q] - g[q]
    BY <1>1, <1>2, <1>3, <1>4, SumMoves
  <2> QED
    BY <1>1, <1>2, <2>1
<1>6. SumOf(n, Requests) \in Int /\ SumOf(l, Requests) \in Int /\ SumOf(m, Requests) \in Int
      /\ SumOf(k, Requests) \in Int
  BY <1>1, <1>2, <1>3, SumIsInt
<1>7. CASE booked'[d] <= Budget
  <2>1. (LlmShape /\ d \in LogDays => SumOf(AllHeld(d), Requests)
            <= SumOf(RowsOf(d), Requests) + SumOf(AllGiven(d), Requests))'
    BY HeldIsBooked, PTL
  <2>2. SumOf(n, Requests) <= SumOf(h, Requests) + SumOf(l, Requests)
    BY <2>1 DEF n, h, l
  <2>3. SumOf(n, Requests) <= Budget + SumOf(l, Requests)
    BY <1>1, <1>5, <1>6, <1>7, <2>2
  <2> QED
    BY <1>5, <2>3 DEF n, l, h
<1>8. CASE HeldOf(d, q)' <= HeldOf(d, q) /\ GivenOf(d, q) <= GivenOf(d, q)'
  <2>1. \A y \in Requests : n[y] <= m[y] /\ k[y] <= l[y]
    BY <1>2, <1>3, <1>4, <1>8
  <2>2. SumOf(n, Requests) <= SumOf(m, Requests) /\ SumOf(k, Requests) <= SumOf(l, Requests)
    BY <1>1, <1>2, <1>3, <2>1, SumLeq
  <2>3. SumOf(n, Requests) <= Budget + SumOf(l, Requests)
    BY <1>1, <1>6, <2>2
  <2> QED
    BY <1>5, <2>3 DEF n, l, h
<1> QED
  BY <1>7, <1>8

\* What a request that moves brings with it.
LEMMA OneTurns ==
    ASSUME LlmShape, NEW q \in Requests, NEW r \in Asking, call' = [call EXCEPT ![q] = r],
           UNCHANGED clock, booked' \in [LogDays -> Int],
           r.stage \in {"waiting", "missed", "calling"} => r.released = NeverDay /\ r.used = 0,
           r.stage \in {"waiting", "missed"} => r.reserved = NeverDay
    PROVE  /\ LlmShape' /\ call'[q] = r /\ \A y \in Requests \ {q} : call'[y] = call[y]
           /\ \A d \in LogDays :
                /\ RowOf(d, q)' = (IF r.reserved = d THEN Reservation(q) ELSE 0)
                                  + (IF r.released = d THEN r.used - Reservation(q) ELSE 0)
                /\ r.reserved # d => HeldOf(d, q)' = 0
                /\ r.released # d \/ r.reserved = d => GivenOf(d, q)' = 0
<1>1. /\ call' \in [Requests -> Asking] /\ call'[q] = r
      /\ \A y \in Requests \ {q} : call'[y] = call[y]
  BY DEF LlmShape
<1>2. LlmShape'
  BY <1>1 DEF LlmShape
<1> QED
  BY <1>1, <1>2 DEF RowOf, HeldOf, GivenOf, CarriedInto, Reservation

LEMMA AskingIs ==
    ASSUME LlmShape, NEW q \in Requests
    PROVE  /\ call[q] \in Asking /\ call[q].stage \in Stages /\ call[q].at \in 0..LastHalf
           /\ call[q].reserved \in LogDays \cup {NeverDay}
           /\ call[q].released \in LogDays \cup {NeverDay} /\ call[q].used \in Nat
           /\ CurrentDay \in LogDays
  BY HalvesAreDays DEF LlmShape, Asking, CurrentDay

\* A request that only changes its stage, and is not under way to the provider.
LEMMA OnlyStage ==
    ASSUME LlmLog, NEW q \in Requests, NEW r \in Asking, call' = [call EXCEPT ![q] = r],
           UNCHANGED <<clock, booked>>, call[q].stage # "calling", r.stage \in {"missed", "over"},
           r.stage = "missed" => call[q].stage = "waiting",
           r.reserved = call[q].reserved, r.released = call[q].released, r.used = call[q].used
    PROVE  LlmLog'
<1>0. LlmShape
  BY DEF LlmLog
<1>1. /\ r.stage \in {"waiting", "missed", "calling"} => r.released = NeverDay /\ r.used = 0
      /\ r.stage \in {"waiting", "missed"} => r.reserved = NeverDay
  BY <1>0 DEF LlmShape
<1>2. booked' \in [LogDays -> Int]
  BY <1>0 DEF LlmShape
<1>3. LlmShape' /\ call'[q] = r /\ \A y \in Requests \ {q} : call'[y] = call[y]
  BY <1>0, <1>1, <1>2, OneTurns
<1>4. \A d \in LogDays : /\ RowOf(d, q)' = RowOf(d, q) /\ HeldOf(d, q)' = HeldOf(d, q)
                         /\ GivenOf(d, q)' = GivenOf(d, q)
  <2>1. call'[q].stage # "calling" /\ call'[q].reserved = call[q].reserved
        /\ call'[q].released = call[q].released /\ call'[q].used = call[q].used
    BY <1>3
  <2> QED
    BY <2>1 DEF RowOf, HeldOf, GivenOf, Within, Use, Spare, CarriedInto, Reservation
<1>5. \A d \in LogDays : /\ booked'[d] = booked[d] + RowOf(d, q)' - RowOf(d, q)
                         /\ HeldOf(d, q)' <= HeldOf(d, q) /\ GivenOf(d, q) <= GivenOf(d, q)'
  <2> TAKE d \in LogDays
  <2>1. booked'[d] = booked[d] /\ booked[d] \in Int
    BY <1>0 DEF LlmShape
  <2>2. RowOf(d, q) \in Int /\ HeldOf(d, q) \in Nat /\ GivenOf(d, q) \in Nat
    BY <1>0, CellsAre
  <2> QED
    BY <1>4, <2>1, <2>2
<1> QED
  BY <1>3, <1>5, OneMoves

LEMMA ReserveInv ==
    ASSUME LlmLog, NEW q \in Requests, Reserve(q)
    PROVE  LlmLog'
<1>0. LlmShape /\ call[q].stage = "missed" /\ UNCHANGED clock
  BY DEF LlmLog, Reserve
<1>1. CASE ~Affords(q)
  <2> DEFINE r == [call[q] EXCEPT !.stage = "over"]
  <2>1. r \in Asking /\ r.stage = "over" /\ r.reserved = call[q].reserved
        /\ r.released = call[q].released /\ r.used = call[q].used
    BY <1>0, AskingIs DEF Asking, Stages
  <2>2. call' = [call EXCEPT ![q] = r] /\ UNCHANGED booked
    BY <1>1 DEF Reserve, To
  <2> HIDE DEF r
  <2> QED
    BY <1>0, <2>1, <2>2, OnlyStage
<1>2. CASE Affords(q)
  <2> DEFINE c == CurrentDay
             n == Reservation(q)
             r == [call[q] EXCEPT !.stage = "calling", !.reserved = c]
  <2>1. /\ call[q].released = NeverDay /\ call[q].used = 0 /\ call[q].reserved = NeverDay
        /\ c \in LogDays /\ n \in Nat /\ booked \in [LogDays -> Int] /\ Budget \in Nat
    BY <1>0, AskingIs, EstimatesAreNat DEF LlmShape
  <2>2. r \in Asking /\ r.stage = "calling" /\ r.reserved = c /\ r.released = NeverDay /\ r.used = 0
    BY <1>0, <2>1, AskingIs DEF Asking, Stages
  <2>3. /\ call' = [call EXCEPT ![q] = r] /\ booked' = [booked EXCEPT ![c] = @ + n]
        /\ booked[c] + n <= Budget
    BY <1>0, <1>2 DEF Reserve, Affords
  <2> HIDE DEF r, c, n
  <2>4. booked' \in [LogDays -> Int] /\ booked'[c] = booked[c] + n
        /\ \A d \in LogDays \ {c} : booked'[d] = booked[d]
    BY <2>1, <2>3
  <2>5. /\ LlmShape' /\ \A y \in Requests \ {q} : call'[y] = call[y]
        /\ \A d \in LogDays :
             /\ RowOf(d, q)' = (IF c = d THEN n ELSE 0) + (IF r.released = d THEN r.used - n ELSE 0)
             /\ r.reserved # d => HeldOf(d, q)' = 0
             /\ r.released # d \/ r.reserved = d => GivenOf(d, q)' = 0
    <3>1. /\ LlmShape' /\ \A y \in Requests \ {q} : call'[y] = call[y]
          /\ \A d \in LogDays :
               /\ RowOf(d, q)' = (IF r.reserved = d THEN Reservation(q) ELSE 0)
                                 + (IF r.released = d THEN r.used - Reservation(q) ELSE 0)
               /\ r.reserved # d => HeldOf(d, q)' = 0
               /\ r.released # d \/ r.reserved = d => GivenOf(d, q)' = 0
      <4>1. /\ r.stage \in {"waiting", "missed", "calling"} => r.released = NeverDay /\ r.used = 0
            /\ r.stage \in {"waiting", "missed"} => r.reserved = NeverDay
        BY <2>2
      <4> QED
        BY <1>0, <2>2, <2>3, <2>4, <4>1, OneTurns
    <3>2. r.reserved = c /\ n = Reservation(q)
      BY <2>2 DEF n
    <3> QED
      BY <3>1, <3>2
  <2>6. \A d \in LogDays : RowOf(d, q) = 0 /\ HeldOf(d, q) = 0 /\ GivenOf(d, q) = 0
    BY <1>0, <2>1, HalvesAreDays DEF RowOf, HeldOf, GivenOf, CarriedInto
  <2>7. \A d \in LogDays :
          /\ booked'[d] = booked[d] + RowOf(d, q)' - RowOf(d, q)
          /\ booked'[d] <= Budget \/ (HeldOf(d, q)' <= HeldOf(d, q) /\ GivenOf(d, q) <= GivenOf(d, q)')
    <3> TAKE d \in LogDays
    <3>1. RowOf(d, q)' = IF d = c THEN n ELSE 0
      BY <2>1, <2>2, <2>5, HalvesAreDays
    <3>2. d # c => HeldOf(d, q)' = 0 /\ GivenOf(d, q)' = 0
      BY <2>2, <2>5, HalvesAreDays
    <3> QED
      BY <2>1, <2>3, <2>4, <2>6, <3>1, <3>2
  <2> QED
    BY <2>5, <2>7, OneMoves
<1> QED
  BY <1>1, <1>2

\* A call that ends, whatever it has used: its reservation goes back, or nothing does.
LEMMA CallEnds ==
    ASSUME LlmLog, NEW q \in Requests, call[q].stage = "calling", UNCHANGED clock,
           NEW used \in Nat, NEW back \in {NeverDay, CurrentDay}, NEW stage \in {"answered", "over"},
           call' = [call EXCEPT ![q] = [@ EXCEPT !.stage = stage, !.released = back, !.used = used]],
           booked' = IF back = NeverDay THEN booked
                     ELSE [booked EXCEPT ![CurrentDay] = @ + used - Reservation(q)]
    PROVE  LlmLog'
<1> DEFINE c == CurrentDay
           n == Reservation(q)
           e == call[q].reserved
           r == [call[q] EXCEPT !.stage = stage, !.released = back, !.used = used]
<1>0. LlmShape
  BY DEF LlmLog
<1>1. /\ call[q].released = NeverDay /\ call[q].used = 0 /\ e \in LogDays \cup {NeverDay}
      /\ c \in LogDays /\ n \in Nat /\ booked \in [LogDays -> Int] /\ c # NeverDay
  BY <1>0, AskingIs, EstimatesAreNat, HalvesAreDays DEF LlmShape
<1>2. r \in Asking /\ r.stage = stage /\ r.reserved = e /\ r.released = back /\ r.used = used
  BY <1>0, <1>1, AskingIs DEF Asking, Stages
<1>3. call' = [call EXCEPT ![q] = r]
      /\ booked' = IF back = NeverDay THEN booked ELSE [booked EXCEPT ![c] = @ + used - n]
  OBVIOUS
<1>4. Use(q) = n /\ Within(q) = n
  BY <1>1 DEF Use, Within
<1>5. \A d \in LogDays : RowOf(d, q) = (IF e = d THEN n ELSE 0) /\ GivenOf(d, q) = 0
                         /\ HeldOf(d, q) = (IF e = d THEN n ELSE 0)
  BY <1>1, <1>4, HalvesAreDays DEF RowOf, HeldOf, GivenOf, CarriedInto
<1> HIDE DEF r, c, n, e
<1>6. booked' \in [LogDays -> Int]
      /\ \A d \in LogDays : booked'[d] = booked[d] + IF back = d THEN used - n ELSE 0
  <2>1. CASE back = NeverDay
    BY <1>1, <1>3, <2>1, HalvesAreDays
  <2>2. CASE back = c
    BY <1>1, <1>3, <2>2
  <2> QED
    BY <2>1, <2>2 DEF c
<1>7. /\ LlmShape' /\ call'[q] = r /\ \A y \in Requests \ {q} : call'[y] = call[y]
      /\ \A d \in LogDays :
           /\ RowOf(d, q)' = (IF e = d THEN n ELSE 0) + (IF back = d THEN used - n ELSE 0)
           /\ e # d => HeldOf(d, q)' = 0
  <2>1. /\ r.stage \in {"waiting", "missed", "calling"} => r.released = NeverDay /\ r.used = 0
        /\ r.stage \in {"waiting", "missed"} => r.reserved = NeverDay
    BY <1>2
  <2>2. /\ LlmShape' /\ call'[q] = r /\ \A y \in Requests \ {q} : call'[y] = call[y]
        /\ \A d \in LogDays :
             /\ RowOf(d, q)' = (IF r.reserved = d THEN Reservation(q) ELSE 0)
                               + (IF r.released = d THEN r.used - Reservation(q) ELSE 0)
             /\ r.reserved # d => HeldOf(d, q)' = 0
    <3>1. /\ q \in Requests /\ r \in Asking /\ call' = [call EXCEPT ![q] = r] /\ UNCHANGED clock
          /\ booked' \in [LogDays -> Int]
      BY <1>2, <1>3, <1>6
    <3>2. /\ LlmShape' /\ call'[q] = r /\ \A y \in Requests \ {q} : call'[y] = call[y]
      BY ONLY <1>0, <2>1, <3>1, OneTurns
    <3>3. ASSUME NEW d \in LogDays
          PROVE  RowOf(d, q)' = (IF r.reserved = d THEN Reservation(q) ELSE 0)
                                + (IF r.released = d THEN r.used - Reservation(q) ELSE 0)
      BY ONLY <3>2 DEF RowOf, Reservation
    <3>4. ASSUME NEW d \in LogDays, r.reserved # d
          PROVE  HeldOf(d, q)' = 0
      BY ONLY <3>2, <3>4 DEF HeldOf
    <3> QED
      BY <3>2, <3>3, <3>4
  <2>3. n = Reservation(q) /\ r.reserved = e /\ r.released = back /\ r.used = used
    BY <1>2 DEF n
  <2> QED
    BY <2>2, <2>3
<1>8. \A d \in LogDays : e = d => HeldOf(d, q)' <= n
  <2>1. Reservation(q)' = n /\ Use(q)' = used
    BY <1>2, <1>7 DEF Reservation, Use, n
  <2> QED
    BY <1>1, <2>1 DEF HeldOf, Within
<1>9. \A d \in LogDays :
        /\ booked'[d] = booked[d] + RowOf(d, q)' - RowOf(d, q)
        /\ HeldOf(d, q)' <= HeldOf(d, q) /\ GivenOf(d, q) <= GivenOf(d, q)'
  <2> TAKE d \in LogDays
  <2>1. booked[d] \in Int
    BY <1>1
  <2>2. GivenOf(d, q)' \in Nat
    BY <1>7, CellsAreNext
  <2> QED
    BY <1>1, <1>5, <1>6, <1>7, <1>8, <2>1, <2>2
<1> QED
  BY <1>7, <1>9, OneMoves

LEMMA LlmLogStep ==
    ASSUME LlmLog, LlmNext
    PROVE  LlmLog'
<1>0. LlmShape
  BY DEF LlmLog
<1>1. ASSUME NEW q \in Requests, ReadCache(q) PROVE LlmLog'
  <2> DEFINE stage == IF kept[Prompt[q]] > clock THEN "over" ELSE "missed"
             r == [call[q] EXCEPT !.at = clock, !.stage = stage]
  <2>1. /\ r \in Asking /\ r.stage \in {"missed", "over"} /\ r.reserved = call[q].reserved
        /\ r.released = call[q].released /\ r.used = call[q].used
    BY <1>0, AskingIs DEF Asking, Stages, LlmShape
  <2>2. /\ call' = [call EXCEPT ![q] = r] /\ UNCHANGED <<clock, booked>>
        /\ call[q].stage = "waiting"
    BY <1>1 DEF ReadCache
  <2> HIDE DEF r, stage
  <2> QED
    BY <2>1, <2>2, OnlyStage
<1>2. ASSUME NEW q \in Requests, Reserve(q) PROVE LlmLog'
  BY <1>2, ReserveInv
<1>3. ASSUME NEW q \in Requests, NEW stage \in {"answered", "over"}, NEW said \in Nat,
             Ends(q, stage, said)
      PROVE  LlmLog'
  <2>1. /\ call' = [call EXCEPT ![q] = [@ EXCEPT !.stage = stage, !.released = CurrentDay, !.used = said]]
        /\ booked' = [booked EXCEPT ![CurrentDay] = @ + said - Reservation(q)]
        /\ call[q].stage = "calling" /\ UNCHANGED clock
    BY <1>3 DEF Ends, Release
  <2>2. CurrentDay # NeverDay
    BY <1>0, AskingIs, HalvesAreDays
  <2> QED
    BY <2>1, <2>2, CallEnds
<1>4. ASSUME NEW q \in Requests, Complete(q) \/ CompleteFails(q) PROVE LlmLog'
  <2>1. \E stage \in {"answered", "over"}, said \in Usages[Prompt[q]] \cup {0} : Ends(q, stage, said)
    BY <1>4 DEF Complete, CompleteFails
  <2>2. Usages[Prompt[q]] \cup {0} \subseteq Nat
    BY EstimatesAreNat
  <2> QED
    BY <1>3, <2>1, <2>2
<1>5. ASSUME NEW q \in Requests, Interrupted(q) PROVE LlmLog'
  <2>1. PICK used \in Usages[Prompt[q]] \cup {0} :
          call' = [call EXCEPT ![q].stage = "over",
                               ![q].used = IF call[q].stage = "calling" THEN used ELSE @]
    BY <1>5 DEF Interrupted
  <2>2. UNCHANGED <<clock, booked>> /\ call[q].stage # "waiting" /\ used \in Nat
        /\ call[q] \in Asking
    BY <1>0, <1>5, EstimatesAreNat, AskingIs DEF Interrupted
  <2>3. CASE call[q].stage = "calling"
    <3>1. call[q].released = NeverDay
      BY <1>0, <2>3 DEF LlmShape
    <3>2. call' = [call EXCEPT ![q] = [@ EXCEPT !.stage = "over", !.released = NeverDay, !.used = used]]
      BY <2>1, <2>2, <2>3, <3>1 DEF Asking
    <3> QED
      BY <2>2, <2>3, <3>2, CallEnds
  <2>4. CASE call[q].stage # "calling"
    <3> DEFINE r == [call[q] EXCEPT !.stage = "over"]
    <3>1. /\ r \in Asking /\ r.stage = "over" /\ r.reserved = call[q].reserved
          /\ r.released = call[q].released /\ r.used = call[q].used
      BY <2>2 DEF Asking, Stages
    <3>2. call' = [call EXCEPT ![q] = r]
      BY <2>1, <2>2, <2>4 DEF Asking
    <3> HIDE DEF r
    <3> QED
      BY <2>2, <2>4, <3>1, <3>2, OnlyStage
  <2> QED
    BY <2>3, <2>4
<1>6. ASSUME NEW q \in Requests, KeepAnswer(q) PROVE LlmLog'
  <2> DEFINE r == [call[q] EXCEPT !.stage = "over"]
  <2>1. /\ r \in Asking /\ r.stage = "over" /\ r.reserved = call[q].reserved
        /\ r.released = call[q].released /\ r.used = call[q].used
    BY <1>0, AskingIs DEF Asking, Stages
  <2>2. /\ call' = [call EXCEPT ![q] = r] /\ UNCHANGED <<clock, booked>>
        /\ call[q].stage = "answered"
    BY <1>6 DEF KeepAnswer, To
  <2> HIDE DEF r
  <2> QED
    BY <2>1, <2>2, OnlyStage
<1>8. ASSUME NEW q \in Requests, LoseAttempt(q) PROVE LlmLog'
  <2>1. UNCHANGED <<clock, call, booked>>
    BY <1>8 DEF LoseAttempt
  <2> QED
    BY <2>1 DEF LlmLog, LlmShape, RowsOf, AllHeld, AllGiven, RowOf, HeldOf, GivenOf, Within, Use,
                Spare, CarriedInto, Reservation
<1>7. CASE HalfDay
  <2>1. UNCHANGED <<call, booked>> /\ clock' \in 0..LastHalf
    BY <1>0, <1>7, LanguageModelAssumption DEF HalfDay, LlmShape
  <2> QED
    BY <2>1 DEF LlmLog, LlmShape, RowsOf, AllHeld, AllGiven, RowOf, HeldOf, GivenOf, Within, Use,
                Spare, CarriedInto, Reservation
<1> QED
  BY <1>1, <1>2, <1>4, <1>5, <1>6, <1>7, <1>8 DEF LlmNext

LEMMA LlmLogQuiet == LlmLog /\ UNCHANGED llmVars => LlmLog'
<1> SUFFICES ASSUME LlmLog, UNCHANGED <<clock, call, booked>> PROVE LlmLog'
  BY DEF llmVars
<1> QED
  BY DEF LlmLog, LlmShape, RowsOf, AllHeld, AllGiven, RowOf, HeldOf, GivenOf, Within, Use, Spare,
         CarriedInto, Reservation

LEMMA LlmLogInit == LlmInit => LlmLog
<1> SUFFICES ASSUME LlmInit PROVE LlmLog
  OBVIOUS
<1>1. LlmShape
  BY LanguageModelAssumption DEF LlmInit, LlmShape, Asking, Stages
<1>2. ASSUME NEW d \in LogDays
      PROVE  /\ booked[d] = SumOf(RowsOf(d), Requests)
             /\ SumOf(AllHeld(d), Requests) <= Budget + SumOf(AllGiven(d), Requests)
  <2>1. \A q \in Requests : RowOf(d, q) = 0 /\ HeldOf(d, q) = 0 /\ GivenOf(d, q) = 0
    BY HalvesAreDays DEF LlmInit, RowOf, HeldOf, GivenOf, CarriedInto
  <2>2. \A q \in Requests : RowsOf(d)[q] = 0 /\ AllHeld(d)[q] = 0 /\ AllGiven(d)[q] = 0
    BY <2>1 DEF RowsOf, AllHeld, AllGiven
  <2>3. /\ SumOf(RowsOf(d), Requests) = SumOf(RowsOf(d), {})
        /\ SumOf(AllHeld(d), Requests) = SumOf(AllHeld(d), {})
        /\ SumOf(AllGiven(d), Requests) = SumOf(AllGiven(d), {})
    BY <2>2, FewRequests, SumSkips
  <2>4. booked[d] = 0
    BY DEF LlmInit
  <2> QED
    BY <2>3, <2>4, SumOfNone, LanguageModelAssumption
<1> QED
  BY <1>1, <1>2 DEF LlmLog

\* What is billed and not told of is counted beside the log.
LlmInv ==
    /\ LlmLog
    /\ losses \in 0..MaxLosses /\ untold \in [Requests -> Nat]

LEMMA LlmStepInv ==
    ASSUME LlmInv, LlmNext
    PROVE  LlmInv'
<1>1. LlmLog'
  BY LlmLogStep DEF LlmInv
<1>2. /\ MaxLosses \in Nat /\ losses \in 0..MaxLosses /\ untold \in [Requests -> Nat]
  BY LanguageModelAssumption DEF LlmInv
<1>3. ASSUME NEW q \in Requests, NEW used \in Usages[Prompt[q]], GoesUntold(q, used)
      PROVE  losses' \in 0..MaxLosses /\ untold' \in [Requests -> Nat]
  <2>1. used \in Nat
    BY EstimatesAreNat
  <2>2. losses' \in 0..MaxLosses
    BY <1>2, <1>3 DEF GoesUntold
  <2>3. untold[q] + used \in Nat
    BY <1>2, <2>1
  <2> QED
    BY <1>2, <1>3, <2>2, <2>3 DEF GoesUntold
<1>4. \/ UNCHANGED <<losses, untold>>
      \/ \E q \in Requests : \E used \in Usages[Prompt[q]] : GoesUntold(q, used)
  BY DEF LlmNext, ReadCache, Reserve, LoseAttempt, Complete, CompleteFails, Interrupted, KeepAnswer, HalfDay
<1> QED
  BY <1>1, <1>2, <1>3, <1>4 DEF LlmInv

LEMMA LlmQuietInv == LlmInv /\ UNCHANGED llmVars => LlmInv'
  BY LlmLogQuiet DEF LlmInv, llmVars

LEMMA LlmInitInv == LlmInit => LlmInv
<1> SUFFICES ASSUME LlmInit PROVE LlmInv
  OBVIOUS
<1>1. losses \in 0..MaxLosses /\ untold \in [Requests -> Nat]
  BY LanguageModelAssumption DEF LlmInit
<1> QED
  BY <1>1, LlmLogInit DEF LlmInv

LEMMA BilledSum ==
    ASSUME NEW D, D \subseteq Requests
    PROVE  MapThenSumSet(Billed, D) = SumOf([q \in D |-> Billed(q)], D)
<1> DEFINE g == [q \in D |-> Billed(q)]
           Body(t) == t = [s \in SUBSET D |-> IF s = {} THEN 0
                             ELSE Billed(CHOOSE x \in s : TRUE) + t[s \ {CHOOSE x \in s : TRUE}]]
<1>0. IsFiniteSet(D)
  BY FewRequests, FS_Subset
<1>1. \A t : IsTable(t, g, D) <=> Body(t)
  <2> TAKE t
  <2>1. \A s \in SUBSET D : s # {} => Some(s) \in D
    BY SomeIsIn
  <2>2. \A s \in SUBSET D : s # {} => g[Some(s)] = Billed(Some(s))
    BY <2>1
  <2>3. [s \in SUBSET D |-> IF s = {} THEN 0 ELSE g[Some(s)] + t[s \ {Some(s)}]]
      = [s \in SUBSET D |-> IF s = {} THEN 0 ELSE Billed(Some(s)) + t[s \ {Some(s)}]]
    <3> HIDE DEF g
    <3> QED
      BY <2>2
  <2> QED
    BY <2>3, Zenon DEF IsTable, Some
<1>2. IsTable(CHOOSE t : Body(t), g, D)
  <2> HIDE DEF Body, g
  <2> QED
    BY <1>0, <1>1, TableExists
<1>3. MapThenSumSet(Billed, D) = (CHOOSE t : Body(t))[D]
  BY DEF MapThenSumSet, MapThenFoldSet
<1>4. SumOf(g, D) = (CHOOSE t : Body(t))[D]
  <2> HIDE DEF Body, g
  <2> QED
    BY <1>0, <1>2, SumIsTables
<1> QED
  BY <1>3, <1>4

LEMMA UntoldSum ==
    ASSUME NEW D, D \subseteq Requests
    PROVE  MapThenSumSet(Untold, D) = SumOf([q \in D |-> Untold(q)], D)
<1> DEFINE g == [q \in D |-> Untold(q)]
           Body(t) == t = [s \in SUBSET D |-> IF s = {} THEN 0
                             ELSE Untold(CHOOSE x \in s : TRUE) + t[s \ {CHOOSE x \in s : TRUE}]]
<1>0. IsFiniteSet(D)
  BY FewRequests, FS_Subset
<1>1. \A t : IsTable(t, g, D) <=> Body(t)
  <2> TAKE t
  <2>1. \A s \in SUBSET D : s # {} => Some(s) \in D
    BY SomeIsIn
  <2>2. \A s \in SUBSET D : s # {} => g[Some(s)] = Untold(Some(s))
    BY <2>1
  <2>3. [s \in SUBSET D |-> IF s = {} THEN 0 ELSE g[Some(s)] + t[s \ {Some(s)}]]
      = [s \in SUBSET D |-> IF s = {} THEN 0 ELSE Untold(Some(s)) + t[s \ {Some(s)}]]
    <3> HIDE DEF g
    <3> QED
      BY <2>2
  <2> QED
    BY <2>3, Zenon DEF IsTable, Some
<1>2. IsTable(CHOOSE t : Body(t), g, D)
  <2> HIDE DEF Body, g
  <2> QED
    BY <1>0, <1>1, TableExists
<1>3. MapThenSumSet(Untold, D) = (CHOOSE t : Body(t))[D]
  BY DEF MapThenSumSet, MapThenFoldSet
<1>4. SumOf(g, D) = (CHOOSE t : Body(t))[D]
  <2> HIDE DEF Body, g
  <2> QED
    BY <1>0, <1>2, SumIsTables
<1> QED
  BY <1>3, <1>4

LEMMA OverrunSum ==
    ASSUME NEW D, D \subseteq Requests
    PROVE  MapThenSumSet(Overrun, D) = SumOf([q \in D |-> Overrun(q)], D)
<1> DEFINE g == [q \in D |-> Overrun(q)]
           Body(t) == t = [s \in SUBSET D |-> IF s = {} THEN 0
                             ELSE Overrun(CHOOSE x \in s : TRUE) + t[s \ {CHOOSE x \in s : TRUE}]]
<1>0. IsFiniteSet(D)
  BY FewRequests, FS_Subset
<1>1. \A t : IsTable(t, g, D) <=> Body(t)
  <2> TAKE t
  <2>1. \A s \in SUBSET D : s # {} => Some(s) \in D
    BY SomeIsIn
  <2>2. \A s \in SUBSET D : s # {} => g[Some(s)] = Overrun(Some(s))
    BY <2>1
  <2>3. [s \in SUBSET D |-> IF s = {} THEN 0 ELSE g[Some(s)] + t[s \ {Some(s)}]]
      = [s \in SUBSET D |-> IF s = {} THEN 0 ELSE Overrun(Some(s)) + t[s \ {Some(s)}]]
    <3> HIDE DEF g
    <3> QED
      BY <2>2
  <2> QED
    BY <2>3, Zenon DEF IsTable, Some
<1>2. IsTable(CHOOSE t : Body(t), g, D)
  <2> HIDE DEF Body, g
  <2> QED
    BY <1>0, <1>1, TableExists
<1>3. MapThenSumSet(Overrun, D) = (CHOOSE t : Body(t))[D]
  BY DEF MapThenSumSet, MapThenFoldSet
<1>4. SumOf(g, D) = (CHOOSE t : Body(t))[D]
  <2> HIDE DEF Body, g
  <2> QED
    BY <1>0, <1>2, SumIsTables
<1> QED
  BY <1>3, <1>4

LEMMA SpareSum ==
    ASSUME NEW D, D \subseteq Requests
    PROVE  MapThenSumSet(Spare, D) = SumOf([q \in D |-> Spare(q)], D)
<1> DEFINE g == [q \in D |-> Spare(q)]
           Body(t) == t = [s \in SUBSET D |-> IF s = {} THEN 0
                             ELSE Spare(CHOOSE x \in s : TRUE) + t[s \ {CHOOSE x \in s : TRUE}]]
<1>0. IsFiniteSet(D)
  BY FewRequests, FS_Subset
<1>1. \A t : IsTable(t, g, D) <=> Body(t)
  <2> TAKE t
  <2>1. \A s \in SUBSET D : s # {} => Some(s) \in D
    BY SomeIsIn
  <2>2. \A s \in SUBSET D : s # {} => g[Some(s)] = Spare(Some(s))
    BY <2>1
  <2>3. [s \in SUBSET D |-> IF s = {} THEN 0 ELSE g[Some(s)] + t[s \ {Some(s)}]]
      = [s \in SUBSET D |-> IF s = {} THEN 0 ELSE Spare(Some(s)) + t[s \ {Some(s)}]]
    <3> HIDE DEF g
    <3> QED
      BY <2>2
  <2> QED
    BY <2>3, Zenon DEF IsTable, Some
<1>2. IsTable(CHOOSE t : Body(t), g, D)
  <2> HIDE DEF Body, g
  <2> QED
    BY <1>0, <1>1, TableExists
<1>3. MapThenSumSet(Spare, D) = (CHOOSE t : Body(t))[D]
  BY DEF MapThenSumSet, MapThenFoldSet
<1>4. SumOf(g, D) = (CHOOSE t : Body(t))[D]
  <2> HIDE DEF Body, g
  <2> QED
    BY <1>0, <1>2, SumIsTables
<1> QED
  BY <1>3, <1>4

LEMMA LlmInvHolds ==
    ASSUME LlmInv
    PROVE  BudgetRespected
<1>0. LlmShape /\ untold \in [Requests -> Nat]
  BY DEF LlmInv, LlmLog
<1> SUFFICES ASSUME NEW d \in LogDays
             PROVE  MapThenSumSet(Billed, ReservedOn(d)) <=
                        Budget + MapThenSumSet(Overrun, ReservedOn(d))
                               + MapThenSumSet(Untold, ReservedOn(d))
                               + MapThenSumSet(Spare, CarriedInto(d))
  BY DEF BudgetRespected
<1> DEFINE R == ReservedOn(d)
           C == CarriedInto(d)
           use == [q \in R |-> Use(q)]
           billed == [q \in R |-> Billed(q)]
           beside == [q \in R |-> Untold(q)]
           over == [q \in R |-> Overrun(q)]
           spare == [q \in C |-> Spare(q)]
           held == AllHeld(d)
           given == AllGiven(d)
<1>1. R \subseteq Requests /\ C \subseteq Requests /\ IsFiniteSet(Requests) /\ Budget \in Nat
      /\ IsFiniteSet(R) /\ IsFiniteSet(C)
  BY FewRequests, FS_Subset, LanguageModelAssumption DEF ReservedOn, CarriedInto
<1>2. /\ MapThenSumSet(Billed, R) = SumOf(billed, R) /\ MapThenSumSet(Overrun, R) = SumOf(over, R)
      /\ MapThenSumSet(Untold, R) = SumOf(beside, R) /\ MapThenSumSet(Spare, C) = SumOf(spare, C)
  <2> HIDE DEF R, C
  <2> QED
    BY <1>1, BilledSum, UntoldSum, OverrunSum, SpareSum
<1>3. \A q \in Requests : /\ held[q] = HeldOf(d, q) /\ given[q] = GivenOf(d, q)
                          /\ held[q] \in Nat /\ given[q] \in Nat
  BY <1>0, CellsAre DEF AllHeld, AllGiven
<1>4. \A q \in R : /\ use[q] \in Int /\ over[q] \in Int /\ held[q] \in Int
                   /\ use[q] = held[q] + over[q]
  <2> TAKE q \in R
  <2>1. q \in Requests /\ call[q].reserved = d
    BY DEF ReservedOn
  <2>2. held[q] = Within(q)
    BY <1>3, <2>1 DEF HeldOf
  <2> QED
    BY <1>0, <2>1, <2>2, UseIs
<1>14. \A q \in R : /\ billed[q] \in Int /\ beside[q] \in Int
                    /\ billed[q] = use[q] + beside[q]
  <2> TAKE q \in R
  <2>1. q \in Requests /\ Use(q) \in Nat /\ untold[q] \in Nat
    BY <1>0, <1>1, UseIs
  <2> QED
    BY <2>1 DEF Billed, Untold
<1>5. \A q \in Requests \ R : held[q] = 0
  BY <1>3 DEF HeldOf, ReservedOn
<1>6. \A q \in C : given[q] = spare[q]
  BY <1>1, <1>3 DEF GivenOf
<1>7. \A q \in Requests \ C : given[q] = 0
  BY <1>3 DEF GivenOf
<1>8. SumOf(held, Requests) <= Budget + SumOf(given, Requests)
  BY DEF LlmInv, LlmLog
<1> HIDE DEF R, C, use, billed, beside, over, spare, held, given
<1>9. SumOf(use, R) = SumOf(held, R) + SumOf(over, R)
  BY <1>1, <1>4, SumPlus
<1>10. SumOf(held, Requests) = SumOf(held, R)
  BY <1>1, <1>3, <1>5, SumSkips
<1>11. SumOf(given, Requests) = SumOf(spare, C)
  <2>1. SumOf(given, Requests) = SumOf(given, C)
    BY <1>1, <1>3, <1>7, SumSkips
  <2>2. SumOf(given, C) = SumOf(spare, C)
    BY <1>1, <1>6, SumOfSame
  <2> QED
    BY <2>1, <2>2
<1>12. SumOf(held, R) \in Int /\ SumOf(over, R) \in Int /\ SumOf(given, Requests) \in Int
       /\ SumOf(beside, R) \in Int
  BY <1>1, <1>3, <1>4, <1>14, SumIsInt
<1>15. SumOf(billed, R) = SumOf(use, R) + SumOf(beside, R)
  BY <1>1, <1>4, <1>14, SumPlus
<1>13. SumOf(billed, R) <= Budget + SumOf(over, R) + SumOf(beside, R) + SumOf(spare, C)
  BY <1>1, <1>8, <1>9, <1>10, <1>11, <1>12, <1>15
<1> QED
  BY <1>2, <1>13 DEF R, C

-----------------------------------------------------------------------------
(* The proposals of an evening.                                            *)

\* What a sale and a purchase need: the shares, and a price.
Fitting == {d \in Proposal : IF d.side = "SELL" THEN d.qty <= holding[d.code] ELSE Price(d.code) > 0}

Purchases(proposed) == {r \in proposed : r.side = "BUY"}
SpendOf(proposed) == MapThenSumSet(LAMBDA r : r.qty * CashPrice[r.code], Purchases(proposed))
RampFits(proposed) ==
    (/\ sleeve.mode # "hold" /\ RampStep < sleeve.ramp
     /\ \E r \in proposed : r.side = "BUY") =>
        sleeve.ramp * (ValueIn(Scope) + SpendOf(proposed)) <= SleeveNav * RampStep

\* One proposal for a code and a side, no sale of what is not held.
RowsFit(proposed) ==
    /\ proposed \subseteq Proposal /\ IsFiniteSet(proposed)
    /\ \A r, s \in proposed : r.code = s.code /\ r.side = s.side => r = s
    /\ \A r \in proposed : r.side = "SELL" => r.qty <= holding[r.code]
    /\ RampFits(proposed)

\* What is held was paid for.
RulesInv == RulesTypeOK /\ (\A c \in Names : holding[c] > 0 => cost[c] > 0) /\ RowsFit(rows)

\* The account as far as the drafts depend on it.
Accounted ==
    /\ sleeve \in Sleeve /\ evening \in DOMAIN Evenings
    /\ close \in [Names -> Nat] /\ holding \in [Names -> Nat] /\ cost \in [Names -> Nat]
    /\ money \in Nat /\ \A c \in Names : holding[c] > 0 => cost[c] > 0

LEMMA AccountedHolds == RulesInv => Accounted
  BY RulesAssumption DEF RulesInv, RulesTypeOK, Accounted

LEMMA FewNames == IsFiniteSet(Names) /\ Names \subseteq Nat
  BY RulesAssumption

LEMMA SleeveIs ==
    ASSUME NEW s \in Sleeve
    PROVE  /\ s.weight \in 1..100 /\ s.picks \in Nat /\ s.stop \in Int /\ s.profit \in Nat
           /\ s.below \in Nat /\ s.band \in Nat /\ s.ramp \in Nat /\ s.keeps \in Names
           /\ s.mode \in {"rules", "monthly", "hold"}
  BY DEF Sleeve

LEMMA PricesAre ==
    ASSUME Accounted, NEW c \in Names
    PROVE  /\ Price(c) \in Nat /\ CashPrice[c] = 100 * Price(c) /\ CashPrice[c] \in Nat
           /\ holding[c] \in Nat /\ holding[c] * CashPrice[c] \in Nat
           /\ holding[c] > 0 => Price(c) > 0
<1>1. close[c] \in Nat /\ cost[c] \in Nat /\ holding[c] \in Nat /\ (holding[c] > 0 => cost[c] > 0)
  BY DEF Accounted
<1>2. Price(c) \in Nat /\ (holding[c] > 0 => Price(c) > 0)
  BY <1>1 DEF Price
<1>3. CashPrice[c] = 100 * Price(c)
  BY DEF CashPrice
<1>4. CashPrice[c] \in Nat
  BY <1>2, <1>3
<1> QED
  BY <1>1, <1>2, <1>3, <1>4

LEMMA ScopeIs == Scope \in SUBSET Names /\ \A c \in Scope : holding[c] > 0
<1>1. Scope \in SUBSET Universe \/ Scope \in SUBSET Names
  BY DEF Scope, OwnedOf
<1>2. Universe \subseteq Names
  BY RulesAssumption DEF Universe
<1>3. \A c \in Scope : holding[c] > 0
  BY DEF Scope, OwnedOf
<1> QED
  BY <1>1, <1>2, <1>3

\* Values and spending as sums of a function.
HeldValues == [c \in Names |-> holding[c] * CashPrice[c]]

LEMMA ValueInIs ==
    ASSUME Accounted, NEW S \in SUBSET Names
    PROVE  ValueIn(S) = SumOf(HeldValues, S) /\ ValueIn(S) \in Nat
<1> DEFINE g == [c \in S |-> holding[c] * CashPrice[c]]
           Body(u) == u = [s \in SUBSET S |-> IF s = {} THEN 0
                             ELSE holding[CHOOSE x \in s : TRUE] * CashPrice[CHOOSE x \in s : TRUE]
                                    + u[s \ {CHOOSE x \in s : TRUE}]]
<1>0. IsFiniteSet(S)
  BY FewNames, FS_Subset
<1>1. \A u : IsTable(u, g, S) <=> Body(u)
  <2> TAKE u
  <2>1. \A s \in SUBSET S : s # {} => Some(s) \in S
    BY SomeIsIn
  <2>2. \A s \in SUBSET S : s # {} => g[Some(s)] = holding[Some(s)] * CashPrice[Some(s)]
    BY <2>1
  <2>3. [s \in SUBSET S |-> IF s = {} THEN 0 ELSE g[Some(s)] + u[s \ {Some(s)}]]
      = [s \in SUBSET S |-> IF s = {} THEN 0 ELSE holding[Some(s)] * CashPrice[Some(s)] + u[s \ {Some(s)}]]
    <3> HIDE DEF g
    <3> QED
      BY <2>2
  <2> QED
    BY <2>3, Zenon DEF IsTable, Some
<1>2. IsTable(CHOOSE u : Body(u), g, S)
  <2> HIDE DEF Body, g
  <2> QED
    BY <1>0, <1>1, TableExists
<1>3. ValueIn(S) = (CHOOSE u : Body(u))[S]
  BY DEF ValueIn, MapThenSumSet, MapThenFoldSet
<1>4. SumOf(g, S) = (CHOOSE u : Body(u))[S]
  <2> HIDE DEF Body, g
  <2> QED
    BY <1>0, <1>2, SumIsTables
<1>5. \A c \in S : g[c] = HeldValues[c] /\ g[c] \in Nat
  <2> TAKE c \in S
  <2>1. holding[c] * CashPrice[c] \in Nat
    BY PricesAre
  <2> QED
    BY <2>1 DEF HeldValues
<1>6. SumOf(g, S) = SumOf(HeldValues, S) /\ SumOf(g, S) \in Nat
  <2> HIDE DEF g
  <2> QED
    BY <1>0, <1>5, SumOfSame, SumIsNat
<1> QED
  BY <1>3, <1>4, <1>6

Bill(proposed) == [r \in proposed |-> r.qty * CashPrice[r.code]]

LEMMA SpendIs ==
    ASSUME Accounted, NEW R, R \subseteq Proposal, IsFiniteSet(R)
    PROVE  /\ SpendOf(R) = SumOf(Bill(R), Purchases(R)) /\ SpendOf(R) \in Nat
           /\ \A r \in R : Bill(R)[r] = r.qty * CashPrice[r.code] /\ Bill(R)[r] \in Nat
           /\ IsFiniteSet(Purchases(R)) /\ Purchases(R) \subseteq R
<1> DEFINE S == Purchases(R)
           g == [r \in S |-> r.qty * CashPrice[r.code]]
           Cost1(r) == r.qty * CashPrice[r.code]
           Body(u) == u = [s \in SUBSET S |-> IF s = {} THEN 0
                             ELSE Cost1(CHOOSE x \in s : TRUE) + u[s \ {CHOOSE x \in s : TRUE}]]
<1>0. IsFiniteSet(S) /\ S \subseteq R
  BY FS_Subset DEF Purchases
<1>1. \A u : IsTable(u, g, S) <=> Body(u)
  <2> TAKE u
  <2>1. \A s \in SUBSET S : s # {} => Some(s) \in S
    BY SomeIsIn
  <2>2. \A s \in SUBSET S : s # {} => g[Some(s)] = Cost1(Some(s))
    BY <2>1
  <2> HIDE DEF Cost1
  <2>3. [s \in SUBSET S |-> IF s = {} THEN 0 ELSE g[Some(s)] + u[s \ {Some(s)}]]
      = [s \in SUBSET S |-> IF s = {} THEN 0 ELSE Cost1(Some(s)) + u[s \ {Some(s)}]]
    <3> HIDE DEF g
    <3> QED
      BY <2>2
  <2> QED
    BY <2>3, Zenon DEF IsTable, Some
<1>2. IsTable(CHOOSE u : Body(u), g, S)
  <2> HIDE DEF Body, g, S
  <2> QED
    BY <1>0, <1>1, TableExists
<1>3. SpendOf(R) = (CHOOSE u : Body(u))[S]
  BY DEF SpendOf, MapThenSumSet, MapThenFoldSet
<1>4. SumOf(g, S) = (CHOOSE u : Body(u))[S]
  <2> HIDE DEF Body, g, S
  <2> QED
    BY <1>0, <1>2, SumIsTables
<1>5. \A r \in R : Bill(R)[r] = r.qty * CashPrice[r.code] /\ Bill(R)[r] \in Nat
  <2> TAKE r \in R
  <2>1. r.qty \in Nat /\ r.code \in Names
    BY DEF Proposal
  <2>2. CashPrice[r.code] \in Nat
    BY <2>1, PricesAre
  <2>3. r.qty * CashPrice[r.code] \in Nat
    BY <2>1, <2>2
  <2> QED
    BY <2>3 DEF Bill
<1>6. \A r \in S : g[r] = Bill(R)[r] /\ g[r] \in Nat
  BY <1>0, <1>5
<1>7. SumOf(g, S) = SumOf(Bill(R), S) /\ SumOf(g, S) \in Nat
  <2> HIDE DEF g, S
  <2> QED
    BY <1>0, <1>6, SumOfSame, SumIsNat
<1> QED
  BY <1>0, <1>3, <1>4, <1>5, <1>7

LEMMA NavIs ==
    ASSUME Accounted
    PROVE  /\ SleeveNav \in Nat /\ Invested \in Nat /\ ValueIn(Scope) \in Nat
           /\ \A c \in Names : holding[c] > 0 => SleeveNav > 0
<1>1. ValueIn(Names) \in Nat /\ ValueIn(Scope) \in Nat /\ ValueIn(Names) = SumOf(HeldValues, Names)
  BY ScopeIs, ValueInIs
<1> DEFINE v == money + ValueIn(Names)
           w == sleeve.weight
<1>2. v \in Nat /\ w \in Nat /\ w >= 1 /\ SleeveNav = (v * w) \div 100
  <2>1. w \in 1..100 /\ money \in Nat
    BY SleeveIs DEF Accounted
  <2> QED
    BY <1>1, <2>1 DEF SleeveNav
<1>3. \A c \in Names : holding[c] > 0 => v >= 100
  <2> TAKE c \in Names
  <2> HAVE holding[c] > 0
  <2>1. HeldValues[c] = holding[c] * CashPrice[c] /\ \A d \in Names : HeldValues[d] \in Nat
    BY PricesAre DEF HeldValues
  <2>2. Price(c) > 0 /\ Price(c) \in Nat /\ CashPrice[c] = 100 * Price(c) /\ holding[c] \in Nat
    BY PricesAre
  <2>3. HeldValues[c] >= 100
    <3> DEFINE p == Price(c)
               h == holding[c]
    <3>1. p \in Nat /\ h \in Nat /\ p > 0 /\ h > 0 /\ HeldValues[c] = h * (100 * p)
      BY <2>1, <2>2
    <3> HIDE DEF p, h
    <3>2. h * (100 * p) >= 100
      <4>1. h * p \in Nat /\ h * p >= 1 /\ h * (100 * p) = 100 * (h * p)
        BY <3>1
      <4> QED
        BY <4>1
    <3> QED
      BY <3>1, <3>2
  <2>4. SumOf(HeldValues, Names) = HeldValues[c] + SumOf(HeldValues, Names \ {c})
    <3>1. \A d \in Names : HeldValues[d] \in Int
      BY <2>1
    <3> QED
      BY <3>1, FewNames, SumTakes
  <2>5. SumOf(HeldValues, Names \ {c}) \in Nat
    <3>1. IsFiniteSet(Names \ {c})
      BY FewNames, FS_Subset
    <3> QED
      BY <2>1, <3>1, SumIsNat
  <2> QED
    BY <1>1, <2>1, <2>3, <2>4, <2>5 DEF Accounted
<1> HIDE DEF v, w
<1>4. SleeveNav \in Nat /\ (v >= 100 => SleeveNav > 0)
  <2>1. v * w \in Nat
    BY <1>2
  <2>2. v >= 100 => v * w >= 100
    <3>1. \A x, y \in Nat : y >= 1 => x * y >= x
      OBVIOUS
    <3> QED
      BY <1>2, <2>1, <3>1
  <2> DEFINE z == v * w
  <2>3. z \in Nat /\ (v >= 100 => z >= 100) /\ SleeveNav = z \div 100
    BY <1>2, <2>1, <2>2
  <2> HIDE DEF z
  <2> QED
    BY <2>3
<1>5. Invested \in Nat
  <2>1. Min({SleeveNav, ValueIn(Scope)}) \in Nat
    <3>1. {SleeveNav, ValueIn(Scope)} \subseteq Nat /\ {SleeveNav, ValueIn(Scope)} # {}
      BY <1>1, <1>4
    <3>2. Min({SleeveNav, ValueIn(Scope)}) \in {SleeveNav, ValueIn(Scope)}
      BY <3>1, LeastIsMin
    <3> QED
      BY <3>1, <3>2
  <2> QED
    BY <1>4, <2>1 DEF Invested
<1> QED
  BY <1>1, <1>3, <1>4, <1>5

\* The months of the ramp count from one.
LEMMA RampStepIs == ASSUME Accounted PROVE RampStep \in Nat /\ RampStep >= 1
<1>1. /\ evening \in DOMAIN Evenings /\ 1 \in DOMAIN Evenings
      /\ \A d \in DOMAIN Evenings : Evenings[d] \in Nat
      /\ \A d, e \in DOMAIN Evenings : d <= e => Evenings[d] <= Evenings[e]
  <2>1. Evenings \in Seq(Nat \ {0}) /\ Evenings # <<>> /\ evening \in DOMAIN Evenings
        /\ \A d, e \in DOMAIN Evenings : d <= e => Evenings[d] <= Evenings[e]
    BY RulesAssumption DEF Accounted
  <2>2. DOMAIN Evenings = 1..Len(Evenings) /\ Len(Evenings) \in Nat /\ Len(Evenings) # 0
    BY <2>1, EmptySeq, LenProperties
  <2> QED
    BY <2>1, <2>2
<1>2. DOMAIN Evenings \subseteq Nat \ {0}
  <2>1. Evenings \in Seq(Nat \ {0})
    BY RulesAssumption
  <2>2. DOMAIN Evenings = 1..Len(Evenings) /\ Len(Evenings) \in Nat
    BY <2>1, LenProperties
  <2> QED
    BY <2>2
<1>3. Evenings[1] <= Evenings[evening]
  BY <1>1, <1>2
<1> QED
  BY <1>1, <1>3 DEF RampStep

\* A function that is built step by step.
Steps(h, n, S) == \A i \in 1..n : h[i] \in [S -> S]
Iteration(f, h, n, s0, S) ==
    f \in [0..n -> S] /\ f[0] = s0 /\ \A i \in 1..n : f[i] = h[i][f[i - 1]]

LEMMA Iterates ==
    ASSUME NEW n \in Nat, NEW S, NEW s0 \in S, NEW h, Steps(h, n, S)
    PROVE  \E f : Iteration(f, h, n, s0, S)
<1> USE DEF Steps
<1> DEFINE Has(m) == \E f \in [0..m -> S] : f[0] = s0 /\ \A i \in 1..m : f[i] = h[i][f[i - 1]]
           Bad == {m \in Nat : m <= n /\ ~Has(m)}
<1>1. Has(0)
  <2>1. [i \in 0..0 |-> s0] \in [0..0 -> S] /\ [i \in 0..0 |-> s0][0] = s0 /\ 1..0 = {}
    OBVIOUS
  <2> QED
    BY <2>1
<1>2. ASSUME NEW m \in Nat, m > 0, m <= n, Has(m - 1) PROVE Has(m)
  <2>1. PICK f \in [0..(m - 1) -> S] : f[0] = s0 /\ \A i \in 1..(m - 1) : f[i] = h[i][f[i - 1]]
    BY <1>2
  <2> DEFINE g == [i \in 0..m |-> IF i = m THEN h[m][f[m - 1]] ELSE f[i]]
  <2>2. m - 1 \in 0..(m - 1) /\ m \in 1..n
    BY <1>2
  <2>3. h[m][f[m - 1]] \in S
    BY <2>1, <2>2
  <2>4. \A i \in 0..m : i # m => i \in 0..(m - 1)
    BY <1>2
  <2>5. \A i \in 0..m : g[i] \in S
    BY <2>1, <2>3, <2>4
  <2>6. g \in [0..m -> S]
    BY <2>5
  <2>7. g[0] = s0
    BY <1>2, <2>1
  <2>8. \A i \in 1..m : g[i] = h[i][g[i - 1]]
    <3> TAKE i \in 1..m
    <3>1. CASE i = m
      <4>1. m \in 0..m /\ m - 1 \in 0..m /\ m - 1 # m
        BY <1>2
      <4> QED
        BY <3>1, <4>1
    <3>2. CASE i # m
      <4>1. i \in 0..m /\ i - 1 \in 0..m /\ i - 1 # m /\ i \in 1..(m - 1)
        BY <1>2, <3>2
      <4>2. g[i] = f[i] /\ g[i - 1] = f[i - 1]
        BY <3>2, <4>1
      <4> QED
        BY <2>1, <4>1, <4>2
    <3> QED
      BY <3>1, <3>2
  <2> HIDE DEF g
  <2> QED
    BY <2>6, <2>7, <2>8
<1> HIDE DEF Has
<1>3. Bad = {}
  <2>1. SUFFICES ASSUME Bad # {} PROVE FALSE
    OBVIOUS
  <2>2. Bad \subseteq Nat
    OBVIOUS
  <2>3. Min(Bad) \in Bad /\ \A b \in Bad : Min(Bad) <= b
    BY <2>1, <2>2, LeastIsMin
  <2>4. PICK m \in Bad : \A b \in Bad : m <= b
    BY <2>3
  <2>5. m \in Nat /\ m <= n /\ ~Has(m)
    BY <2>4
  <2>6. m > 0
    BY <1>1, <2>5
  <2>7. m - 1 \in Nat /\ m - 1 <= n /\ m - 1 \notin Bad
    BY <2>4, <2>5, <2>6
  <2>8. Has(m - 1)
    BY <2>7
  <2> QED
    BY <1>2, <2>5, <2>6, <2>8
<1>4. Has(n)
  BY <1>3
<1> QED
  BY <1>4 DEF Has, Iteration

\* Sequences in a row.
LEMMA FlattenIs ==
    ASSUME NEW T, NEW ss \in Seq(Seq(T))
    PROVE  FlattenSeq(ss) \in Seq(T)
<1> DEFINE n == Len(ss)
           Body(f) == f = [i \in 1..n |-> IF i = 1 THEN ss[i] ELSE f[i - 1] \o ss[i]]
           f == CHOOSE x : Body(x)
<1>0. n \in Nat /\ \A i \in 1..n : ss[i] \in Seq(T)
  OBVIOUS
<1>1. CASE n = 0
  <2>1. FlattenSeq(ss) = ss
    BY <1>1 DEF FlattenSeq
  <2>2. ss = <<>>
    BY <1>1
  <2> QED
    BY <2>1, <2>2
<1>2. CASE n # 0
  <2>1. FlattenSeq(ss) = f[n]
    BY <1>2 DEF FlattenSeq
  <2> HIDE DEF n
  <2> DEFINE h == [i \in 1..n |-> [s \in Seq(T) |-> s \o ss[i]]]
  <2>2. \A i \in 1..n : h[i] \in [Seq(T) -> Seq(T)]
    <3>1. \A i \in 1..n : \A s \in Seq(T) : s \o ss[i] \in Seq(T)
      BY <1>0, ConcatProperties
    <3> QED
      BY <3>1
  <2>3. <<>> \in Seq(T)
    OBVIOUS
  <2>4. PICK e \in [0..n -> Seq(T)] : e[0] = <<>> /\ \A i \in 1..n : e[i] = h[i][e[i - 1]]
    <3> DEFINE Q == Seq(T)
               z == <<>>
    <3>1. z \in Q /\ \A i \in 1..n : h[i] \in [Q -> Q]
      BY <2>2, <2>3
    <3> HIDE DEF h, Q, z
    <3>2. Steps(h, n, Q)
      BY <3>1 DEF Steps
    <3>3. \E x : Iteration(x, h, n, z, Q)
      BY <1>0, <3>1, <3>2, Iterates
    <3> QED
      BY <3>3 DEF Q, z, Iteration
  <2>5. \A i \in 1..n : e[i] = e[i - 1] \o ss[i] /\ e[i] \in Seq(T)
    <3>1. \A i \in 1..n : i - 1 \in 0..n /\ i \in 0..n
      BY <1>0
    <3> QED
      BY <2>4, <3>1
  <2>6. Body([i \in 1..n |-> e[i]])
    <3> DEFINE k == [i \in 1..n |-> e[i]]
    <3>1. \A i \in 1..n : k[i] = IF i = 1 THEN ss[i] ELSE k[i - 1] \o ss[i]
      <4> TAKE i \in 1..n
      <4>1. CASE i = 1
        <5>1. <<>> \o ss[1] = ss[1]
          BY <1>0, <4>1
        <5>2. e[1] = e[0] \o ss[1]
          <6>1. 1 \in 1..n /\ 1 - 1 = 0
            BY <4>1
          <6> QED
            BY <2>5, <6>1
        <5>3. k[1] = e[1]
          BY <4>1
        <5> HIDE DEF k
        <5> QED
          BY <2>4, <4>1, <5>1, <5>2, <5>3
      <4>2. CASE i # 1
        <5>1. i - 1 \in 1..n
          BY <1>0, <4>2
        <5> QED
          BY <2>5, <4>2, <5>1
      <4> QED
        BY <4>1, <4>2
    <3> QED
      BY <3>1
  <2>7. Body(f)
    <3> HIDE DEF Body
    <3> QED
      BY <2>6
  <2>8. \A i \in 1..n : f[i] = IF i = 1 THEN ss[i] ELSE f[i - 1] \o ss[i]
    <3> HIDE DEF f
    <3> QED
      BY <2>7
  <2> HIDE DEF Body, f
  <2> DEFINE Bad == {i \in 1..n : f[i] \notin Seq(T)}
  <2>9. Bad = {}
    <3>1. SUFFICES ASSUME Bad # {} PROVE FALSE
      OBVIOUS
    <3>2. Bad \subseteq Nat
      OBVIOUS
    <3>3. Min(Bad) \in Bad /\ \A b \in Bad : Min(Bad) <= b
      BY <3>1, <3>2, LeastIsMin
    <3>4. PICK m \in Bad : \A b \in Bad : m <= b
      BY <3>3
    <3>5. CASE m = 1
      BY <1>0, <2>8, <3>4, <3>5
    <3>6. CASE m # 1
      <4>1. m - 1 \in 1..n /\ ~(m <= m - 1)
        BY <1>0, <3>4, <3>6
      <4>2. f[m - 1] \in Seq(T)
        BY <3>4, <4>1
      <4>3. f[m - 1] \o ss[m] \in Seq(T)
        BY <1>0, <3>4, <4>2, ConcatProperties
      <4> QED
        BY <2>8, <3>4, <3>6, <4>3
    <3> QED
      BY <3>5, <3>6
  <2>10. n \in 1..n
    BY <1>0, <1>2
  <2>11. f[n] \in Seq(T)
    BY <2>9, <2>10
  <2> QED
    BY <2>1, <2>11
<1> QED
  BY <1>1, <1>2

\* What is left of the ramp's budget after some drafts, in their order.
LeftBody(f, D) == f = [i \in 0..Len(D) |->
    IF i = 0 THEN RampBudget ELSE LET budget == f[i - 1] IN budget - Spent(Cut(D[i], budget))]
Left(D) == CHOOSE f : LeftBody(f, D)
Trimmed(D) == [i \in DOMAIN D |-> Cut(D[i], Left(D)[i - 1])]

LEMMA BudgetIs ==
    ASSUME Accounted, sleeve.ramp # 0
    PROVE  /\ RampBudget \in Nat
           /\ RampBudget > 0 => sleeve.ramp * (ValueIn(Scope) + RampBudget) <= SleeveNav * RampStep
<1> DEFINE z == SleeveNav * RampStep
           r == sleeve.ramp
           v == ValueIn(Scope)
           q == z \div r
<1>1. z \in Nat /\ r \in Nat /\ r > 0 /\ v \in Nat
  <2>1. sleeve.ramp \in Nat /\ SleeveNav \in Nat /\ RampStep \in Nat /\ v \in Nat
    BY NavIs, RampStepIs, SleeveIs DEF Accounted
  <2> QED
    BY <2>1
<1>2. RampBudget = Max({0, q - v})
  BY DEF RampBudget
<1> HIDE DEF z, r, v
<1>3. q \in Nat /\ r * q <= z
  BY <1>1
<1> HIDE DEF q
<1>4. RampBudget = IF 0 >= q - v THEN 0 ELSE q - v
  <2>1. q - v \in Int
    BY <1>1, <1>3
  <2> QED
    BY <1>2, <2>1, LargerOf
<1>5. RampBudget \in Nat /\ (RampBudget > 0 => v + RampBudget = q)
  BY <1>1, <1>3, <1>4
<1>6. RampBudget > 0 => r * (v + RampBudget) <= z
  BY <1>3, <1>5
<1> QED
  BY <1>5, <1>6 DEF r, v, z

LEMMA CutIs ==
    ASSUME Accounted, NEW d \in Fitting, NEW budget \in Nat
    PROVE  /\ Cut(d, budget).code = d.code /\ Cut(d, budget).side = d.side
           /\ Cut(d, budget).rule = d.rule
           /\ Cut(d, budget).qty \in Nat /\ Cut(d, budget).qty <= d.qty
           /\ Cut(d, budget).qty > 0 => Cut(d, budget) \in Fitting
           /\ d.side = "SELL" => Cut(d, budget) = d
           /\ Spent(Cut(d, budget)) \in Nat /\ Spent(Cut(d, budget)) <= budget
<1> DEFINE x == Cut(d, budget)
<1>1. /\ d \in Proposal /\ d.code \in Names /\ d.side \in {"SELL", "BUY"} /\ d.qty \in Nat \ {0}
      /\ d.rule \in Rules
  BY DEF Fitting, Proposal, Sides
<1>2. CashPrice[d.code] \in Nat /\ CashPrice[d.code] = 100 * Price(d.code) /\ Price(d.code) \in Nat
  BY <1>1, PricesAre
<1>3. CASE d.side = "SELL"
  <2>1. x = [d EXCEPT !.qty = d.qty]
    BY <1>3 DEF Cut
  <2>2. x = d
    BY <1>1, <2>1 DEF Proposal
  <2>3. Spent(x) = 0
    BY <1>3, <2>2 DEF Spent
  <2> HIDE DEF x
  <2> QED
    BY <1>1, <2>2, <2>3 DEF x
<1>4. CASE d.side = "BUY"
  <2> DEFINE p == CashPrice[d.code]
             k == Min({d.qty, budget \div p})
  <2>1. Price(d.code) > 0
    BY <1>4 DEF Fitting
  <2>2. p \in Nat /\ p > 0
    BY <1>2, <2>1
  <2>3. x = [d EXCEPT !.qty = k]
    BY <1>4 DEF Cut
  <2> HIDE DEF p
  <2>4. budget \div p \in Nat /\ (budget \div p) * p <= budget
    BY <2>2
  <2>5. k \in Nat /\ k <= d.qty /\ k <= budget \div p
    <3>1. {d.qty, budget \div p} \subseteq Nat /\ {d.qty, budget \div p} # {}
      BY <1>1, <2>4
    <3>2. k \in {d.qty, budget \div p} /\ \A y \in {d.qty, budget \div p} : k <= y
      BY <3>1, LeastIsMin
    <3> HIDE DEF k
    <3> QED
      BY <3>1, <3>2
  <2> HIDE DEF k
  <2>6. /\ x.code = d.code /\ x.side = d.side /\ x.rule = d.rule /\ x.qty = k
        /\ x \in [code : Names, side : Sides, qty : Nat, rule : Rules]
    BY <1>1, <2>3, <2>5 DEF Proposal
  <2> HIDE DEF x
  <2>7. Spent(x) = k * p
    BY <1>4, <2>6 DEF Spent, p
  <2>8. k * p \in Nat /\ k * p <= budget
    <3> DEFINE q == budget \div p
    <3>1. q \in Nat /\ q * p <= budget /\ k <= q
      BY <2>4, <2>5
    <3> HIDE DEF q
    <3>2. k * p <= q * p /\ k * p \in Nat /\ q * p \in Nat
      BY <2>2, <2>5, <3>1
    <3> QED
      BY <3>1, <3>2
  <2>9. x.qty > 0 => x \in Proposal
    BY <2>6, <2>5 DEF Proposal
  <2>10. x.qty > 0 => x \in Fitting
    BY <1>4, <2>1, <2>6, <2>9 DEF Fitting
  <2> QED
    BY <1>4, <2>5, <2>6, <2>7, <2>8, <2>10 DEF x
<1> QED
  BY <1>1, <1>3, <1>4

LeftIsSo(f, D) == /\ f \in [0..Len(D) -> Nat] /\ f[0] = RampBudget
                  /\ \A i \in 1..Len(D) : f[i] = f[i - 1] - Spent(Cut(D[i], f[i - 1]))

LEMMA LeftIs ==
    ASSUME Accounted, sleeve.ramp # 0, NEW D \in Seq(Fitting)
    PROVE  LeftIsSo(Left(D), D)
<1> DEFINE n == Len(D)
           f == Left(D)
           h == [i \in 1..n |-> [b \in Nat |-> b - Spent(Cut(D[i], b))]]
<1>0. n \in Nat /\ (\A i \in 1..n : D[i] \in Fitting) /\ RampBudget \in Nat
  BY BudgetIs
<1>1. \A i \in 1..n : \A b \in Nat : b - Spent(Cut(D[i], b)) \in Nat
  <2> TAKE i \in 1..n
  <2> TAKE b \in Nat
  <2>1. Spent(Cut(D[i], b)) \in Nat /\ Spent(Cut(D[i], b)) <= b
    BY <1>0, CutIs
  <2> QED
    BY <2>1
<1>2. Steps(h, n, Nat)
  <2> HIDE DEF n
  <2> QED
    BY <1>1 DEF Steps
<1>3. PICK e : Iteration(e, h, n, RampBudget, Nat)
  <2> HIDE DEF h, n
  <2> QED
    BY <1>0, <1>2, Iterates
<1>4. e \in [0..n -> Nat] /\ e[0] = RampBudget /\ \A i \in 1..n : e[i] = e[i - 1] - Spent(Cut(D[i], e[i - 1]))
  <2>1. e \in [0..n -> Nat] /\ e[0] = RampBudget /\ \A i \in 1..n : e[i] = h[i][e[i - 1]]
    BY <1>3 DEF Iteration
  <2>2. \A i \in 1..n : e[i - 1] \in Nat
    <3>1. \A i \in 1..n : i - 1 \in 0..n
      BY <1>0
    <3> QED
      BY <2>1, <3>1
  <2> QED
    BY <2>1, <2>2
<1>5. \E x : LeftBody(x, D)
  <2> HIDE DEF h
  <2>1. \A i \in 0..n : e[i] = IF i = 0 THEN RampBudget
                               ELSE LET budget == e[i - 1] IN budget - Spent(Cut(D[i], budget))
    <3>1. \A i \in 0..n : i # 0 => i \in 1..n
      BY <1>0
    <3> QED
      BY <1>4, <3>1
  <2>2. e = [i \in 0..n |-> IF i = 0 THEN RampBudget
                            ELSE LET budget == e[i - 1] IN budget - Spent(Cut(D[i], budget))]
    BY <1>4, <2>1
  <2>3. LeftBody(e, D)
    BY <2>2 DEF LeftBody
  <2> QED
    BY <2>3
<1>6. LeftBody(f, D)
  BY <1>5 DEF Left
<1> HIDE DEF f, h
<1>7. \A i \in 0..n : f[i] = IF i = 0 THEN RampBudget ELSE f[i - 1] - Spent(Cut(D[i], f[i - 1]))
  BY <1>6 DEF LeftBody
<1>8. f = [i \in 0..n |-> f[i]]
  BY <1>6 DEF LeftBody
<1> HIDE DEF n
<1>9. f[0] = RampBudget /\ \A i \in 1..n : f[i] = f[i - 1] - Spent(Cut(D[i], f[i - 1]))
  <2>1. 0 \in 0..n /\ \A i \in 1..n : i \in 0..n /\ i # 0
    BY <1>0
  <2> QED
    BY <1>7, <2>1
<1> DEFINE Bad == {i \in 0..n : f[i] \notin Nat}
<1>10. Bad = {}
  <2>1. SUFFICES ASSUME Bad # {} PROVE FALSE
    OBVIOUS
  <2>2. Bad \subseteq Nat
    OBVIOUS
  <2>3. Min(Bad) \in Bad /\ \A b \in Bad : Min(Bad) <= b
    BY <2>1, <2>2, LeastIsMin
  <2>4. PICK m \in Bad : \A b \in Bad : m <= b
    BY <2>3
  <2>5. m # 0 /\ m \in 1..n
    BY <1>0, <1>9, <2>4
  <2>6. m - 1 \in 0..n /\ ~(m <= m - 1)
    BY <1>0, <2>5
  <2>7. f[m - 1] \in Nat
    BY <2>4, <2>6
  <2> QED
    BY <1>1, <1>9, <2>4, <2>5, <2>7
<1>11. f \in [0..n -> Nat]
  BY <1>8, <1>10
<1> QED
  BY <1>9, <1>11 DEF f, n, LeftIsSo

\* A proposal before what is empty is dropped, and what it costs.
Drafts == [code : Names, side : Sides, qty : Nat, rule : Rules]
Costs == [d \in Drafts |-> d.qty * CashPrice[d.code]]

LEMMA CostsAre ==
    ASSUME Accounted, NEW d \in Drafts
    PROVE  /\ Costs[d] = d.qty * CashPrice[d.code] /\ Costs[d] \in Nat
           /\ d.side = "BUY" => Spent(d) = Costs[d]
<1>1. d.qty \in Nat /\ d.code \in Names
  BY DEF Drafts
<1>2. CashPrice[d.code] \in Nat
  BY <1>1, PricesAre
<1>3. d.qty * CashPrice[d.code] \in Nat
  BY <1>1, <1>2
<1>4. Costs[d] = d.qty * CashPrice[d.code]
  BY DEF Costs
<1>5. d.side = "BUY" => Spent(d) = d.qty * CashPrice[d.code]
  BY DEF Spent
<1> QED
  BY <1>3, <1>4, <1>5

LEMMA TrimmedIs ==
    ASSUME Accounted, sleeve.ramp # 0, NEW D \in Seq(Fitting), NEW i \in 1..Len(D)
    PROVE  /\ Trimmed(D)[i] = Cut(D[i], Left(D)[i - 1]) /\ D[i] \in Fitting /\ Left(D)[i - 1] \in Nat
           /\ Trimmed(D)[i] \in Drafts
           /\ Left(D)[i] \in Nat /\ Spent(Trimmed(D)[i]) \in Nat
           /\ Left(D)[i] = Left(D)[i - 1] - Spent(Trimmed(D)[i])
<1>1. i - 1 \in 0..Len(D) /\ i \in 0..Len(D) /\ i \in DOMAIN D
  OBVIOUS
<1>2. /\ Left(D)[i - 1] \in Nat /\ Left(D)[i] \in Nat
      /\ Left(D)[i] = Left(D)[i - 1] - Spent(Cut(D[i], Left(D)[i - 1]))
  BY <1>1, LeftIs DEF LeftIsSo
<1>3. D[i] \in Fitting
  OBVIOUS
<1>4. Trimmed(D)[i] = Cut(D[i], Left(D)[i - 1])
  BY <1>1 DEF Trimmed
<1> DEFINE b == Left(D)[i - 1]
           d == D[i]
<1>5. /\ Cut(d, b).qty \in Nat /\ Spent(Cut(d, b)) \in Nat
      /\ Cut(d, b).code = d.code /\ Cut(d, b).side = d.side /\ Cut(d, b).rule = d.rule
  BY <1>2, <1>3, CutIs
<1>6. Cut(d, b) \in Drafts
  <2>1. d \in Drafts
    BY <1>3 DEF Fitting, Proposal, Drafts
  <2>2. Cut(d, b) = [d EXCEPT !.qty = Cut(d, b).qty]
    <3> DEFINE q == IF d.side = "SELL" THEN d.qty ELSE Min({d.qty, b \div CashPrice[d.code]})
    <3>1. Cut(d, b) = [d EXCEPT !.qty = q]
      BY DEF Cut
    <3> HIDE DEF q, d, b
    <3>2. Cut(d, b).qty = q
      BY <2>1, <3>1 DEF Drafts
    <3> QED
      BY <3>1, <3>2
  <2> DEFINE k == Cut(d, b).qty
  <2>3. k \in Nat /\ Cut(d, b) = [d EXCEPT !.qty = k]
    BY <1>5, <2>2
  <2> HIDE DEF k, d, b
  <2> QED
    BY <2>1, <2>3 DEF Drafts
<1> QED
  BY <1>2, <1>3, <1>4, <1>5, <1>6

\* Purchases cut one after the other cost no more than the budget together.
LEMMA CutsFit ==
    ASSUME Accounted, sleeve.ramp # 0, NEW D \in Seq(Fitting), NEW B0, IsFiniteSet(B0),
           \A b \in B0 : b.side = "BUY" /\ \E k \in 1..Len(D) : b = Trimmed(D)[k]
    PROVE  SumOf(Costs, B0) <= RampBudget
<1> DEFINE n == Len(D)
           f == Left(D)
           t == Trimmed(D)
           Upto(i) == {x \in B0 : \E k \in 1..i : x = t[k]}
           Claim(i) == \A B \in SUBSET Upto(i) : SumOf(Costs, B) + f[i] <= RampBudget
           Bad == {i \in 0..n : ~Claim(i)}
<1>0. n \in Nat /\ RampBudget \in Nat /\ f[0] = RampBudget
  BY BudgetIs, LeftIs DEF LeftIsSo
<1>1. \A i \in 1..n : /\ t[i] \in Drafts /\ f[i - 1] \in Nat /\ f[i] \in Nat /\ Spent(t[i]) \in Nat
                      /\ f[i] = f[i - 1] - Spent(t[i])
  <2> TAKE i \in 1..n
  <2> HIDE DEF n, t
  <2> QED
    BY TrimmedIs DEF t, n
<1> HIDE DEF f, t, n
<1>2. \A b \in B0 : b \in Drafts /\ Costs[b] \in Nat /\ Spent(b) = Costs[b]
  <2> TAKE b \in B0
  <2>1. b \in Drafts /\ b.side = "BUY"
    BY <1>1 DEF t, n
  <2> QED
    BY <2>1, CostsAre
<1>3. Claim(0)
  <2>1. Upto(0) = {}
    OBVIOUS
  <2>2. SumOf(Costs, {}) = 0
    BY SumOfNone
  <2>3. \A B \in SUBSET {} : SumOf(Costs, B) + f[0] <= RampBudget
    <3>1. \A B \in SUBSET {} : B = {}
      OBVIOUS
    <3>2. SumOf(Costs, {}) + f[0] <= RampBudget
      BY <1>0, <2>2
    <3> QED
      BY <3>1, <3>2
  <2> QED
    BY <2>1, <2>3
<1>4. ASSUME NEW i \in 1..n, Claim(i - 1) PROVE Claim(i)
  <2> SUFFICES ASSUME NEW B \in SUBSET Upto(i) PROVE SumOf(Costs, B) + f[i] <= RampBudget
    OBVIOUS
  <2>1. IsFiniteSet(B) /\ B \in SUBSET B0 /\ \A b \in B : Costs[b] \in Int
    BY <1>2, FS_Subset
  <2>2. /\ f[i - 1] \in Nat /\ f[i] \in Nat /\ Spent(t[i]) \in Nat /\ f[i] = f[i - 1] - Spent(t[i])
    BY <1>1
  <2>3. \A b \in B : b # t[i] => b \in Upto(i - 1)
    <3> TAKE b \in B
    <3> HAVE b # t[i]
    <3>1. PICK k \in 1..i : b = t[k]
      OBVIOUS
    <3>2. k \in 1..(i - 1)
      BY <1>0, <3>1
    <3> QED
      BY <2>1, <3>1, <3>2
  <2>4. \A A \in SUBSET Upto(i - 1) : SumOf(Costs, A) + f[i - 1] <= RampBudget
    BY <1>4
  <2> HIDE DEF Upto, Claim
  <2>5. CASE t[i] \in B
    <3>1. B \ {t[i]} \in SUBSET Upto(i - 1)
      BY <2>3
    <3>2. SumOf(Costs, B \ {t[i]}) + f[i - 1] <= RampBudget
      BY <2>4, <3>1
    <3>3. SumOf(Costs, B) = Costs[t[i]] + SumOf(Costs, B \ {t[i]})
      BY <2>1, <2>5, SumTakes
    <3>4. Costs[t[i]] = Spent(t[i])
      BY <1>2, <2>1, <2>5
    <3>5. SumOf(Costs, B \ {t[i]}) \in Int
      <4>1. IsFiniteSet(B \ {t[i]})
        BY <2>1, FS_Subset
      <4> QED
        BY <2>1, <4>1, SumIsInt
    <3> QED
      BY <1>0, <2>2, <3>2, <3>3, <3>4, <3>5
  <2>6. CASE t[i] \notin B
    <3>1. B \in SUBSET Upto(i - 1)
      BY <2>3, <2>6
    <3>2. SumOf(Costs, B) + f[i - 1] <= RampBudget
      BY <2>4, <3>1
    <3>3. SumOf(Costs, B) \in Int
      BY <2>1, SumIsInt
    <3> QED
      BY <1>0, <2>2, <3>2, <3>3
  <2> QED
    BY <2>5, <2>6
<1> HIDE DEF Claim
<1>5. Bad = {}
  <2>1. SUFFICES ASSUME Bad # {} PROVE FALSE
    OBVIOUS
  <2>2. Bad \subseteq Nat
    BY <1>0
  <2>3. Min(Bad) \in Bad /\ \A b \in Bad : Min(Bad) <= b
    BY <2>1, <2>2, LeastIsMin
  <2>4. PICK m \in Bad : \A b \in Bad : m <= b
    BY <2>3
  <2>5. m \in 1..n /\ ~Claim(m)
    <3>1. m # 0 /\ m \in 0..n /\ ~Claim(m)
      BY <1>3, <2>4
    <3> QED
      BY <1>0, <3>1
  <2>6. m - 1 \in 0..n /\ ~(m <= m - 1)
    BY <1>0, <2>5
  <2>7. Claim(m - 1)
    BY <2>4, <2>6
  <2> QED
    BY <1>4, <2>5, <2>7
<1>6. Claim(n) /\ n \in 0..n
  BY <1>0, <1>5
<1>7. B0 \in SUBSET Upto(n)
  BY DEF t, n
<1>8. f[n] \in Nat
  <2>1. n = 0 \/ n \in 1..n
    BY <1>0
  <2> QED
    BY <1>0, <1>1, <2>1
<1>9. SumOf(Costs, B0) \in Int
  BY <1>2, SumIsInt
<1> HIDE DEF Upto
<1>10. SumOf(Costs, B0) + f[n] <= RampBudget
  BY <1>6, <1>7 DEF Claim
<1> QED
  BY <1>0, <1>8, <1>9, <1>10

LEMMA RampedDef ==
    ASSUME NEW D
    PROVE  Ramped(D) = IF sleeve.ramp = 0 \/ RampStep >= sleeve.ramp THEN D
                       ELSE Chosen(Trimmed(D), {i \in DOMAIN Trimmed(D) : Trimmed(D)[i].qty > 0})
  BY DEF Ramped, Trimmed, Left, LeftBody

Among(proposed, D) == \A r \in proposed : \E k \in DOMAIN D : r = D[k]

LEMMA RampedIs ==
    ASSUME Accounted, NEW D \in Seq(Fitting)
    PROVE  /\ Ramped(D) \in Seq(Fitting)
           /\ \A k \in DOMAIN Ramped(D) : sleeve.ramp = 0 \/ RampStep >= sleeve.ramp
                                            \/ \E i \in 1..Len(D) : Ramped(D)[k] = Trimmed(D)[i]
           /\ \A i \in DOMAIN D : D[i].side = "SELL" =>
                                    \E k \in DOMAIN Ramped(D) : Ramped(D)[k] = D[i]
<1> DEFINE E == Ramped(D)
           t == Trimmed(D)
           keep == {i \in DOMAIN t : t[i].qty > 0}
<1>1. CASE sleeve.ramp = 0 \/ RampStep >= sleeve.ramp
  <2>1. E = D
    BY <1>1, RampedDef
  <2> QED
    BY <1>1, <2>1
<1>2. CASE ~(sleeve.ramp = 0 \/ RampStep >= sleeve.ramp)
  <2>1. E = Chosen(t, keep)
    BY <1>2, RampedDef
  <2>2. DOMAIN t = 1..Len(D) /\ DOMAIN D = 1..Len(D) /\ Len(D) \in Nat
    BY DEF Trimmed
  <2>3. \A i \in 1..Len(D) :
           /\ t[i] = Cut(D[i], Left(D)[i - 1]) /\ D[i] \in Fitting /\ Left(D)[i - 1] \in Nat
           /\ t[i] \in Drafts
    BY <1>2, TrimmedIs
  <2>4. t \in Seq(Drafts)
    <3>1. t = [i \in 1..Len(D) |-> t[i]]
      BY <2>2 DEF Trimmed
    <3> HIDE DEF t
    <3>2. t \in [1..Len(D) -> Drafts]
      BY <2>3, <3>1
    <3> QED
      BY <2>2, <3>2
  <2> HIDE DEF E, t
  <2>5. keep \in SUBSET (DOMAIN t) /\ \A i \in keep : t[i].qty > 0
    OBVIOUS
  <2> HIDE DEF keep
  <2>6. /\ E \in Seq(Drafts) /\ \A i \in keep : \E k \in DOMAIN E : E[k] = t[i]
        /\ \A k \in DOMAIN E : InOrder(keep)[k] \in keep /\ E[k] = t[InOrder(keep)[k]]
    BY <2>1, <2>4, <2>5, ChosenIs
  <2>7. \A i \in keep : i \in 1..Len(D) /\ t[i] \in Fitting
    <3> TAKE i \in keep
    <3>1. i \in 1..Len(D) /\ t[i].qty > 0
      BY <2>2, <2>5
    <3>2. t[i] = Cut(D[i], Left(D)[i - 1]) /\ D[i] \in Fitting /\ Left(D)[i - 1] \in Nat
      BY <2>3, <3>1
    <3> QED
      BY <3>1, <3>2, CutIs
  <2>8. \A k \in DOMAIN E : E[k] \in Fitting
    BY <2>6, <2>7
  <2>9. E \in Seq(Fitting)
    <3>1. E = [k \in 1..Len(E) |-> E[k]] /\ Len(E) \in Nat /\ DOMAIN E = 1..Len(E)
      BY <2>6
    <3>2. E \in [1..Len(E) -> Fitting]
      BY <2>8, <3>1
    <3> QED
      BY <3>1, <3>2
  <2>10. \A k \in DOMAIN E : \E i \in 1..Len(D) : E[k] = t[i]
    BY <2>6, <2>7
  <2>11. ASSUME NEW i \in DOMAIN D, D[i].side = "SELL" PROVE \E k \in DOMAIN E : E[k] = D[i]
    <3>1. t[i] = Cut(D[i], Left(D)[i - 1]) /\ D[i] \in Fitting /\ Left(D)[i - 1] \in Nat
      BY <2>2, <2>3
    <3>2. t[i] = D[i]
      BY <2>11, <3>1, CutIs
    <3>3. D[i].qty > 0
      BY <3>1 DEF Fitting, Proposal
    <3>4. i \in keep
      BY <2>2, <3>2, <3>3 DEF keep
    <3> QED
      BY <2>6, <3>2, <3>4
  <2> QED
    BY <2>9, <2>10, <2>11 DEF E, t
<1> QED
  BY <1>1, <1>2

LEMMA RampKept ==
    ASSUME Accounted, NEW D \in Seq(Fitting), NEW R, Among(R, Ramped(D)), IsFiniteSet(R)
    PROVE  RampFits(R)
<1> DEFINE P == Purchases(R)
           s == SumOf(Costs, P)
<1>1. SUFFICES ASSUME RampStep < sleeve.ramp, NEW r0 \in R, r0.side = "BUY"
               PROVE  sleeve.ramp * (ValueIn(Scope) + SpendOf(R)) <= SleeveNav * RampStep
  BY DEF RampFits
<1>2. RampStep \in Nat /\ RampStep >= 1 /\ sleeve.ramp \in Nat
  BY RampStepIs, SleeveIs DEF Accounted
<1>3. sleeve.ramp # 0 /\ ~(RampStep >= sleeve.ramp)
  BY <1>1, <1>2
<1>4. /\ Ramped(D) \in Seq(Fitting)
      /\ \A k \in DOMAIN Ramped(D) : \E i \in 1..Len(D) : Ramped(D)[k] = Trimmed(D)[i]
  BY <1>3, RampedIs
<1>5. \A r \in R : r \in Fitting /\ \E i \in 1..Len(D) : r = Trimmed(D)[i]
  BY <1>4 DEF Among
<1>6. R \subseteq Proposal
  BY <1>5 DEF Fitting
<1>7. /\ SpendOf(R) = SumOf(Bill(R), P) /\ SpendOf(R) \in Nat
      /\ \A r \in R : Bill(R)[r] = r.qty * CashPrice[r.code]
      /\ IsFiniteSet(P) /\ P \subseteq R
  BY <1>6, SpendIs
<1>8. \A r \in R : Costs[r] = r.qty * CashPrice[r.code] /\ Costs[r] \in Nat
  <2> TAKE r \in R
  <2>1. r \in Drafts
    BY <1>6 DEF Proposal, Drafts
  <2> QED
    BY <2>1, CostsAre
<1>9. SpendOf(R) = s
  <2>1. \A r \in P : Bill(R)[r] = Costs[r]
    BY <1>7, <1>8
  <2>2. SumOf(Bill(R), P) = SumOf(Costs, P)
    <3> HIDE DEF P
    <3> QED
      BY <1>7, <2>1, SumOfSame
  <2> QED
    BY <1>7, <2>2
<1>10. s <= RampBudget
  <2>1. \A b \in P : b.side = "BUY" /\ \E k \in 1..Len(D) : b = Trimmed(D)[k]
    BY <1>5 DEF Purchases
  <2> HIDE DEF P
  <2> QED
    BY <1>3, <1>7, <2>1, CutsFit
<1>11. s > 0
  <2>1. r0 \in P
    BY <1>1 DEF Purchases
  <2> HIDE DEF P
  <2>2. \A r \in P : Costs[r] \in Int /\ Costs[r] \in Nat
    BY <1>7, <1>8
  <2>3. s = Costs[r0] + SumOf(Costs, P \ {r0})
    BY <1>7, <2>1, <2>2, SumTakes
  <2>4. SumOf(Costs, P \ {r0}) \in Nat
    <3>1. IsFiniteSet(P \ {r0})
      BY <1>7, FS_Subset
    <3> QED
      BY <2>2, <3>1, SumIsNat
  <2>5. Costs[r0] > 0
    <3>1. r0.qty \in Nat /\ r0.qty > 0 /\ r0.code \in Names /\ Price(r0.code) > 0
      BY <1>1, <1>5 DEF Fitting, Proposal
    <3>2. CashPrice[r0.code] = 100 * Price(r0.code) /\ Price(r0.code) \in Nat
      BY <3>1, PricesAre
    <3> DEFINE p == CashPrice[r0.code]
               q == r0.qty
    <3>3. p \in Nat /\ p > 0 /\ q \in Nat /\ q > 0
      BY <3>1, <3>2
    <3> HIDE DEF p, q
    <3>4. q * p > 0
      BY <3>3
    <3> QED
      BY <1>8, <3>4 DEF p, q
  <2> HIDE DEF s
  <2>6. Costs[r0] \in Nat
    BY <2>1, <2>2
  <2> QED
    BY <2>3, <2>4, <2>5, <2>6
<1>12. /\ RampBudget \in Nat
       /\ RampBudget > 0 => sleeve.ramp * (ValueIn(Scope) + RampBudget) <= SleeveNav * RampStep
  BY <1>3, BudgetIs
<1>13. ValueIn(Scope) \in Nat /\ SleeveNav \in Nat
  BY NavIs
<1> DEFINE v == ValueIn(Scope)
           m == sleeve.ramp
           z == SleeveNav * RampStep
<1>14. s \in Nat /\ v \in Nat /\ m \in Nat /\ z \in Nat
  BY <1>2, <1>7, <1>9, <1>13
<1>15. m * (v + RampBudget) <= z
  <2> HIDE DEF s
  <2> QED
    BY <1>10, <1>11, <1>12, <1>14
<1> HIDE DEF s, v, m, z
<1>16. m * (v + s) <= m * (v + RampBudget)
  <2>1. \A x, y \in Nat : x <= y => m * x <= m * y
    BY <1>14
  <2> QED
    BY <1>10, <1>12, <1>14, <2>1
<1>17. m * (v + s) \in Nat /\ m * (v + RampBudget) \in Nat
  BY <1>12, <1>14
<1>18. m * (v + s) <= z
  BY <1>14, <1>15, <1>16, <1>17
<1> QED
  BY <1>9, <1>18 DEF v, m, z

\* A draft without another for its code and side.
Sole(D, x) ==
    /\ \E i \in DOMAIN D : D[i] = x
    /\ \A k \in DOMAIN D : D[k].code = x.code /\ D[k].side = x.side => D[k] = x

LEMMA KeptIs ==
    ASSUME NEW D \in Seq(Fitting)
    PROVE  /\ KeptAfterRejection(D) \in Seq(Fitting)
           /\ \A x : Sole(D, x) /\ x.rule = "STOP_LOSS" => Sole(KeptAfterRejection(D), x)
<1> DEFINE keep == {i \in DOMAIN D : \/ D[i].rule \in {"STOP_LOSS", "TAKE_PROFIT", "REGIME_DERISK"}
                                     \/ <<D[i].code, D[i].side>> \notin refused}
           K == KeptAfterRejection(D)
<1>1. K = Chosen(D, keep) /\ keep \in SUBSET (DOMAIN D)
  BY DEF KeptAfterRejection
<1>2. \A i \in DOMAIN D : D[i].rule = "STOP_LOSS" => i \in keep
  OBVIOUS
<1> HIDE DEF K, keep
<1>3. /\ K \in Seq(Fitting) /\ \A i \in keep : \E k \in DOMAIN K : K[k] = D[i]
      /\ \A k \in DOMAIN K : InOrder(keep)[k] \in keep /\ K[k] = D[InOrder(keep)[k]]
  BY <1>1, ChosenIs
<1>4. ASSUME NEW x, Sole(D, x), x.rule = "STOP_LOSS" PROVE Sole(K, x)
  <2>1. PICK i \in DOMAIN D : D[i] = x
    BY <1>4 DEF Sole
  <2>2. \E k \in DOMAIN K : K[k] = x
    BY <1>2, <1>3, <1>4, <2>1
  <2>3. \A k \in DOMAIN K : \E j \in DOMAIN D : K[k] = D[j]
    BY <1>1, <1>3
  <2>4. \A j \in DOMAIN D : D[j].code = x.code /\ D[j].side = x.side => D[j] = x
    BY <1>4 DEF Sole
  <2> QED
    BY <2>2, <2>3, <2>4 DEF Sole
<1> QED
  BY <1>3, <1>4 DEF K

LEMMA RampedSales ==
    ASSUME Accounted, NEW D \in Seq(Fitting), NEW x, Sole(D, x), x.side = "SELL"
    PROVE  Sole(Ramped(D), x)
<1> DEFINE E == Ramped(D)
           t == Trimmed(D)
<1>1. \E k \in DOMAIN E : E[k] = x
  BY RampedIs DEF Sole
<1>2. \A j \in DOMAIN D : D[j].code = x.code /\ D[j].side = x.side => D[j] = x
  BY DEF Sole
<1>3. CASE sleeve.ramp = 0 \/ RampStep >= sleeve.ramp
  <2>1. E = D
    BY <1>3, RampedDef
  <2> QED
    BY <2>1
<1>4. CASE ~(sleeve.ramp = 0 \/ RampStep >= sleeve.ramp)
  <2>1. \A k \in DOMAIN E : \E i \in 1..Len(D) : E[k] = t[i]
    BY <1>4, RampedIs
  <2>2. ASSUME NEW k \in DOMAIN E, E[k].code = x.code, E[k].side = x.side PROVE E[k] = x
    <3>1. PICK i \in 1..Len(D) : E[k] = t[i]
      BY <2>1
    <3>2. t[i] = Cut(D[i], Left(D)[i - 1]) /\ D[i] \in Fitting /\ Left(D)[i - 1] \in Nat
      BY <1>4, TrimmedIs
    <3>3. t[i].code = D[i].code /\ t[i].side = D[i].side /\ (D[i].side = "SELL" => t[i] = D[i])
      <4>1. ASSUME NEW d \in Fitting, NEW b \in Nat, NEW c, c = Cut(d, b)
            PROVE  c.code = d.code /\ c.side = d.side /\ (d.side = "SELL" => c = d)
        BY <4>1, CutIs
      <4> HIDE DEF t
      <4> QED
        BY <3>2, <4>1
    <3>4. i \in DOMAIN D
      OBVIOUS
    <3> QED
      BY <1>2, <2>2, <3>1, <3>3, <3>4
  <2> QED
    BY <1>1, <2>2 DEF Sole
<1> QED
  BY <1>3, <1>4

\* What is stored: one row for a code and a side, each a draft.
OnePerSide(R) == \A r, s \in R : r.code = s.code /\ r.side = s.side => r = s

LEMMA StoredIs ==
    ASSUME NEW D \in Seq(Fitting)
    PROVE  /\ Stored(D) \subseteq Fitting /\ IsFiniteSet(Stored(D))
           /\ OnePerSide(Stored(D)) /\ Among(Stored(D), D)
           /\ \A x : Sole(D, x) => x \in Stored(D)
<1> DEFINE n == Len(D)
           first == {j \in DOMAIN D : \A k \in 1..(j - 1) : D[k].code # D[j].code \/ D[k].side # D[j].side}
           R == Stored(D)
<1>1. n \in Nat /\ DOMAIN D = 1..n /\ \A i \in 1..n : D[i] \in Fitting
  OBVIOUS
<1>2. R = {D[i] : i \in first}
  BY DEF Stored
<1>3. first \in SUBSET (1..n) /\ \A j \in first : \A k \in 1..(j - 1) : D[k].code # D[j].code \/ D[k].side # D[j].side
  BY <1>1
<1>4. ASSUME NEW x, Sole(D, x) PROVE x \in R
  <2> DEFINE Rivals == {i \in 1..n : D[i].code = x.code /\ D[i].side = x.side}
  <2>1. Rivals # {} /\ Rivals \subseteq Nat /\ \A i \in Rivals : D[i] = x
    BY <1>1, <1>4 DEF Sole
  <2>2. Min(Rivals) \in Rivals /\ \A i \in Rivals : Min(Rivals) <= i
    BY <2>1, LeastIsMin
  <2>3. PICK m \in Rivals : \A i \in Rivals : m <= i
    BY <2>2
  <2>4. D[m] = x /\ m \in 1..n
    BY <2>1, <2>3
  <2>5. \A k \in 1..(m - 1) : D[k].code # D[m].code \/ D[k].side # D[m].side
    <3> TAKE k \in 1..(m - 1)
    <3>1. k \in 1..n /\ ~(m <= k)
      BY <1>1, <2>4
    <3> QED
      BY <2>3, <2>4, <3>1
  <2>6. m \in first
    BY <1>1, <2>4, <2>5
  <2> QED
    BY <1>2, <2>4, <2>6
<1> HIDE DEF first, R, n
<1>5. IsFiniteSet(R)
  <2>1. IsFiniteSet(1..n)
    BY <1>1, FS_Interval
  <2>2. IsFiniteSet(first)
    BY <1>3, <2>1, FS_Subset
  <2> DEFINE h == [i \in first |-> D[i]]
  <2>3. h \in Surjection(first, R)
    <3>1. h \in [first -> R]
      BY <1>2
    <3>2. \A r \in R : \E i \in first : h[i] = r
      BY <1>2
    <3> QED
      BY <3>1, <3>2 DEF Surjection
  <2> HIDE DEF h
  <2> QED
    BY <2>2, <2>3, FS_Surjection
<1>6. OnePerSide(R)
  <2> SUFFICES ASSUME NEW r \in R, NEW s \in R, r.code = s.code, r.side = s.side PROVE r = s
    BY DEF OnePerSide
  <2>1. PICK i \in first : r = D[i]
    BY <1>2
  <2>2. PICK j \in first : s = D[j]
    BY <1>2
  <2>3. i \in 1..n /\ j \in 1..n
    BY <1>3
  <2>4. ~(i < j) /\ ~(j < i)
    <3>1. i < j => i \in 1..(j - 1)
      BY <1>1, <2>3
    <3>2. j < i => j \in 1..(i - 1)
      BY <1>1, <2>3
    <3> QED
      BY <1>3, <2>1, <2>2, <3>1, <3>2
  <2>5. i = j
    BY <1>1, <2>3, <2>4
  <2> QED
    BY <2>1, <2>2, <2>5
<1> QED
  BY <1>1, <1>2, <1>3, <1>4, <1>5, <1>6 DEF R, Among

\* What an evening's run leaves of its drafts.
LEMMA ProposedFit ==
    ASSUME Accounted, NEW D \in Seq(Fitting)
    PROVE  /\ RowsFit(Stored(Ramped(KeptAfterRejection(D))))
           /\ \A x : Sole(D, x) /\ x.rule = "STOP_LOSS" /\ x.side = "SELL" =>
                       x \in Stored(Ramped(KeptAfterRejection(D)))
<1> DEFINE K == KeptAfterRejection(D)
           E == Ramped(K)
           R == Stored(E)
<1>1. K \in Seq(Fitting) /\ \A x : Sole(D, x) /\ x.rule = "STOP_LOSS" => Sole(K, x)
  BY KeptIs
<1> HIDE DEF K
<1>2. E \in Seq(Fitting) /\ \A x : Sole(K, x) /\ x.side = "SELL" => Sole(E, x)
  BY <1>1, RampedIs, RampedSales
<1>3. /\ R \subseteq Fitting /\ IsFiniteSet(R) /\ OnePerSide(R) /\ Among(R, E)
      /\ \A x : Sole(E, x) => x \in R
  <2> HIDE DEF E
  <2> QED
    BY <1>2, StoredIs
<1>4. RampFits(R)
  <2> HIDE DEF R
  <2> QED
    BY <1>1, <1>3, RampKept
<1>5. RowsFit(R)
  BY <1>3, <1>4 DEF RowsFit, OnePerSide, Fitting
<1> QED
  BY <1>1, <1>2, <1>3, <1>5 DEF K

-----------------------------------------------------------------------------
(* The drafts of an evening.                                               *)

\* A sequence with one entry for each member of a set, in their order.
OneForEach(s, S, g) == s = [i \in DOMAIN InOrder(S) |-> g[InOrder(S)[i]]]
AllIn(g, S, T) == \A x \in S : g[x] \in T
Lists(s, S, g, T) ==
    /\ s \in Seq(T)
    /\ \A k \in DOMAIN s : \E x \in S : s[k] = g[x]
    /\ \A x \in S : \E k \in DOMAIN s : s[k] = g[x]

LEMMA OrderedIn ==
    ASSUME NEW S \in SUBSET Names
    PROVE  \A i \in DOMAIN InOrder(S) : InOrder(S)[i] \in S
<1>1. IsFiniteSet(S) /\ S \subseteq Nat
  BY FewNames, FS_Subset
<1>2. InOrder(S) \in Seq(S)
  BY <1>1, InOrderIs
<1> DEFINE s == InOrder(S)
<1>3. s \in Seq(S)
  BY <1>2
<1> HIDE DEF s
<1>4. \A i \in DOMAIN s : s[i] \in S
  BY <1>3
<1> QED
  BY <1>4 DEF s

LEMMA EachIs ==
    ASSUME NEW S \in SUBSET Names, NEW T, NEW g, AllIn(g, S, T), NEW s, OneForEach(s, S, g)
    PROVE  Lists(s, S, g, T)
<1> DEFINE ordered == InOrder(S)
<1>1. /\ ordered \in Seq(S) /\ DOMAIN ordered = 1..Cardinality(S) /\ Cardinality(S) \in Nat
      /\ \A x \in S : \E i \in 1..Cardinality(S) : ordered[i] = x
  <2>1. IsFiniteSet(S) /\ S \subseteq Nat
    BY FewNames, FS_Subset
  <2> QED
    BY <2>1, InOrderIs
<1>2. s = [i \in DOMAIN ordered |-> g[ordered[i]]]
  BY DEF OneForEach
<1> HIDE DEF ordered
<1>3. \A i \in DOMAIN ordered : ordered[i] \in S
  BY <1>1
<1>a. \A i \in DOMAIN ordered : g[ordered[i]] \in T
  BY <1>3 DEF AllIn
<1>4. s \in [1..Cardinality(S) -> T]
  <2>1. s \in [DOMAIN ordered -> T]
    BY <1>2, <1>a
  <2> QED
    BY <1>1, <2>1
<1>5. s \in Seq(T)
  BY <1>1, <1>4
<1> QED
  BY <1>1, <1>2, <1>3, <1>5 DEF Lists

LEMMA SellIs ==
    ASSUME NEW c \in Names, NEW n \in Nat, n > 0, n <= holding[c], NEW rule \in Rules
    PROVE  /\ Sell(c, n, rule) \in Fitting
           /\ Sell(c, n, rule).code = c /\ Sell(c, n, rule).side = "SELL"
           /\ Sell(c, n, rule).qty = n /\ Sell(c, n, rule).rule = rule
  BY DEF Sell, Fitting, Proposal, Sides

LEMMA BuyIs ==
    ASSUME NEW c \in Names, NEW n \in Nat, n > 0, Price(c) > 0, NEW rule \in Rules
    PROVE  /\ Buy(c, n, rule) \in Fitting
           /\ Buy(c, n, rule).code = c /\ Buy(c, n, rule).side = "BUY"
  BY DEF Buy, Fitting, Proposal, Sides

\* Exits of the lower rules keep off what exits by its stop or its profit.
Others == {d \in Fitting : d.side = "SELL" => d.code \notin Exiting}

LEMMA SmallSets == ASSUME NEW S \in SUBSET Names PROVE IsFiniteSet(S) /\ S \subseteq Nat
  BY FewNames, FS_Subset

LEMMA ExitDraftsAre ==
    ASSUME Accounted
    PROVE  /\ ExitDrafts \in Seq(Fitting)
           /\ \A k \in DOMAIN ExitDrafts :
                 \E c \in Exiting : ExitDrafts[k] = Sell(c, holding[c], IF PastStop(c) THEN "STOP_LOSS" ELSE "TAKE_PROFIT")
           /\ \A c \in Exiting :
                 \E k \in DOMAIN ExitDrafts : ExitDrafts[k] = Sell(c, holding[c], IF PastStop(c) THEN "STOP_LOSS" ELSE "TAKE_PROFIT")
<1> DEFINE g == [c \in Exiting |-> Sell(c, holding[c], IF PastStop(c) THEN "STOP_LOSS" ELSE "TAKE_PROFIT")]
           s == ExitDrafts
<1>1. Exiting \in SUBSET Names /\ \A c \in Exiting : holding[c] > 0
  BY ScopeIs DEF Exiting
<1>2. \A c \in Exiting : g[c] \in Fitting
  <2> TAKE c \in Exiting
  <2>1. c \in Names /\ holding[c] > 0 /\ holding[c] \in Nat
    BY <1>1, PricesAre
  <2>2. \A rule \in Rules : Sell(c, holding[c], rule) \in Fitting
    BY <2>1, SellIs
  <2>3. (IF PastStop(c) THEN "STOP_LOSS" ELSE "TAKE_PROFIT") \in Rules
    BY DEF Rules
  <2> QED
    BY <2>2, <2>3
<1>3. OneForEach(s, Exiting, g)
  <2>1. \A i \in DOMAIN InOrder(Exiting) : InOrder(Exiting)[i] \in Exiting
    BY <1>1, OrderedIn
  <2>2. s = [i \in DOMAIN InOrder(Exiting) |-> Sell(InOrder(Exiting)[i], holding[InOrder(Exiting)[i]],
                IF PastStop(InOrder(Exiting)[i]) THEN "STOP_LOSS" ELSE "TAKE_PROFIT")]
    BY DEF ExitDrafts, Each
  <2> QED
    BY <2>1, <2>2 DEF OneForEach
<1> HIDE DEF s
<1>4. Lists(s, Exiting, g, Fitting)
  <2>1. AllIn(g, Exiting, Fitting)
    BY <1>2 DEF AllIn
  <2> HIDE DEF g
  <2> QED
    BY <1>1, <1>3, <2>1, EachIs
<1> QED
  BY <1>4 DEF s, Lists

\* Swaps of names that are held for names that are not.
SwapPairs(T, held) == [out : held, in : {<<>>} \cup {<<c>> : c \in T \ held}]

LEMMA SwapPairIs ==
    ASSUME NEW T, NEW held, NEW w \in SwapPairs(T, held)
    PROVE  w.out \in held /\ (w.in = <<>> \/ \E c \in T \ held : w.in = <<c>> /\ w.in[1] = c)
<1>1. w.out \in held /\ w.in \in {<<>>} \cup {<<c>> : c \in T \ held}
  BY DEF SwapPairs
<1>2. \A c : <<c>>[1] = c
  OBVIOUS
<1> QED
  BY <1>1, <1>2

LEMMA SwapsOf ==
    ASSUME NEW T, NEW r \in Seq(T), NEW held, NEW below
    PROVE  ScoreExitSwaps(r, held, below) \in Seq(SwapPairs(T, held))
<1> DEFINE A == {i \in DOMAIN r : /\ r[i] \in held
                                  /\ 100 * (Len(r) - i) < below * (Len(r) - 1)}
           B == {i \in DOMAIN r : r[i] \notin held}
           weak == Chosen(r, A)
           bench == Chosen(r, B)
           swaps == [i \in DOMAIN weak |->
                       [out |-> weak[i], in |-> IF i <= Len(bench) THEN <<bench[i]>> ELSE <<>>]]
<1>1. ScoreExitSwaps(r, held, below) = IF Len(r) < 2 THEN <<>> ELSE swaps
  BY DEF ScoreExitSwaps
<1>2. A \in SUBSET (DOMAIN r) /\ B \in SUBSET (DOMAIN r) /\ (\A i \in A : r[i] \in held)
      /\ \A i \in B : r[i] \in T \ held
  OBVIOUS
<1> HIDE DEF A, B
<1>3. DOMAIN weak = 1..Cardinality(A) /\ Cardinality(A) \in Nat /\ \A i \in DOMAIN weak : weak[i] \in held
  BY <1>2, ChosenIs
<1>4. bench \in Seq(T) /\ \A i \in DOMAIN bench : bench[i] \in T \ held
  BY <1>2, ChosenIs
<1> HIDE DEF weak, bench
<1>5. \A i \in DOMAIN weak :
         [out |-> weak[i], in |-> IF i <= Len(bench) THEN <<bench[i]>> ELSE <<>>] \in SwapPairs(T, held)
  <2> TAKE i \in DOMAIN weak
  <2>1. (IF i <= Len(bench) THEN <<bench[i]>> ELSE <<>>) \in {<<>>} \cup {<<c>> : c \in T \ held}
    <3>1. CASE i <= Len(bench)
      <4>1. i \in DOMAIN bench
        BY <1>3, <1>4, <3>1
      <4> QED
        BY <1>4, <3>1, <4>1
    <3>2. CASE ~(i <= Len(bench))
      BY <3>2
    <3> QED
      BY <3>1, <3>2
  <2> DEFINE x == IF i <= Len(bench) THEN <<bench[i]>> ELSE <<>>
  <2>2. x \in {<<>>} \cup {<<c>> : c \in T \ held} /\ weak[i] \in held
    BY <1>3, <2>1
  <2> HIDE DEF x
  <2>3. [out |-> weak[i], in |-> x] \in SwapPairs(T, held)
    BY <2>2 DEF SwapPairs
  <2> QED
    BY <2>3 DEF x
<1>6. swaps \in Seq(SwapPairs(T, held))
  <2>1. swaps \in [1..Cardinality(A) -> SwapPairs(T, held)]
    BY <1>3, <1>5
  <2> HIDE DEF swaps
  <2> QED
    BY <1>3, <2>1
<1>7. <<>> \in Seq(SwapPairs(T, held))
  OBVIOUS
<1> HIDE DEF swaps
<1> QED
  BY <1>1, <1>6, <1>7

LEMMA SwapsHold ==
    ASSUME NEW r \in Seq(Names)
    PROVE  /\ Swaps(r) \in Seq(SwapPairs(Names, Scope \ Exiting))
           /\ \A k \in DOMAIN Swaps(r) : Swaps(r)[k].in # <<>> => Price(Swaps(r)[k].in[1]) > 0
<1> DEFINE P == SwapPairs(Names, Scope \ Exiting)
           swaps == ScoreExitSwaps(r, Scope \ Exiting, sleeve.below)
           keep == {i \in DOMAIN swaps : swaps[i].in # <<>> => Price(swaps[i].in[1]) > 0}
<1>1. CASE sleeve.below = 0 \/ sleeve.broker = "TOSS"
  <2>1. Swaps(r) = <<>>
    BY <1>1 DEF Swaps
  <2>2. <<>> \in Seq(P) /\ DOMAIN <<>> = {}
    OBVIOUS
  <2> QED
    BY <2>1, <2>2
<1>2. CASE ~(sleeve.below = 0 \/ sleeve.broker = "TOSS")
  <2>1. Swaps(r) = Chosen(swaps, keep)
    BY <1>2 DEF Swaps
  <2>2. swaps \in Seq(P)
    BY SwapsOf
  <2>3. keep \in SUBSET (DOMAIN swaps) /\ \A i \in keep : swaps[i].in # <<>> => Price(swaps[i].in[1]) > 0
    OBVIOUS
  <2> HIDE DEF keep, swaps, P
  <2>4. /\ Chosen(swaps, keep) \in Seq(P)
        /\ \A k \in DOMAIN Chosen(swaps, keep) : InOrder(keep)[k] \in keep /\ Chosen(swaps, keep)[k] = swaps[InOrder(keep)[k]]
    BY <2>2, <2>3, ChosenIs
  <2> QED
    BY <2>1, <2>3, <2>4 DEF P
<1> QED
  BY <1>1, <1>2

\* One sequence after another.
Joins(s, a, b, T) ==
    /\ s \in Seq(T)
    /\ \A k \in DOMAIN s : (\E i \in DOMAIN a : s[k] = a[i]) \/ \E i \in DOMAIN b : s[k] = b[i]
    /\ \A i \in DOMAIN a : \E k \in DOMAIN s : s[k] = a[i]

LEMMA ConcatOf ==
    ASSUME NEW T, NEW a \in Seq(T), NEW b \in Seq(T)
    PROVE  Joins(a \o b, a, b, T)
<1> DEFINE s == a \o b
<1>1. /\ s \in Seq(T) /\ Len(s) = Len(a) + Len(b)
      /\ \A i \in 1..(Len(a) + Len(b)) : s[i] = IF i <= Len(a) THEN a[i] ELSE b[i - Len(a)]
  BY ConcatProperties
<1>2. /\ Len(a) \in Nat /\ Len(b) \in Nat /\ DOMAIN a = 1..Len(a) /\ DOMAIN b = 1..Len(b)
      /\ DOMAIN s = 1..Len(s)
  BY <1>1
<1> HIDE DEF s
<1>3. \A k \in DOMAIN s : (\E i \in DOMAIN a : s[k] = a[i]) \/ \E i \in DOMAIN b : s[k] = b[i]
  <2> TAKE k \in DOMAIN s
  <2>1. k \in 1..(Len(a) + Len(b))
    BY <1>1, <1>2
  <2>2. CASE k <= Len(a)
    <3>1. k \in DOMAIN a /\ s[k] = a[k]
      BY <1>1, <1>2, <2>1, <2>2
    <3> QED
      BY <3>1
  <2>3. CASE ~(k <= Len(a))
    <3>1. k - Len(a) \in DOMAIN b /\ s[k] = b[k - Len(a)]
      BY <1>1, <1>2, <2>1, <2>3
    <3> QED
      BY <3>1
  <2> QED
    BY <2>2, <2>3
<1>4. \A i \in DOMAIN a : i \in DOMAIN s /\ s[i] = a[i]
  BY <1>1, <1>2
<1> QED
  BY <1>1, <1>3, <1>4 DEF s, Joins

\* A swap sells one holding and buys another stock with what it brings, or nothing.
LEMMA SwapDraftsAre ==
    ASSUME Accounted, NEW r \in Seq(Names)
    PROVE  SwapDrafts(r) \in Seq(Others)
<1> DEFINE swaps == Swaps(r)
           bought(w) == SwapBudget(holding[w.out] * CashPrice[w.out]) \div CashPrice[w.in[1]]
           Two(w) == IF w.in = <<>> \/ (w.in # <<>> /\ bought(w) = 0)
                     THEN <<Sell(w.out, holding[w.out], "SCORE_EXIT")>>
                     ELSE <<Sell(w.out, holding[w.out], "SCORE_EXIT"),
                            Buy(w.in[1], bought(w), "SCORE_EXIT")>>
           ss == [i \in DOMAIN swaps |-> Two(swaps[i])]
<1>1. SwapDrafts(r) = FlattenSeq(ss)
  BY DEF SwapDrafts
<1>2. /\ swaps \in Seq(SwapPairs(Names, Scope \ Exiting))
      /\ \A k \in DOMAIN swaps : swaps[k].in # <<>> => Price(swaps[k].in[1]) > 0
  BY SwapsHold
<1>3. \A i \in DOMAIN swaps : Two(swaps[i]) \in Seq(Others)
  <2> TAKE i \in DOMAIN swaps
  <2> DEFINE w == swaps[i]
             c == w.in[1]
             n == bought(w)
             sale == Sell(w.out, holding[w.out], "SCORE_EXIT")
             buy == Buy(c, n, "SCORE_EXIT")
  <2>1. w \in SwapPairs(Names, Scope \ Exiting) /\ (w.in # <<>> => Price(c) > 0)
    BY <1>2
  <2>2. w.out \in Scope \ Exiting /\ (w.in = <<>> \/ (c \in Names /\ Price(c) > 0))
    BY <2>1, SwapPairIs
  <2>3. w.out \in Names /\ holding[w.out] > 0 /\ holding[w.out] \in Nat /\ w.out \notin Exiting
        /\ holding[w.out] * CashPrice[w.out] \in Nat
    BY <2>2, ScopeIs, PricesAre
  <2> HIDE DEF w
  <2>4. "SCORE_EXIT" \in Rules
    BY DEF Rules
  <2>5. sale \in Others
    <3>1. sale \in Fitting /\ sale.code = w.out
      BY <2>3, <2>4, SellIs
    <3> QED
      BY <2>3, <3>1 DEF Others
  <2>6. ~(w.in = <<>> \/ (w.in # <<>> /\ n = 0)) => buy \in Others
    <3> SUFFICES ASSUME w.in # <<>>, n # 0 PROVE buy \in Others
      OBVIOUS
    <3>1. c \in Names /\ Price(c) > 0
      BY <2>2
    <3>2. CashPrice[c] \in Nat /\ CashPrice[c] > 0
      BY <3>1, PricesAre
    <3>3. n \in Nat
      <4> DEFINE x == holding[w.out] * CashPrice[w.out]
                 p == CashPrice[c]
      <4>1. x \in Nat /\ p \in Nat /\ p > 0
        BY <2>3, <3>2
      <4>2. n = ((x * 99) \div 100) \div p
        BY DEF SwapBudget
      <4> HIDE DEF x, p, n
      <4> DEFINE q == (x * 99) \div 100
      <4>3. q \in Nat
        BY ONLY <4>1
      <4> HIDE DEF q
      <4>4. q \div p \in Nat
        BY ONLY <4>1, <4>3
      <4> QED
        BY ONLY <4>2, <4>4 DEF q
    <3> HIDE DEF n, c
    <3>4. buy \in Fitting /\ buy.side = "BUY"
      BY <2>4, <3>1, <3>3, BuyIs
    <3> QED
      BY <3>4 DEF Others
  <2> HIDE DEF sale, buy, n
  <2>7. <<sale>> \in Seq(Others)
    BY <2>5
  <2>8. buy \in Others => <<sale, buy>> \in Seq(Others)
    BY <2>5
  <2>9. Two(w) \in Seq(Others)
    <3>1. Two(w) = IF w.in = <<>> \/ (w.in # <<>> /\ n = 0) THEN <<sale>> ELSE <<sale, buy>>
      BY DEF sale, buy, n
    <3> HIDE DEF Two
    <3> QED
      BY <2>6, <2>7, <2>8, <3>1
  <2> QED
    BY <2>9 DEF w
<1>4. ss \in Seq(Seq(Others))
  <2>1. DOMAIN swaps = 1..Len(swaps) /\ Len(swaps) \in Nat
    BY <1>2
  <2> HIDE DEF Two, swaps
  <2>2. ss \in [1..Len(swaps) -> Seq(Others)]
    BY <1>3, <2>1
  <2> HIDE DEF ss
  <2> QED
    BY <2>1, <2>2
<1> HIDE DEF ss
<1> QED
  BY <1>1, <1>4, FlattenIs

LEMMA StayingIs == ASSUME NEW r PROVE Staying(r) \in SUBSET Names /\ \A c \in Staying(r) : c \notin Exiting
<1>1. Staying(r) = Scope \ (Exiting \cup {w.out : w \in ToSet(Swaps(r))})
  BY DEF Staying
<1> QED
  BY <1>1, ScopeIs

\* Some of a holding, for each of some stocks that stay.
LEMMA SomeOfEach ==
    ASSUME NEW S \in SUBSET Names, \A c \in S : c \notin Exiting, NEW n, NEW rule \in Rules,
           \A c \in S : n[c] \in Nat /\ n[c] > 0 /\ n[c] <= holding[c], NEW s,
           s = [i \in DOMAIN InOrder(S) |-> Sell(InOrder(S)[i], n[InOrder(S)[i]], rule)]
    PROVE  s \in Seq(Others)
<1> DEFINE g == [c \in S |-> Sell(c, n[c], rule)]
<1>1. AllIn(g, S, Others)
  <2>1. \A c \in S : Sell(c, n[c], rule) \in Others
    <3> TAKE c \in S
    <3>1. c \in Names /\ n[c] \in Nat /\ n[c] > 0 /\ n[c] <= holding[c] /\ c \notin Exiting
      OBVIOUS
    <3>2. Sell(c, n[c], rule) \in Fitting /\ Sell(c, n[c], rule).code = c
      BY <3>1, SellIs
    <3> QED
      BY <3>1, <3>2 DEF Others
  <2> QED
    BY <2>1 DEF AllIn
<1>2. OneForEach(s, S, g)
  <2>1. \A i \in DOMAIN InOrder(S) : InOrder(S)[i] \in S
    BY OrderedIn
  <2> QED
    BY <2>1 DEF OneForEach
<1> HIDE DEF g
<1>3. Lists(s, S, g, Others)
  BY <1>1, <1>2, EachIs
<1> QED
  BY <1>3 DEF Lists

LEMMA TrimDraftsAre ==
    ASSUME Accounted, NEW r
    PROVE  TrimDrafts(r) \in Seq(Others)
<1> DEFINE left == [c \in Staying(r) |-> holding[c]]
           share == Investable(Invested) \div Cardinality(DOMAIN left)
           target == BandTrimTarget(left, CashPrice, share, sleeve.band)
           S == {c \in DOMAIN left : target[c] < left[c]}
           n == [c \in S |-> left[c] - target[c]]
           s == [i \in DOMAIN InOrder(S) |->
                   Sell(InOrder(S)[i], left[InOrder(S)[i]] - target[InOrder(S)[i]], "BAND_TRIM")]
<1>1. CASE sleeve.band <= 100 \/ DOMAIN left = {}
  <2>1. TrimDrafts(r) = <<>>
    BY <1>1 DEF TrimDrafts
  <2> QED
    BY <2>1
<1>2. CASE ~(sleeve.band <= 100 \/ DOMAIN left = {})
  <2>1. TrimDrafts(r) = s
    BY <1>2 DEF TrimDrafts, Each
  <2>2. Staying(r) \in SUBSET Names /\ (\A c \in Staying(r) : c \notin Exiting) /\ DOMAIN left = Staying(r)
    BY StayingIs
  <2>3. share \in Nat
    <3> DEFINE m == Cardinality(DOMAIN left)
    <3>1. IsFiniteSet(DOMAIN left)
      BY <2>2, SmallSets
    <3>2. m \in Nat /\ m # 0
      BY <1>2, <3>1, FS_CardinalityType, FS_EmptySet
    <3>3. Invested \in Nat
      BY NavIs
    <3> DEFINE v == Invested
    <3>4. share = ((v * 199) \div 200) \div m
      BY DEF Investable
    <3>5. v \in Nat
      BY <3>3
    <3> HIDE DEF m, v, share
    <3> QED
      BY <3>2, <3>4, <3>5
  <2>4. sleeve.band \in Nat /\ sleeve.band > 100
    <3>1. sleeve.band \in Nat
      BY SleeveIs DEF Accounted
    <3> QED
      BY <1>2, <3>1
  <2>5. \A c \in Staying(r) :
           target[c] = IF 100 * left[c] * CashPrice[c] > share * sleeve.band
                       THEN share \div CashPrice[c] ELSE left[c]
    BY DEF BandTrimTarget, Drifted
  <2> HIDE DEF share, target
  <2>6. \A c \in S : n[c] \in Nat /\ n[c] > 0 /\ n[c] <= holding[c] /\ n[c] = left[c] - target[c]
    <3> TAKE c \in S
    <3> DEFINE h == holding[c]
               w == CashPrice[c]
               t == target[c]
    <3>1. c \in Staying(r) /\ c \in Names /\ left[c] = h /\ t < h
      BY <2>2
    <3>2. h \in Nat /\ w \in Nat
      BY <3>1, PricesAre
    <3>3. t = IF 100 * h * w > share * sleeve.band THEN share \div w ELSE h
      BY <2>5, <3>1
    <3>4. n[c] = h - t
      BY <3>1
    <3> HIDE DEF n, h, w, t
    <3>5. 100 * h * w > share * sleeve.band
      BY <3>1, <3>2, <3>3
    <3>6. w > 0
      <4>1. share * sleeve.band \in Nat
        BY <2>3, <2>4
      <4>2. 100 * h * 0 = 0
        BY <3>2
      <4> QED
        BY <3>2, <3>5, <4>1, <4>2
    <3>7. t \in Nat
      <4>1. t = share \div w
        BY <3>3, <3>5
      <4> QED
        BY <2>3, <3>2, <3>6, <4>1
    <3> QED
      BY <3>1, <3>2, <3>4, <3>7 DEF h, t
  <2>7. S \in SUBSET Names /\ \A c \in S : c \notin Exiting
    BY <2>2
  <2>8. s = [i \in DOMAIN InOrder(S) |-> Sell(InOrder(S)[i], n[InOrder(S)[i]], "BAND_TRIM")]
    <3>1. \A i \in DOMAIN InOrder(S) : InOrder(S)[i] \in S
      BY <2>7, OrderedIn
    <3>2. \A i \in DOMAIN InOrder(S) : n[InOrder(S)[i]] = left[InOrder(S)[i]] - target[InOrder(S)[i]]
      BY <2>6, <3>1
    <3> HIDE DEF n, left, S
    <3> QED
      BY <3>2
  <2>9. "BAND_TRIM" \in Rules
    BY DEF Rules
  <2>10. s \in Seq(Others)
    <3>1. \A c \in S : n[c] \in Nat /\ n[c] > 0 /\ n[c] <= holding[c]
      BY <2>6
    <3> HIDE DEF n, S, s
    <3> QED
      BY <2>7, <2>8, <2>9, <3>1, SomeOfEach
  <2> HIDE DEF s
  <2> QED
    BY <2>1, <2>10
<1> HIDE DEF left, s, S, n, target
<1> QED
  BY <1>1, <1>2

LEMMA DeriskDraftsAre ==
    ASSUME Accounted, NEW r, NEW e \in 0..101
    PROVE  DeriskDrafts(r, e) \in Seq(Others)
<1> DEFINE S == {c \in Staying(r) : Excess(c, e) > 0}
           n == [c \in S |-> Excess(c, e)]
           s == [i \in DOMAIN InOrder(S) |-> Sell(InOrder(S)[i], Excess(InOrder(S)[i], e), "REGIME_DERISK")]
<1>1. CASE ~(e # NoRegime /\ Invested > 0 /\ e * SleeveNav < 100 * Invested)
  <2>1. DeriskDrafts(r, e) = <<>>
    BY <1>1 DEF DeriskDrafts
  <2> QED
    BY <2>1
<1>2. CASE e # NoRegime /\ Invested > 0 /\ e * SleeveNav < 100 * Invested
  <2>1. DeriskDrafts(r, e) = s
    BY <1>2 DEF DeriskDrafts, Each
  <2>2. Staying(r) \in SUBSET Names /\ \A c \in Staying(r) : c \notin Exiting
    BY StayingIs
  <2>3. \A c \in S : n[c] \in Nat /\ n[c] > 0 /\ n[c] <= holding[c] /\ n[c] = Excess(c, e)
    <3> TAKE c \in S
    <3> DEFINE h == holding[c]
               v == SleeveNav
               m == Invested
               x == n[c]
    <3>1. c \in Names /\ x = Excess(c, e) /\ x > 0
      BY <2>2
    <3>2. h \in Nat /\ v \in Nat /\ m \in Nat /\ m > 0
      BY <1>2, <3>1, PricesAre, NavIs
    <3>3. x = h - (h * e * v) \div (100 * m)
      BY <3>1 DEF Excess
    <3> HIDE DEF h, v, m, x
    <3>4. h * e * v \in Nat /\ 100 * m \in Nat /\ 100 * m > 0
      BY <3>2
    <3> DEFINE y == h * e * v
               z == 100 * m
    <3>5. y \in Nat /\ z \in Nat /\ z > 0 /\ x = h - y \div z
      BY <3>3, <3>4
    <3> HIDE DEF y, z
    <3>6. y \div z \in Nat
      BY <3>5
    <3> QED
      BY <3>1, <3>2, <3>5, <3>6 DEF x, h
  <2>4. S \in SUBSET Names /\ \A c \in S : c \notin Exiting
    BY <2>2
  <2>5. s = [i \in DOMAIN InOrder(S) |-> Sell(InOrder(S)[i], n[InOrder(S)[i]], "REGIME_DERISK")]
    <3>1. \A i \in DOMAIN InOrder(S) : InOrder(S)[i] \in S
      BY <2>4, OrderedIn
    <3>2. \A i \in DOMAIN InOrder(S) : n[InOrder(S)[i]] = Excess(InOrder(S)[i], e)
      BY <2>3, <3>1
    <3> HIDE DEF n, S
    <3> QED
      BY <3>2
  <2>6. "REGIME_DERISK" \in Rules
    BY DEF Rules
  <2>7. s \in Seq(Others)
    <3>1. \A c \in S : n[c] \in Nat /\ n[c] > 0 /\ n[c] <= holding[c]
      BY <2>3
    <3> HIDE DEF n, S, s
    <3> QED
      BY <2>4, <2>5, <2>6, <3>1, SomeOfEach
  <2> HIDE DEF s
  <2> QED
    BY <2>1, <2>7
<1> HIDE DEF s, S, n
<1> QED
  BY <1>1, <1>2

\* The daily rules draft what fits, and a stop without a rival.
LEMMA RuleDraftsAre ==
    ASSUME Accounted, NEW r \in Seq(Names), NEW e \in 0..101
    PROVE  /\ RuleDrafts(r, e) \in Seq(Fitting)
           /\ \A c \in Names : PastStop(c) => Sole(RuleDrafts(r, e), Sell(c, holding[c], "STOP_LOSS"))
<1> DEFINE a == ExitDrafts
           b == SwapDrafts(r)
           t == TrimDrafts(r)
           d == DeriskDrafts(r, e)
           rest == b \o (t \o d)
           D == RuleDrafts(r, e)
           Name(c) == Sell(c, holding[c], IF PastStop(c) THEN "STOP_LOSS" ELSE "TAKE_PROFIT")
<1>1. /\ a \in Seq(Fitting)
      /\ \A k \in DOMAIN a : \E c \in Exiting : a[k] = Name(c)
      /\ \A c \in Exiting : \E k \in DOMAIN a : a[k] = Name(c)
  BY ExitDraftsAre
<1>2. b \in Seq(Others) /\ t \in Seq(Others) /\ d \in Seq(Others)
  BY SwapDraftsAre, TrimDraftsAre, DeriskDraftsAre
<1>3. D = a \o b \o t \o d
  BY DEF RuleDrafts
<1> HIDE DEF a, b, t, d, D
<1>4. t \o d \in Seq(Others) /\ rest \in Seq(Others)
  BY <1>2, ConcatProperties
<1>5. Others \subseteq Fitting
  BY DEF Others
<1>6. \A x : x \in Seq(Others) => x \in Seq(Fitting)
  BY <1>5
<1>7. D = a \o rest
  <2>1. \A x, y, z \in Seq(Fitting) : (x \o y) \o z = x \o (y \o z)
    BY ConcatAssociative
  <2>2. /\ a \in Seq(Fitting) /\ b \in Seq(Fitting) /\ t \in Seq(Fitting) /\ d \in Seq(Fitting)
        /\ t \o d \in Seq(Fitting) /\ a \o b \in Seq(Fitting)
    <3>1. a \in Seq(Fitting) /\ b \in Seq(Fitting) /\ t \in Seq(Fitting) /\ d \in Seq(Fitting)
      BY <1>1, <1>2, <1>6
    <3>2. t \o d \in Seq(Fitting) /\ a \o b \in Seq(Fitting)
      BY <3>1, ConcatProperties
    <3> QED
      BY <3>1, <3>2
  <2>3. (a \o b) \o (t \o d) = a \o (b \o (t \o d))
    <3> DEFINE u == t \o d
    <3>1. a \in Seq(Fitting) /\ b \in Seq(Fitting) /\ u \in Seq(Fitting)
      BY <2>2
    <3> HIDE DEF u
    <3>2. (a \o b) \o u = a \o (b \o u)
      BY <2>1, <3>1, Zenon
    <3> QED
      BY <3>2 DEF u
  <2>4. ((a \o b) \o t) \o d = (a \o b) \o (t \o d)
    BY <2>1, <2>2, Zenon
  <2> QED
    BY <1>3, <2>3, <2>4
<1> HIDE DEF rest
<1>8. /\ D \in Seq(Fitting)
      /\ \A k \in DOMAIN D : (\E i \in DOMAIN a : D[k] = a[i]) \/ \E i \in DOMAIN rest : D[k] = rest[i]
      /\ \A i \in DOMAIN a : \E k \in DOMAIN D : D[k] = a[i]
  <2>1. rest \in Seq(Fitting) /\ a \in Seq(Fitting)
    BY <1>1, <1>4, <1>6
  <2>2. Joins(a \o rest, a, rest, Fitting)
    BY <2>1, ConcatOf
  <2>3. Joins(D, a, rest, Fitting)
    BY <1>7, <2>2
  <2> QED
    BY <2>3 DEF Joins
<1>9. ASSUME NEW c \in Names, PastStop(c) PROVE Sole(D, Sell(c, holding[c], "STOP_LOSS"))
  <2> DEFINE x == Sell(c, holding[c], "STOP_LOSS")
  <2>1. c \in Exiting
    BY <1>9 DEF Exiting, PastStop
  <2>2. x = Name(c) /\ \E k \in DOMAIN D : D[k] = x
    BY <1>1, <1>8, <1>9, <2>1
  <2>3. x.code = c /\ x.side = "SELL"
    BY DEF Sell
  <2>4. ASSUME NEW k \in DOMAIN D, D[k].code = x.code, D[k].side = x.side PROVE D[k] = x
    <3>1. CASE \E i \in DOMAIN a : D[k] = a[i]
      <4>1. PICK y \in Exiting : D[k] = Name(y)
        BY <1>1, <3>1
      <4>2. D[k].code = y
        BY <4>1 DEF Sell
      <4> QED
        BY <2>2, <2>3, <2>4, <4>1, <4>2
    <3>2. CASE \E i \in DOMAIN rest : D[k] = rest[i]
      <4>1. D[k] \in Others
        BY <1>4, <3>2
      <4> QED
        BY <2>1, <2>3, <2>4, <4>1 DEF Others
    <3> QED
      BY <1>8, <3>1, <3>2
  <2> QED
    BY <2>2, <2>4 DEF Sole
<1> QED
  BY <1>8, <1>9 DEF D

LEMMA RanksAre ==
    ASSUME NEW r \in Scorings
    PROVE  InUniverse(r) \in Seq(Names)
<1> DEFINE keep == {i \in DOMAIN r : r[i] \in Universe}
<1>1. r \in Seq(Names)
  BY RulesAssumption
<1>2. keep \in SUBSET (DOMAIN r) /\ InUniverse(r) = Chosen(r, keep)
  BY DEF InUniverse
<1> HIDE DEF keep
<1> QED
  BY <1>1, <1>2, ChosenIs

\* The difference to a target, sales first: each within what is held.
LEMMA DiffDraftsAre ==
    ASSUME Accounted, NEW target \in [Names -> Nat], NEW codes, NEW rule \in Rules
    PROVE  DiffDrafts(target, codes, rule) \in Seq(Fitting)
<1> DEFINE have(c) == IF c \in codes THEN holding[c] ELSE 0
           S == {c \in {c \in Names : Price(c) > 0} : have(c) > target[c]}
           B == {c \in {c \in Names : Price(c) > 0} : have(c) < target[c]}
           gs == [c \in S |-> Sell(c, have(c) - target[c], rule)]
           gb == [c \in B |-> Buy(c, target[c] - have(c), rule)]
           s == [i \in DOMAIN InOrder(S) |-> Sell(InOrder(S)[i], have(InOrder(S)[i]) - target[InOrder(S)[i]], rule)]
           b == [i \in DOMAIN InOrder(B) |-> Buy(InOrder(B)[i], target[InOrder(B)[i]] - have(InOrder(B)[i]), rule)]
<1>1. DiffDrafts(target, codes, rule) = s \o b
  BY DEF DiffDrafts, Each
<1>2. S \in SUBSET Names /\ B \in SUBSET Names
  OBVIOUS
<1>3. \A c \in Names : have(c) \in Nat /\ have(c) <= holding[c] /\ target[c] \in Nat
  <2> TAKE c \in Names
  <2>1. holding[c] \in Nat
    BY PricesAre
  <2> QED
    BY <2>1
<1>4. \A c \in S : have(c) > target[c] /\ c \in Names
  OBVIOUS
<1>5. \A c \in B : have(c) < target[c] /\ c \in Names /\ Price(c) > 0
  OBVIOUS
<1>6. AllIn(gs, S, Fitting)
  <2>1. \A c \in S : gs[c] \in Fitting
    <3> TAKE c \in S
    <3> DEFINE n == have(c) - target[c]
    <3>1. n \in Nat /\ n > 0 /\ n <= holding[c] /\ c \in Names
      <4>1. have(c) \in Nat /\ have(c) <= holding[c] /\ target[c] \in Nat /\ have(c) > target[c] /\ holding[c] \in Nat
        BY <1>3, <1>4, PricesAre
      <4> HIDE DEF have
      <4> QED
        BY <1>4, <4>1
    <3>2. gs[c] = Sell(c, n, rule)
      OBVIOUS
    <3> HIDE DEF n, gs, S
    <3> QED
      BY <3>1, <3>2, SellIs
  <2> QED
    BY <2>1 DEF AllIn
<1>7. AllIn(gb, B, Fitting)
  <2>1. \A c \in B : gb[c] \in Fitting
    <3> TAKE c \in B
    <3> DEFINE n == target[c] - have(c)
    <3>1. n \in Nat /\ n > 0 /\ c \in Names /\ Price(c) > 0
      <4>1. have(c) \in Nat /\ target[c] \in Nat /\ have(c) < target[c]
        BY <1>3, <1>5
      <4> HIDE DEF have
      <4> QED
        BY <1>5, <4>1
    <3>2. gb[c] = Buy(c, n, rule)
      OBVIOUS
    <3> HIDE DEF n, gb, B
    <3> QED
      BY <3>1, <3>2, BuyIs
  <2> QED
    BY <2>1 DEF AllIn
<1>8. OneForEach(s, S, gs)
  <2>1. \A i \in DOMAIN InOrder(S) : InOrder(S)[i] \in S
    BY <1>2, OrderedIn
  <2>2. \A i \in DOMAIN InOrder(S) : gs[InOrder(S)[i]] = Sell(InOrder(S)[i], have(InOrder(S)[i]) - target[InOrder(S)[i]], rule)
    <3> HIDE DEF S, have
    <3> QED
      BY <2>1
  <2> HIDE DEF gs, S, have
  <2> QED
    BY <2>2 DEF OneForEach
<1>9. OneForEach(b, B, gb)
  <2>1. \A i \in DOMAIN InOrder(B) : InOrder(B)[i] \in B
    BY <1>2, OrderedIn
  <2>2. \A i \in DOMAIN InOrder(B) : gb[InOrder(B)[i]] = Buy(InOrder(B)[i], target[InOrder(B)[i]] - have(InOrder(B)[i]), rule)
    <3> HIDE DEF B, have
    <3> QED
      BY <2>1
  <2> HIDE DEF gb, B, have
  <2> QED
    BY <2>2 DEF OneForEach
<1> HIDE DEF s, b, gs, gb, S, B, have
<1>10. Lists(s, S, gs, Fitting) /\ Lists(b, B, gb, Fitting)
  BY <1>2, <1>6, <1>7, <1>8, <1>9, EachIs
<1>11. s \in Seq(Fitting) /\ b \in Seq(Fitting)
  BY <1>10 DEF Lists
<1> QED
  BY <1>1, <1>11, ConcatProperties

LEMMA MonthTargetIs ==
    ASSUME Accounted, NEW r \in Seq(Names), NEW e \in 0..101, NEW rising
    PROVE  MonthTarget(r, e, rising) \in [Names -> Nat]
<1> DEFINE best == SubSeq(r, 1, Min({sleeve.picks, Len(r)}))
           selected == Chosen(best, {i \in DOMAIN best : best[i] \in rising})
           invest == IF e = NoRegime THEN 100 ELSE e
           slots == Len(best)
           share == ((Investable(SleeveNav) * invest) \div 100) \div slots
           target == MonthTarget(r, e, rising)
<1>1. slots \in Nat
  <2>1. sleeve.picks \in Nat /\ Len(r) \in Nat
    BY SleeveIs DEF Accounted
  <2> DEFINE m == Min({sleeve.picks, Len(r)})
  <2>2. m \in Nat /\ m <= Len(r)
    <3>1. {sleeve.picks, Len(r)} \subseteq Nat /\ {sleeve.picks, Len(r)} # {}
      BY <2>1
    <3>2. m \in {sleeve.picks, Len(r)} /\ \A y \in {sleeve.picks, Len(r)} : m <= y
      BY <3>1, LeastIsMin
    <3> HIDE DEF m
    <3> QED
      BY <3>1, <3>2
  <2> HIDE DEF m
  <2>3. SubSeq(r, 1, m) \in Seq(Names)
    BY <2>2
  <2> QED
    BY <2>3 DEF m
<1>2. target = [c \in Names |-> IF /\ c \in ToSet(selected) /\ CashPrice[c] > 0
                                   /\ SleeveNav > 0 /\ invest > 0 /\ slots > 0
                                THEN share \div CashPrice[c] ELSE 0]
  <2>1. DOMAIN CashPrice = Names
    BY DEF CashPrice
  <2>2. target = AllocateEqualWeight(selected, SleeveNav, CashPrice, invest, slots)
    BY DEF MonthTarget
  <2>3. target = [c \in DOMAIN CashPrice |-> IF /\ c \in ToSet(selected) /\ CashPrice[c] > 0
                                   /\ SleeveNav > 0 /\ invest > 0 /\ slots > 0
                                THEN share \div CashPrice[c] ELSE 0]
    BY <2>2 DEF AllocateEqualWeight
  <2> HIDE DEF target, selected, slots, share, invest
  <2> QED
    BY <2>1, <2>3
<1>3. invest \in Nat
  OBVIOUS
<1> HIDE DEF best, slots, invest
<1>4. slots > 0 => share \in Nat
  <2> DEFINE v == SleeveNav
             z == (((v * 199) \div 200) * invest) \div 100
  <2>1. v \in Nat
    BY NavIs
  <2>2. share = z \div slots
    BY DEF Investable
  <2> HIDE DEF v, share
  <2>3. z \in Nat
    <3>1. (v * 199) \div 200 \in Nat
      BY <2>1
    <3> DEFINE y == (v * 199) \div 200
    <3>2. y \in Nat
      BY <3>1
    <3> HIDE DEF y
    <3>3. y * invest \in Nat
      BY <1>3, <3>2
    <3>4. (y * invest) \div 100 \in Nat
      BY <3>3
    <3> QED
      BY <3>4 DEF y
  <2> HIDE DEF z
  <2> QED
    BY <1>1, <2>2, <2>3
<1> HIDE DEF share, selected
<1>5. \A c \in Names : target[c] \in Nat
  <2> TAKE c \in Names
  <2> DEFINE p == CashPrice[c]
  <2>1. p \in Nat
    BY PricesAre
  <2>2. target[c] = IF c \in ToSet(selected) /\ p > 0 /\ SleeveNav > 0 /\ invest > 0 /\ slots > 0
                    THEN share \div p ELSE 0
    BY <1>2
  <2> HIDE DEF p, target
  <2> QED
    BY <1>4, <2>1, <2>2
<1>6. target = [c \in Names |-> target[c]]
  BY <1>2
<1> HIDE DEF target
<1>7. target \in [Names -> Nat]
  BY <1>5, <1>6
<1> QED
  BY <1>7 DEF target

LEMMA HoldDraftsAre == ASSUME Accounted PROVE HoldDrafts \in Seq(Fitting)
<1> DEFINE c == sleeve.keeps
           target == SleeveNav \div CashPrice[c]
           off == holding[c] - target
           size == IF off > 0 THEN off ELSE -off
           none == Price(c) = 0 \/ size = 0 \/ (target > 0 /\ size <= Max({1, target \div 20}))
<1>1. HoldDrafts = IF none THEN <<>> ELSE IF off > 0 THEN <<Sell(c, size, "REBALANCE")>>
                                          ELSE <<Buy(c, size, "REBALANCE")>>
  BY DEF HoldDrafts
<1>2. c \in Names
  BY SleeveIs DEF Accounted
<1>3. Price(c) \in Nat /\ CashPrice[c] = 100 * Price(c) /\ holding[c] \in Nat /\ SleeveNav \in Nat
  BY <1>2, PricesAre, NavIs
<1>4. ASSUME ~none PROVE /\ off > 0 => size \in Nat /\ size > 0 /\ size <= holding[c]
                         /\ ~(off > 0) => size \in Nat /\ size > 0
                         /\ Price(c) > 0
  <2>1. Price(c) # 0 /\ size # 0
    BY <1>4
  <2> DEFINE p == Price(c)
             h == holding[c]
             v == SleeveNav
  <2>2. target = v \div (100 * p)
    BY <1>3
  <2>3. p \in Nat /\ p > 0 /\ h \in Nat /\ v \in Nat /\ off = h - target
    BY <1>3, <2>1
  <2> HIDE DEF p, h, v, target
  <2>4. target \in Nat
    <3>1. 100 * p \in Nat /\ 100 * p > 0
      BY <2>3
    <3> DEFINE y == 100 * p
    <3>2. y \in Nat /\ y > 0 /\ target = v \div y
      BY <2>2, <3>1
    <3> HIDE DEF y
    <3> QED
      BY <2>3, <3>2
  <2>5. size = IF off > 0 THEN off ELSE -off
    OBVIOUS
  <2> HIDE DEF size, off
  <2>6. off \in Int /\ size \in Nat /\ size > 0 /\ (off > 0 => size = h - target)
    BY <2>1, <2>3, <2>4, <2>5
  <2> QED
    BY <2>3, <2>4, <2>6 DEF p, h
<1> HIDE DEF none, size, off
<1>5. "REBALANCE" \in Rules
  BY DEF Rules
<1>6. CASE none
  BY <1>1, <1>6
<1>7. CASE ~none
  <2>1. off > 0 => Sell(c, size, "REBALANCE") \in Fitting
    BY <1>2, <1>4, <1>5, <1>7, SellIs
  <2>2. ~(off > 0) => Buy(c, size, "REBALANCE") \in Fitting
    BY <1>2, <1>4, <1>5, <1>7, BuyIs
  <2>3. \A x : x \in Fitting => <<x>> \in Seq(Fitting)
    OBVIOUS
  <2> QED
    BY <1>1, <1>7, <2>1, <2>2, <2>3
<1> QED
  BY <1>6, <1>7

-----------------------------------------------------------------------------
(* Evening after evening.                                                  *)

\* The codes a sleeve's holdings are looked for in, and the account in sums.
Base == IF sleeve.broker = "TOSS" \/ sleeve.universe = "etf" THEN Universe ELSE Names \ Etfs
AccountSums ==
    /\ SleeveNav = ((money + SumOf(HeldValues, Names)) * sleeve.weight) \div 100
    /\ ValueIn(Scope) = SumOf(HeldValues, Base) /\ Base \in SUBSET Names
    /\ SumOf(HeldValues, Names) \in Nat /\ SumOf(HeldValues, Base) \in Nat /\ SleeveNav \in Nat
    /\ RampStep \in Nat /\ sleeve.ramp \in Nat
    /\ \A c \in Names : /\ Price(c) \in Nat /\ CashPrice[c] = 100 * Price(c)
                        /\ HeldValues[c] = holding[c] * CashPrice[c] /\ HeldValues[c] \in Nat

LEMMA SumsHold == Accounted => AccountSums
<1> SUFFICES ASSUME Accounted PROVE AccountSums
  OBVIOUS
<1>1. Base \in SUBSET Names
  BY RulesAssumption DEF Base, Universe
<1>2. \A c \in Names : /\ Price(c) \in Nat /\ CashPrice[c] = 100 * Price(c)
                       /\ HeldValues[c] = holding[c] * CashPrice[c] /\ HeldValues[c] \in Nat
                       /\ holding[c] \in Nat
  BY PricesAre DEF HeldValues
<1>3. ValueIn(Names) = SumOf(HeldValues, Names) /\ ValueIn(Names) \in Nat
  BY ValueInIs
<1>4. Scope \in SUBSET Base /\ \A c \in Base \ Scope : HeldValues[c] = 0
  <2>1. Scope = {c \in Base : holding[c] > 0}
    BY DEF Scope, Base, OwnedOf
  <2>2. \A c \in Base : c \notin Scope => holding[c] = 0
    BY <1>1, <1>2, <2>1
  <2>3. \A c \in Base : holding[c] = 0 => HeldValues[c] = 0
    <3> TAKE c \in Base
    <3> HAVE holding[c] = 0
    <3>1. CashPrice[c] \in Nat /\ HeldValues[c] = 0 * CashPrice[c]
      BY <1>1, <1>2, PricesAre
    <3> QED
      BY <3>1
  <2> QED
    BY <2>1, <2>2, <2>3
<1>5. ValueIn(Scope) = SumOf(HeldValues, Scope) /\ ValueIn(Scope) \in Nat
  BY ScopeIs, ValueInIs
<1>6. SumOf(HeldValues, Base) = SumOf(HeldValues, Scope)
  <2>1. IsFiniteSet(Base) /\ \A c \in Base : HeldValues[c] \in Int
    BY <1>1, <1>2, SmallSets
  <2> QED
    BY <1>4, <2>1, SumSkips
<1>7. SleeveNav = ((money + SumOf(HeldValues, Names)) * sleeve.weight) \div 100
  BY <1>3 DEF SleeveNav
<1>8. SleeveNav \in Nat /\ RampStep \in Nat /\ sleeve.ramp \in Nat
  BY NavIs, RampStepIs, SleeveIs DEF Accounted
<1> QED
  BY <1>1, <1>2, <1>3, <1>5, <1>6, <1>7, <1>8 DEF AccountSums

LEMMA SumsHoldNext == Accounted' => AccountSums'
  BY SumsHold, PTL

\* Rows as they are stored.
RowSums ==
    /\ SpendOf(rows) = SumOf(Bill(rows), Purchases(rows)) /\ SpendOf(rows) \in Nat
    /\ \A r \in rows : Bill(rows)[r] = r.qty * CashPrice[r.code] /\ Bill(rows)[r] \in Nat
    /\ IsFiniteSet(Purchases(rows)) /\ Purchases(rows) \subseteq rows
RowsTyped == rows \subseteq Proposal /\ IsFiniteSet(rows)

LEMMA RowsHold == Accounted /\ RowsTyped => RowSums
  BY SpendIs DEF RowsTyped, RowSums

LEMMA RowsHoldNext == Accounted' /\ RowsTyped' => RowSums'
  BY RowsHold, PTL

LEMMA DivExact ==
    ASSUME NEW y \in Nat, y > 0, NEW k \in Nat
    PROVE  (y * k) \div y = k
  OBVIOUS

LEMMA RulesInvGives ==
    ASSUME RulesInv
    PROVE  /\ Accounted /\ AccountSums /\ RowsTyped /\ RowSums /\ RampFits(rows)
           /\ \A r, s \in rows : r.code = s.code /\ r.side = s.side => r = s
           /\ \A r \in rows : r.side = "SELL" => r.qty <= holding[r.code]
<1>1. Accounted /\ RowsFit(rows)
  BY AccountedHolds DEF RulesInv
<1>2. RowsTyped
  BY <1>1 DEF RowsFit, RowsTyped
<1> QED
  BY <1>1, <1>2, SumsHold, RowsHold DEF RowsFit

\* A proposal that is filled is paid for: the shares and the cash change hands.
FilledAs(r, n) ==
    LET c == r.code
        k == (holding[c] * cost[c] + n * Price(c)) \div (holding[c] + n)
        later == IF r.side = "SELL" THEN holding[c] - n ELSE holding[c] + n
    IN /\ rows' = rows \ {r} /\ Price(c) > 0 /\ c \in Names /\ holding[c] \in Nat
       /\ n \in Nat /\ n > 0 /\ n <= r.qty /\ r.qty \in Nat
       /\ later \in Nat
       /\ holding' = [holding EXCEPT ![c] = later]
       /\ IF r.side = "SELL" THEN money' = money + n * CashPrice[c] /\ cost' = cost
          ELSE money' = money - n * CashPrice[c] /\ cost' = [cost EXCEPT ![c] = k]
       /\ money' \in Nat
       /\ UNCHANGED <<sleeve, evening, stored, close, refused, goal>>

LEMMA FillIs ==
    ASSUME RulesInv, NEW r \in rows, NEW n \in 1..r.qty, Fill(r, n)
    PROVE  FilledAs(r, n)
<1>1. r \in Proposal /\ r.code \in Names /\ r.qty \in Nat
  BY DEF RulesInv, RulesTypeOK, Proposal
<1>2. n \in Nat /\ n > 0 /\ n <= r.qty
  BY <1>1
<1>3. Accounted
  BY RulesInvGives
<1>4. holding[r.code] \in Nat /\ CashPrice[r.code] \in Nat /\ money \in Nat
  BY <1>1, <1>3, PricesAre DEF Accounted
<1> DEFINE p == CashPrice[r.code]
<1>5. n * p \in Nat /\ p \in Nat
  BY <1>2, <1>4
<1>6. CASE r.side = "SELL"
  <2>1. /\ rows' = rows \ {r} /\ Price(r.code) > 0 /\ n <= holding[r.code]
        /\ holding' = [holding EXCEPT ![r.code] = holding[r.code] - n]
        /\ money' = money + n * p /\ cost' = cost
        /\ UNCHANGED <<sleeve, evening, stored, close, refused, goal>>
    BY <1>6 DEF Fill
  <2>2. holding[r.code] - n \in Nat
    BY <1>2, <1>4, <2>1
  <2> HIDE DEF p
  <2>3. money + n * p \in Nat
    BY <1>4, <1>5
  <2> QED
    BY <1>1, <1>2, <1>4, <1>6, <2>1, <2>2, <2>3 DEF FilledAs, p
<1>7. CASE r.side # "SELL"
  <2>1. /\ rows' = rows \ {r} /\ Price(r.code) > 0 /\ n * p <= money
        /\ holding' = [holding EXCEPT ![r.code] = holding[r.code] + n]
        /\ money' = money - n * p
        /\ cost' = [cost EXCEPT ![r.code] = (holding[r.code] * cost[r.code] + n * Price(r.code))
                                              \div (holding[r.code] + n)]
        /\ UNCHANGED <<sleeve, evening, stored, close, refused, goal>>
    BY <1>7 DEF Fill
  <2>2. holding[r.code] + n \in Nat
    BY <1>2, <1>4
  <2> HIDE DEF p
  <2>3. money - n * p \in Nat
    BY <1>4, <1>5, <2>1
  <2> QED
    BY <1>1, <1>2, <1>4, <1>7, <2>1, <2>2, <2>3 DEF FilledAs, p
<1> QED
  BY <1>6, <1>7

\* The average of some prices is one of them when they are the same, and never nothing.
Average(h, k, n, p) == (h * k + n * p) \div (h + n)

LEMMA AverageIs ==
    ASSUME NEW h \in Nat, NEW k \in Nat, NEW n \in Nat, n > 0, NEW p \in Nat, p > 0, h > 0 => k > 0
    PROVE  Average(h, k, n, p) \in Nat /\ Average(h, k, n, p) > 0 /\ (k = p => Average(h, k, n, p) = p)
<1> DEFINE y == h + n
           x == h * k + n * p
           a == x \div y
<1>1. y \in Nat /\ y > 0
  OBVIOUS
<1>2. h * k \in Nat /\ n * p \in Nat /\ x \in Nat
  OBVIOUS
<1>3. h * k >= h /\ n * p >= n
  <2>1. \A u, v \in Nat : v > 0 => u * v >= u
    OBVIOUS
  <2>2. h = 0 => h * k >= h
    BY <1>2
  <2> QED
    BY <2>1, <2>2
<1>4. x >= y
  BY <1>2, <1>3
<1>5. k = p => x = y * p
  OBVIOUS
<1> HIDE DEF x, y
<1>6. a \in Nat /\ a > 0
  BY <1>1, <1>2, <1>4
<1>7. k = p => a = p
  BY <1>1, <1>5, DivExact
<1> QED
  BY <1>6, <1>7 DEF x, y, Average

LEMMA FilledAccount ==
    ASSUME RulesInv, NEW r \in rows, NEW n \in 1..r.qty, FilledAs(r, n)
    PROVE  /\ Accounted' /\ money' \in Nat
           /\ \A c \in Names \ {r.code} : holding'[c] = holding[c] /\ cost'[c] = cost[c]
           /\ holding'[r.code] = IF r.side = "SELL" THEN holding[r.code] - n ELSE holding[r.code] + n
           /\ \A c \in Names : CashPrice'[c] = CashPrice[c] \/ (holding'[c] = 0 /\ CashPrice'[c] <= CashPrice[c])
<1> DEFINE c0 == r.code
           h == holding[c0]
           k == cost[c0]
           p == Price(c0)
           avg == Average(h, k, n, p)
           later == IF r.side = "SELL" THEN h - n ELSE h + n
<1>0. Accounted /\ AccountSums
  BY RulesInvGives
<1>1. /\ c0 \in Names /\ n \in Nat /\ n > 0 /\ p > 0 /\ h \in Nat /\ later \in Nat
      /\ holding' = [holding EXCEPT ![c0] = later] /\ money' \in Nat
      /\ cost' = IF r.side = "SELL" THEN cost ELSE [cost EXCEPT ![c0] = avg]
      /\ UNCHANGED <<sleeve, evening, close>>
  BY DEF FilledAs, Average
<1>2. /\ holding \in [Names -> Nat] /\ cost \in [Names -> Nat] /\ close \in [Names -> Nat]
      /\ \A c \in Names : holding[c] > 0 => cost[c] > 0
  BY <1>0 DEF Accounted
<1>3. p = IF close[c0] # 0 \/ h = 0 THEN close[c0] ELSE k
  BY DEF Price
<1>4. k \in Nat /\ p \in Nat /\ (h > 0 => k > 0)
  BY <1>0, <1>1, <1>2 DEF AccountSums
<1> HIDE DEF c0, h, k, p
<1>5. avg \in Nat /\ avg > 0 /\ (k = p => avg = p)
  <2>1. h \in Nat /\ k \in Nat /\ n \in Nat /\ n > 0 /\ p \in Nat /\ p > 0 /\ (h > 0 => k > 0)
    BY <1>1, <1>4
  <2> QED
    BY ONLY <2>1, AverageIs
<1> HIDE DEF avg
<1>6. /\ \A c \in Names \ {c0} : holding'[c] = holding[c] /\ cost'[c] = cost[c]
      /\ holding'[c0] = later /\ cost'[c0] = IF r.side = "SELL" THEN k ELSE avg
      /\ holding' \in [Names -> Nat] /\ cost' \in [Names -> Nat]
  <2> HIDE DEF later
  <2> QED
    BY <1>1, <1>2, <1>5 DEF k
<1>7. \A c \in Names : holding'[c] > 0 => cost'[c] > 0
  <2>1. holding'[c0] > 0 => cost'[c0] > 0
    BY <1>1, <1>4, <1>5, <1>6
  <2> QED
    BY <1>2, <1>6, <2>1
<1>8. Accounted'
  BY <1>0, <1>1, <1>6, <1>7 DEF Accounted
<1>9. \A c \in Names : /\ CashPrice[c] = 100 * (IF close[c] # 0 \/ holding[c] = 0 THEN close[c] ELSE cost[c])
                       /\ CashPrice'[c] = 100 * (IF close[c] # 0 \/ holding'[c] = 0 THEN close[c] ELSE cost'[c])
  BY <1>1 DEF CashPrice, Price
<1>10. \A c \in Names \ {c0} : CashPrice'[c] = CashPrice[c]
  BY <1>6, <1>9
<1>11. CashPrice'[c0] = CashPrice[c0] \/ (holding'[c0] = 0 /\ CashPrice'[c0] <= CashPrice[c0])
  <2> DEFINE q == close[c0]
  <2>1. /\ CashPrice[c0] = 100 * (IF q # 0 \/ h = 0 THEN q ELSE k)
        /\ CashPrice'[c0] = 100 * (IF q # 0 \/ later = 0 THEN q ELSE (IF r.side = "SELL" THEN k ELSE avg))
        /\ q \in Nat /\ p = IF q # 0 \/ h = 0 THEN q ELSE k
    BY <1>1, <1>2, <1>3, <1>6, <1>9 DEF h, k
  <2> HIDE DEF q
  <2>2. CASE q # 0
    BY <2>1, <2>2
  <2>3. CASE q = 0
    <3>1. h # 0 /\ p = k
      BY <1>1, <2>1, <2>3
    <3>2. avg = k
      BY <1>5, <3>1
    <3> QED
      BY <1>1, <1>4, <1>6, <2>1, <2>3, <3>1, <3>2
  <2> QED
    BY <2>2, <2>3, <2>1
<1>12. \A c \in Names : CashPrice'[c] = CashPrice[c] \/ (holding'[c] = 0 /\ CashPrice'[c] <= CashPrice[c])
  BY <1>10, <1>11
<1> QED
  BY <1>1, <1>6, <1>8, <1>12 DEF c0, h

Moves(r, n) == IF r.side = "SELL" THEN 0 ELSE n * CashPrice[r.code]

LEMMA FilledSums ==
    ASSUME RulesInv, NEW r \in rows, NEW n \in 1..r.qty, FilledAs(r, n)
    PROVE  /\ SleeveNav' = SleeveNav /\ RampStep' = RampStep
           /\ ValueIn(Scope)' \in Nat /\ ValueIn(Scope)' <= ValueIn(Scope) + Moves(r, n)
<1> DEFINE c0 == r.code
           h == holding[c0]
           p == CashPrice[c0]
           g == HeldValues
           gg == HeldValues'
           total == SumOf(g, Names)
           later == IF r.side = "SELL" THEN h - n ELSE h + n
<1>0. Accounted /\ AccountSums /\ Accounted' /\ AccountSums'
  BY RulesInvGives, FilledAccount, SumsHoldNext
<1>1. /\ c0 \in Names /\ n \in Nat /\ n > 0 /\ h \in Nat /\ later \in Nat
      /\ money' = IF r.side = "SELL" THEN money + n * p ELSE money - n * p
      /\ UNCHANGED <<sleeve, evening, close>>
  BY DEF FilledAs
<1>2. p \in Nat /\ money \in Nat /\ n * p \in Nat
  <2>1. p \in Nat /\ money \in Nat
    BY <1>0, <1>1, PricesAre DEF Accounted
  <2> HIDE DEF p
  <2> QED
    BY <1>1, <2>1
<1>3. /\ \A c \in Names : /\ g[c] = holding[c] * CashPrice[c] /\ g[c] \in Nat
                          /\ gg[c] = holding'[c] * CashPrice'[c] /\ gg[c] \in Nat
      /\ \A c \in Names : holding[c] \in Nat /\ CashPrice[c] \in Nat /\ CashPrice'[c] \in Nat
  <2>1. \A c \in Names : /\ g[c] = holding[c] * CashPrice[c] /\ g[c] \in Nat
                         /\ CashPrice[c] = 100 * Price(c) /\ Price(c) \in Nat
    BY <1>0 DEF AccountSums
  <2>2. \A c \in Names : /\ gg[c] = holding'[c] * CashPrice'[c] /\ gg[c] \in Nat
                         /\ CashPrice'[c] = 100 * Price(c)' /\ Price(c)' \in Nat
    BY <1>0 DEF AccountSums
  <2>3. \A x \in Nat : 100 * x \in Nat
    OBVIOUS
  <2>4. \A c \in Names : holding[c] \in Nat
    BY <1>0 DEF Accounted
  <2> QED
    BY <2>1, <2>2, <2>3, <2>4
<1>4. /\ \A c \in Names \ {c0} : holding'[c] = holding[c]
      /\ holding'[c0] = later
      /\ \A c \in Names : CashPrice'[c] = CashPrice[c] \/ (holding'[c] = 0 /\ CashPrice'[c] <= CashPrice[c])
  BY FilledAccount
<1> HIDE DEF g, gg, total
<1>5. \A c \in Names \ {c0} : gg[c] = g[c]
  <2> TAKE c \in Names \ {c0}
  <2>1. CASE CashPrice'[c] = CashPrice[c]
    BY <1>3, <1>4, <2>1
  <2>2. CASE holding'[c] = 0
    <3>1. \A x \in Nat : 0 * x = 0
      OBVIOUS
    <3>2. holding[c] = 0
      BY <1>4, <2>2
    <3>3. gg[c] = 0 * CashPrice'[c] /\ g[c] = 0 * CashPrice[c]
      BY <1>3, <2>2, <3>2
    <3> QED
      BY <1>3, <3>1, <3>3
  <2> QED
    BY <1>4, <2>1, <2>2
<1>6. gg[c0] = later * p
  <2>1. CASE CashPrice'[c0] = CashPrice[c0]
    BY <1>1, <1>3, <1>4, <2>1
  <2>2. CASE holding'[c0] = 0
    <3>1. \A x \in Nat : 0 * x = 0
      OBVIOUS
    <3>2. later = 0 /\ gg[c0] = 0 * CashPrice'[c0]
      BY <1>1, <1>3, <1>4, <2>2
    <3> HIDE DEF later
    <3> QED
      BY <1>1, <1>2, <1>3, <3>1, <3>2
  <2> QED
    BY <1>1, <1>4, <2>1, <2>2
<1>7. g[c0] = h * p
  BY <1>1, <1>3
<1> HIDE DEF c0, h, p
<1>8. gg[c0] - g[c0] = IF r.side = "SELL" THEN -(n * p) ELSE n * p
  <2>1. (h - n) * p - h * p = -(n * p) /\ (h + n) * p - h * p = n * p
    BY <1>1, <1>2
  <2> QED
    BY <1>6, <1>7, <2>1
<1>9. \A S \in SUBSET Names : /\ c0 \in S => SumOf(gg, S) = SumOf(g, S) + gg[c0] - g[c0]
                              /\ c0 \notin S => SumOf(gg, S) = SumOf(g, S)
                              /\ SumOf(g, S) \in Nat /\ SumOf(gg, S) \in Nat
  <2> TAKE S \in SUBSET Names
  <2>1. IsFiniteSet(S) /\ \A c \in S : g[c] \in Nat /\ gg[c] \in Nat /\ g[c] \in Int /\ gg[c] \in Int
    BY <1>3, SmallSets
  <2>2. c0 \in S => SumOf(gg, S) = SumOf(g, S) + gg[c0] - g[c0]
    <3> HAVE c0 \in S
    <3>1. \A c \in S \ {c0} : g[c] = gg[c]
      BY <1>5
    <3> QED
      BY <2>1, <3>1, SumMoves
  <2>3. c0 \notin S => SumOf(gg, S) = SumOf(g, S)
    <3> HAVE c0 \notin S
    <3>1. \A c \in S : gg[c] = g[c]
      BY <1>5
    <3> QED
      BY <2>1, <3>1, SumOfSame
  <2>4. SumOf(g, S) \in Nat /\ SumOf(gg, S) \in Nat
    BY <2>1, SumIsNat
  <2> QED
    BY <2>2, <2>3, <2>4
<1>10. money' + SumOf(gg, Names) = money + total
  <2>1. SumOf(gg, Names) = total + gg[c0] - g[c0] /\ total \in Nat /\ SumOf(gg, Names) \in Nat
    BY <1>1, <1>9 DEF total
  <2>2. g[c0] \in Nat /\ gg[c0] \in Nat
    BY <1>1, <1>3
  <2> DEFINE x == n * p
  <2>3. x \in Nat /\ money' = (IF r.side = "SELL" THEN money + x ELSE money - x)
        /\ gg[c0] - g[c0] = IF r.side = "SELL" THEN -x ELSE x
    BY <1>1, <1>2, <1>8
  <2> HIDE DEF x
  <2> QED
    BY <1>2, <2>1, <2>2, <2>3
<1>11. SleeveNav' = SleeveNav
  <2>1. SleeveNav = ((money + total) * sleeve.weight) \div 100
    BY <1>0 DEF AccountSums, total, g
  <2>2. SleeveNav' = ((money' + SumOf(gg, Names)) * sleeve'.weight) \div 100
    BY <1>0 DEF AccountSums, gg
  <2> QED
    BY <1>1, <1>10, <2>1, <2>2
<1>12. RampStep' = RampStep
  BY <1>1 DEF RampStep
<1>13. Base' = Base /\ Base \in SUBSET Names
  BY <1>0, <1>1 DEF Base, Universe, AccountSums
<1>14. ValueIn(Scope) = SumOf(g, Base) /\ ValueIn(Scope)' = SumOf(gg, Base)
  <2>1. ValueIn(Scope) = SumOf(g, Base)
    BY <1>0 DEF AccountSums, g
  <2>2. ValueIn(Scope)' = SumOf(gg, Base')
    BY <1>0 DEF AccountSums, gg
  <2> QED
    BY <1>13, <2>1, <2>2
<1>15. Moves(r, n) \in Nat /\ Moves(r, n) = IF r.side = "SELL" THEN 0 ELSE n * p
  BY <1>2 DEF Moves, p, c0
<1>16. SumOf(gg, Base) \in Nat /\ SumOf(gg, Base) <= SumOf(g, Base) + Moves(r, n)
  <2>1. /\ c0 \in Base => SumOf(gg, Base) = SumOf(g, Base) + gg[c0] - g[c0]
        /\ c0 \notin Base => SumOf(gg, Base) = SumOf(g, Base)
        /\ SumOf(g, Base) \in Nat /\ SumOf(gg, Base) \in Nat
    BY <1>9, <1>13
  <2>2. g[c0] \in Nat /\ gg[c0] \in Nat
    BY <1>1, <1>3
  <2> DEFINE x == n * p
             m == Moves(r, n)
  <2>3. x \in Nat /\ m \in Nat /\ m = (IF r.side = "SELL" THEN 0 ELSE x)
        /\ gg[c0] - g[c0] = IF r.side = "SELL" THEN -x ELSE x
    BY <1>2, <1>8, <1>15
  <2> HIDE DEF x, m
  <2>4. SumOf(gg, Base) \in Nat /\ SumOf(gg, Base) <= SumOf(g, Base) + m
    BY <2>1, <2>2, <2>3
  <2> QED
    BY <2>4 DEF m
<1> QED
  BY <1>11, <1>12, <1>14, <1>16

LEMMA FilledSpend ==
    ASSUME RulesInv, NEW r \in rows, NEW n \in 1..r.qty, FilledAs(r, n)
    PROVE  /\ SpendOf(rows)' \in Nat
           /\ SpendOf(rows)' + Moves(r, n) <= SpendOf(rows)
<1> DEFINE P == Purchases(rows)
           Q == P \ {r}
           b == Bill(rows)
           bb == Bill(rows)'
<1>0. Accounted /\ RowsTyped /\ RowSums /\ Accounted'
  BY RulesInvGives, FilledAccount
<1>1. rows' = rows \ {r} /\ n \in Nat /\ n <= r.qty /\ r.qty \in Nat /\ r.code \in Names
  BY DEF FilledAs
<1>2. RowsTyped' /\ RowSums'
  <2>1. RowsTyped'
    BY <1>0, <1>1, FS_Subset DEF RowsTyped
  <2> QED
    BY <1>0, <2>1, RowsHoldNext
<1>3. Purchases(rows)' = Q
  BY <1>1 DEF Purchases
<1>4. /\ \A s \in rows : b[s] = s.qty * CashPrice[s.code] /\ b[s] \in Nat
      /\ IsFiniteSet(P) /\ P \subseteq rows /\ SpendOf(rows) = SumOf(b, P) /\ SpendOf(rows) \in Nat
  BY <1>0 DEF RowSums
<1>5. /\ \A s \in rows' : bb[s] = s.qty * CashPrice'[s.code] /\ bb[s] \in Nat
      /\ SpendOf(rows)' = SumOf(bb, Q) /\ SpendOf(rows)' \in Nat
  BY <1>2, <1>3 DEF RowSums
<1>6. P = {s \in rows : s.side = "BUY"}
  BY DEF Purchases
<1>7. \A s \in rows : s.side \in {"SELL", "BUY"} /\ s.code \in Names /\ s.qty \in Nat
  BY <1>0 DEF RowsTyped, Proposal, Sides
<1> HIDE DEF P, b, bb
<1>8. IsFiniteSet(Q) /\ Q \subseteq rows' /\ Q \subseteq rows
  BY <1>1, <1>4, FS_Subset
<1>9. \A s \in Q : bb[s] \in Int /\ b[s] \in Int /\ bb[s] <= b[s] /\ b[s] \in Nat
  <2> TAKE s \in Q
  <2> DEFINE x == CashPrice'[s.code]
             y == CashPrice[s.code]
             q == s.qty
  <2>1. x <= y /\ x \in Nat /\ y \in Nat /\ q \in Nat
    <3>1. s.code \in Names /\ q \in Nat
      BY <1>7, <1>8
    <3>2. \A c \in Names : CashPrice[c] = 100 * Price(c) /\ Price(c) \in Nat
      BY <1>0, PricesAre
    <3>3. \A c \in Names : CashPrice'[c] = 100 * Price(c)' /\ Price(c)' \in Nat
      BY <1>0, SumsHoldNext DEF AccountSums
    <3>4. CashPrice'[s.code] = CashPrice[s.code] \/ CashPrice'[s.code] <= CashPrice[s.code]
      BY <3>1, FilledAccount
    <3>5. \A z \in Nat : 100 * z \in Nat
      OBVIOUS
    <3>6. x \in Nat /\ y \in Nat
      BY <3>1, <3>2, <3>3, <3>5
    <3> HIDE DEF x, y
    <3> QED
      BY <3>1, <3>4, <3>6 DEF x, y
  <2>2. bb[s] = q * x /\ b[s] = q * y /\ b[s] \in Nat /\ bb[s] \in Nat
    BY <1>4, <1>5, <1>8
  <2> HIDE DEF x, y, q
  <2>3. q * x <= q * y
    BY <2>1
  <2> QED
    BY <2>2, <2>3
<1>10. SumOf(bb, Q) <= SumOf(b, Q)
  <2>1. \A s \in Q : bb[s] \in Int /\ b[s] \in Int /\ bb[s] <= b[s]
    BY <1>9
  <2> HIDE DEF Q
  <2> QED
    BY <1>8, <2>1, SumLeq
<1>11. SumOf(b, Q) \in Nat
  <2> HIDE DEF Q
  <2> QED
    BY <1>8, <1>9, SumIsNat
<1>12. CASE r.side = "SELL"
  <2>1. Q = P
    BY <1>6, <1>12
  <2>2. Moves(r, n) = 0
    BY <1>12 DEF Moves
  <2> HIDE DEF Q
  <2> QED
    BY <1>4, <1>5, <1>10, <1>11, <2>1, <2>2
<1>13. CASE r.side # "SELL"
  <2>1. r \in P
    BY <1>6, <1>7, <1>13
  <2>2. \A s \in P : b[s] \in Int
    BY <1>4
  <2>3. SumOf(b, P) = b[r] + SumOf(b, Q)
    BY <1>4, <2>1, <2>2, SumTakes
  <2> DEFINE p == CashPrice[r.code]
  <2>4. p \in Nat /\ b[r] = r.qty * p /\ b[r] \in Nat /\ Moves(r, n) = n * p
    BY <1>0, <1>1, <1>4, <1>13, PricesAre DEF Moves
  <2> HIDE DEF p
  <2>5. n * p <= r.qty * p /\ n * p \in Nat
    BY <1>1, <2>4
  <2> HIDE DEF Q
  <2>6. SumOf(bb, Q) \in Nat
    BY <1>5
  <2> DEFINE x == n * p
             m == Moves(r, n)
  <2>7. x \in Nat /\ x <= b[r] /\ m = x
    BY <2>4, <2>5
  <2> HIDE DEF x, m
  <2>8. SumOf(bb, Q) + m <= SumOf(b, P)
    BY <1>10, <1>11, <2>3, <2>4, <2>6, <2>7
  <2> QED
    BY <1>4, <1>5, <2>8 DEF m
<1> QED
  BY <1>12, <1>13

LEMMA FillInv ==
    ASSUME RulesInv, NEW r \in rows, NEW n \in 1..r.qty, Fill(r, n)
    PROVE  RulesInv'
<1>0. FilledAs(r, n)
  BY FillIs
<1>1. /\ Accounted /\ AccountSums /\ RowsTyped /\ RowSums /\ RampFits(rows)
      /\ \A x, y \in rows : x.code = y.code /\ x.side = y.side => x = y
      /\ \A x \in rows : x.side = "SELL" => x.qty <= holding[x.code]
  BY RulesInvGives
<1>2. /\ Accounted' /\ money' \in Nat
      /\ \A c \in Names \ {r.code} : holding'[c] = holding[c]
      /\ holding'[r.code] = IF r.side = "SELL" THEN holding[r.code] - n ELSE holding[r.code] + n
  BY <1>0, FilledAccount
<1>3. rows' = rows \ {r} /\ UNCHANGED <<sleeve, evening, stored, close, refused, goal>>
  BY <1>0 DEF FilledAs
<1>4. n \in Nat /\ r.code \in Names /\ holding[r.code] \in Nat
  BY <1>0 DEF FilledAs
<1>5. RampFits(rows)'
  <2>1. /\ SleeveNav' = SleeveNav /\ RampStep' = RampStep
        /\ ValueIn(Scope)' \in Nat /\ ValueIn(Scope)' <= ValueIn(Scope) + Moves(r, n)
        /\ SpendOf(rows)' \in Nat /\ SpendOf(rows)' + Moves(r, n) <= SpendOf(rows)
    BY <1>0, FilledSums, FilledSpend
  <2>2. sleeve.ramp \in Nat /\ ValueIn(Scope) \in Nat /\ SpendOf(rows) \in Nat /\ Moves(r, n) \in Nat
        /\ SleeveNav \in Nat /\ RampStep \in Nat
    <3>1. CashPrice[r.code] \in Nat
      BY <1>1, <1>4, PricesAre
    <3>2. Moves(r, n) \in Nat
      <4> DEFINE p == CashPrice[r.code]
      <4>1. p \in Nat /\ Moves(r, n) = IF r.side = "SELL" THEN 0 ELSE n * p
        BY <3>1 DEF Moves
      <4> HIDE DEF p
      <4> QED
        BY <1>4, <4>1
    <3> QED
      BY <1>1, <3>2 DEF AccountSums, RowSums
  <2>3. SUFFICES ASSUME sleeve.mode # "hold", RampStep < sleeve.ramp, \E x \in rows : x.side = "BUY"
                 PROVE  sleeve.ramp * (ValueIn(Scope)' + SpendOf(rows)') <= SleeveNav * RampStep
    BY <1>3, <2>1 DEF RampFits
  <2>4. sleeve.ramp * (ValueIn(Scope) + SpendOf(rows)) <= SleeveNav * RampStep
    BY <1>1, <2>3 DEF RampFits
  <2> DEFINE m == sleeve.ramp
             a == ValueIn(Scope)' + SpendOf(rows)'
             b == ValueIn(Scope) + SpendOf(rows)
             z == SleeveNav * RampStep
  <2>5. m \in Nat /\ a \in Nat /\ b \in Nat /\ z \in Nat /\ a <= b /\ m * b <= z
    BY <2>1, <2>2, <2>4
  <2> HIDE DEF m, a, b, z
  <2>6. m * a <= m * b /\ m * a \in Nat /\ m * b \in Nat
    BY <2>5
  <2>7. m * a <= z
    BY <2>5, <2>6
  <2> QED
    BY <2>7 DEF m, a, z
<1>6. \A x \in rows' : x.side = "SELL" => x.qty <= holding'[x.code]
  <2> TAKE x \in rows'
  <2> HAVE x.side = "SELL"
  <2>1. x \in rows /\ x # r /\ x.code \in Names /\ x.qty \in Nat /\ x.qty <= holding[x.code]
        /\ holding[x.code] \in Nat
    BY <1>1, <1>3, PricesAre DEF RowsTyped, Proposal
  <2>2. CASE x.code # r.code
    BY <1>2, <2>1, <2>2
  <2>3. CASE x.code = r.code
    <3>1. r.side # "SELL"
      BY <1>1, <2>1, <2>3
    <3> QED
      BY <1>2, <1>4, <2>1, <2>3, <3>1
  <2> QED
    BY <2>2, <2>3
<1>7. RowsFit(rows)'
  <2>1. rows' \subseteq Proposal /\ IsFiniteSet(rows')
    BY <1>1, <1>3, FS_Subset DEF RowsTyped
  <2>2. \A x, y \in rows' : x.code = y.code /\ x.side = y.side => x = y
    BY <1>1, <1>3
  <2> QED
    BY <1>5, <1>6, <2>1, <2>2 DEF RowsFit
<1>8. RulesTypeOK'
  <2>1. holding' \in [Names -> Nat] /\ cost' \in [Names -> Nat]
    BY <1>2 DEF Accounted
  <2> QED
    BY <1>2, <1>3, <2>1 DEF RulesInv, RulesTypeOK
<1> QED
  BY <1>2, <1>7, <1>8 DEF RulesInv, Accounted

\* An account that no order has touched judges the rows as before.
LEMMA RowsStay ==
    ASSUME NEW R, RowsFit(R), rows' = R, UNCHANGED <<sleeve, evening, close, accountVars>>
    PROVE  RowsFit(rows)'
<1>1. UNCHANGED <<sleeve, evening, close, holding, cost, money>>
  BY DEF accountVars
<1>2. CashPrice' = CashPrice
  BY <1>1 DEF CashPrice, Price
<1>3. Scope' = Scope
  BY <1>1 DEF Scope, OwnedOf, Universe
<1>4. RampStep' = RampStep
  BY <1>1 DEF RampStep
<1>5. ValueIn(Names)' = ValueIn(Names) /\ ValueIn(Scope)' = ValueIn(Scope)
  BY <1>1, <1>2, <1>3 DEF ValueIn, MapThenSumSet, MapThenFoldSet
<1>6. SleeveNav' = SleeveNav
  BY <1>1, <1>5 DEF SleeveNav
<1>7. SpendOf(rows)' = SpendOf(R)
  BY <1>1, <1>2 DEF SpendOf, Purchases, MapThenSumSet, MapThenFoldSet
<1>8. RampFits(rows)'
  <2>1. RampFits(R)
    BY DEF RowsFit
  <2>2. sleeve' = sleeve
    BY <1>1
  <2>3. RampFits(rows)' <=> RampFits(R)
    BY <1>3, <1>4, <1>5, <1>6, <1>7, <2>2 DEF RampFits
  <2> QED
    BY <2>1, <2>3
<1> QED
  BY <1>1, <1>8 DEF RowsFit

LEMMA NothingFits == RowsFit({})
<1>1. \A r \in {} : FALSE
  OBVIOUS
<1> QED
  BY FS_EmptySet DEF RowsFit, RampFits

\* A run that proposes what fits, with a target of shares.
LEMMA RunKeeps ==
    ASSUME RulesInv, Run, NEW R, RowsFit(R), rows' = R,
           goal' \in [month : Nat, target : [Names -> Nat]]
    PROVE  RulesInv'
<1>1. stored' = TRUE /\ UNCHANGED <<sleeve, evening, close, holding, cost, money, refused>>
  BY DEF Run, accountVars
<1>2. RowsFit(rows)'
  BY <1>1, RowsStay DEF accountVars
<1>3. rows' \subseteq Proposal
  BY DEF RowsFit
<1>4. RulesTypeOK'
  BY <1>1, <1>3 DEF RulesInv, RulesTypeOK
<1> QED
  BY <1>1, <1>2, <1>4 DEF RulesInv

LEMMA ExposuresAre == ASSUME NEW e \in LiveExposures PROVE e \in 0..101
  BY RulesAssumption DEF LiveExposures, NoRegime

LEMMA GoalIs ==
    ASSUME RulesInv
    PROVE  /\ goal \in [month : Nat, target : [Names -> Nat]] /\ goal.target \in [Names -> Nat]
           /\ Accounted /\ Evenings[evening] \in Nat
<1>1. goal \in [month : Nat, target : [Names -> Nat]] /\ evening \in DOMAIN Evenings
  BY DEF RulesInv, RulesTypeOK
<1>2. Evenings[evening] \in Nat
  BY <1>1, RulesAssumption
<1> QED
  BY <1>1, <1>2, RulesInvGives

LEMMA RunRulesInv ==
    ASSUME RulesInv, NEW r \in Scorings, NEW e \in LiveExposures, RunRules(r, e)
    PROVE  RulesInv'
<1> DEFINE D == IF SleeveNav > 0 THEN RuleDrafts(InUniverse(r), e) ELSE <<>>
           R == Stored(Ramped(KeptAfterRejection(D)))
<1>1. Run /\ rows' = R /\ goal' = goal
  BY DEF RunRules, Propose
<1>2. Accounted /\ goal \in [month : Nat, target : [Names -> Nat]]
  BY GoalIs
<1>3. D \in Seq(Fitting)
  <2>1. RuleDrafts(InUniverse(r), e) \in Seq(Fitting)
    BY <1>2, RanksAre, ExposuresAre, RuleDraftsAre
  <2>2. <<>> \in Seq(Fitting)
    OBVIOUS
  <2> QED
    BY <2>1, <2>2
<1> HIDE DEF D
<1>4. RowsFit(R)
  BY <1>2, <1>3, ProposedFit
<1> HIDE DEF R
<1> QED
  BY <1>1, <1>2, <1>4, RunKeeps

LEMMA RunRebalanceInv ==
    ASSUME RulesInv, NEW r \in Scorings, NEW e \in LiveExposures, NEW rising, RunRebalance(r, e, rising)
    PROVE  RulesInv'
<1> DEFINE target == MonthTarget(InUniverse(r), e, rising)
           D == RebalanceDrafts(target)
           R == Stored(Ramped(KeptAfterRejection(D)))
<1>1. Run /\ rows' = R /\ goal' = [month |-> Evenings[evening], target |-> target]
  BY DEF RunRebalance, Propose
<1>2. Accounted /\ Evenings[evening] \in Nat
  BY GoalIs
<1>3. target \in [Names -> Nat]
  BY <1>2, RanksAre, ExposuresAre, MonthTargetIs
<1> HIDE DEF target
<1>4. D \in Seq(Fitting)
  <2>1. "REBALANCE" \in Rules
    BY DEF Rules
  <2>2. DiffDrafts(target, Scope \cap Universe, "REBALANCE") \in Seq(Fitting)
    BY <1>2, <1>3, <2>1, DiffDraftsAre
  <2> QED
    BY <2>2 DEF RebalanceDrafts
<1> HIDE DEF D
<1>5. RowsFit(R)
  BY <1>2, <1>4, ProposedFit
<1> HIDE DEF R
<1>6. goal' \in [month : Nat, target : [Names -> Nat]]
  BY <1>1, <1>2, <1>3
<1> QED
  BY <1>1, <1>5, <1>6, RunKeeps

LEMMA RunCarryoverInv ==
    ASSUME RulesInv, RunCarryover
    PROVE  RulesInv'
<1> DEFINE D == CarryoverDrafts
           R == Stored(Ramped(KeptAfterRejection(D)))
<1>1. Run /\ rows' = R /\ goal' = goal
  BY DEF RunCarryover, Propose
<1>2. Accounted /\ goal \in [month : Nat, target : [Names -> Nat]] /\ goal.target \in [Names -> Nat]
  BY GoalIs
<1>3. D \in Seq(Fitting)
  <2>1. "REBALANCE_CARRYOVER" \in Rules
    BY DEF Rules
  <2>2. DiffDrafts(goal.target, Scope, "REBALANCE_CARRYOVER") \in Seq(Fitting)
    BY <1>2, <2>1, DiffDraftsAre
  <2>3. <<>> \in Seq(Fitting)
    OBVIOUS
  <2> QED
    BY <2>2, <2>3 DEF CarryoverDrafts
<1> HIDE DEF D
<1>4. RowsFit(R)
  BY <1>2, <1>3, ProposedFit
<1> HIDE DEF R
<1> QED
  BY <1>1, <1>2, <1>4, RunKeeps

\* A fixed holding has no ramp.
LEMMA RunHoldInv ==
    ASSUME RulesInv, RunHold
    PROVE  RulesInv'
<1> DEFINE D == IF MonthStart THEN HoldDrafts ELSE <<>>
           R == Stored(D)
<1>1. Run /\ rows' = R /\ goal' = goal /\ sleeve.mode = "hold"
  BY DEF RunHold
<1>2. Accounted /\ goal \in [month : Nat, target : [Names -> Nat]]
  BY GoalIs
<1>3. D \in Seq(Fitting)
  <2>1. HoldDrafts \in Seq(Fitting)
    BY <1>2, HoldDraftsAre
  <2>2. <<>> \in Seq(Fitting)
    OBVIOUS
  <2> QED
    BY <2>1, <2>2
<1> HIDE DEF D
<1>4. RowsFit(R)
  <2>1. R \subseteq Fitting /\ IsFiniteSet(R) /\ OnePerSide(R)
    BY <1>3, StoredIs
  <2>2. RampFits(R)
    BY <1>1 DEF RampFits
  <2> QED
    BY <2>1, <2>2 DEF RowsFit, OnePerSide, Fitting
<1> HIDE DEF R
<1> QED
  BY <1>1, <1>2, <1>4, RunKeeps

LEMMA RunFailsInv ==
    ASSUME RulesInv, RunFails
    PROVE  RulesInv'
<1>1. Run /\ rows' = rows /\ goal' = goal
  BY DEF RunFails
<1>2. RowsFit(rows) /\ goal \in [month : Nat, target : [Names -> Nat]]
  BY GoalIs DEF RulesInv
<1> QED
  BY <1>1, <1>2, RunKeeps

\* Fewer rows fit where more did.
LEMMA FewerFit ==
    ASSUME Accounted, NEW R, RowsFit(R), NEW r \in R
    PROVE  RowsFit(R \ {r})
<1> DEFINE Q == R \ {r}
           P == Purchases(R)
           b == Bill(R)
           bb == Bill(Q)
<1>1. /\ R \subseteq Proposal /\ IsFiniteSet(R) /\ RampFits(R)
      /\ \A x, y \in R : x.code = y.code /\ x.side = y.side => x = y
      /\ \A x \in R : x.side = "SELL" => x.qty <= holding[x.code]
  BY DEF RowsFit
<1>2. Q \subseteq R /\ Q \subseteq Proposal /\ IsFiniteSet(Q)
  BY <1>1, FS_Subset
<1>3. /\ SpendOf(R) = SumOf(b, P) /\ SpendOf(R) \in Nat /\ IsFiniteSet(P) /\ P \subseteq R
      /\ \A x \in R : b[x] = x.qty * CashPrice[x.code] /\ b[x] \in Nat
  BY <1>1, SpendIs
<1>4. /\ SpendOf(Q) = SumOf(bb, Purchases(Q)) /\ SpendOf(Q) \in Nat
      /\ \A x \in Q : bb[x] = x.qty * CashPrice[x.code]
  <2> HIDE DEF Q
  <2> QED
    BY <1>2, SpendIs
<1>5. Purchases(Q) = P \ {r}
  BY DEF Purchases
<1> HIDE DEF P, b, bb
<1>6. SumOf(bb, P \ {r}) = SumOf(b, P \ {r})
  <2>1. IsFiniteSet(P \ {r}) /\ \A x \in P \ {r} : bb[x] = b[x]
    BY <1>3, <1>4, FS_Subset
  <2> QED
    BY <2>1, SumOfSame
<1>7. SpendOf(Q) <= SpendOf(R)
  <2>1. CASE r \in P
    <3>1. \A x \in P : b[x] \in Int
      BY <1>3
    <3>2. SumOf(b, P) = b[r] + SumOf(b, P \ {r})
      BY <1>3, <2>1, <3>1, SumTakes
    <3>3. b[r] \in Nat
      BY <1>3
    <3> HIDE DEF Q
    <3> QED
      BY <1>3, <1>4, <1>5, <1>6, <3>2, <3>3
  <2>2. CASE r \notin P
    <3>1. P \ {r} = P
      BY <2>2
    <3> HIDE DEF Q
    <3>2. SumOf(b, P \ {r}) = SumOf(b, P)
      BY <3>1, Zenon
    <3>3. SpendOf(Q) = SpendOf(R)
      BY <1>3, <1>4, <1>5, <1>6, <3>2, Zenon
    <3> QED
      BY <1>3, <3>3
  <2> QED
    BY <2>1, <2>2
<1>8. RampFits(Q)
  <2>1. SUFFICES ASSUME sleeve.mode # "hold", RampStep < sleeve.ramp, \E x \in R : x.side = "BUY"
                 PROVE  sleeve.ramp * (ValueIn(Scope) + SpendOf(Q)) <= SleeveNav * RampStep
    BY <1>2 DEF RampFits
  <2>2. sleeve.ramp * (ValueIn(Scope) + SpendOf(R)) <= SleeveNav * RampStep
    BY <1>1, <2>1 DEF RampFits
  <2>3. sleeve.ramp \in Nat /\ ValueIn(Scope) \in Nat /\ SleeveNav \in Nat /\ RampStep \in Nat
    BY NavIs, RampStepIs, SleeveIs DEF Accounted
  <2> DEFINE m == sleeve.ramp
             x == ValueIn(Scope) + SpendOf(Q)
             y == ValueIn(Scope) + SpendOf(R)
             z == SleeveNav * RampStep
  <2>4. m \in Nat /\ x \in Nat /\ y \in Nat /\ z \in Nat /\ x <= y /\ m * y <= z
    BY <1>3, <1>4, <1>7, <2>2, <2>3
  <2> HIDE DEF m, x, y, z
  <2>5. m * x <= m * y /\ m * x \in Nat /\ m * y \in Nat
    BY <2>4
  <2>6. m * x <= z
    BY <2>4, <2>5
  <2> QED
    BY <2>6 DEF m, x, z
<1> QED
  BY <1>1, <1>2, <1>8 DEF RowsFit

LEMMA RefuseInv ==
    ASSUME RulesInv, NEW r \in rows, Refuse(r)
    PROVE  RulesInv'
<1>1. /\ rows' = rows \ {r} /\ refused' = refused \cup {<<r.code, r.side>>}
      /\ UNCHANGED <<sleeve, evening, stored, close, holding, cost, money, goal>>
  BY DEF Refuse, accountVars
<1>2. RowsFit(rows \ {r})
  BY RulesInvGives, FewerFit DEF RulesInv
<1>3. RowsFit(rows)'
  BY <1>1, <1>2, RowsStay DEF accountVars
<1>4. RulesTypeOK'
  <2>1. r \in Proposal
    BY DEF RulesInv, RulesTypeOK
  <2>2. <<r.code, r.side>> \in Names \X Sides
    BY <2>1 DEF Proposal
  <2> QED
    BY <1>1, <2>2 DEF RulesInv, RulesTypeOK
<1> QED
  BY <1>1, <1>3, <1>4 DEF RulesInv

LEMMA NextEveningInv ==
    ASSUME RulesInv, NEW q \in Closes, NextEvening(q)
    PROVE  RulesInv'
<1>1. /\ evening' = evening + 1 /\ evening < Len(Evenings) /\ stored' = FALSE /\ close' = q
      /\ rows' = {} /\ UNCHANGED <<sleeve, holding, cost, money, goal>>
      /\ refused' \in {{}, refused}
  BY DEF NextEvening, accountVars
<1>2. RowsFit(rows)'
  BY <1>1, FS_EmptySet DEF RowsFit, RampFits
<1>3. q \in [Names -> Nat] /\ evening + 1 \in DOMAIN Evenings
  <2>1. Evenings \in Seq(Nat \ {0}) /\ Closes \subseteq [Names -> Nat]
    BY RulesAssumption
  <2>2. DOMAIN Evenings = 1..Len(Evenings) /\ Len(Evenings) \in Nat
    BY <2>1
  <2>3. evening \in 1..Len(Evenings)
    BY <2>2 DEF RulesInv, RulesTypeOK
  <2> QED
    BY <1>1, <2>1, <2>2, <2>3
<1>4. RulesTypeOK'
  BY <1>1, <1>3 DEF RulesInv, RulesTypeOK
<1> QED
  BY <1>1, <1>2, <1>4 DEF RulesInv

LEMMA RulesInvInit == RulesInit => RulesInv
<1> SUFFICES ASSUME RulesInit PROVE RulesInv
  OBVIOUS
<1>1. /\ sleeve \in Sleeves /\ evening = 1 /\ stored = FALSE /\ close \in Closes
      /\ holding = StartHolding /\ money = StartMoney
      /\ cost = [c \in Names |-> IF StartHolding[c] = 0 THEN 0 ELSE 2]
      /\ rows = {} /\ refused = {} /\ goal = NoGoal
  BY DEF RulesInit
<1>2. 1 \in DOMAIN Evenings
  <2>1. Evenings \in Seq(Nat \ {0}) /\ Evenings # <<>>
    BY RulesAssumption
  <2>2. DOMAIN Evenings = 1..Len(Evenings) /\ Len(Evenings) \in Nat /\ Len(Evenings) # 0
    BY <2>1, EmptySeq, LenProperties
  <2> QED
    BY <2>2
<1>3. RulesTypeOK /\ \A c \in Names : holding[c] > 0 => cost[c] > 0
  <2>1. NoGoal \in [month : Nat, target : [Names -> Nat]]
    BY DEF NoGoal
  <2>2. cost \in [Names -> Nat] /\ \A c \in Names : holding[c] > 0 => cost[c] > 0
    BY <1>1, RulesAssumption
  <2> QED
    BY <1>1, <1>2, <2>1, <2>2, RulesAssumption DEF RulesTypeOK
<1> QED
  BY <1>1, <1>3, NothingFits DEF RulesInv

LEMMA RulesInvNext == RulesInv /\ [RulesNext]_rulesVars => RulesInv'
<1> SUFFICES ASSUME RulesInv, [RulesNext]_rulesVars PROVE RulesInv'
  OBVIOUS
<1>1. ASSUME NEW r \in Scorings, NEW e \in LiveExposures, RunRules(r, e) PROVE RulesInv'
  BY <1>1, RunRulesInv
<1>2. ASSUME NEW r \in Scorings, NEW e \in LiveExposures, NEW rising \in RisingSets,
             RunRebalance(r, e, rising)
      PROVE  RulesInv'
  BY <1>2, RunRebalanceInv
<1>3. CASE RunFails
  BY <1>3, RunFailsInv
<1>4. CASE RunCarryover
  BY <1>4, RunCarryoverInv
<1>5. CASE RunHold
  BY <1>5, RunHoldInv
<1>6. ASSUME NEW r \in rows, Refuse(r) PROVE RulesInv'
  BY <1>6, RefuseInv
<1>7. ASSUME NEW r \in rows, NEW n \in 1..r.qty, Fill(r, n) PROVE RulesInv'
  BY <1>7, FillInv
<1>8. ASSUME NEW q \in Closes, NextEvening(q) PROVE RulesInv'
  BY <1>8, NextEveningInv
<1>9. CASE UNCHANGED rulesVars
  <2>1. UNCHANGED <<sleeve, evening, stored, close, holding, cost, money, rows, refused, goal>>
    BY <1>9 DEF rulesVars, accountVars
  <2>2. RowsFit(rows)'
    BY <2>1, RowsStay DEF RulesInv, accountVars
  <2> QED
    BY <2>1, <2>2 DEF RulesInv, RulesTypeOK
<1> QED
  BY <1>1, <1>2, <1>3, <1>4, <1>5, <1>6, <1>7, <1>8, <1>9 DEF RulesNext

LEMMA RulesKeep == RulesSpec => []RulesInv
  BY RulesInvInit, RulesInvNext, PTL DEF RulesSpec

\* One sale at the most for each stock, of what is held.
LEMMA SalesAreHeld == RulesInv => SellsAreHeld
<1> SUFFICES ASSUME RulesInv, NEW c \in Names
             PROVE  MapThenSumSet(LAMBDA r : r.qty, {r \in rows : r.code = c /\ r.side = "SELL"}) <= holding[c]
  BY DEF SellsAreHeld
<1> DEFINE S == {r \in rows : r.code = c /\ r.side = "SELL"}
           g == [r \in S |-> r.qty]
           Body(u) == u = [s \in SUBSET S |-> IF s = {} THEN 0
                             ELSE (CHOOSE x \in s : TRUE).qty + u[s \ {CHOOSE x \in s : TRUE}]]
<1>0. /\ RowsTyped /\ holding[c] \in Nat
      /\ \A r, s \in rows : r.code = s.code /\ r.side = s.side => r = s
      /\ \A r \in rows : r.side = "SELL" => r.qty <= holding[r.code]
  BY RulesInvGives, PricesAre
<1>1. IsFiniteSet(S) /\ S \subseteq rows /\ (\A r, s \in S : r = s)
      /\ \A r \in S : r.qty \in Nat /\ r.qty <= holding[c]
  BY <1>0, FS_Subset DEF RowsTyped, Proposal
<1>2. \A u : IsTable(u, g, S) <=> Body(u)
  <2> TAKE u
  <2>1. \A s \in SUBSET S : s # {} => Some(s) \in S
    BY SomeIsIn
  <2>2. \A s \in SUBSET S : s # {} => g[Some(s)] = Some(s).qty
    BY <2>1
  <2>3. [s \in SUBSET S |-> IF s = {} THEN 0 ELSE g[Some(s)] + u[s \ {Some(s)}]]
      = [s \in SUBSET S |-> IF s = {} THEN 0 ELSE Some(s).qty + u[s \ {Some(s)}]]
    <3> HIDE DEF g
    <3> QED
      BY <2>2
  <2> QED
    BY <2>3, Zenon DEF IsTable, Some
<1>3. IsTable(CHOOSE u : Body(u), g, S)
  <2> HIDE DEF Body, g, S
  <2> QED
    BY <1>1, <1>2, TableExists
<1>4. MapThenSumSet(LAMBDA r : r.qty, S) = (CHOOSE u : Body(u))[S]
  BY DEF MapThenSumSet, MapThenFoldSet
<1>5. SumOf(g, S) = (CHOOSE u : Body(u))[S]
  <2> HIDE DEF Body, g, S
  <2> QED
    BY <1>1, <1>3, SumIsTables
<1>6. \A r \in S : g[r] = r.qty
  OBVIOUS
<1> HIDE DEF S, g, Body
<1>7. SumOf(g, S) <= holding[c]
  <2>1. CASE S = {}
    BY <1>0, <2>1, SumOfNone
  <2>2. CASE S # {}
    <3>1. PICK r \in S : TRUE
      BY <2>2
    <3>2. \A s \in S : g[s] \in Int
      BY <1>1, <1>6
    <3>3. SumOf(g, S) = g[r] + SumOf(g, S \ {r})
      BY <1>1, <3>1, <3>2, SumTakes
    <3>4. S \ {r} = {}
      BY <1>1, <3>1
    <3>5. SumOf(g, S \ {r}) = 0
      BY <3>4, SumOfNone
    <3> QED
      BY <1>1, <1>6, <3>1, <3>3, <3>5
  <2> QED
    BY <2>1, <2>2
<1> QED
  BY <1>4, <1>5, <1>7 DEF S

LEMMA RulesInvFits == RulesInv => ProposalsFit
<1> SUFFICES ASSUME RulesInv PROVE ProposalsFit
  OBVIOUS
<1>1. RampFits(rows)
  BY RulesInvGives
<1>2. RampRespected
  BY <1>1 DEF RampFits, RampRespected, SpendOf, Purchases
<1> QED
  BY <1>2, SalesAreHeld DEF ProposalsFit

StopsOffered ==
    Nightfall /\ sleeve.mode = "rules" =>
         \A c \in Names : PastStop(c) => Sell(c, holding[c], "STOP_LOSS") \in rows'

LEMMA StopStep == RulesInv /\ [RulesNext]_rulesVars => [StopsOffered]_rulesVars
<1> SUFFICES ASSUME RulesInv, RulesNext, ~stored, stored', sleeve.mode = "rules",
                    NEW c \in Names, PastStop(c)
             PROVE  Sell(c, holding[c], "STOP_LOSS") \in rows'
  BY DEF StopsOffered, Nightfall
<1>1. PICK r \in Scorings : \E e \in LiveExposures : RunRules(r, e)
  <2>1. \A x \in rows : ~Refuse(x) /\ \A n \in 1..x.qty : ~Fill(x, n)
    BY DEF Refuse, Fill
  <2>2. \A q \in Closes : ~NextEvening(q)
    BY DEF NextEvening
  <2>3. ~RunFails /\ ~RunCarryover /\ ~RunHold
    BY DEF RunFails, RunCarryover, RunHold
  <2>4. \A x \in Scorings, e \in LiveExposures, rising \in RisingSets : ~RunRebalance(x, e, rising)
    BY DEF RunRebalance
  <2> QED
    BY <2>1, <2>2, <2>3, <2>4 DEF RulesNext
<1>2. PICK e \in LiveExposures : RunRules(r, e)
  BY <1>1
<1> DEFINE D == RuleDrafts(InUniverse(r), e)
           x == Sell(c, holding[c], "STOP_LOSS")
<1>3. Accounted /\ c \in Scope
  BY RulesInvGives DEF PastStop
<1>4. SleeveNav > 0
  BY <1>3, NavIs, ScopeIs
<1>5. rows' = Stored(Ramped(KeptAfterRejection(D)))
  BY <1>2, <1>4 DEF RunRules, Propose
<1>6. D \in Seq(Fitting) /\ Sole(D, x)
  BY <1>3, RanksAre, ExposuresAre, RuleDraftsAre
<1>7. x.rule = "STOP_LOSS" /\ x.side = "SELL"
  BY DEF Sell
<1> HIDE DEF D, x
<1>8. x \in Stored(Ramped(KeptAfterRejection(D)))
  BY <1>3, <1>6, <1>7, ProposedFit
<1> QED
  BY <1>5, <1>8 DEF x

-----------------------------------------------------------------------------
(* The types of the components whose invariant does not hold them.         *)

ManualTyped == ManualInv /\ ManualTypeOK

LEMMA ManualTypedInit == ManualInit => ManualTyped
<1>1. ManualInit => ManualTypeOK
  BY ManualOrderAssumption DEF ManualInit, ManualTypeOK, Replies
<1> QED
  BY <1>1, ManualInitInv DEF ManualTyped

LEMMA ManualTypesQuiet == ManualTypeOK /\ UNCHANGED manualVars => ManualTypeOK'
  BY DEF ManualTypeOK, manualVars

Counted == faults < MaxFaults /\ faults' = faults + 1

LEMMA ManualTypesNext ==
    ASSUME ManualTypeOK, ManualNext
    PROVE  ManualTypeOK'
<1> USE DEF ManualTypeOK, Replies
<1>0. ManualTypeOK /\ MaxFaults \in Nat
  BY ManualOrderAssumption
<1>20. Counted => faults' \in 0..MaxFaults
  <2>1. faults \in 0..MaxFaults /\ MaxFaults \in Nat
    BY <1>0
  <2> QED
    BY ONLY <2>1 DEF Counted
<1>1. ASSUME NEW s \in Submissions, LookUp(s) PROVE ManualTypeOK'
  <2>1. \/ at' = [at EXCEPT ![s] = "done"] /\ reply' = [reply EXCEPT ![s] = "replayed"]
        \/ at' = [at EXCEPT ![s] = "looked up"] /\ reply' = reply
    BY <1>1 DEF LookUp, Answer, Go
  <2> QED
    BY <1>0, <1>1, <2>1 DEF LookUp
<1>2. ASSUME NEW s \in Submissions, Guard(s) PROVE ManualTypeOK'
  <2>1. \/ at' = [at EXCEPT ![s] = "done"] /\ reply' = [reply EXCEPT ![s] = "blocked"]
        \/ at' = [at EXCEPT ![s] = "sent"] /\ reply' = reply
    BY <1>2 DEF Guard, Answer, Go
  <2> QED
    BY <1>0, <1>2, <2>1 DEF Guard
<1>3. ASSUME NEW s \in Submissions, BrokerTakes(s) PROVE ManualTypeOK'
  BY <1>0, <1>3 DEF BrokerTakes
<1>4. ASSUME NEW s \in Submissions, Accepted(s) PROVE ManualTypeOK'
  BY <1>0, <1>4 DEF Accepted, Go
<1>5. ASSUME NEW s \in Submissions, OrderFails(s) PROVE ManualTypeOK'
  <2>1. /\ at' = [at EXCEPT ![s] = "done"] /\ reply' = [reply EXCEPT ![s] = "failed"]
        /\ UNCHANGED <<form, killed, lossy, taken, records, told>>
        /\ faults' = faults \/ Counted
    BY <1>5 DEF OrderFails, Answer, Go, Fault, Counted
  <2> QED
    BY <1>0, <1>20, <2>1
<1>6. ASSUME NEW s \in Submissions, Persist(s) PROVE ManualTypeOK'
  <2>1. /\ at' = [at EXCEPT ![s] = "done"] /\ reply' = [reply EXCEPT ![s] = reply'[s]]
        /\ reply'[s] \in Replies /\ UNCHANGED <<form, killed, lossy, taken, told>>
        /\ records' \in {records, records \cup {s}} /\ (faults' = faults \/ Counted)
    BY <1>0, <1>6 DEF Persist, Answer, Go, Fault, Counted
  <2> QED
    BY <1>0, <1>20, <2>1
<1>7. CASE RestartServer
  <2>1. /\ at' = [s \in Submissions |-> IF at[s] = "new" THEN "new" ELSE "done"]
        /\ UNCHANGED <<form, reply, killed, lossy, taken, records, told>> /\ Counted
    BY <1>7 DEF RestartServer, Fault, Counted
  <2> QED
    BY <1>0, <1>20, <2>1
<1>8. CASE Toggle
  BY <1>0, <1>8 DEF Toggle
<1> QED
  BY <1>1, <1>2, <1>3, <1>4, <1>5, <1>6, <1>7, <1>8 DEF ManualNext

LEMMA ManualTypedNext == ManualTyped /\ [ManualNext]_manualVars => ManualTyped'
  BY ManualTypesNext, ManualTypesQuiet, ManualStepInv, ManualQuietInv DEF ManualTyped

TelegramTypes ==
    /\ decided \subseteq Batch /\ todo \subseteq Batch
    /\ Len(taps) <= MaxTaps /\ raised \subseteq DOMAIN taps /\ crashes \in 0..MaxCrashes
TelegramTyped == TelegramInv /\ TelegramTypes

LEMMA TelegramTypedInit == TelegramInit => TelegramTyped
<1>1. TelegramInit => TelegramTypes
  BY TelegramAssumption DEF TelegramInit, TelegramTypes
<1> QED
  BY <1>1, TelegramInitInv DEF TelegramTyped

LEMMA TelegramTypesQuiet == TelegramTypes /\ UNCHANGED telegramVars => TelegramTypes'
  BY DEF TelegramTypes, telegramVars

LEMMA TelegramTypesNext ==
    ASSUME TelegramTyped, TelegramNext
    PROVE  TelegramTypes'
<1> USE DEF TelegramTypes
<1>0. TelegramTypes /\ current \in 0..Len(taps) /\ MaxCrashes \in Nat
  BY TelegramAssumption DEF TelegramTyped, TelegramInv
<1>1. CASE Tap
  <2>0. taps \in Seq(Button) /\ shown \subseteq Button /\ MaxTaps \in Nat
    BY TelegramAssumption DEF TelegramTyped, TelegramInv
  <2>1. PICK b \in Button : taps' = Append(taps, b)
    BY <2>0, <1>1 DEF Tap
  <2>2. Len(taps') = Len(taps) + 1 /\ Len(taps) \in Nat /\ DOMAIN taps \subseteq DOMAIN taps'
    BY <2>0, <2>1
  <2>3. Len(taps) < MaxTaps /\ UNCHANGED <<decided, todo, raised, crashes>>
    BY <1>1 DEF Tap
  <2> QED
    BY <1>0, <2>0, <2>2, <2>3
<1>2. CASE DecideElsewhere
  BY <1>0, <1>2 DEF DecideElsewhere
<1>3. CASE Poll
  BY <1>0, <1>3 DEF Poll
<1>4. CASE Ask
  BY <1>0, <1>4 DEF Ask
<1>5. CASE Act
  <2>1. NextUpdate \in DOMAIN taps
    BY <1>5 DEF Act, Pending, NextUpdate, TelegramTyped, TelegramInv
  <2>2. taps[NextUpdate] \in Button
    BY <2>1 DEF TelegramTyped, TelegramInv
  <2>3. /\ taps[NextUpdate].target \in Batch \cup {All} /\ Decides(taps[NextUpdate])
        /\ todo' = TargetsOf(taps[NextUpdate]) \ (IF taps[NextUpdate].target = All THEN decided ELSE {})
        /\ UNCHANGED <<decided, taps, raised, crashes>>
    BY <1>5, <2>2 DEF Act, Button
  <2>4. TargetsOf(taps[NextUpdate]) \subseteq Batch
    BY <2>3 DEF TargetsOf
  <2> QED
    BY <1>0, <2>3, <2>4
<1>6. CASE DecideNext
  <2>1. todo \subseteq Nat /\ todo # {}
    BY <1>0, <1>6, TelegramAssumption DEF DecideNext
  <2>2. Min(todo) \in todo
    BY <2>1, LeastIsMin
  <2> QED
    BY <1>0, <1>6, <2>2 DEF DecideNext
<1>7. CASE HandlingRaises
  BY <1>0, <1>7 DEF HandlingRaises
<1>8. CASE FinishHandling
  BY <1>0, <1>8 DEF FinishHandling
<1>9. CASE RestartTelegram
  BY <1>0, <1>9 DEF RestartTelegram
<1> HIDE DEF TelegramTypes
<1> QED
  BY <1>1, <1>2, <1>3, <1>4, <1>5, <1>6, <1>7, <1>8, <1>9 DEF TelegramNext

LEMMA TelegramTypedNext == TelegramTyped /\ [TelegramNext]_telegramVars => TelegramTyped'
  BY TelegramTypesNext, TelegramTypesQuiet, TelegramStepInv, TelegramQuietInv DEF TelegramTyped

LEMMA TelegramIsTyped == TelegramTyped => TelegramTypeOK
  BY DEF TelegramTyped, TelegramInv, TelegramTypeOK, TelegramTypes

CachesTypes == instant \in 0..LastInstant /\ \A c \in Callers : caller[c].since \in 0..LastInstant
CachesTyped == CachesInv /\ CachesTypes

LEMMA CachesTypedInit == CachesInit => CachesTyped
<1>1. CachesInit => CachesTypes
  BY SharedCachesAssumption DEF CachesInit, Away, CachesTypes
<1> QED
  BY <1>1, CachesInitInv DEF CachesTyped

LEMMA CachesTypesQuiet == CachesTypes /\ UNCHANGED cachesVars => CachesTypes'
  BY DEF CachesTypes, cachesVars

LEMMA CachesTypesNext ==
    ASSUME CachesTyped, CachesNext
    PROVE  CachesTypes'
<1>0. /\ CachesTypes /\ LastInstant \in Nat
      /\ caller \in [Callers -> [place : {"away", "queued", "fetching"}, want : Wants \cup {NoWant},
                                 forced : BOOLEAN, since : Nat]]
  BY SharedCachesAssumption DEF CachesTyped, CachesInv
<1>1. ASSUME NEW c \in Callers, NEW r, r.since \in 0..LastInstant, caller' = [caller EXCEPT ![c] = r],
             instant' = instant
      PROVE  CachesTypes'
  BY <1>0, <1>1 DEF CachesTypes
<1>2. ASSUME NEW c \in Callers, NEW want \in Wants, WantValue(c, want) \/ RefreshBoard(c, want)
      PROVE  CachesTypes'
  <2>1. PICK forced \in BOOLEAN : /\ instant' = instant
           /\ caller' = [caller EXCEPT ![c] = [place |-> "queued", want |-> want, forced |-> forced, since |-> 0]]
    BY <1>2 DEF WantValue, RefreshBoard, Away
  <2>2. [place |-> "queued", want |-> want, forced |-> forced, since |-> 0].since \in 0..LastInstant
    BY <1>0
  <2> QED
    BY ONLY <1>1, <2>1, <2>2
<1>3. ASSUME NEW c \in Callers, EnterLock(c) PROVE CachesTypes'
  <2>1. /\ caller' = [caller EXCEPT ![c] = IF FoundInside(caller[c].want) THEN Away
                        ELSE [caller[c] EXCEPT !.place = "fetching", !.since = instant]]
        /\ instant' = instant
    BY <1>3 DEF EnterLock
  <2>2. CASE FoundInside(caller[c].want)
    BY <1>0, <1>1, <2>1, <2>2 DEF Away, CachesTypes
  <2>3. CASE ~FoundInside(caller[c].want)
    <3>1. [caller[c] EXCEPT !.place = "fetching", !.since = instant].since = instant
      BY <1>0
    <3> QED
      BY <1>0, <1>1, <2>1, <2>3, <3>1 DEF CachesTypes
  <2> QED
    BY <2>2, <2>3
<1>4. ASSUME NEW c \in Callers, ValueArrives(c) \/ FetchFails(c) PROVE CachesTypes'
  BY <1>0, <1>1, <1>4 DEF ValueArrives, FetchFails, Away
<1>5. CASE InstantPasses
  BY <1>0, <1>5 DEF InstantPasses, CachesTypes
<1> QED
  BY <1>2, <1>3, <1>4, <1>5 DEF CachesNext

LEMMA CachesTypedNext == CachesTyped /\ [CachesNext]_cachesVars => CachesTyped'
  BY CachesTypesNext, CachesTypesQuiet, CachesStepInv, CachesQuietInv DEF CachesTyped

LEMMA CachesAreTyped == CachesTyped => CachesTypeOK
  BY DEF CachesTyped, CachesInv, CachesTypeOK, CachesTypes

\* There is a series to resume from, and no stored day is ever lost.
SyncTyped == SyncTypeOK /\ Known # {}

LEMMA LastDaysAre ==
    ASSUME Known # {}
    PROVE  LastDays # {} /\ LastDays \subseteq 1..LastDay
<1>1. ASSUME NEW s \in Known PROVE Max(DaysOf(s)) \in 1..LastDay
  <2>1. DaysOf(s) \subseteq 0..LastDay /\ DaysOf(s) # {} /\ LastDay \in Nat
    BY DaysAre, DataSyncAssumption DEF Known
  <2>2. Max(DaysOf(s)) \in DaysOf(s)
    BY <2>1, GreatestIsMax
  <2> QED
    BY <2>2 DEF DaysOf
<1> QED
  BY <1>1 DEF LastDays

LEMMA ResumeIsADay ==
    ASSUME Known # {}
    PROVE  ResumeDay \in 1..LastDay
<1> DEFINE D == LastDays
           x == IF table.grouped THEN Min(D) ELSE Max(D)
<1>1. D # {} /\ D \subseteq 1..LastDay /\ LastDay \in Nat \ {0} /\ Overlap \in Nat
  BY LastDaysAre, DataSyncAssumption
<1>2. D \subseteq Nat /\ D \subseteq 0..LastDay
  BY <1>1
<1> HIDE DEF D
<1>3. x \in D
  BY <1>1, <1>2, LeastIsMin, GreatestIsMax
<1>4. x \in 1..LastDay
  BY <1>1, <1>3
<1> HIDE DEF x
<1> DEFINE E == {1, x - Overlap}
<1>5. ResumeDay = Max(E)
  BY DEF ResumeDay, D, x
<1>6. \E m \in E : \A e \in E : e <= m
  BY <1>1, <1>4
<1>7. PICK m \in E : \A e \in E : e <= m
  BY <1>6
<1>8. Max(E) = m
  <2>1. \A y \in E : (\A e \in E : e <= y) => y = m
    BY <1>1, <1>4, <1>7
  <2> HIDE DEF E
  <2> QED
    BY <1>7, <2>1 DEF Max
<1>9. m \in 1..LastDay
  BY <1>1, <1>4, <1>7
<1> QED
  BY <1>5, <1>8, <1>9

LEMMA KnownStays ==
    ASSUME Known # {}, table' = table, \A s \in Series : DaysOf(s) \subseteq DaysOf(s)',
           table.scope \subseteq Series
    PROVE  Known' # {}
  BY DEF Known, Series

LEMMA SyncTypedInit == SyncInit => SyncTyped
<1> SUFFICES ASSUME SyncInit PROVE SyncTyped
  OBVIOUS
<1>0. LastDay \in Nat \ {0}
  BY DataSyncAssumption
<1>1. PICK listed \in SUBSET Series :
        /\ listed \cap table.scope # {}
        /\ bars = [s \in Series |-> [d \in 1..LastDay |->
                     IF s \in listed /\ d = 1 THEN "final" ELSE "none"]]
  BY DEF SyncInit
<1>2. bars \in [Series -> [1..LastDay -> {"none", "early", "final"}]]
  BY <1>1
<1>3. window \in [Runs -> [from : 0..LastDay, to : 0..LastDay]]
  BY <1>0 DEF SyncInit, NoWindow
<1>6. portalDown \in BOOLEAN /\ session \in BOOLEAN
  BY DEF SyncInit
<1>7. table \in Tables /\ today \in 1..LastDay /\ catchUp \in {"run", "retry", "none"}
  BY <1>0 DEF SyncInit
<1>4. SyncTypeOK
  BY <1>2, <1>3, <1>6, <1>7 DEF SyncTypeOK
<1>5. \A s \in listed : 1 \in DaysOf(s)
  BY <1>0, <1>1 DEF DaysOf
<1> QED
  BY <1>1, <1>4, <1>5 DEF SyncTyped, Known

LEMMA SyncTypedQuiet == SyncTyped /\ UNCHANGED syncVars => SyncTyped'
  BY DEF SyncTyped, SyncTypeOK, Known, Series, DaysOf, syncVars

LEMMA SyncTypedStep ==
    ASSUME SyncTyped, SyncNext
    PROVE  SyncTyped'
<1>0. /\ SyncTypeOK /\ Known # {} /\ LastDay \in Nat \ {0} /\ table.scope \subseteq Series
      /\ DOMAIN bars = Series
  BY DataSyncAssumption DEF SyncTyped, SyncTypeOK, Table, Series
<1>1. ASSUME bars' = bars, table' = table PROVE Known' # {}
  BY <1>0, <1>1 DEF Known, DaysOf
<1>2. ASSUME NEW r \in Runs, Begin(r) PROVE SyncTyped'
  <2>1. /\ window' = [window EXCEPT ![r] = [from |-> ResumeDay, to |-> today]]
        /\ UNCHANGED <<table, bars, today, session, catchUp, portalDown>>
    BY <1>2 DEF Begin
  <2>2. ResumeDay \in 0..LastDay /\ today \in 0..LastDay
    BY <1>0, ResumeIsADay DEF SyncTypeOK
  <2>3. window' \in [Runs -> [from : 0..LastDay, to : 0..LastDay]]
    BY <1>0, <2>1, <2>2 DEF SyncTypeOK
  <2>4. SyncTypeOK'
    BY <1>0, <2>1, <2>3 DEF SyncTypeOK, Series
  <2> QED
    BY <1>1, <2>1, <2>4 DEF SyncTyped
<1>3. ASSUME NEW r \in Runs, NEW answered \in SUBSET Series, Load(r, answered) PROVE SyncTyped'
  <2> DEFINE Rows == [1..LastDay -> {"none", "early", "final"}]
  <2>1. /\ bars' = [s \in Series |-> IF s \in answered THEN Inserted(s, window[r]) ELSE bars[s]]
        /\ window' = [window EXCEPT ![r] = NoWindow]
        /\ portalDown' \in GivesUp(answered)
        /\ catchUp' \in CatchUpAfter(answered) \cup {catchUp}
        /\ UNCHANGED <<table, today, session>>
    BY <1>3 DEF Load
  <2>2. bars \in [Series -> Rows]
    BY <1>0 DEF SyncTypeOK
  <2>3. \A s \in Series : \A w : /\ Inserted(s, w) \in Rows
                                 /\ \A d \in 1..LastDay : bars[s][d] # "none" => Inserted(s, w)[d] # "none"
    BY <2>2 DEF Inserted, Fetched
  <2>4. bars' \in [Series -> Rows] /\ Series' = Series
    BY <2>1, <2>2, <2>3 DEF Series
  <2>5. \A s \in Series : DaysOf(s) \subseteq DaysOf(s)'
    BY <2>1, <2>3 DEF DaysOf
  <2>6. window' \in [Runs -> [from : 0..LastDay, to : 0..LastDay]]
    BY <1>0, <2>1 DEF SyncTypeOK, NoWindow
  <2>7. portalDown' \in BOOLEAN /\ catchUp' \in {"run", "retry", "none"}
    <3>1. portalDown \in BOOLEAN /\ table.portal \in BOOLEAN /\ catchUp \in {"run", "retry", "none"}
      BY <1>0, DataSyncAssumption DEF SyncTypeOK, Table
    <3> QED
      BY <2>1, <3>1 DEF GivesUp, CatchUpAfter
  <2>8. SyncTypeOK'
    BY <1>0, <2>1, <2>4, <2>6, <2>7 DEF SyncTypeOK
  <2>9. Known' # {}
    BY <1>0, <2>1, <2>5, KnownStays
  <2> QED
    BY <2>8, <2>9 DEF SyncTyped
<1>4. CASE RestartSync
  <2>2. portalDown' \in BOOLEAN /\ catchUp' \in {"run", "retry", "none"}
    BY <1>4 DEF RestartSync
  <2>3. window' \in [Runs -> [from : 0..LastDay, to : 0..LastDay]]
    BY <1>0, <1>4 DEF RestartSync, NoWindow
  <2>4. UNCHANGED <<table, bars, today, session>>
    BY <1>4 DEF RestartSync
  <2>1. SyncTypeOK'
    BY <1>0, <2>2, <2>3, <2>4 DEF SyncTypeOK, Series
  <2> QED
    BY <1>1, <1>4, <2>1 DEF RestartSync, SyncTyped
<1>5. CASE MarketOpens
  <2>1. SyncTypeOK'
    BY <1>0, <1>5 DEF MarketOpens, SyncTypeOK, Series
  <2> QED
    BY <1>1, <1>5, <2>1 DEF MarketOpens, SyncTyped
<1>6. CASE MarketCloses
  <2>1. SyncTypeOK'
    BY <1>0, <1>6 DEF MarketCloses, SyncTypeOK, Series
  <2> QED
    BY <1>1, <1>6, <2>1 DEF MarketCloses, SyncTyped
<1> QED
  BY <1>2, <1>3, <1>4, <1>5, <1>6 DEF SyncNext

LEMMA SyncTypedNext == SyncTyped /\ [SyncNext]_syncVars => SyncTyped'
  BY SyncTypedStep, SyncTypedQuiet

LlmTyped ==
    /\ LlmShape /\ kept \in [Prompts -> 0..(LastHalf + Ttl)]
    /\ losses \in 0..MaxLosses /\ untold \in [Requests -> Nat]

LEMMA LlmTypedInit == LlmInit => LlmTyped
<1>1. LlmInit => kept \in [Prompts -> 0..(LastHalf + Ttl)]
  BY LanguageModelAssumption DEF LlmInit
<1>2. LlmInit => LlmShape /\ losses \in 0..MaxLosses /\ untold \in [Requests -> Nat]
  BY LlmInitInv DEF LlmInv, LlmLog
<1> QED
  BY <1>1, <1>2 DEF LlmTyped

LEMMA LlmTypedNext == LlmTyped /\ LlmInv /\ [LlmNext]_llmVars => LlmTyped'
<1> SUFFICES ASSUME LlmTyped, LlmInv, [LlmNext]_llmVars PROVE LlmTyped'
  OBVIOUS
<1>1. LlmShape' /\ losses' \in 0..MaxLosses /\ untold' \in [Requests -> Nat]
  <2>1. LlmInv'
    BY LlmStepInv, LlmQuietInv
  <2> QED
    BY <2>1 DEF LlmInv, LlmLog
<1>2. kept \in [Prompts -> 0..(LastHalf + Ttl)] /\ LastHalf \in Nat /\ Ttl \in Nat
  BY LanguageModelAssumption DEF LlmTyped
<1>3. ASSUME NEW q \in Requests, KeepAnswer(q) PROVE kept' \in [Prompts -> 0..(LastHalf + Ttl)]
  <2>1. call[q].at \in 0..LastHalf
    BY DEF LlmTyped, LlmShape, Asking
  <2>2. call[q].at + Ttl \in 0..(LastHalf + Ttl)
    BY <1>2, <2>1
  <2> QED
    BY <1>2, <1>3, <2>2 DEF KeepAnswer
<1>4. \/ \E q \in Requests : KeepAnswer(q)
      \/ kept' = kept
  BY DEF LlmNext, llmVars, ReadCache, Reserve, LoseAttempt, Ends, Complete, CompleteFails, Interrupted, HalfDay
<1> QED
  BY <1>1, <1>2, <1>3, <1>4 DEF LlmTyped

LEMMA LlmIsTyped == LlmTyped => LlmTypeOK
  BY DEF LlmTyped, LlmShape, Asking, LlmTypeOK

RatingsTypes ==
    /\ dayScore \in DayScores /\ job.lane \in {"EOD", "INTRADAY", NoRow} /\ wanted \in Graded \cup {0}
    /\ buyRow \in [Graded -> BuyRow \cup {Unrated}]
RatingsTyped == RatingsInv /\ RatingsTypes

\* A share of a whole, in percent.
LEMMA PercentIs ==
    ASSUME NEW part1 \in Nat, NEW whole \in Nat \ {0}, part1 <= whole
    PROVE  (100 * part1) \div whole \in 0..100
<1>1. 100 * part1 <= 100 * whole /\ 100 * part1 \in Nat
  OBVIOUS
<1> DEFINE n == 100 * part1
           q == n \div whole
<1>2. q \in Nat /\ q * whole <= n
  <2>1. \A a \in Nat, b \in Nat \ {0} : a \div b \in Nat /\ (a \div b) * b <= a
    BY ONLY TRUE
  <2>2. n \in Nat
    BY <1>1
  <2> HIDE DEF n
  <2> QED
    BY <2>1, <2>2
<1>3. q <= 100
  <2>1. SUFFICES ASSUME q >= 101 PROVE FALSE
    BY <1>2
  <2>2. q * whole >= 101 * whole
    <3> HIDE DEF q
    <3> QED
      BY <1>2, <2>1, SMTT(20)
  <2>3. q * whole <= 100 * whole
    <3> HIDE DEF q
    <3>1. q * whole \in Nat
      BY <1>2
    <3> QED
      BY <1>1, <1>2, <3>1
  <2> QED
    BY <2>2, <2>3
<1> QED
  BY <1>2, <1>3

LEMMA GradeIsRated ==
    ASSUME dayScore \in DayScores, NEW universe \in SUBSET Graded, NEW by \in {"stock", "fund"},
           NEW c \in Graded
    PROVE  BuyRating(c, universe, by) \in BuyRow
<1> DEFINE all == Scored(universe)
           less == {u \in all : dayScore[u] < dayScore[c]}
           percent == IF all = {} THEN 0
                      ELSE (100 * Cardinality(less)) \div Cardinality(all)
<1>1. IsFiniteSet(all) /\ less \subseteq all
  <2>1. all \subseteq Graded /\ IsFiniteSet(Graded)
    BY RatingsAssumption DEF Scored
  <2> QED
    BY <2>1, FS_Subset
<1>2. percent \in 0..100
  <2>1. CASE all = {}
    BY <2>1
  <2>2. CASE all # {}
    <3>1. Cardinality(all) \in Nat \ {0} /\ Cardinality(less) \in Nat /\ Cardinality(less) <= Cardinality(all)
      BY <1>1, <2>2, FS_Subset, FS_CardinalityType, FS_EmptySet
    <3> HIDE DEF all, less
    <3> QED
      BY <2>2, <3>1, PercentIs
  <2> QED
    BY <2>1, <2>2
<1>3. Quintile(percent) \in BuyGrades
  BY <1>2 DEF Quintile, BuyGrades
<1>4. BuyRating(c, universe, by) \in
        {[by |-> by, status |-> st, grade |-> NoRow, percent |-> 0] : st \in {"UNSUPPORTED", "NO_DATA"}}
          \cup {[by |-> by, status |-> "OK", grade |-> Quintile(percent), percent |-> percent]}
  BY DEF BuyRating
<1> HIDE DEF percent
<1> QED
  BY <1>2, <1>3, <1>4 DEF BuyRow

LEMMA RatingsAreRated ==
    ASSUME dayScore \in DayScores, NEW universe \in SUBSET Graded, NEW extras \in SUBSET Graded,
           NEW by \in {"stock", "fund"}
    PROVE  BuyRatings(universe, extras, by) \in [universe \cup extras -> BuyRow]
  BY GradeIsRated DEF BuyRatings

LEMMA FundsAreRated ==
    ASSUME dayScore \in DayScores, NEW extras \in SUBSET Graded
    PROVE  FundRatings(extras) \in [Funds \cup extras -> BuyRow]
<1> DEFINE ratings == BuyRatings(Funds, extras, "fund")
           ok == {c \in DOMAIN ratings : ratings[c].status = "OK"}
           ahead(c) == {o \in ok : \/ dayScore[o] > dayScore[c]
                                   \/ dayScore[o] = dayScore[c] /\ o < c}
           rank(c) == 1 + Cardinality(ahead(c))
           grade(r) == IF r = 1 THEN "STRONG_BUY" ELSE IF r <= TopFunds THEN "BUY"
                       ELSE IF r <= TopFunds + 2 THEN "NEUTRAL" ELSE "AVOID"
           row(c) == IF c \in ok
                     THEN [ratings[c] EXCEPT !.grade = grade(rank(c)),
                              !.percent = (100 * (Cardinality(ok) - rank(c) + 1)) \div Cardinality(ok)]
                     ELSE ratings[c]
<1>1. ratings \in [Funds \cup extras -> BuyRow] /\ Funds \subseteq Graded
  BY RatingsAreRated DEF Graded
<1>2. FundRatings(extras) = [c \in DOMAIN ratings |-> row(c)]
  BY DEF FundRatings
<1>3. IsFiniteSet(ok) /\ ok \subseteq Graded
  <2>1. ok \subseteq Graded /\ IsFiniteSet(Graded)
    BY <1>1, RatingsAssumption
  <2> QED
    BY <2>1, FS_Subset
<1> DEFINE n == Cardinality(ok)
<1>4. ASSUME NEW c \in ok PROVE rank(c) \in 1..n
  <2>1. ahead(c) \subseteq ok \ {c} /\ c \in Nat
    <3>1. c \in Nat /\ dayScore[c] \in Int
      <4>1. c \in Graded /\ dayScore \in [Graded -> Nat \cup {-1}] /\ Graded \subseteq Nat
        BY <1>3, RatingsAssumption DEF NoScore
      <4> HIDE DEF ok
      <4> QED
        BY <4>1
    <3> QED
      BY <3>1
  <2>2. IsFiniteSet(ok \ {c}) /\ Cardinality(ok \ {c}) = n - 1 /\ n \in Nat
    BY <1>3, FS_RemoveElement, FS_CardinalityType
  <2>3. Cardinality(ahead(c)) \in Nat /\ Cardinality(ahead(c)) <= n - 1
    <3> HIDE DEF ok, ahead, n
    <3> QED
      BY <2>1, <2>2, FS_Subset, FS_CardinalityType
  <2> HIDE DEF ahead, n
  <2> QED
    BY <2>2, <2>3
<1>5. \A r : grade(r) \in BuyGrades
  BY DEF BuyGrades
<1>6. ASSUME NEW c \in ok PROVE row(c) \in BuyRow
  <2>1. n \in Nat /\ rank(c) \in 1..n
    BY <1>3, <1>4, FS_CardinalityType
  <2>2. (100 * (n - rank(c) + 1)) \div n \in 0..100
    <3> HIDE DEF n, rank
    <3>1. n - rank(c) + 1 \in Nat /\ n \in Nat \ {0} /\ n - rank(c) + 1 <= n
      BY <2>1
    <3> QED
      BY <3>1, PercentIs
  <2>3. ratings[c] \in BuyRow
    BY <1>1
  <2> DEFINE g == grade(rank(c))
             p == (100 * (n - rank(c) + 1)) \div n
  <2>4. row(c) = [ratings[c] EXCEPT !.grade = g, !.percent = p]
    OBVIOUS
  <2>5. g \in BuyGrades /\ p \in 0..100
    BY <1>5, <2>2
  <2> HIDE DEF g, p, row, ratings
  <2> QED
    BY <2>3, <2>4, <2>5 DEF BuyRow
<1>7. ASSUME NEW c \in DOMAIN ratings PROVE row(c) \in BuyRow
  <2>1. CASE c \in ok
    BY <1>6, <2>1
  <2>2. CASE c \notin ok
    <3>1. row(c) = ratings[c]
      BY <2>2
    <3> HIDE DEF row
    <3> QED
      BY <1>1, <3>1
  <2> QED
    BY <2>1, <2>2
<1> HIDE DEF row, ratings, ok
<1> QED
  BY <1>1, <1>2, <1>7

LEMMA UpsertIsTyped ==
    ASSUME buyRow \in [Graded -> BuyRow \cup {Unrated}], NEW ratings, NEW D \in SUBSET Graded,
           ratings \in [D -> BuyRow], BuyUpsert(ratings)
    PROVE  buyRow' \in [Graded -> BuyRow \cup {Unrated}]
  BY DEF BuyUpsert

LEMMA RatingsTypedInit == RatingsInit => RatingsTyped
<1>1. RatingsInit => RatingsTypes
  BY DEF RatingsInit, RatingsTypes, Rested
<1> QED
  BY <1>1, RatingsInitInv DEF RatingsTyped

LEMMA RatingsTypesNext ==
    ASSUME RatingsTyped, RatingsNext
    PROVE  RatingsTypes'
<1>0. /\ dayScore \in DayScores /\ job.lane \in {"EOD", "INTRADAY", NoRow} /\ wanted \in Graded \cup {0}
      /\ buyRow \in [Graded -> BuyRow \cup {Unrated}]
      /\ Shares \subseteq Graded /\ Funds \subseteq Graded /\ Strangers \subseteq Graded
      /\ Asked \subseteq Graded /\ 0 \in {0}
  BY RatingsAssumption DEF RatingsTyped, RatingsTypes, Graded
<1>1. ASSUME NEW lane \in {"EOD", "INTRADAY"}, FetchAccounts(lane) PROVE RatingsTypes'
  BY <1>0, <1>1 DEF FetchAccounts, RatingsTypes
<1>2. CASE GradeStocks
  <2>1. buyRow' \in [Graded -> BuyRow \cup {Unrated}]
    <3>1. BuyRatings(Shares, Strangers, "stock") \in [Shares \cup Strangers -> BuyRow]
      BY <1>0, RatingsAreRated
    <3>2. Shares \cup Strangers \in SUBSET Graded /\ BuyUpsert(BuyRatings(Shares, Strangers, "stock"))
      BY <1>0, <1>2 DEF GradeStocks
    <3> QED
      BY <1>0, <3>1, <3>2, UpsertIsTyped
  <2>2. job'.lane = job.lane /\ UNCHANGED <<dayScore, wanted>>
    BY <1>2 DEF GradeStocks, RatingsTyped, RatingsInv
  <2> QED
    BY <1>0, <2>1, <2>2 DEF RatingsTypes
<1>3. CASE GradeFunds
  <2>1. buyRow' \in [Graded -> BuyRow \cup {Unrated}]
    <3>1. FundRatings({}) \in [Funds \cup {} -> BuyRow] /\ Funds \cup {} \in SUBSET Graded
      BY <1>0, FundsAreRated
    <3>2. BuyUpsert(FundRatings({})) \/ buyRow' = buyRow
      BY <1>3 DEF GradeFunds
    <3> QED
      BY <1>0, <3>1, <3>2, UpsertIsTyped
  <2>2. job'.lane = job.lane /\ UNCHANGED <<dayScore, wanted>>
    BY <1>3 DEF GradeFunds, RatingsTyped, RatingsInv
  <2> QED
    BY <1>0, <2>1, <2>2 DEF RatingsTypes
<1>4. CASE ClearRows
  <2>1. job'.lane = job.lane /\ UNCHANGED <<dayScore, wanted, buyRow>>
    BY <1>4 DEF ClearRows, RatingsTyped, RatingsInv
  <2> QED
    BY <1>0, <2>1 DEF RatingsTypes
<1>5. CASE WriteRows \/ LaneFails
  BY <1>0, <1>5 DEF WriteRows, LaneFails, Rested, RatingsTypes
<1>6. ASSUME NEW c \in Asked, AskFor(c) PROVE RatingsTypes'
  BY <1>0, <1>6 DEF AskFor, RatingsTypes
<1>7. CASE ComputeOne
  <2>1. buyRow' \in [Graded -> BuyRow \cup {Unrated}]
    <3>1. wanted \in Graded
      BY <1>0, <1>7 DEF ComputeOne
    <3>2. /\ FundRatings({wanted}) \in [Funds \cup {wanted} -> BuyRow]
          /\ BuyRatings(Shares, {wanted}, "stock") \in [Shares \cup {wanted} -> BuyRow]
          /\ Funds \cup {wanted} \in SUBSET Graded /\ Shares \cup {wanted} \in SUBSET Graded
      BY <1>0, <3>1, FundsAreRated, RatingsAreRated
    <3>3. BuyUpsert(FundRatings({wanted})) \/ BuyUpsert(BuyRatings(Shares, {wanted}, "stock"))
      BY <1>7 DEF ComputeOne
    <3> QED
      BY <1>0, <3>2, <3>3, UpsertIsTyped
  <2>2. wanted' = 0 /\ UNCHANGED <<dayScore, job>>
    BY <1>7 DEF ComputeOne
  <2> QED
    BY <1>0, <2>1, <2>2 DEF RatingsTypes
<1>8. CASE PortfolioMoves \/ ScoresMove
  BY <1>0, <1>8 DEF PortfolioMoves, ScoresMove, RatingsTypes
<1> QED
  BY <1>1, <1>2, <1>3, <1>4, <1>5, <1>6, <1>7, <1>8 DEF RatingsNext

LEMMA RatingsTypesQuiet == RatingsTypes /\ UNCHANGED ratingsVars => RatingsTypes'
  BY DEF RatingsTypes, ratingsVars

LEMMA RatingsTypedNext == RatingsTyped /\ [RatingsNext]_ratingsVars => RatingsTyped'
  BY RatingsTypesNext, RatingsTypesQuiet, RatingsStepInv, RatingsQuietInv DEF RatingsTyped

LEMMA RatingsAreTyped == RatingsTyped => RatingsTypeOK
  BY DEF RatingsTyped, RatingsTypes, RatingsInv, RatingsTypeOK, RowGrades

-----------------------------------------------------------------------------
(* The components on their own and as parts of the instance.               *)

\* No manual order repeats one whose caller was told that its row is stored.
THEOREM ManualOrderOnce == ManualSpec => []NoRepeatOfStored
<1>1. ManualInv /\ [ManualNext]_manualVars => ManualInv'
    BY ManualStepInv, ManualQuietInv
<1> QED
    BY <1>1, ManualInitInv, ManualInvHolds, PTL DEF ManualSpec

\* Telegram drops a tap that decides only when what it decides is decided or its
\* handling was seen to fail, however often the server restarts.
THEOREM DroppedTapsAreDone == TelegramSpec => []DroppedIsDone
<1>1. TelegramInv /\ [TelegramNext]_telegramVars => TelegramInv'
    BY TelegramStepInv, TelegramQuietInv
<1> QED
    BY <1>1, TelegramInitInv, TelegramInvHolds, PTL DEF TelegramSpec

\* A key or a rate is fetched once for those who share a lock, and what was fetched
\* last is what is stored.
THEOREM CachedValuesShared == CachesSpec => []SharedValuesHold
<1>1. CachesInv /\ [CachesNext]_cachesVars => CachesInv'
    BY CachesStepInv, CachesQuietInv
<1> QED
    BY <1>1, CachesInitInv, CachesInvHolds, PTL DEF CachesSpec

\* The stored days of a series have no hole in them, for a table whose resume date is
\* the least over all of its series: NoMaskedGap says the same of any table and is false.
THEOREM BarsWithoutHoles == ASSUME GroupedByAll PROVE SyncSpec => []NoHoles
<1>1. GroupedInv /\ [SyncNext]_syncVars => GroupedInv'
    BY SyncStepInv, SyncQuietInv
<1>2. SyncInit => GroupedInv
    BY SyncInitInv
<1>3. GroupedInv => NoHoles
    BY SyncInvHolds
<1> QED
    BY <1>1, <1>2, <1>3, PTL DEF SyncSpec

\* The rows of an account are those of the last lane that it answered.
THEOREM RowsOfTheLastAnswer == RatingsSpec => []RowsFollowTheAccount
<1>1. RatingsInv /\ [RatingsNext]_ratingsVars => RatingsInv'
    BY RatingsStepInv, RatingsQuietInv
<1>2. RatingsInv => RowsFollowTheAccount
    BY DEF RatingsInv
<1> QED
    BY <1>1, <1>2, RatingsInitInv, PTL DEF RatingsSpec

\* The requests admitted on a day are billed for no more than the budget, however they
\* overlap, fail or are retried, but for answers beyond their estimate, reservations from
\* before midnight and what no answer told of.
THEOREM BudgetIsKept == LlmSpec => []BudgetRespected
<1>1. LlmInv /\ [LlmNext]_llmVars => LlmInv'
  BY LlmStepInv, LlmQuietInv
<1>2. LlmInv => BudgetRespected
  BY LlmInvHolds
<1> QED
  BY <1>1, <1>2, LlmInitInv, PTL DEF LlmSpec

\* Whatever the quotes and the rankings: without taxes, and with costs of both sides
\* within half a percent, every purchase of the backtest can be paid for when its turn
\* comes; and between two targets exactly the positions held have an entry price, which
\* lies between the prices paid for them.
THEOREM BacktestTradesLikeAnAccount == EngineSpec => [](EveryBuyIsFunded /\ EntryIsCost)
<1> QED
    BY EngineInitInv, EngineStepInv, EngineInvHolds, PTL DEF EngineSpec

\* The variables of the backtest keep their types.
THEOREM EngineTyping == EngineSpec => []EngineTypeOK
<1> QED
    BY EngineInitInv, EngineStepInv, EngineTyped, PTL DEF EngineSpec

\* The types of the account and its proposals (ProposalRules): a target, a proposal's
\* quantity and an average price stay whole numbers, and nothing is sold short.
THEOREM RulesTyping == RulesSpec => []RulesTypeOK
<1>1. RulesInv => RulesTypeOK
  BY DEF RulesInv
<1> QED
  BY <1>1, RulesKeep, PTL

\* Whatever the sleeve, the prices and the rankings: no more of a stock is proposed for
\* sale than is held, and the purchases proposed stay within the ramp, however many of
\* them are filled, in part or in whole.
THEOREM ProposalsFitTheAccount == RulesSpec => []ProposalsFit
  BY RulesInvFits, RulesKeep, PTL

\* Whatever the rankings, the rejections and the ramp: a holding past its stop is
\* proposed for sale that evening, all of it.
THEOREM StopsAreProposed == RulesSpec => StopIsProposed
<1>1. RulesSpec => [][StopsOffered]_rulesVars
  BY RulesKeep, StopStep, PTL DEF RulesSpec
<1> QED
  BY <1>1 DEF StopsOffered, StopIsProposed

\* For any closes, orders, fills and failing snapshots: where every share of a code has a
\* row and the rows say in which order they were filled, the profit of a day is that of its
\* sales against what was bought first; and where its closes and rows are complete, the
\* curve of a day that is over shows what the account was worth at its close.
THEOREM BooksAgreeWithTheFills == LedgerSpec => []BooksAgree
<1>1. LedgerInv /\ [LedgerNext]_ledgerVars => LedgerInv'
  BY LedgerStepInv, LedgerQuiet
<1> QED
  BY <1>1, LedgerInitInv, LedgerBooksAgree, PTL DEF LedgerSpec

\* The components as parts of the instance that a run checks, each moving by itself.
PartsInv ==
    /\ ManualInv /\ TelegramInv /\ CachesInv /\ RatingsInv /\ LlmInv /\ EngineInv /\ RulesInv
    /\ LedgerInv

LEMMA PartsKeep ==
    ASSUME [PartsNext]_partsVars
    PROVE  /\ PartsInv => PartsInv'
           /\ GroupedByAll /\ GroupedInv => GroupedInv'
<1>1. /\ [ManualNext]_manualVars /\ [TelegramNext]_telegramVars /\ [CachesNext]_cachesVars
      /\ [SyncNext]_syncVars /\ [RatingsNext]_ratingsVars /\ [LlmNext]_llmVars
      /\ [EngineNext]_engineVars /\ [RulesNext]_rulesVars /\ [LedgerNext]_ledgerVars
    BY DEF PartsNext, Rest, partsVars
<1>2. PartsInv => PartsInv'
    BY <1>1, ManualStepInv, ManualQuietInv, TelegramStepInv, TelegramQuietInv, CachesStepInv,
       CachesQuietInv, RatingsStepInv, RatingsQuietInv, LlmStepInv, LlmQuietInv,
       EngineStepInv, RulesInvNext, LedgerStepInv, LedgerQuiet DEF PartsInv
<1>3. GroupedByAll /\ GroupedInv => GroupedInv'
    BY <1>1, SyncStepInv, SyncQuietInv
<1> QED
    BY <1>2, <1>3

\* A manual order, a tap and a fetch that are asked for twice are done once.
THEOREM AskedTwiceDoneOnce == PartsSpec => []OnceOnly
<1>1. PartsInit => PartsInv
    BY ManualInitInv, TelegramInitInv, CachesInitInv, RatingsInitInv, LlmInitInv, EngineInitInv,
       RulesInvInit, LedgerInitInv
       DEF PartsInit, PartsInv
<1>2. PartsInv /\ [PartsNext]_partsVars => PartsInv'
    BY PartsKeep
<1>3. PartsInv => OnceOnly
    BY ManualInvHolds, TelegramInvHolds, CachesInvHolds DEF OnceOnly, PartsInv
<1> QED
    BY <1>1, <1>2, <1>3, PTL DEF PartsSpec

\* Rating rows follow the account, and the daily bars of a table that resumes from the
\* least of all its series have no hole.
THEOREM StoredRecordsAgree == ASSUME GroupedByAll PROVE PartsSpec => []RecordsAgree
<1> DEFINE Inv == PartsInv /\ GroupedInv
<1>1. PartsInit => Inv
    BY ManualInitInv, TelegramInitInv, CachesInitInv, RatingsInitInv, LlmInitInv, EngineInitInv,
       RulesInvInit, LedgerInitInv, SyncInitInv
       DEF PartsInit, PartsInv
<1>2. Inv /\ [PartsNext]_partsVars => Inv'
    BY PartsKeep
<1>3. Inv => RecordsAgree
    BY SyncInvHolds DEF RecordsAgree, PartsInv, RatingsInv
<1> QED
    BY <1>1, <1>2, <1>3, PTL DEF PartsSpec

\* The sums that the run checks agree: the tokens of a day with the language model's
\* budget, the profit and the curve of an account with its fills.
THEOREM SumsAreRight == PartsSpec => []SumsAgree
<1>1. PartsInit => PartsInv
    BY ManualInitInv, TelegramInitInv, CachesInitInv, RatingsInitInv, LlmInitInv, EngineInitInv,
       RulesInvInit, LedgerInitInv
       DEF PartsInit, PartsInv
<1>2. PartsInv /\ [PartsNext]_partsVars => PartsInv'
    BY PartsKeep
<1>3. PartsInv => SumsAgree
    BY LlmInvHolds, LedgerBooksAgree DEF SumsAgree, PartsInv
<1> QED
    BY <1>1, <1>2, <1>3, PTL DEF PartsSpec

\* The backtest trades like an account, as a part of the instance too.
THEOREM BacktestIsSound == PartsSpec => []BacktestHolds
<1>1. PartsInit => PartsInv
    BY ManualInitInv, TelegramInitInv, CachesInitInv, RatingsInitInv, LlmInitInv, EngineInitInv,
       RulesInvInit, LedgerInitInv
       DEF PartsInit, PartsInv
<1>2. PartsInv /\ [PartsNext]_partsVars => PartsInv'
    BY PartsKeep
<1>3. PartsInv => BacktestHolds
    BY EngineInvHolds DEF BacktestHolds, PartsInv
<1> QED
    BY <1>1, <1>2, <1>3, PTL DEF PartsSpec

\* Proposals fit the account and stops are proposed, as a part of the instance too.
THEOREM ProposalsAreSound == PartsSpec => []ProposalsFit /\ StopIsProposed
<1>1. PartsInit => PartsInv
    BY ManualInitInv, TelegramInitInv, CachesInitInv, RatingsInitInv, LlmInitInv, EngineInitInv,
       RulesInvInit, LedgerInitInv
       DEF PartsInit, PartsInv
<1>2. PartsInv /\ [PartsNext]_partsVars => PartsInv'
    BY PartsKeep
<1>3. PartsInv => RulesInv /\ ProposalsFit
    BY RulesInvFits DEF PartsInv
<1>4. RulesInv /\ [PartsNext]_partsVars => [StopsOffered]_rulesVars
  <2>1. [PartsNext]_partsVars => [RulesNext]_rulesVars
    BY DEF PartsNext, Rest, partsVars
  <2> QED
    BY <2>1, StopStep
<1>5. PartsSpec => []ProposalsFit /\ [][StopsOffered]_rulesVars
    BY <1>1, <1>2, <1>3, <1>4, PTL DEF PartsSpec
<1> QED
    BY <1>5 DEF StopsOffered, StopIsProposed

\* With the types that the components' own invariants leave out.
PartsTyped ==
    /\ ManualTyped /\ TelegramTyped /\ CachesTyped /\ SyncTyped /\ LlmTyped /\ RatingsTyped
    /\ PartsInv /\ part \in Moving

LEMMA PartsTypedInit == PartsInit => PartsTyped
<1> SUFFICES ASSUME PartsInit PROVE PartsTyped
  OBVIOUS
<1>1. PartsInv
    BY ManualInitInv, TelegramInitInv, CachesInitInv, RatingsInitInv, LlmInitInv, EngineInitInv,
       RulesInvInit, LedgerInitInv
       DEF PartsInit, PartsInv
<1>2. ManualTyped /\ TelegramTyped /\ CachesTyped
    BY ManualTypedInit, TelegramTypedInit, CachesTypedInit DEF PartsInit
<1>3. SyncTyped /\ LlmTyped /\ RatingsTyped
    BY SyncTypedInit, LlmTypedInit, RatingsTypedInit DEF PartsInit
<1> QED
    BY <1>1, <1>2, <1>3 DEF PartsTyped, PartsInit

LEMMA PartsTypedNext == PartsTyped /\ [PartsNext]_partsVars => PartsTyped'
<1> SUFFICES ASSUME PartsTyped, [PartsNext]_partsVars PROVE PartsTyped'
  OBVIOUS
<1>1. /\ [ManualNext]_manualVars /\ [TelegramNext]_telegramVars /\ [CachesNext]_cachesVars
      /\ [SyncNext]_syncVars /\ [RatingsNext]_ratingsVars /\ [LlmNext]_llmVars
    BY DEF PartsNext, Rest, partsVars
<1>2. PartsInv' /\ part' = part
    BY PartsKeep DEF PartsTyped, PartsNext, Rest, partsVars
<1>3. ManualTyped' /\ TelegramTyped' /\ CachesTyped'
    BY <1>1, ManualTypedNext, TelegramTypedNext, CachesTypedNext DEF PartsTyped
<1>4. SyncTyped' /\ LlmTyped' /\ RatingsTyped'
    BY <1>1, SyncTypedNext, LlmTypedNext, RatingsTypedNext DEF PartsTyped, PartsInv
<1> QED
    BY <1>2, <1>3, <1>4 DEF PartsTyped

\* Whatever component moves and however: rows, queues, counters, prices and shares keep
\* their types, and the components at rest theirs.
THEOREM PartsTyping == PartsSpec => []PartsTypeOK
<1>1. PartsTyped => PartsTypeOK
  <2> SUFFICES ASSUME PartsTyped PROVE PartsTypeOK
    OBVIOUS
  <2>1. ManualTypeOK /\ TelegramTypeOK /\ CachesTypeOK
    BY TelegramIsTyped, CachesAreTyped DEF PartsTyped, ManualTyped
  <2>2. SyncTypeOK /\ LlmTypeOK /\ RatingsTypeOK
    BY LlmIsTyped, RatingsAreTyped DEF PartsTyped, SyncTyped
  <2>3. EngineTypeOK /\ RulesTypeOK /\ LedgerTypeOK
    BY EngineTyped DEF PartsTyped, PartsInv, RulesInv, LedgerInv
  <2>4. part \in Moving
    BY DEF PartsTyped
  <2> QED
    BY <2>1, <2>2, <2>3, <2>4, MovingAssumption DEF PartsTypeOK
<1> QED
  BY <1>1, PartsTypedInit, PartsTypedNext, PTL DEF PartsSpec
=============================================================================

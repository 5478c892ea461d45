----------------------------- MODULE LogProofs ------------------------------
(***************************************************************************)
(* Proofs about LogLoop, and at the end about LogRecorder, for every       *)
(* length of the windows, of the history and of the list of hooks, and for *)
(* a game that writes any log.                                             *)
(*                                                                         *)
(* unique_logs forgets lines, so "it is not in unique_logs" means "it is   *)
(* new" only for lines a fetch can still show.  The invariant says what    *)
(* the set is worth: a line that was looked at and forgotten is never in a *)
(* batch again (Forgotten), and a line that was never looked at is older   *)
(* than every remembered one that comes after it (Closed), so that the     *)
(* comparison of seconds in record_line is enough to keep the order.       *)
(***************************************************************************)
EXTENDS LogRecorder, SequenceTheorems, WellFoundedInduction, TLAPS

\* The lines that were looked at and that something is known of.
RanLines == {ran[k][1] : k \in DOMAIN ran}
HistoryLines == {history[k] : k \in DOMAIN history}
Touched == RanLines \cup HistoryLines \cup cut

InBatch == pc \in {"guard", "record", "hooks"}
InHand(i) == pc \in {"record", "hooks"} /\ i = next

\* The game writes its log in the order of time.
Sorted ==
    /\ \A i \in Lines : game[i] <= now
    /\ \A i, j \in Lines : i < j => game[i] <= game[j]

\* What unique_logs has lost is out of reach.
Forgotten ==
    /\ \A i \in Touched \ guard : ~Shown(i, Keep)
    /\ InBatch => \A i \in Touched \ guard : i < next

Closed ==
    \A j \in guard, i \in Lines \ guard : i < j => game[i] < game[j]

\* What was passed over before the batch is older than all of the batch.
BatchIsLater ==
    InBatch => \A i \in Lines \ guard, k \in Lines :
                   i < next /\ next <= k /\ k <= last => game[i] < game[k]

\* The line in hand: what holds while the process is about to record it, and
\* while its hooks run.
LineInHand ==
    /\ pc \in {"record", "hooks"} => next <= last /\ next \in guard
    /\ pc = "record" =>
          /\ next \notin Touched
          /\ \A j \in HistoryLines : j < next \/ game[j] > game[next]
    /\ pc = "hooks" => history # <<>> /\ Head(history) = next
    /\ pc = "hooks" =>
          \A k \in DOMAIN ran : ran[k][1] < next \/ (ran[k][1] = next /\ ran[k][2] < hook)

HeadIsLast ==
    RanLines # {} => history # <<>> /\ \A i \in RanLines : i <= Head(history)

HookStartsOver == pc # "hooks" => hook = 1

OrderInv ==
    /\ TypeOK
    /\ Sorted
    /\ Forgotten
    /\ Closed
    /\ BatchIsLater
    /\ LineInHand
    /\ HeadIsLast
    /\ HookStartsOver
    /\ HistoryInOrder
    /\ HooksRunOnceInOrder

-----------------------------------------------------------------------------
\* Line i is settled: its hooks ran, or the process died over it.
Settled(i) == Handled(i) \/ i \in cut

\* While no fetch was late: every line in unique_logs is settled or in hand,
\* a line before a remembered one is settled or remembered itself, and what
\* is not settled was written since the last completed fetch and, once the
\* batch has gone past it, is later than the batch.
OnTime ==
    /\ \A i \in guard : Settled(i) \/ InHand(i)
    /\ \A j \in guard, i \in Lines : i < j => Settled(i) \/ i \in guard
    /\ \A i \in Lines : Settled(i) \/ game[i] >= sure
    /\ InBatch => next <= last + 1
    /\ InBatch => \A i \in Lines : i < next => Settled(i)
    /\ InBatch => \A i \in Lines : i > last => game[i] >= fetched
    /\ pc = "record" => \A j \in HistoryLines : j < next
    /\ pc = "hooks" => \A h \in 1 .. hook - 1 : \E k \in DOMAIN ran : ran[k] = <<next, h>>

CompleteInv == OrderInv /\ (~late => OnTime)

-----------------------------------------------------------------------------
(* The operators the steps are built from.                                 *)

\* add() puts the line in front and keeps the order of the rest.
LEMMA PushedFacts ==
    ASSUME TypeOK, NEW line \in Lines
    PROVE  /\ Pushed(line) \in Seq(Lines)
           /\ Len(Pushed(line)) \in 1 .. HistoryLen
           /\ Pushed(line)[1] = line
           /\ Len(Pushed(line)) <= Len(history) + 1
           /\ \A k \in 2 .. Len(Pushed(line)) : Pushed(line)[k] = history[k - 1]
<1> DEFINE longer == <<line>> \o history
           n == IF Len(longer) < HistoryLen THEN Len(longer) ELSE HistoryLen
<1>1. history \in Seq(Lines) /\ Len(history) \in Nat
    BY DEF TypeOK
<1>2. /\ longer \in Seq(Lines) /\ Len(longer) = Len(history) + 1
      /\ longer[1] = line
      /\ \A k \in 2 .. Len(longer) : longer[k] = history[k - 1]
    BY <1>1
<1>3. n \in 1 .. HistoryLen /\ n <= Len(longer) /\ n \in Nat
    BY <1>1, <1>2, LengthsAssumption
<1> HIDE DEF longer, n
<1>4. \A k \in 1 .. n : longer[k] \in Lines
    BY <1>2, <1>3
<1>5. /\ SubSeq(longer, 1, n) \in Seq(Lines) /\ Len(SubSeq(longer, 1, n)) = n
      /\ \A k \in 1 .. n : SubSeq(longer, 1, n)[k] = longer[k]
    BY <1>2, <1>3, <1>4
<1>6. Pushed(line) = SubSeq(longer, 1, n)
    BY DEF Pushed, longer, n
<1> QED
    BY <1>2, <1>3, <1>5, <1>6, <1>1

\* A cleanup removes only what is too old, and what is older with it.
LEMMA CleanupFacts ==
    ASSUME TypeOK, Closed, UNCHANGED gameVars,
           guard' \in {guard, guard \ Expired}
    PROVE  /\ guard' \subseteq guard
           /\ Closed'
           /\ \A i \in guard \ guard' : ~Shown(i, Keep)
<1>1. guard' \subseteq guard /\ \A i \in guard \ guard' : ~Shown(i, Keep)
    BY DEF Expired
<1>2. ASSUME NEW j \in guard', NEW i \in Lines \ guard', i < j
      PROVE  game[i] < game[j]
  <2>1. CASE i \notin guard
      BY <1>1, <1>2, <2>1 DEF Closed
  <2>2. CASE i \in guard
    <3>1. guard' = guard \ Expired /\ ~Shown(i, Keep) /\ Shown(j, Keep)
        BY <1>1, <1>2, <2>2 DEF Expired
    <3>2. game[i] \in Nat /\ game[j] \in Nat /\ now \in Nat
        BY <1>1, <1>2 DEF TypeOK, GameTypeOK, Lines
    <3> QED BY <3>1, <3>2, WindowsAssumption DEF Shown
  <2> QED BY <2>1, <2>2
<1>3. Closed'
    BY <1>2 DEF Closed, gameVars, Lines
<1> QED BY <1>1, <1>3

LEMMA TouchedLines ==
    ASSUME TypeOK
    PROVE  /\ RanLines \subseteq Lines /\ HistoryLines \subseteq Lines
           /\ Touched \subseteq Lines
           /\ \A i \in Lines : i \in Nat \ {0} /\ game[i] \in Nat
<1>1. RanLines \subseteq Lines
    BY DEF TypeOK, RanLines
<1>2. HistoryLines \subseteq Lines
    BY DEF TypeOK, HistoryLines
<1>3. \A i \in Lines : i \in Nat \ {0} /\ game[i] \in Nat
    BY DEF TypeOK, GameTypeOK, Lines
<1> QED BY <1>1, <1>2, <1>3 DEF TypeOK, Touched

\* The batch moves on by one line and leaves what is forgotten behind.
LEMMA PassedOver ==
    ASSUME TypeOK, Forgotten, pc \in {"guard", "record", "hooks"}
    PROVE  \A i \in Touched \ guard : ~Shown(i, Keep) /\ i < next + 1
<1> SUFFICES ASSUME NEW i \in Touched \ guard
             PROVE  ~Shown(i, Keep) /\ i < next + 1
    OBVIOUS
<1>1. i \in Nat
    BY TouchedLines
<1>2. next \in Nat
    BY DEF TypeOK
<1>3. ~Shown(i, Keep) /\ i < next
    BY DEF Forgotten, InBatch
<1> QED BY <1>1, <1>2, <1>3

\* Handled depends on ran alone.
LEMMA HandledStays ==
    ASSUME NEW i, Handled(i),
           \A k \in DOMAIN ran : k \in DOMAIN ran' /\ ran'[k] = ran[k]
    PROVE  Handled(i)'
BY DEF Handled

-----------------------------------------------------------------------------
(* The order of the hooks and of the history: one lemma for each action.   *)

LEMMA StartOrder ==
    ASSUME OrderInv, Start
    PROVE  OrderInv'
<1> USE DEF OrderInv
<1>1. guard' \subseteq guard /\ Closed' /\ \A i \in guard \ guard' : ~Shown(i, Keep)
    BY CleanupFacts DEF Start
<1>2. TypeOK'
    BY <1>1 DEF Start, TypeOK, GameTypeOK, gameVars, records, Places, Lines
<1>3. Forgotten'
    BY <1>1 DEF Start, Forgotten, Touched, RanLines, HistoryLines, InBatch,
                gameVars, records, Shown
<1>4. Sorted' /\ HeadIsLast' /\ HistoryInOrder' /\ HooksRunOnceInOrder'
    BY DEF Start, Sorted, HeadIsLast, HistoryInOrder, HooksRunOnceInOrder,
           RanLines, gameVars, records, Lines
<1>5. BatchIsLater' /\ LineInHand' /\ HookStartsOver'
    BY DEF Start, BatchIsLater, LineInHand, HookStartsOver, InBatch
<1> QED BY <1>1, <1>2, <1>3, <1>4, <1>5

LEMMA FetchOrder ==
    ASSUME OrderInv, Fetch
    PROVE  OrderInv'
<1> USE DEF OrderInv
<1>1. PICK lo \in 1 .. Len(game) + 1 : ShownFrom(lo, since) /\ next' = lo
    BY DEF Fetch
<1>2. TypeOK'
    BY <1>1 DEF Fetch, TypeOK, GameTypeOK, gameVars, Places, Lines
<1>3. since <= Keep /\ since \in Nat /\ Keep \in Nat
    BY WindowsAssumption DEF TypeOK
<1>4. \A i \in Lines : game[i] \in Nat /\ now \in Nat /\ i \in Nat
    BY DEF TypeOK, GameTypeOK, Lines
<1>5. \A i \in Lines : ~Shown(i, Keep) => i < lo
    BY <1>1, <1>3, <1>4 DEF ShownFrom, Shown
<1>6. \A i, k \in Lines : i < lo /\ lo <= k => game[i] < game[k]
    BY <1>1, <1>3, <1>4 DEF ShownFrom, Shown
<1>7. Touched \subseteq Lines
    BY TouchedLines
<1>8. Forgotten'
    BY <1>1, <1>5, <1>7 DEF Fetch, Forgotten, Touched, RanLines, HistoryLines, gameVars, Shown
<1>9. BatchIsLater'
    BY <1>1, <1>6 DEF Fetch, BatchIsLater, gameVars, Lines
<1>10. Sorted' /\ HeadIsLast' /\ HistoryInOrder' /\ HooksRunOnceInOrder' /\ Closed'
    BY DEF Fetch, Sorted, HeadIsLast, HistoryInOrder, HooksRunOnceInOrder,
           RanLines, gameVars, Lines, Closed
<1>11. LineInHand' /\ HookStartsOver'
    BY DEF Fetch, LineInHand, HookStartsOver
<1> QED BY <1>2, <1>8, <1>9, <1>10, <1>11

LEMMA CheckGuardOrder ==
    ASSUME OrderInv, CheckGuard
    PROVE  OrderInv'
<1> USE DEF OrderInv
<1>1. next \in Lines /\ next \in Nat /\ last \in Nat /\ next <= last
    BY DEF CheckGuard, TypeOK, GameTypeOK, Lines
<1>2. \A i \in Lines : game[i] \in Nat /\ i \in Nat
    BY DEF TypeOK, GameTypeOK, Lines
<1>3. Sorted' /\ HeadIsLast' /\ HistoryInOrder' /\ HooksRunOnceInOrder'
    BY DEF CheckGuard, Sorted, HeadIsLast, HistoryInOrder, HooksRunOnceInOrder,
           RanLines, gameVars, records, Lines
<1>4. CASE next \in guard
  <2>1. next' = next + 1 /\ guard' = guard /\ pc' = "guard" /\ UNCHANGED <<gameVars, history, last, hook, records>>
      BY <1>4 DEF CheckGuard
  <2>2. TypeOK'
      BY <1>1, <1>4 DEF CheckGuard, TypeOK, GameTypeOK, gameVars, records, Lines
  <2>3. Forgotten'
    <3>1. Touched' = Touched
        BY <2>1 DEF Touched, RanLines, HistoryLines, records
    <3>2. \A i \in Touched \ guard : ~Shown(i, Keep) /\ i < next + 1
        BY PassedOver DEF CheckGuard
    <3> QED BY <2>1, <3>1, <3>2 DEF Forgotten, gameVars, Shown
  <2>4. BatchIsLater'
    <3>1. \A i \in Lines \ guard : i < next + 1 => i < next
        BY <1>1, <1>2, <1>4
    <3>2. \A k \in Lines : next + 1 <= k => next <= k
        BY <1>1, <1>2
    <3> QED BY <2>1, <3>1, <3>2 DEF CheckGuard, BatchIsLater, InBatch, gameVars, Lines
  <2>5. Closed' /\ LineInHand' /\ HookStartsOver'
      BY <2>1 DEF CheckGuard, Closed, LineInHand, HookStartsOver, gameVars, Lines
  <2> QED BY <1>3, <2>2, <2>3, <2>4, <2>5
<1>5. CASE next \notin guard
  <2>1. guard' = guard \cup {next} /\ next' = next /\ pc' = "record" /\ UNCHANGED <<gameVars, history, last, hook, records>>
      BY <1>5 DEF CheckGuard
  <2>2. TypeOK'
      BY <1>1, <2>1 DEF CheckGuard, TypeOK, GameTypeOK, gameVars, records, Lines, Places
  <2>3. Touched' = Touched /\ HistoryLines' = HistoryLines
      BY <2>1 DEF Touched, RanLines, HistoryLines, records
  <2>4. Forgotten'
      BY <2>1, <2>3 DEF CheckGuard, Forgotten, InBatch, gameVars, Shown
  <2>5. \A i \in Lines \ guard : i < next => game[i] < game[next]
      BY <1>1 DEF CheckGuard, BatchIsLater, InBatch
  <2>6. Closed'
      BY <2>1, <2>5 DEF Closed, gameVars, Lines
  <2>7. BatchIsLater'
      BY <2>1 DEF CheckGuard, BatchIsLater, InBatch, gameVars, Lines
  <2>8. \A i \in Touched : i \notin guard => i < next
      BY DEF Forgotten, InBatch, CheckGuard
  <2>9. next \notin Touched
      BY <1>1, <1>5, <2>8
  <2>10. HistoryLines \subseteq Lines /\ HistoryLines \subseteq Touched
      BY TouchedLines DEF Touched
  <2>11. \A j \in HistoryLines : j < next \/ game[j] > game[next]
    <3> SUFFICES ASSUME NEW j \in HistoryLines, ~(j < next)
                 PROVE  game[j] > game[next]
        OBVIOUS
    <3>1. j \in guard /\ j # next /\ j \in Lines
        BY <2>8, <2>9, <2>10
    <3>2. next < j
        BY <1>1, <1>2, <3>1
    <3>3. game[next] < game[j]
        BY <1>1, <1>5, <3>1, <3>2 DEF Closed
    <3> QED BY <3>3, <3>1, <1>1, <1>2
  <2>12. LineInHand'
      BY <1>1, <2>1, <2>3, <2>9, <2>11 DEF LineInHand, gameVars
  <2>13. HookStartsOver'
      BY <2>1 DEF HookStartsOver, CheckGuard
  <2> QED BY <1>3, <2>2, <2>4, <2>6, <2>7, <2>12, <2>13
<1> QED BY <1>4, <1>5

LEMMA RecordOrder ==
    ASSUME OrderInv, Record
    PROVE  OrderInv'
<1> USE DEF OrderInv
<1>1. /\ pc = "record" /\ next \in guard /\ next \notin Touched
      /\ next <= last /\ next \in Lines /\ next \in Nat /\ last \in Nat
      /\ UNCHANGED <<gameVars, guard, since, last, hook, records>>
    BY DEF Record, LineInHand, TypeOK, Lines, GameTypeOK
<1>2. \A i \in Lines : game[i] \in Nat /\ i \in Nat
    BY TouchedLines
<1>3. RanLines' = RanLines /\ cut' = cut /\ Lines' = Lines /\ UNCHANGED <<game, now>>
    BY <1>1 DEF RanLines, records, gameVars, Lines
<1>4. Sorted' /\ Closed' /\ HooksRunOnceInOrder' /\ HookStartsOver'
    BY <1>1, <1>3 DEF Sorted, Closed, HooksRunOnceInOrder, records, HookStartsOver
<1>5. CASE history # <<>> /\ game[Head(history)] > game[next]
  <2>1. next' = next + 1 /\ pc' = "guard" /\ history' = history
      BY <1>5 DEF Record
  <2>2. TypeOK'
      BY <1>1, <1>3, <2>1 DEF TypeOK, GameTypeOK, records, Places
  <2>3. HeadIsLast' /\ HistoryInOrder' /\ LineInHand'
      BY <1>3, <2>1 DEF HeadIsLast, HistoryInOrder, LineInHand
  <2>4. Forgotten'
    <3>1. Touched' = Touched
        BY <1>3, <2>1 DEF Touched, HistoryLines
    <3>2. \A i \in Touched \ guard : ~Shown(i, Keep) /\ i < next + 1
        BY <1>1, PassedOver
    <3> QED BY <1>1, <1>3, <3>1, <3>2, <2>1 DEF Forgotten, Shown
  <2>5. BatchIsLater'
    <3>1. \A i \in Lines \ guard : i < next + 1 => i < next
        BY <1>1, <1>2
    <3>2. \A k \in Lines : next + 1 <= k => next <= k
        BY <1>1, <1>2
    <3> QED BY <1>1, <1>3, <2>1, <3>1, <3>2 DEF BatchIsLater, InBatch
  <2> QED BY <1>4, <2>2, <2>3, <2>4, <2>5
<1>6. CASE ~(history # <<>> /\ game[Head(history)] > game[next])
  <2>1. next' = next /\ pc' = "hooks" /\ history' = Pushed(next)
      BY <1>6 DEF Record
  <2>2. /\ history' \in Seq(Lines) /\ Len(history') \in 1 .. HistoryLen
        /\ history'[1] = next /\ Len(history') <= Len(history) + 1
        /\ \A k \in 2 .. Len(history') : history'[k] = history[k - 1]
      BY <1>1, <2>1, PushedFacts
  <2>3. Len(history) \in Nat /\ Len(history') \in Nat /\ HistoryLen \in Nat
      BY <2>2, LengthsAssumption DEF TypeOK
  <2>4. history' # <<>> /\ Head(history') = next
      BY <2>2
  <2>5. \A k \in DOMAIN history : history[k] < next
    <3>1. ASSUME history # <<>> PROVE  Head(history) \in HistoryLines /\ Head(history) = history[1]
        BY <3>1 DEF HistoryLines, TypeOK
    <3>2. ASSUME history # <<>> PROVE  history[1] < next
        BY <1>1, <1>2, <1>6, <3>1, <3>2, TouchedLines DEF LineInHand
    <3>3. \A k \in DOMAIN history : history[k] \in Nat /\ (k = 1 \/ history[k] < history[1])
        BY TouchedLines DEF HistoryInOrder, TypeOK
    <3>4. \A k \in DOMAIN history : history # <<>> /\ 1 \in DOMAIN history
        BY DEF TypeOK
    <3> QED BY <1>1, <3>2, <3>3, <3>4
  <2>6. \A i \in HistoryLines' : i = next \/ i \in HistoryLines
    <3> SUFFICES ASSUME NEW k \in DOMAIN history'
                 PROVE  history'[k] = next \/ history'[k] \in HistoryLines
        BY DEF HistoryLines
    <3>1. k \in 1 .. Len(history')
        BY <2>2
    <3>2. CASE k = 1
        BY <2>2, <3>2
    <3>3. CASE k # 1
      <4>1. k \in 2 .. Len(history') /\ k - 1 \in 1 .. Len(history)
          BY <2>2, <2>3, <3>1, <3>3
      <4>2. k - 1 \in DOMAIN history
          BY <4>1 DEF TypeOK
      <4> QED BY <2>2, <4>1, <4>2 DEF HistoryLines
    <3> QED BY <3>2, <3>3
  <2>7. HistoryInOrder'
    <3> SUFFICES ASSUME NEW a \in DOMAIN history', NEW b \in DOMAIN history', a < b
                 PROVE  history'[b] < history'[a]
        BY DEF HistoryInOrder
    <3>1. a \in 1 .. Len(history') /\ b \in 2 .. Len(history') /\ b - 1 \in 1 .. Len(history)
        BY <2>2, <2>3
    <3>2. b - 1 \in DOMAIN history /\ history'[b] = history[b - 1]
      <4>1. history \in Seq(Lines)
          BY DEF TypeOK
      <4> QED BY <3>1, <2>2, <4>1
    <3>3. CASE a = 1
        BY <2>2, <2>5, <3>2, <3>3
    <3>4. CASE a # 1
      <4>1. a \in 2 .. Len(history') /\ a - 1 \in 1 .. Len(history) /\ a - 1 < b - 1
          BY <3>1, <3>4, <2>3, <2>2
      <4>2. a - 1 \in DOMAIN history /\ history'[a] = history[a - 1]
        <5>1. history \in Seq(Lines)
            BY DEF TypeOK
        <5> QED BY <4>1, <2>2, <5>1
      <4> QED BY <3>2, <4>1, <4>2 DEF HistoryInOrder
    <3> QED BY <3>3, <3>4
  <2>8. TypeOK'
      BY <1>1, <1>3, <2>1, <2>2, <2>3 DEF TypeOK, GameTypeOK, records, Places
  <2>9. Forgotten'
    <3>1. \A i \in Touched' : i \in guard \/ i \in Touched
        BY <1>1, <1>3, <2>6 DEF Touched
    <3> QED BY <1>1, <1>3, <2>1, <3>1 DEF Forgotten, Shown, InBatch
  <2>10. BatchIsLater'
      BY <1>1, <1>3, <2>1 DEF BatchIsLater, InBatch
  <2>11. \A i \in RanLines : i < next
    <3> SUFFICES ASSUME NEW i \in RanLines PROVE i < next
        OBVIOUS
    <3>1. history # <<>> /\ i <= Head(history)
        BY DEF HeadIsLast
    <3>2. 1 \in DOMAIN history /\ Head(history) = history[1]
        BY <3>1 DEF TypeOK
    <3>3. history[1] \in Nat /\ i \in Nat /\ history[1] < next
        BY <2>5, <3>2, TouchedLines DEF TypeOK, HistoryLines
    <3> QED BY <3>1, <3>2, <3>3, <1>1
  <2>12. HeadIsLast'
    <3>1. \A i \in RanLines : i \in Nat
        BY TouchedLines
    <3>2. \A i \in RanLines : i <= next
        BY <2>11, <3>1, <1>1
    <3> QED BY <1>3, <2>4, <3>2 DEF HeadIsLast
  <2>13. LineInHand'
    <3>1. \A k \in DOMAIN ran' : ran'[k][1] < next
        BY <1>1, <2>11 DEF RanLines, records
    <3> QED BY <1>1, <2>1, <2>4, <3>1 DEF LineInHand
  <2> QED BY <1>4, <2>7, <2>8, <2>9, <2>10, <2>12, <2>13
<1> QED BY <1>5, <1>6

LEMMA RunHookOrder ==
    ASSUME OrderInv, RunHook
    PROVE  OrderInv'
<1> USE DEF OrderInv
<1>1. /\ pc = "hooks" /\ next \in guard /\ next <= last
      /\ next \in Lines /\ next \in Nat /\ last \in Nat
      /\ history # <<>> /\ Head(history) = next
      /\ UNCHANGED <<gameVars, guard, history, since, last, cut, fetched, sure, late>>
    BY DEF RunHook, LineInHand, TypeOK, Lines, GameTypeOK
<1>2. UNCHANGED <<now, game>> /\ Lines' = Lines /\ HistoryLines' = HistoryLines
    BY <1>1 DEF gameVars, Lines, HistoryLines
<1>3. hook \in 1 .. Hooks /\ Hooks \in Nat /\ hook \in Nat
    BY LengthsAssumption DEF TypeOK
<1>4. /\ ran' = Append(ran, <<next, hook>>) /\ ran \in Seq(Lines \X (1 .. Hooks))
      /\ Len(ran) \in Nat /\ <<next, hook>> \in Lines \X (1 .. Hooks)
    BY <1>1, <1>3 DEF RunHook, TypeOK
<1>5. /\ ran' \in Seq(Lines \X (1 .. Hooks)) /\ Len(ran') = Len(ran) + 1
      /\ ran'[Len(ran) + 1] = <<next, hook>>
      /\ \A k \in 1 .. Len(ran) : ran'[k] = ran[k]
      /\ DOMAIN ran = 1 .. Len(ran) /\ DOMAIN ran' = 1 .. Len(ran) + 1
    BY <1>4
<1>6. \A k \in DOMAIN ran : ran[k][1] < next \/ (ran[k][1] = next /\ ran[k][2] < hook)
    BY <1>1 DEF LineInHand
<1>7. \A k \in DOMAIN ran : ran[k][1] \in Nat /\ ran[k][2] \in Nat
    BY <1>4, TouchedLines DEF RanLines
<1>8. HooksRunOnceInOrder'
  <2> SUFFICES ASSUME NEW a \in DOMAIN ran', NEW b \in DOMAIN ran', a < b
               PROVE  Before(ran'[a], ran'[b])
      BY DEF HooksRunOnceInOrder
  <2>1. a \in 1 .. Len(ran) /\ ran'[a] = ran[a]
      BY <1>4, <1>5
  <2>2. CASE b = Len(ran) + 1
      BY <1>5, <1>6, <2>1, <2>2 DEF Before
  <2>3. CASE b # Len(ran) + 1
    <3>1. b \in 1 .. Len(ran) /\ ran'[b] = ran[b]
        BY <1>4, <1>5, <2>3
    <3> QED BY <1>5, <2>1, <3>1 DEF HooksRunOnceInOrder
  <2> QED BY <2>2, <2>3
<1>9. RanLines' = RanLines \cup {next}
  <2>1. \A k \in DOMAIN ran' : ran'[k][1] \in RanLines \cup {next}
      BY <1>4, <1>5 DEF RanLines
  <2>2. \A k \in DOMAIN ran : k \in DOMAIN ran' /\ ran'[k] = ran[k]
      BY <1>4, <1>5
  <2>3. Len(ran) + 1 \in DOMAIN ran' /\ ran'[Len(ran) + 1][1] = next
      BY <1>4, <1>5
  <2> QED BY <2>1, <2>2, <2>3 DEF RanLines
<1>10. HeadIsLast' /\ HistoryInOrder' /\ Sorted' /\ Closed'
  <2>1. \A i \in RanLines : i <= next
      BY <1>1 DEF HeadIsLast
  <2>2. HeadIsLast'
      BY <1>1, <1>9, <2>1 DEF HeadIsLast
  <2> QED BY <1>1, <1>2, <2>2 DEF HistoryInOrder, Sorted, Closed
<1>11. \A i \in Touched' : i \in guard \/ i \in Touched
    BY <1>1, <1>2, <1>9 DEF Touched
<1>12. CASE hook < Hooks
  <2>1. hook' = hook + 1 /\ next' = next /\ pc' = "hooks"
      BY <1>1, <1>12 DEF RunHook
  <2>2. TypeOK'
      BY <1>1, <1>2, <1>3, <1>5, <1>12, <2>1 DEF TypeOK, GameTypeOK, Places
  <2>3. Forgotten'
      BY <1>1, <1>2, <1>11, <2>1 DEF Forgotten, Shown, InBatch
  <2>4. BatchIsLater' /\ HookStartsOver'
      BY <1>1, <1>2, <2>1 DEF BatchIsLater, InBatch, HookStartsOver
  <2>5. \A k \in DOMAIN ran' : ran'[k][1] < next \/ (ran'[k][1] = next /\ ran'[k][2] < hook + 1)
    <3> SUFFICES ASSUME NEW k \in DOMAIN ran'
                 PROVE  ran'[k][1] < next \/ (ran'[k][1] = next /\ ran'[k][2] < hook + 1)
        OBVIOUS
    <3>1. CASE k = Len(ran) + 1
        BY <1>3, <1>5, <3>1
    <3>2. CASE k # Len(ran) + 1
      <4>1. k \in DOMAIN ran /\ ran'[k] = ran[k]
          BY <1>4, <1>5, <3>2
      <4> QED BY <1>3, <1>6, <1>7, <4>1
    <3> QED BY <3>1, <3>2
  <2>6. LineInHand'
      BY <1>1, <2>1, <2>5 DEF LineInHand
  <2> QED BY <1>8, <1>10, <2>2, <2>3, <2>4, <2>6
<1>13. CASE ~(hook < Hooks)
  <2>1. hook' = 1 /\ next' = next + 1 /\ pc' = "guard"
      BY <1>13 DEF RunHook
  <2>2. TypeOK'
    <3>1. next' \in Nat \ {0} /\ hook' \in 1 .. Hooks
        BY <1>1, <1>3, <2>1 DEF TypeOK
    <3> QED BY <1>1, <1>2, <1>3, <1>5, <2>1, <3>1 DEF TypeOK, GameTypeOK, Places
  <2>3. Forgotten'
    <3>1. \A i \in Touched \ guard : ~Shown(i, Keep) /\ i < next + 1
        BY <1>1, PassedOver
    <3> QED BY <1>1, <1>2, <1>11, <2>1, <3>1 DEF Forgotten, Shown
  <2>4. BatchIsLater'
    <3>1. \A i \in Lines \ guard : i < next + 1 => i < next
        BY <1>1, TouchedLines
    <3>2. \A k \in Lines : next + 1 <= k => next <= k
        BY <1>1, TouchedLines
    <3> QED BY <1>1, <1>2, <2>1, <3>1, <3>2 DEF BatchIsLater, InBatch
  <2>5. LineInHand' /\ HookStartsOver'
      BY <2>1 DEF LineInHand, HookStartsOver
  <2> QED BY <1>8, <1>10, <2>2, <2>3, <2>4, <2>5
<1> QED BY <1>12, <1>13

LEMMA EndBatchOrder ==
    ASSUME OrderInv, EndBatch
    PROVE  OrderInv'
<1> USE DEF OrderInv
<1>1. guard' \subseteq guard /\ Closed' /\ \A i \in guard \ guard' : ~Shown(i, Keep)
    BY CleanupFacts DEF EndBatch
<1>2. TypeOK'
    BY <1>1 DEF EndBatch, TypeOK, GameTypeOK, gameVars, Places, Lines
<1>3. Forgotten'
    BY <1>1 DEF EndBatch, Forgotten, Touched, RanLines, HistoryLines, InBatch,
                gameVars, Shown
<1>4. Sorted' /\ HeadIsLast' /\ HistoryInOrder' /\ HooksRunOnceInOrder'
    BY DEF EndBatch, Sorted, HeadIsLast, HistoryInOrder, HooksRunOnceInOrder,
           RanLines, gameVars, Lines
<1>5. BatchIsLater' /\ LineInHand' /\ HookStartsOver'
    BY DEF EndBatch, BatchIsLater, LineInHand, HookStartsOver, InBatch
<1> QED BY <1>1, <1>2, <1>3, <1>4, <1>5

LEMMA CrashOrder ==
    ASSUME OrderInv, Crash
    PROVE  OrderInv'
<1> USE DEF OrderInv
<1>1. cut' = cut \/ (cut' = cut \cup {next} /\ next \in guard)
    BY DEF Crash, LineInHand
<1>2. TypeOK'
    BY <1>1, LengthsAssumption DEF Crash, TypeOK, GameTypeOK, gameVars, Places, Lines
<1>3. Forgotten'
  <2>1. \A i \in Touched' : i \in guard \/ i \in Touched
      BY <1>1 DEF Crash, Touched, RanLines, HistoryLines
  <2> QED BY <2>1 DEF Crash, Forgotten, InBatch, gameVars, Shown
<1>4. Sorted' /\ HeadIsLast' /\ HistoryInOrder' /\ HooksRunOnceInOrder' /\ Closed'
    BY DEF Crash, Sorted, HeadIsLast, HistoryInOrder, HooksRunOnceInOrder,
           RanLines, gameVars, Lines, Closed
<1>5. BatchIsLater' /\ LineInHand' /\ HookStartsOver'
    BY DEF Crash, BatchIsLater, LineInHand, HookStartsOver, InBatch
<1> QED BY <1>2, <1>3, <1>4, <1>5

LEMMA GameOrder ==
    ASSUME OrderInv, GameNext, UNCHANGED loopVars
    PROVE  OrderInv'
<1> USE DEF OrderInv
<1>1. /\ UNCHANGED <<guard, history, pc, since, next, last, hook, ran, cut, fetched, sure, late>>
      /\ RanLines' = RanLines /\ HistoryLines' = HistoryLines /\ Touched' = Touched
    BY DEF loopVars, records, RanLines, HistoryLines, Touched
<1>2. TypeOK'
  <2>1. CASE Write
    <3>1. /\ game' \in Seq(Nat) /\ Len(game') \in Nat /\ Len(game) <= Len(game')
          /\ now' = now /\ Lines \subseteq Lines' /\ Len(game) \in Nat
        BY <2>1 DEF Write, TypeOK, GameTypeOK, Lines
    <3>2. history \in Seq(Lines')
      <4>1. history \in Seq(Lines)
          BY DEF TypeOK
      <4>2. \A k \in 1 .. Len(history) : history[k] \in Lines'
          BY <3>1, <4>1
      <4> QED BY <4>1, <4>2
    <3>3. ran \in Seq(Lines' \X (1 .. Hooks))
      <4>1. ran \in Seq(Lines \X (1 .. Hooks))
          BY DEF TypeOK
      <4>2. \A k \in 1 .. Len(ran) : ran[k] \in Lines' \X (1 .. Hooks)
          BY <3>1, <4>1
      <4> QED BY <4>1, <4>2
    <3>4. last \in 0 .. Len(game')
        BY <3>1 DEF TypeOK
    <3> QED BY <1>1, <3>1, <3>2, <3>3, <3>4 DEF TypeOK, GameTypeOK
  <2>2. CASE Tick
      BY <1>1, <2>2 DEF Tick, TypeOK, GameTypeOK, Lines
  <2> QED BY <2>1, <2>2 DEF GameNext
<1>3. guard \subseteq Lines /\ Touched \subseteq Lines /\ last \in Nat
      /\ (\A i \in Lines : i \in Nat \ {0} /\ game[i] \in Nat) /\ now \in Nat
      /\ Keep \in Nat
    BY TouchedLines, WindowsAssumption DEF TypeOK, GameTypeOK
<1>4. CASE Write
  <2>1. /\ Len(game) \in Nat /\ Lines = 1 .. Len(game)
        /\ Lines' = 1 .. Len(game) + 1 /\ now' = now
        /\ game'[Len(game) + 1] = now /\ \A i \in Lines : game'[i] = game[i]
      BY <1>4 DEF Write, TypeOK, GameTypeOK, Lines
  <2>2. \A i \in Lines' : i \in Lines \/ i = Len(game) + 1
      BY <2>1
  <2>3. Sorted'
    <3>1. \A i \in Lines' : game'[i] <= now'
        BY <1>3, <2>1, <2>2 DEF Sorted
    <3>2. ASSUME NEW i \in Lines', NEW j \in Lines', i < j PROVE game'[i] <= game'[j]
      <4>1. i \in Lines
          BY <2>1, <3>2
      <4>2. CASE j \in Lines
          BY <2>1, <3>2, <4>1, <4>2 DEF Sorted
      <4>3. CASE j = Len(game) + 1
          BY <2>1, <4>1, <4>3 DEF Sorted
      <4> QED BY <2>2, <4>2, <4>3
    <3> QED BY <3>1, <3>2 DEF Sorted
  <2>4. Forgotten'
      BY <1>1, <1>3, <2>1 DEF Forgotten, Shown, InBatch
  <2>5. Closed'
    <3> SUFFICES ASSUME NEW j \in guard', NEW i \in Lines' \ guard', i < j
                 PROVE  game'[i] < game'[j]
        BY DEF Closed
    <3>1. j \in Lines /\ i \in Lines
        BY <1>1, <1>3, <2>1
    <3> QED BY <1>1, <2>1, <3>1 DEF Closed
  <2>6. BatchIsLater'
    <3> SUFFICES ASSUME InBatch, NEW i \in Lines' \ guard', NEW k \in Lines',
                        i < next, next <= k, k <= last
                 PROVE  game'[i] < game'[k]
        BY <1>1 DEF BatchIsLater, InBatch
    <3>1. last <= Len(game) /\ next \in Nat
        BY DEF TypeOK
    <3>2. k \in Lines /\ i \in Lines
        BY <1>3, <2>1, <3>1
    <3> QED BY <1>1, <2>1, <3>2 DEF BatchIsLater
  <2>7. LineInHand'
    <3>1. pc \in {"record", "hooks"} => next \in Lines
        BY <1>3 DEF LineInHand
    <3>2. HistoryLines \subseteq Lines
        BY TouchedLines
    <3> QED BY <1>1, <2>1, <3>1, <3>2 DEF LineInHand
  <2>8. HeadIsLast' /\ HookStartsOver' /\ HistoryInOrder' /\ HooksRunOnceInOrder'
      BY <1>1 DEF HeadIsLast, HookStartsOver, HistoryInOrder, HooksRunOnceInOrder
  <2> QED BY <1>2, <2>3, <2>4, <2>5, <2>6, <2>7, <2>8
<1>5. CASE Tick
  <2>1. game' = game /\ Lines' = Lines /\ now' = now + 1
      BY <1>5 DEF Tick, Lines
  <2>2. Sorted'
      BY <1>3, <2>1 DEF Sorted
  <2>3. Forgotten'
      BY <1>1, <1>3, <2>1 DEF Forgotten, Shown, InBatch
  <2>4. Closed' /\ BatchIsLater' /\ LineInHand'
      BY <1>1, <2>1 DEF Closed, BatchIsLater, LineInHand, InBatch
  <2>5. HeadIsLast' /\ HookStartsOver' /\ HistoryInOrder' /\ HooksRunOnceInOrder'
      BY <1>1 DEF HeadIsLast, HookStartsOver, HistoryInOrder, HooksRunOnceInOrder
  <2> QED BY <1>2, <2>2, <2>3, <2>4, <2>5
<1> QED BY <1>4, <1>5 DEF GameNext

LEMMA StutterOrder ==
    ASSUME OrderInv, UNCHANGED vars
    PROVE  OrderInv'
BY SMTT(20) DEF OrderInv, vars, loopVars, gameVars, records, TypeOK, GameTypeOK, Lines,
       Sorted, Forgotten, Touched, RanLines, HistoryLines, Shown, InBatch, Closed,
       BatchIsLater, LineInHand, HeadIsLast, HookStartsOver, HistoryInOrder,
       HooksRunOnceInOrder

LEMMA InitOrder ==
    ASSUME Init
    PROVE  OrderInv
<1>1. TypeOK
  <2>1. game = <<>> /\ history = <<>> /\ ran = <<>> /\ now = 0 /\ Len(game) = 0
      BY DEF Init, GameInit
  <2>2. GameTypeOK /\ history \in Seq(Lines) /\ ran \in Seq(Lines \X (1 .. Hooks))
      BY <2>1 DEF GameTypeOK
  <2>3. Len(history) <= HistoryLen /\ hook \in 1 .. Hooks
    <3>1. Len(history) = 0
        BY <2>1
    <3> QED BY <3>1, LengthsAssumption DEF Init
  <2>4. /\ last \in 0 .. Len(game) /\ fetched \in 0 .. now /\ sure \in 0 .. now
        /\ next \in Nat \ {0}
      BY <2>1 DEF Init
  <2>5. /\ guard \subseteq Lines /\ cut \subseteq Lines /\ pc \in Places
        /\ since \in {FirstWindow, Window} /\ late \in BOOLEAN
      BY DEF Init, Places
  <2> QED BY <2>2, <2>3, <2>4, <2>5 DEF TypeOK
<1>2. Lines = {} /\ DOMAIN ran = {} /\ DOMAIN history = {}
    BY DEF Init, GameInit, Lines
<1>3. Sorted /\ HistoryInOrder /\ HooksRunOnceInOrder /\ HeadIsLast
    BY <1>2 DEF Sorted, HistoryInOrder, HooksRunOnceInOrder, HeadIsLast, RanLines
<1>4. Forgotten /\ Closed /\ BatchIsLater /\ LineInHand /\ HookStartsOver
    BY <1>2 DEF Init, Forgotten, Touched, RanLines, HistoryLines, InBatch, Closed,
                BatchIsLater, LineInHand, HookStartsOver
<1> QED BY <1>1, <1>3, <1>4 DEF OrderInv

LEMMA StepOrder ==
    ASSUME OrderInv, [Next]_vars
    PROVE  OrderInv'
BY StartOrder, FetchOrder, CheckGuardOrder, RecordOrder, RunHookOrder,
   EndBatchOrder, CrashOrder, GameOrder, StutterOrder
DEF Next, LoopNext

LEMMA OrderAlways == Spec => []OrderInv
BY InitOrder, StepOrder, PTL DEF Spec

-----------------------------------------------------------------------------
(* Nothing is missed: one lemma for each action.                           *)

\* Settled depends on ran and cut, which only grow.
LEMMA SettledStays ==
    ASSUME \A k \in DOMAIN ran : k \in DOMAIN ran' /\ ran'[k] = ran[k],
           cut \subseteq cut',
           NEW i, Settled(i)
    PROVE  Settled(i)'
BY HandledStays DEF Settled

LEMMA SettledIsTouched ==
    ASSUME NEW i, Settled(i)
    PROVE  i \in Touched
<1>1. CASE i \in cut
    BY <1>1 DEF Touched
<1>2. CASE Handled(i)
  <2>1. PICK k \in DOMAIN ran : ran[k] = <<i, 1>>
      BY <1>2, LengthsAssumption DEF Handled
  <2>2. ran[k][1] = i
      BY <2>1
  <2> QED BY <2>2 DEF Touched, RanLines
<1> QED BY <1>1, <1>2 DEF Settled

LEMMA StartOnTime ==
    ASSUME OrderInv, OnTime, Start
    PROVE  OnTime'
<1>1. guard' \subseteq guard
    BY DEF Start, Expired
<1>2. pc = "start" /\ pc' = "fetch" /\ UNCHANGED <<game, ran, cut, sure>>
    BY DEF Start, gameVars, records
<1>3. \A i : Settled(i)' <=> Settled(i)
    BY <1>2 DEF Settled, Handled
<1>4. \A i \in guard : Settled(i)
    BY <1>2 DEF OnTime, InHand
<1> QED
    BY <1>1, <1>2, <1>3, <1>4 DEF OnTime, InBatch, Lines

LEMMA FetchOnTime ==
    ASSUME OrderInv, OnTime, Fetch, ~late'
    PROVE  OnTime'
<1>1. PICK lo \in 1 .. Len(game) + 1 : ShownFrom(lo, since) /\ next' = lo
    BY DEF Fetch
<1>2. pc = "fetch" /\ pc' = "guard" /\ last' = Len(game) /\ now <= sure + since
      /\ UNCHANGED <<now, game, guard, ran, cut, sure>>
  <2>1. now \in Nat /\ sure \in Nat /\ since \in Nat
      BY WindowsAssumption DEF OrderInv, TypeOK, GameTypeOK
  <2>2. ~(now > sure + since)
      BY DEF Fetch
  <2> QED BY <2>1, <2>2 DEF Fetch, gameVars
<1>3. \A i : Settled(i)' <=> Settled(i)
    BY <1>2 DEF Settled, Handled
<1>4. /\ now \in Nat /\ sure \in Nat /\ since \in Nat /\ Len(game) \in Nat
      /\ \A i \in Lines : i \in 1 .. Len(game) /\ game[i] \in Nat
    BY WindowsAssumption DEF OrderInv, TypeOK, GameTypeOK, Lines
<1>5. ASSUME NEW i \in Lines, i < lo PROVE Settled(i)
  <2>1. ~Shown(i, since)
      BY <1>1, <1>4, <1>5 DEF ShownFrom
  <2>2. game[i] < sure
      BY <1>2, <1>4, <2>1 DEF Shown
  <2>3. Settled(i) \/ game[i] >= sure
      BY DEF OnTime
  <2> QED BY <1>4, <2>2, <2>3
<1>6. \A i \in guard : Settled(i)
    BY <1>2 DEF OnTime, InHand
<1>7. lo <= Len(game) + 1
    BY <1>1, <1>4
<1> QED
    BY <1>1, <1>2, <1>3, <1>4, <1>5, <1>6, <1>7 DEF OnTime, InBatch, Lines

LEMMA CheckGuardOnTime ==
    ASSUME OrderInv, OnTime, CheckGuard
    PROVE  OnTime'
<1>1. /\ pc = "guard" /\ next <= last
      /\ UNCHANGED <<game, history, last, ran, cut, fetched, sure>>
    BY DEF CheckGuard, gameVars, records
<1>2. \A i : Settled(i)' <=> Settled(i)
    BY <1>1 DEF Settled, Handled
<1>3. /\ next \in Nat /\ last \in Nat /\ next \in Lines
      /\ \A i \in Lines : i \in Nat
    BY <1>1 DEF OrderInv, TypeOK, GameTypeOK, Lines
<1>4. \A i \in guard : Settled(i)
    BY <1>1 DEF OnTime, InHand
<1>5. /\ \A j \in guard, i \in Lines : i < j => Settled(i) \/ i \in guard
      /\ \A i \in Lines : Settled(i) \/ game[i] >= sure
      /\ \A i \in Lines : i < next => Settled(i)
      /\ \A i \in Lines : i > last => game[i] >= fetched
      /\ next <= last + 1
    BY <1>1 DEF OnTime, InBatch
<1>6. CASE next \in guard
  <2>1. next' = next + 1 /\ guard' = guard /\ pc' = "guard"
      BY <1>1, <1>6 DEF CheckGuard
  <2>2. \A i \in Lines : i < next + 1 => Settled(i)
    <3> SUFFICES ASSUME NEW i \in Lines, i < next + 1 PROVE Settled(i)
        OBVIOUS
    <3>1. i < next \/ i = next
        BY <1>3
    <3> QED BY <1>4, <1>5, <1>6, <3>1
  <2>3. next + 1 <= last + 1
      BY <1>1, <1>3
  <2> QED BY <1>1, <1>2, <1>4, <1>5, <2>1, <2>2, <2>3 DEF OnTime, InBatch, Lines
<1>7. CASE next \notin guard
  <2>1. next' = next /\ guard' = guard \cup {next} /\ pc' = "record"
      BY <1>1, <1>7 DEF CheckGuard
  <2>2. next \notin Touched
    <3>1. OrderInv'
        BY CheckGuardOrder
    <3>2. next \notin Touched'
        BY <2>1, <3>1 DEF OrderInv, LineInHand
    <3> QED BY <1>1, <3>2 DEF Touched, RanLines, HistoryLines
  <2>3. ~Settled(next)
      BY <2>2, SettledIsTouched
  <2>4. ASSUME NEW j \in HistoryLines PROVE j < next
    <3>1. j \in Lines /\ j \in Nat /\ j # next /\ j \in Touched
        BY <1>3, <2>2, TouchedLines DEF Touched, OrderInv
    <3>2. CASE j \in guard
      <4>1. ~(next < j)
          BY <1>3, <1>5, <1>7, <2>3, <3>2
      <4> QED BY <1>3, <3>1, <4>1
    <3>3. CASE j \notin guard
        BY <1>1, <3>1, <3>3 DEF OrderInv, Forgotten, InBatch
    <3> QED BY <3>2, <3>3
  <2>5. HistoryLines' = HistoryLines
      BY <1>1 DEF HistoryLines
  <2>6. \A i \in guard' : Settled(i) \/ i = next
      BY <1>4, <2>1
  <2>7. \A j \in guard', i \in Lines : i < j => Settled(i) \/ i \in guard'
      BY <1>5, <2>1
  <2> QED
      BY <1>1, <1>2, <1>5, <2>1, <2>4, <2>5, <2>6, <2>7 DEF OnTime, InBatch, InHand, Lines
<1> QED BY <1>6, <1>7

LEMMA RecordOnTime ==
    ASSUME OrderInv, OnTime, Record
    PROVE  OnTime'
<1>1. /\ pc = "record" /\ hook = 1 /\ next \in Lines
      /\ UNCHANGED <<game, guard, last, hook, ran, cut, fetched, sure>>
    BY DEF Record, gameVars, records, OrderInv, HookStartsOver, LineInHand, TypeOK
<1>2. \A i : Settled(i)' <=> Settled(i)
    BY <1>1 DEF Settled, Handled
<1>3. ~(history # <<>> /\ game[Head(history)] > game[next])
  <2> SUFFICES ASSUME history # <<>> PROVE ~(game[Head(history)] > game[next])
      OBVIOUS
  <2>1. Head(history) \in HistoryLines
      BY DEF HistoryLines, OrderInv, TypeOK
  <2>2. Head(history) < next /\ Head(history) \in Lines
      BY <1>1, <2>1, TouchedLines DEF OnTime, OrderInv
  <2>3. game[Head(history)] <= game[next]
      BY <1>1, <2>2 DEF OrderInv, Sorted
  <2>4. game[Head(history)] \in Nat /\ game[next] \in Nat
      BY <1>1, <2>2, TouchedLines DEF OrderInv
  <2> QED BY <2>3, <2>4
<1>4. next' = next /\ pc' = "hooks"
    BY <1>3 DEF Record
<1> QED
    BY <1>1, <1>2, <1>4 DEF OnTime, InBatch, InHand, Lines

LEMMA RunHookOnTime ==
    ASSUME OrderInv, OnTime, RunHook
    PROVE  OnTime'
<1>1. /\ pc = "hooks" /\ next \in guard /\ next <= last
      /\ UNCHANGED <<game, guard, history, last, cut, fetched, sure>>
    BY DEF RunHook, gameVars, OrderInv, LineInHand
<1>2. /\ next \in Nat /\ last \in Nat /\ hook \in Nat /\ Hooks \in Nat /\ hook <= Hooks
      /\ \A i \in Lines : i \in Nat
    BY LengthsAssumption DEF OrderInv, TypeOK, GameTypeOK, Lines
<1>3. /\ ran' = Append(ran, <<next, hook>>) /\ ran \in Seq(Lines \X (1 .. Hooks))
    BY DEF RunHook, OrderInv, TypeOK
<1>4. /\ \A k \in DOMAIN ran : k \in DOMAIN ran' /\ ran'[k] = ran[k]
      /\ \E k \in DOMAIN ran' : ran'[k] = <<next, hook>>
  <2>1. Len(ran) \in Nat /\ DOMAIN ran' = 1 .. Len(ran) + 1 /\ ran'[Len(ran) + 1] = <<next, hook>>
      BY <1>3
  <2>2. Len(ran) + 1 \in DOMAIN ran'
      BY <2>1
  <2>3. \A k \in DOMAIN ran : k \in DOMAIN ran' /\ ran'[k] = ran[k]
      BY <1>3
  <2> QED BY <2>1, <2>2, <2>3
<1>5. \A i : Settled(i) => Settled(i)'
    BY <1>1, <1>4, SettledStays
<1>6. \A h \in 1 .. hook : \E k \in DOMAIN ran' : ran'[k] = <<next, h>>
  <2> SUFFICES ASSUME NEW h \in 1 .. hook
               PROVE  \E k \in DOMAIN ran' : ran'[k] = <<next, h>>
      OBVIOUS
  <2>1. CASE h = hook
      BY <1>4, <2>1
  <2>2. CASE h # hook
    <3>1. h \in 1 .. hook - 1
        BY <1>2, <2>2
    <3>2. PICK k \in DOMAIN ran : ran[k] = <<next, h>>
        BY <1>1, <3>1 DEF OnTime
    <3> QED BY <1>4, <3>2
  <2> QED BY <2>1, <2>2
<1>7. /\ \A i \in guard : Settled(i) \/ i = next
      /\ \A j \in guard, i \in Lines : i < j => Settled(i) \/ i \in guard
      /\ \A i \in Lines : Settled(i) \/ game[i] >= sure
      /\ \A i \in Lines : i < next => Settled(i)
      /\ \A i \in Lines : i > last => game[i] >= fetched
      /\ next <= last + 1
    BY <1>1 DEF OnTime, InBatch, InHand
<1>8. CASE hook < Hooks
  <2>1. hook' = hook + 1 /\ next' = next /\ pc' = "hooks"
      BY <1>1, <1>8 DEF RunHook
  <2>2. \A h \in 1 .. hook' - 1 : \E k \in DOMAIN ran' : ran'[k] = <<next, h>>
      BY <1>2, <1>6, <2>1
  <2> QED BY <1>1, <1>5, <1>7, <2>1, <2>2 DEF OnTime, InBatch, InHand, Lines
<1>9. CASE ~(hook < Hooks)
  <2>1. next' = next + 1 /\ pc' = "guard"
      BY <1>9 DEF RunHook
  <2>2. hook = Hooks
      BY <1>2, <1>9
  <2>3. \A i : i = next => Settled(i)'
      BY <1>1, <1>6, <2>2 DEF Settled, Handled
  <2>4. ASSUME NEW i \in Lines, i < next + 1 PROVE Settled(i)'
    <3>1. i < next \/ i = next
        BY <1>2, <2>4
    <3> QED BY <1>5, <1>7, <2>3, <3>1
  <2>5. next + 1 <= last + 1
      BY <1>1, <1>2
  <2>6. \A i \in guard : Settled(i)'
      BY <1>5, <1>7, <2>3
  <2> QED BY <1>1, <1>5, <1>7, <2>1, <2>4, <2>5, <2>6 DEF OnTime, InBatch, InHand, Lines
<1> QED BY <1>8, <1>9

LEMMA EndBatchOnTime ==
    ASSUME OrderInv, OnTime, EndBatch
    PROVE  OnTime'
<1>1. guard' \subseteq guard
    BY DEF EndBatch, Expired
<1>2. pc = "guard" /\ pc' = "fetch" /\ next > last /\ sure' = fetched
      /\ UNCHANGED <<game, ran, cut>>
    BY DEF EndBatch, gameVars
<1>3. \A i : Settled(i)' <=> Settled(i)
    BY <1>2 DEF Settled, Handled
<1>4. \A i \in guard : Settled(i)
    BY <1>2 DEF OnTime, InHand
<1>5. ASSUME NEW i \in Lines PROVE Settled(i) \/ game[i] >= fetched
  <2>1. i \in Nat /\ next \in Nat /\ last \in Nat
      BY DEF OrderInv, TypeOK, GameTypeOK, Lines
  <2>2. i < next \/ i > last
      BY <1>2, <2>1
  <2> QED BY <1>2, <2>2 DEF OnTime, InBatch
<1> QED
    BY <1>1, <1>2, <1>3, <1>4, <1>5 DEF OnTime, InBatch, Lines

LEMMA CrashOnTime ==
    ASSUME OrderInv, OnTime, Crash
    PROVE  OnTime'
<1>1. pc' = "start" /\ UNCHANGED <<game, guard, ran, sure>> /\ cut \subseteq cut'
    BY DEF Crash, gameVars
<1>2. \A i : Settled(i) => Settled(i)'
    BY <1>1, SettledStays
<1>3. \A i \in guard : Settled(i)'
  <2> SUFFICES ASSUME NEW i \in guard PROVE Settled(i)'
      OBVIOUS
  <2>1. CASE InHand(i)
      BY <2>1 DEF InHand, Crash, Settled
  <2>2. CASE ~InHand(i)
      BY <1>2, <2>2 DEF OnTime
  <2> QED BY <2>1, <2>2
<1> QED
    BY <1>1, <1>2, <1>3 DEF OnTime, InBatch, Lines

LEMMA GameOnTime ==
    ASSUME OrderInv, OnTime, GameNext, UNCHANGED loopVars
    PROVE  OnTime'
<1>1. /\ UNCHANGED <<guard, history, pc, next, last, hook, ran, cut, fetched, sure>>
      /\ HistoryLines' = HistoryLines
    BY DEF loopVars, records, HistoryLines
<1>2. \A i : Settled(i)' <=> Settled(i)
    BY <1>1 DEF Settled, Handled
<1>3. CASE Write
  <2>1. /\ Len(game) \in Nat /\ Lines = 1 .. Len(game) /\ Lines' = 1 .. Len(game) + 1
        /\ game'[Len(game) + 1] = now /\ \A i \in Lines : game'[i] = game[i]
      BY <1>3 DEF Write, OrderInv, TypeOK, GameTypeOK, Lines
  <2>2. /\ guard \subseteq Lines /\ last \in 0 .. Len(game) /\ next \in Nat
        /\ now \in Nat /\ sure <= now /\ fetched <= now
      BY DEF OrderInv, TypeOK, GameTypeOK
  <2>3. \A i \in Lines' : i \in Lines \/ i = Len(game) + 1
      BY <2>1
  <2>4. \A i \in Lines' : Settled(i) \/ game'[i] >= sure
      BY <2>1, <2>2, <2>3 DEF OnTime
  <2>5. \A j \in guard, i \in Lines' : i < j => Settled(i) \/ i \in guard
    <3>1. \A j \in guard, i \in Lines' : i < j => i \in Lines
        BY <2>1, <2>2
    <3> QED BY <3>1 DEF OnTime
  <2>6. InBatch => \A i \in Lines' : i < next => Settled(i)
    <3>1. InBatch => \A i \in Lines' : i < next => i \in Lines
        BY <2>1, <2>2, <2>3 DEF OnTime
    <3> QED BY <3>1 DEF OnTime
  <2>7. InBatch => \A i \in Lines' : i > last => game'[i] >= fetched
      BY <2>1, <2>2, <2>3 DEF OnTime
  <2> QED
      BY <1>1, <1>2, <2>4, <2>5, <2>6, <2>7 DEF OnTime, InBatch, InHand
<1>4. CASE Tick
    BY <1>1, <1>2, <1>4 DEF Tick, OnTime, InBatch, InHand, Lines
<1> QED BY <1>3, <1>4 DEF GameNext

LEMMA StutterOnTime ==
    ASSUME OnTime, UNCHANGED vars
    PROVE  OnTime'
<1>1. UNCHANGED <<game, guard, history, pc, next, last, hook, ran, cut, fetched, sure>>
    BY DEF vars, loopVars, gameVars, records
<1>2. \A i : Settled(i)' <=> Settled(i)
    BY <1>1 DEF Settled, Handled
<1> QED BY <1>1, <1>2 DEF OnTime, InBatch, InHand, HistoryLines, Lines

LEMMA InitOnTime ==
    ASSUME Init
    PROVE  OnTime
BY DEF Init, GameInit, OnTime, InBatch, Lines

LEMMA LateStays ==
    ASSUME [Next]_vars, ~late'
    PROVE  ~late
BY DEF Next, LoopNext, Start, Fetch, CheckGuard, Record, RunHook, EndBatch, Crash,
       records, loopVars, vars

LEMMA StepComplete ==
    ASSUME CompleteInv, [Next]_vars
    PROVE  CompleteInv'
<1>1. OrderInv /\ OrderInv'
    BY StepOrder DEF CompleteInv
<1>2. ASSUME ~late' PROVE OnTime'
  <2>1. OnTime
      BY <1>2, LateStays DEF CompleteInv
  <2> QED
      BY <1>1, <1>2, <2>1, StartOnTime, FetchOnTime, CheckGuardOnTime, RecordOnTime,
         RunHookOnTime, EndBatchOnTime, CrashOnTime, GameOnTime, StutterOnTime
      DEF Next, LoopNext
<1> QED BY <1>1, <1>2 DEF CompleteInv

LEMMA CompleteAlways == Spec => []CompleteInv
<1>1. Init => CompleteInv
    BY InitOrder, InitOnTime DEF CompleteInv
<1> QED BY <1>1, StepComplete, PTL DEF Spec

-----------------------------------------------------------------------------
(* Theorems.                                                               *)

\* Every variable of LogLoop stays within its type.
THEOREM TypeCorrect == Spec => []TypeOK
<1>1. OrderInv => TypeOK
    BY DEF OrderInv
<1> QED BY <1>1, OrderAlways, PTL

\* Hooks see each line of the game at most once and in order, for every
\* choice of windows with Window <= FirstWindow <= Keep.
THEOREM HooksAreNotRepeated == Spec => []HooksRunOnceInOrder
<1>1. OrderInv => HooksRunOnceInOrder
    BY DEF OrderInv
<1> QED BY <1>1, OrderAlways, PTL

\* The history of the game never goes back in time.
THEOREM HistoryIsOrdered == Spec => []HistoryInOrder
<1>1. OrderInv => HistoryInOrder
    BY DEF OrderInv
<1> QED BY <1>1, OrderAlways, PTL

\* While the windows overlap, every line older than the last completed fetch
\* had its hooks run, except one line for each death of the process.
THEOREM NoLineIsMissed == Spec => []NothingMissed
<1>1. CompleteInv => NothingMissed
  <2> SUFFICES ASSUME CompleteInv, ~late, NEW i \in Lines, game[i] < sure
               PROVE  Handled(i) \/ i \in cut
      BY DEF NothingMissed
  <2>1. game[i] \in Nat /\ sure \in Nat
      BY DEF CompleteInv, OrderInv, TypeOK, GameTypeOK, Lines
  <2>2. Settled(i) \/ game[i] >= sure
      BY DEF CompleteInv, OnTime
  <2> QED BY <2>1, <2>2 DEF Settled
<1> QED BY <1>1, CompleteAlways, PTL

-----------------------------------------------------------------------------
(* The recorder.                                                           *)

\* A non-empty set of numbers has a least one: what is said of the lines one
\* after the other is proved by a smallest counterexample.
LEMMA LeastNumber ==
    ASSUME NEW T, T \subseteq Nat, T # {}
    PROVE  \E x \in T : \A y \in T : x <= y
<1> DEFINE R == {pair \in Nat \X Nat : pair[1] < pair[2]}
<1>1. OpToRel(<, Nat) = R
    BY Zenon DEF OpToRel
<1>2. \E x \in T : \A y \in T : <<y, x>> \notin R
    BY <1>1, WFMin, NatLessThanWellFounded, Zenon
<1>3. \A x, y \in Nat : y < x => <<y, x>> \in R
    OBVIOUS
<1> HIDE DEF R
<1>4. PICK x \in T : \A y \in T : <<y, x>> \notin R
    BY <1>2
<1>5. ASSUME NEW y \in T PROVE x <= y
  <2>1. x \in Nat /\ y \in Nat
      OBVIOUS
  <2>2. ~(y < x)
      BY <1>3, <1>4, <2>1
  <2> QED BY <2>1, <2>2
<1> QED BY <1>4, <1>5

\* kept is the recursion in Kept, as far as the first m lines.
KeptUpTo(list, wanted, m, kept) ==
    kept = [n \in 0 .. m |->
               IF n = 0 THEN <<>>
               ELSE IF list[n] \in wanted THEN Append(kept[n - 1], list[n]) ELSE kept[n - 1]]

LEMMA KeptIsDefined ==
    ASSUME NEW list, Len(list) \in Nat, NEW wanted
    PROVE  \E kept : KeptUpTo(list, wanted, Len(list), kept) /\ Kept(list, wanted) = kept[Len(list)]
<1> DEFINE T == {m \in 0 .. Len(list) : ~ \E kept : KeptUpTo(list, wanted, m, kept)}
<1>1. T \subseteq Nat
    OBVIOUS
<1>2. ASSUME T # {} PROVE FALSE
  <2>1. PICK m \in T : \A k \in T : m <= k
    <3> HIDE DEF T
    <3> QED BY <1>1, <1>2, LeastNumber
  <2>2. CASE m = 0
    <3>1. KeptUpTo(list, wanted, 0, [n \in 0 .. 0 |-> <<>>])
        BY DEF KeptUpTo
    <3> QED BY <3>1, <2>2
  <2>3. CASE m # 0
    <3>1. m - 1 \in 0 .. Len(list) /\ m - 1 \notin T
        BY <2>1, <2>3
    <3>2. PICK g : KeptUpTo(list, wanted, m - 1, g)
        BY <3>1
    <3> DEFINE last_ == IF list[m] \in wanted THEN Append(g[m - 1], list[m]) ELSE g[m - 1]
               h == [n \in 0 .. m |-> IF n = m THEN last_ ELSE g[n]]
    <3> HIDE DEF last_
    <3>3. ASSUME NEW n \in 0 .. m, n # m
          PROVE  h[n] = IF n = 0 THEN <<>>
                        ELSE IF list[n] \in wanted THEN Append(h[n - 1], list[n]) ELSE h[n - 1]
      <4>1. m \in Nat /\ n \in 0 .. m - 1
          BY <2>3, <3>3
      <4>2. h[n] = g[n] /\ (n # 0 => h[n - 1] = g[n - 1])
          BY <4>1
      <4>3. g[n] = IF n = 0 THEN <<>>
                   ELSE IF list[n] \in wanted THEN Append(g[n - 1], list[n]) ELSE g[n - 1]
          BY <3>2, <4>1 DEF KeptUpTo
      <4> HIDE DEF h
      <4> QED BY <4>2, <4>3
    <3>4. h[m] = IF list[m] \in wanted THEN Append(h[m - 1], list[m]) ELSE h[m - 1]
        BY <2>3 DEF last_
    <3>5. h = [n \in 0 .. m |-> h[n]]
        OBVIOUS
    <3> HIDE DEF h
    <3>6. KeptUpTo(list, wanted, m, h)
        BY <2>3, <3>3, <3>4, <3>5 DEF KeptUpTo
    <3> QED BY <3>6
  <2> QED BY <2>2, <2>3
<1>3. \E kept : KeptUpTo(list, wanted, Len(list), kept)
    BY <1>2
<1> QED BY <1>3, Zenon DEF Kept, KeptUpTo

\* What is kept of a list that descends, as the history does: it descends, its
\* lines are lines of the list and wanted, and no such line is left out.
LEMMA KeptFacts ==
    ASSUME NEW list \in Seq(Nat), NEW wanted,
           \A a, b \in DOMAIN list : a < b => list[b] < list[a]
    PROVE  LET kept == Kept(list, wanted) IN
           /\ kept \in Seq(Nat)
           /\ \A a, b \in DOMAIN kept : a < b => kept[b] < kept[a]
           /\ \A i : (\E k \in DOMAIN kept : kept[k] = i)
                         <=> i \in wanted /\ \E k \in DOMAIN list : list[k] = i
<1>1. PICK kept : KeptUpTo(list, wanted, Len(list), kept) /\ Kept(list, wanted) = kept[Len(list)]
    BY KeptIsDefined
<1> DEFINE Good(n) ==
              /\ kept[n] \in Seq(Nat)
              /\ \A a, b \in DOMAIN kept[n] : a < b => kept[n][b] < kept[n][a]
              /\ \A i : (\E k \in DOMAIN kept[n] : kept[n][k] = i)
                            <=> i \in wanted /\ \E k \in 1 .. n : list[k] = i
           T == {n \in 0 .. Len(list) : ~ Good(n)}
<1>2. Good(0)
  <2>1. kept[0] = <<>>
      BY <1>1 DEF KeptUpTo
  <2>2. <<>> \in Seq(Nat) /\ DOMAIN kept[0] = {} /\ 1 .. 0 = {}
      BY <2>1
  <2> QED BY <2>1, <2>2
<1>3. ASSUME NEW n \in 1 .. Len(list), Good(n - 1)
      PROVE  Good(n)
  <2>1. kept[n] = IF list[n] \in wanted THEN Append(kept[n - 1], list[n]) ELSE kept[n - 1]
    <3>1. n \in 0 .. Len(list) /\ n # 0
        OBVIOUS
    <3> QED BY <1>1, <3>1 DEF KeptUpTo
  <2>2. list[n] \in Nat /\ \A k \in 1 .. n - 1 : list[n] < list[k]
      OBVIOUS
  <2>3. CASE list[n] \notin wanted
    <3>1. kept[n] = kept[n - 1]
        BY <2>1, <2>3
    <3>2. ASSUME NEW i, i \in wanted
          PROVE  (\E k \in 1 .. n : list[k] = i) <=> \E k \in 1 .. n - 1 : list[k] = i
        BY <2>3, <3>2
    <3> QED BY <1>3, <3>1, <3>2
  <2>4. CASE list[n] \in wanted
    <3> DEFINE old == kept[n - 1]
               new == kept[n]
    <3>0. Len(old) \in Nat /\ DOMAIN old = 1 .. Len(old)
        BY <1>3
    <3>1. /\ old \in Seq(Nat) /\ new = Append(old, list[n]) /\ new \in Seq(Nat)
          /\ DOMAIN old = 1 .. Len(old) /\ DOMAIN new = 1 .. Len(old) + 1 /\ Len(old) \in Nat
          /\ new[Len(old) + 1] = list[n]
          /\ \A k \in 1 .. Len(old) : new[k] = old[k]
        BY <1>3, <2>1, <2>2, <2>4, <3>0
    <3>2. \A k \in DOMAIN old : list[n] < old[k]
        BY <1>3, <2>2, <3>1
    <3>3. ASSUME NEW a \in DOMAIN new, NEW b \in DOMAIN new, a < b
          PROVE  new[b] < new[a]
      <4>1. a \in DOMAIN old /\ new[a] = old[a]
          BY <3>1, <3>3
      <4>2. CASE b \in DOMAIN old
          BY <1>3, <3>1, <3>3, <4>1, <4>2
      <4>3. CASE b = Len(old) + 1
        <5>1. new[b] = list[n] /\ list[n] < old[a]
            BY <3>1, <3>2, <4>1, <4>3
        <5> HIDE DEF old, new
        <5> QED BY <4>1, <5>1
      <4>4. b \in DOMAIN old \/ b = Len(old) + 1
        <5> HIDE DEF old, new
        <5> QED BY <3>1
      <4> QED BY <4>2, <4>3, <4>4
    <3>4. ASSUME NEW i
          PROVE  (\E k \in DOMAIN new : new[k] = i) <=> i \in wanted /\ \E k \in 1 .. n : list[k] = i
      <4>1. (\E k \in DOMAIN new : new[k] = i) <=> i = list[n] \/ \E k \in DOMAIN old : old[k] = i
        <5> HIDE DEF old, new
        <5>1. Len(old) + 1 \in DOMAIN new /\ \A k \in DOMAIN old : k \in DOMAIN new
            BY <3>0, <3>1
        <5>2. \A k \in DOMAIN new : k \in DOMAIN old \/ k = Len(old) + 1
            BY <3>0, <3>1
        <5> QED BY <3>0, <3>1, <5>1, <5>2
      <4>2. (\E k \in 1 .. n : list[k] = i) <=> i = list[n] \/ \E k \in 1 .. n - 1 : list[k] = i
          OBVIOUS
      <4> QED BY <4>1, <4>2, <1>3, <2>4
    <3> QED BY <3>1, <3>3, <3>4
  <2> QED BY <2>3, <2>4
<1>4. ASSUME T # {} PROVE FALSE
  <2>1. T \subseteq Nat
      OBVIOUS
  <2>2. PICK n \in T : \A k \in T : n <= k
    <3> HIDE DEF T
    <3> QED BY <2>1, <1>4, LeastNumber
  <2>3. n \in 0 .. Len(list) /\ ~ Good(n)
      OBVIOUS
  <2>4. n # 0
      BY <1>2, <2>3
  <2>5. n - 1 \in 0 .. Len(list) /\ n - 1 \notin T
    <3>1. n - 1 \in 0 .. Len(list) /\ ~(n <= n - 1)
        BY <2>3, <2>4
    <3> HIDE DEF T
    <3> QED BY <2>2, <3>1
  <2>6. Good(n - 1)
      BY <2>5
  <2> HIDE DEF Good
  <2> QED BY <1>3, <2>3, <2>4, <2>6
<1>5. Good(Len(list))
  <2> HIDE DEF Good
  <2> QED BY <1>4
<1>6. DOMAIN list = 1 .. Len(list)
    OBVIOUS
<1> QED BY <1>1, <1>5, <1>6

\* Line i is still to be stored in this run.
InHandOfRecorder(i) == \E k \in DOMAIN to_store : to_store[k] = i

Kin(i) == \E stored \in table : game[stored] = game[i]

\* The history is what the recorder can have read from: its newest line is at
\* least as new as everything it has stored or is about to store.
NewestIsInHistory ==
    \A i \in table \cup {to_store[k] : k \in DOMAIN to_store} :
        history # <<>> /\ i <= Head(history)

\* A line of the history that is not stored yet is in hand, or is later than all
\* that is stored or in hand, so that a later run takes it, or shares its second
\* with a stored one.
NothingPassedOver ==
    ~cutShort => \A i \in Recorded \ table :
        \/ InHandOfRecorder(i)
        \/ Newer(i) /\ \A k \in DOMAIN to_store : to_store[k] < i
        \/ Kin(i)

RecorderInv ==
    /\ table \subseteq Lines
    /\ to_store \in Seq(Lines)
    /\ \A a, b \in DOMAIN to_store : a < b => to_store[b] < to_store[a]
    /\ \A k \in DOMAIN to_store : to_store[k] \notin table
    /\ NewestIsInHistory
    /\ NothingPassedOver

\* What a step of the loop does to what the recorder sees: lines keep their
\* seconds, and a new line of the history is later than all that were in it.
LEMMA LoopStepFacts ==
    ASSUME OrderInv, [Next]_vars
    PROVE  /\ Lines \subseteq Lines' /\ \A i \in Lines : game'[i] = game[i]
           /\ \A i \in Recorded' :
                 \/ i \in Recorded
                 \/ history # <<>> => Head(history) < i
           /\ history # <<>> => history' # <<>> /\ Head(history) <= Head(history')
<1> USE DEF OrderInv
<1>1. /\ history \in Seq(Lines) /\ game \in Seq(Nat) /\ now \in Nat
      /\ history # <<>> => Head(history) \in Lines /\ Head(history) = history[1]
      /\ \A i \in Lines : i \in Nat
    BY DEF TypeOK, GameTypeOK, Lines
<1>2. Lines \subseteq Lines' /\ \A i \in Lines : game'[i] = game[i]
  <2>1. CASE UNCHANGED game
      BY <2>1 DEF Lines
  <2>2. CASE Write
    <3>1. game' = Append(game, now)
        BY <2>2 DEF Write
    <3>2. Len(game) \in Nat /\ DOMAIN game = 1 .. Len(game)
        BY <1>1
    <3>3. /\ DOMAIN game' = 1 .. Len(game) + 1
          /\ \A i \in 1 .. Len(game) : game'[i] = game[i]
        BY <1>1, <3>1
    <3> QED BY <3>2, <3>3 DEF Lines
  <2>3. CASE LoopNext
      BY <2>1, <2>3 DEF LoopNext, Start, Fetch, CheckGuard, Record, RunHook, EndBatch, Crash, gameVars
  <2>4. CASE GameNext
      BY <2>1, <2>2, <2>4 DEF GameNext, Tick
  <2>5. CASE UNCHANGED vars
      BY <2>1, <2>5 DEF vars, gameVars
  <2> QED BY <2>3, <2>4, <2>5 DEF Next
<1>3. CASE UNCHANGED history
    BY <1>1, <1>2, <1>3 DEF Recorded
<1>4. CASE Record /\ history' = Pushed(next)
  <2>1. next \in Lines
      BY <1>4 DEF Record, LineInHand, TypeOK, GameTypeOK, Lines
  <2>2. /\ Len(Pushed(next)) \in 1 .. HistoryLen /\ Pushed(next) \in Seq(Lines)
        /\ Pushed(next)[1] = next /\ Len(Pushed(next)) <= Len(history) + 1
        /\ \A k \in 2 .. Len(Pushed(next)) : Pushed(next)[k] = history[k - 1]
      BY <2>1, PushedFacts
  <2>3. history' # <<>> /\ Head(history') = next
      BY <1>4, <2>2
  <2>4. ASSUME NEW i \in Recorded' PROVE i = next \/ i \in Recorded
    <3>1. PICK k \in DOMAIN history' : i = history'[k]
        BY DEF Recorded
    <3>2. k \in 1 .. Len(Pushed(next))
        BY <1>4, <2>2, <3>1
    <3>3. CASE k # 1
      <4>1. /\ DOMAIN history = 1 .. Len(history) /\ Len(history) \in Nat
            /\ HistoryLen \in Nat
          BY <1>1, LengthsAssumption
      <4>2. k \in 2 .. Len(Pushed(next)) /\ k - 1 \in 1 .. Len(history)
          BY <2>2, <3>2, <3>3, <4>1
      <4>3. i = history[k - 1]
          BY <1>4, <2>2, <3>1, <4>2
      <4> QED BY <4>1, <4>2, <4>3 DEF Recorded
    <3> QED BY <1>4, <2>2, <3>1, <3>3
  <2>5. history # <<>> => Head(history) < next
    <3> SUFFICES ASSUME history # <<>> PROVE Head(history) < next
        OBVIOUS
    <3>1. ~(game[Head(history)] > game[next])
      <4>1. CASE game[Head(history)] > game[next]
        <5>1. UNCHANGED history
            BY <1>4, <4>1 DEF Record
        <5>2. next \in HistoryLines
            BY <1>4, <2>3, <5>1, <1>1 DEF HistoryLines
        <5>3. next \notin Touched
            BY <1>4 DEF Record, LineInHand
        <5> QED BY <5>2, <5>3 DEF Touched
      <4> QED BY <4>1
    <3>2. Head(history) \in HistoryLines
        BY <1>1 DEF HistoryLines
    <3>3. Head(history) < next \/ game[Head(history)] > game[next]
        BY <1>4, <3>2 DEF Record, LineInHand
    <3> QED BY <3>1, <3>3
  <2>6. next \in Nat
      BY <1>1, <2>1
  <2> QED BY <1>1, <1>2, <2>3, <2>4, <2>5, <2>6
<1> QED
    BY <1>3, <1>4 DEF Next, LoopNext, GameNext, Start, Fetch, CheckGuard, Record,
       RunHook, EndBatch, Crash, loopVars, vars

\* The loop does not disturb the recorder, however far it goes meanwhile.
LEMMA LoopKeepsRecorder ==
    ASSUME OrderInv, RecorderInv, [Next]_vars, UNCHANGED recorderVars
    PROVE  RecorderInv'
<1>1. /\ Lines \subseteq Lines' /\ \A i \in Lines : game'[i] = game[i]
      /\ \A i \in Recorded' : i \in Recorded \/ (history # <<>> => Head(history) < i)
      /\ history # <<>> => history' # <<>> /\ Head(history) <= Head(history')
    BY LoopStepFacts
<1>2. table' = table /\ to_store' = to_store /\ cutShort' = cutShort
    BY DEF recorderVars
<1>3. OrderInv'
    BY StepOrder
<1>4. /\ \A i \in Lines' : i \in Nat /\ game'[i] \in Nat
      /\ \A i \in Lines : i \in Nat
      /\ history \in Seq(Lines) /\ history' \in Seq(Lines')
  <2>1. OrderInv /\ OrderInv' /\ game \in Seq(Nat) /\ game' \in Seq(Nat)
      BY <1>3 DEF OrderInv, TypeOK, GameTypeOK
  <2>2. history \in Seq(Lines) /\ history' \in Seq(Lines')
      BY <2>1 DEF OrderInv, TypeOK
  <2>3. \A i \in Lines' : i \in Nat /\ game'[i] \in Nat
      BY <2>1 DEF Lines
  <2>4. \A i \in Lines : i \in Nat
      BY <2>1 DEF Lines
  <2> QED BY <2>2, <2>3, <2>4
<1>5. /\ history # <<>> => (Head(history) \in Lines /\ Head(history) \in Nat)
      /\ history' # <<>> => (Head(history') \in Lines' /\ Head(history') \in Nat)
  <2>1. history # <<>> => Head(history) \in Lines
      BY <1>4
  <2>2. history' # <<>> => Head(history') \in Lines'
      BY <1>4
  <2> QED BY <1>4, <2>1, <2>2
<1>6. \A i \in Recorded' : i \in Lines'
    BY <1>4 DEF Recorded
<1>7. table' \subseteq Lines' /\ to_store' \in Seq(Lines')
    BY <1>1, <1>2 DEF RecorderInv
<1> DEFINE All == table \cup {to_store[k] : k \in DOMAIN to_store}
<1>8. All \subseteq Lines
    BY DEF RecorderInv
<1>9. NewestIsInHistory'
  <2> SUFFICES ASSUME NEW i \in All PROVE history' # <<>> /\ i <= Head(history')
      BY <1>2 DEF NewestIsInHistory
  <2>1. history # <<>> /\ i <= Head(history)
      BY DEF RecorderInv, NewestIsInHistory
  <2>2. i \in Nat /\ Head(history) \in Nat /\ Head(history') \in Nat
      BY <1>1, <1>4, <1>8, <1>5, <2>1
  <2> QED BY <1>1, <2>1, <2>2
<1>10. NothingPassedOver'
  <2> SUFFICES ASSUME ~cutShort, NEW i \in Recorded', i \notin table, ~InHandOfRecorder(i), ~Kin(i)'
               PROVE  /\ \A stored \in table : game'[i] > game'[stored]
                      /\ \A k \in DOMAIN to_store : to_store[k] < i
      BY <1>2 DEF NothingPassedOver, Newer, InHandOfRecorder
  <2>1. CASE i \in Recorded
    <3>1. i \in Lines
        BY <1>4, <2>1 DEF Recorded
    <3>2. ~Kin(i)
        BY <1>1, <1>2, <1>8, <3>1 DEF Kin
    <3>3. Newer(i) /\ \A k \in DOMAIN to_store : to_store[k] < i
        BY <2>1, <3>2 DEF RecorderInv, NothingPassedOver
    <3> QED BY <1>1, <1>8, <3>1, <3>3 DEF Newer
  <2>2. CASE i \notin Recorded
    <3>1. i \in Lines' /\ i \in Nat
        BY <1>4, <1>6
    <3>2. \A j \in All : j < i
      <4> SUFFICES ASSUME NEW j \in All PROVE j < i
          OBVIOUS
      <4>1. history # <<>> /\ j <= Head(history)
          BY DEF RecorderInv, NewestIsInHistory
      <4>2. Head(history) < i /\ Head(history) \in Nat /\ j \in Nat
          BY <1>1, <1>4, <1>8, <1>5, <2>2, <4>1
      <4> QED BY <3>1, <4>1, <4>2
    <3>3. ASSUME NEW stored \in table PROVE game'[i] > game'[stored]
      <4>1. stored < i /\ stored \in Lines'
          BY <1>1, <1>8, <3>2
      <4>2. game'[stored] <= game'[i]
          BY <1>3, <3>1, <4>1 DEF OrderInv, Sorted
      <4>3. game'[stored] # game'[i]
          BY <1>2 DEF Kin
      <4> QED BY <1>4, <3>1, <4>1, <4>2, <4>3
    <3> QED BY <3>2, <3>3
  <2> QED BY <2>1, <2>2
<1> QED BY <1>2, <1>7, <1>9, <1>10 DEF RecorderInv

\* A run begins.
LEMMA GetNewLogsKeepsRecorder ==
    ASSUME OrderInv, RecorderInv, GetNewLogs
    PROVE  RecorderInv'
<1>1. /\ UNCHANGED <<game, history, table, cutShort>>
      /\ to_store = <<>> /\ to_store' = Kept(history, NewerLines)
    BY DEF GetNewLogs, vars, loopVars, gameVars
<1>2. /\ history \in Seq(Lines) /\ history \in Seq(Nat)
      /\ \A a, b \in DOMAIN history : a < b => history[b] < history[a]
    BY DEF OrderInv, TypeOK, GameTypeOK, Lines, HistoryInOrder
<1>3. /\ to_store' \in Seq(Nat)
      /\ \A a, b \in DOMAIN to_store' : a < b => to_store'[b] < to_store'[a]
      /\ \A i : (\E k \in DOMAIN to_store' : to_store'[k] = i)
                    <=> i \in NewerLines /\ \E k \in DOMAIN history : history[k] = i
    BY <1>1, <1>2, KeptFacts
<1>4. \A k \in DOMAIN to_store' : to_store'[k] \in NewerLines /\ to_store'[k] \in Recorded
    BY <1>3 DEF Recorded
<1>5. to_store' \in Seq(Lines)
    BY <1>3, <1>4 DEF NewerLines
<1>6. \A i \in Lines : game[i] \in Nat
    BY DEF OrderInv, TypeOK, GameTypeOK, Lines
<1>7. \A k \in DOMAIN to_store' : to_store'[k] \notin table
    BY <1>4, <1>6 DEF NewerLines, Newer
<1>8. \A i \in Recorded : history # <<>> /\ i <= Head(history)
  <2> SUFFICES ASSUME NEW k \in DOMAIN history
               PROVE  history # <<>> /\ history[k] <= Head(history)
      BY DEF Recorded
  <2>1. k = 1 \/ (1 \in DOMAIN history /\ 1 < k)
      BY <1>2
  <2>2. history # <<>> /\ Head(history) = history[1] /\ history[1] \in Nat /\ history[k] \in Nat
      BY <1>2
  <2> QED BY <1>2, <2>1, <2>2
<1>9. NewestIsInHistory'
    BY <1>1, <1>4, <1>8 DEF NewestIsInHistory, RecorderInv
<1>10. NothingPassedOver'
  <2> SUFFICES ASSUME ~cutShort, NEW i \in Recorded \ table, ~Kin(i)
               PROVE  InHandOfRecorder(i)'
      BY <1>1 DEF NothingPassedOver, Kin, Newer, Recorded
  <2>1. Newer(i)
      BY <1>1 DEF RecorderInv, NothingPassedOver, InHandOfRecorder
  <2>2. i \in NewerLines
      BY <1>2, <2>1 DEF NewerLines, Recorded
  <2> QED BY <1>3, <2>2 DEF InHandOfRecorder, Recorded
<1>11. table' \subseteq Lines' /\ to_store' \in Seq(Lines')
    BY <1>1, <1>5 DEF RecorderInv, Lines
<1>12. \A k \in DOMAIN to_store' : to_store'[k] \notin table'
    BY <1>1, <1>7
<1> QED BY <1>3, <1>9, <1>10, <1>11, <1>12 DEF RecorderInv

\* A line is stored: the newest of those in hand.
LEMMA SaveLogKeepsRecorder ==
    ASSUME OrderInv, RecorderInv, SaveLog
    PROVE  RecorderInv'
<1> DEFINE first == Head(to_store)
<1>1. /\ UNCHANGED <<game, history, cutShort>> /\ to_store # <<>>
      /\ table' = table \cup {first} /\ to_store' = Tail(to_store)
    BY DEF SaveLog, vars, loopVars, gameVars
<1>2. /\ to_store \in Seq(Lines) /\ to_store' \in Seq(Lines)
      /\ first = to_store[1] /\ first \in Lines
      /\ DOMAIN to_store = 1 .. Len(to_store) /\ Len(to_store) \in Nat \ {0}
      /\ DOMAIN to_store' = 1 .. Len(to_store) - 1
      /\ \A k \in DOMAIN to_store' : to_store'[k] = to_store[k + 1]
    BY <1>1 DEF RecorderInv
<1>3. \A i \in Lines : i \in Nat /\ game[i] \in Nat
    BY DEF OrderInv, TypeOK, GameTypeOK, Lines
<1>4. \A k \in DOMAIN to_store' : k + 1 \in DOMAIN to_store /\ 1 < k + 1 /\ to_store'[k] < first
    BY <1>2 DEF RecorderInv
<1>5. \A a, b \in DOMAIN to_store' : a < b => to_store'[b] < to_store'[a]
  <2> SUFFICES ASSUME NEW a \in DOMAIN to_store', NEW b \in DOMAIN to_store', a < b
               PROVE  to_store'[b] < to_store'[a]
      OBVIOUS
  <2>1. a + 1 < b + 1 /\ a + 1 \in DOMAIN to_store /\ b + 1 \in DOMAIN to_store
      BY <1>2
  <2> QED BY <1>2, <2>1 DEF RecorderInv
<1>6. \A k \in DOMAIN to_store' : to_store'[k] \notin table'
  <2> SUFFICES ASSUME NEW k \in DOMAIN to_store' PROVE to_store'[k] \notin table'
      OBVIOUS
  <2>1. to_store'[k] < first /\ to_store'[k] \in Lines /\ to_store'[k] \notin table
      BY <1>2, <1>4 DEF RecorderInv
  <2> QED BY <1>1, <1>2, <1>3, <2>1
<1>7. \A i \in table' \cup {to_store'[k] : k \in DOMAIN to_store'} :
          i \in table \cup {to_store[k] : k \in DOMAIN to_store}
    BY <1>1, <1>2, <1>4
<1>8. NewestIsInHistory'
    BY <1>1, <1>7 DEF RecorderInv, NewestIsInHistory
<1>9. NothingPassedOver'
  <2> SUFFICES ASSUME ~cutShort, NEW i \in Recorded, i \notin table', ~InHandOfRecorder(i)', ~Kin(i)'
               PROVE  /\ \A stored \in table' : game[i] > game[stored]
                      /\ \A k \in DOMAIN to_store' : to_store'[k] < i
      BY <1>1 DEF NothingPassedOver, Newer, Recorded
  <2>1. i # first /\ i \notin table /\ i \in Lines
      BY <1>1 DEF Recorded, OrderInv, TypeOK
  <2>2. ~InHandOfRecorder(i)
    <3> SUFFICES ASSUME NEW k \in DOMAIN to_store, to_store[k] = i PROVE FALSE
        BY DEF InHandOfRecorder
    <3>1. k # 1
        BY <1>2, <2>1
    <3>2. k - 1 \in DOMAIN to_store' /\ to_store'[k - 1] = i
        BY <1>2, <3>1
    <3> QED BY <3>2 DEF InHandOfRecorder
  <2>3. ~Kin(i) /\ game[first] # game[i]
      BY <1>1 DEF Kin
  <2>4. Newer(i) /\ \A k \in DOMAIN to_store : to_store[k] < i
      BY <2>1, <2>2, <2>3 DEF RecorderInv, NothingPassedOver
  <2>5. first < i
      BY <1>2, <2>4
  <2>6. game[first] <= game[i]
      BY <1>2, <2>1, <2>5 DEF OrderInv, Sorted
  <2>7. game[i] > game[first]
      BY <1>2, <1>3, <2>1, <2>3, <2>6
  <2> QED BY <1>1, <1>2, <1>4, <2>4, <2>7 DEF Newer
<1>10. table' \subseteq Lines' /\ to_store' \in Seq(Lines')
    BY <1>1, <1>2 DEF RecorderInv, Lines
<1> QED BY <1>5, <1>6, <1>8, <1>9, <1>10 DEF RecorderInv

LEMMA CrashKeepsRecorder ==
    ASSUME OrderInv, RecorderInv, RecorderCrash
    PROVE  RecorderInv'
<1>1. UNCHANGED <<game, history, table>> /\ to_store' = <<>> /\ cutShort' = TRUE
    BY DEF RecorderCrash, vars, loopVars, gameVars
<1>2. NewestIsInHistory' /\ NothingPassedOver'
    BY <1>1 DEF RecorderInv, NewestIsInHistory, NothingPassedOver
<1> QED BY <1>1, <1>2 DEF RecorderInv, Lines

-----------------------------------------------------------------------------

\* The recorder reads what the loop keeps and changes nothing of it.
LEMMA RecorderStutters ==
    ASSUME [SystemNext]_allVars
    PROVE  [Next]_vars
BY DEF SystemNext, RecorderNext, GetNewLogs, SaveLog, RecorderCrash, allVars

LEMMA RecorderStep ==
    ASSUME OrderInv, RecorderInv, [SystemNext]_allVars
    PROVE  RecorderInv'
<1>1. CASE Next /\ UNCHANGED recorderVars
    BY <1>1, LoopKeepsRecorder
<1>2. CASE UNCHANGED allVars
    BY <1>2, LoopKeepsRecorder DEF allVars
<1> QED
    BY <1>1, <1>2, GetNewLogsKeepsRecorder, SaveLogKeepsRecorder, CrashKeepsRecorder
    DEF SystemNext, RecorderNext

\* With a recorder beside it the loop is what it is without: all that is proved
\* of it holds in the whole system.
THEOREM RecorderKeepsLoop == SystemSpec => Spec
<1>1. SystemInit => Init
    BY DEF SystemInit
<1> QED BY <1>1, RecorderStutters, PTL DEF SystemSpec, Spec

\* The invariant of the recorder, for every length of the history.
THEOREM RecorderInvariant == SystemSpec => []RecorderInv
<1>1. SystemInit => RecorderInv
  <2> SUFFICES ASSUME SystemInit PROVE RecorderInv
      OBVIOUS
  <2>1. table = {} /\ to_store = <<>> /\ history = <<>>
      BY DEF SystemInit, RecorderInit, Init
  <2>2. NewestIsInHistory /\ NothingPassedOver
      BY <2>1 DEF NewestIsInHistory, NothingPassedOver, Recorded
  <2> QED BY <2>1, <2>2 DEF RecorderInv
<1>2. SystemSpec => []OrderInv
    BY RecorderKeepsLoop, OrderAlways, PTL
<1> QED BY <1>1, <1>2, RecorderStep, PTL DEF SystemSpec

\* No line is inserted a second time, over any crashes of both processes.
THEOREM LinesAreInsertedOnce == SystemSpec => []NeverInsertedTwice
<1>1. OrderInv /\ RecorderInv => NeverInsertedTwice
  <2> SUFFICES ASSUME OrderInv, RecorderInv, NEW k \in DOMAIN to_store
               PROVE  /\ to_store[k] \notin table
                      /\ \A n \in DOMAIN to_store : n # k => to_store[n] # to_store[k]
      BY DEF NeverInsertedTwice
  <2>1. to_store \in Seq(Lines) /\ DOMAIN to_store \subseteq Nat
      BY DEF RecorderInv
  <2>2. ASSUME NEW n \in DOMAIN to_store, n # k PROVE to_store[n] # to_store[k]
    <3>1. n < k \/ k < n
        BY <2>1, <2>2
    <3>2. to_store[n] \in Lines /\ to_store[k] \in Lines
        BY <2>1
    <3>3. to_store[n] \in Nat /\ to_store[k] \in Nat
        BY <3>2 DEF Lines, OrderInv, TypeOK, GameTypeOK
    <3> QED BY <3>1, <3>3 DEF RecorderInv
  <2> QED BY <2>2 DEF RecorderInv
<1>2. SystemSpec => []OrderInv
    BY RecorderKeepsLoop, OrderAlways, PTL
<1> QED BY <1>1, <1>2, RecorderInvariant, PTL

\* Until a run is cut short the recorder passes over a line only for the sake of
\* another one of the same second.
THEOREM OnlySplitSecondsLost == SystemSpec => []OnlySplitSecondsAreLost
<1>1. RecorderInv => OnlySplitSecondsAreLost
    BY DEF RecorderInv, NothingPassedOver, OnlySplitSecondsAreLost, InHandOfRecorder, Kin
<1> QED BY <1>1, RecorderInvariant, PTL
=============================================================================

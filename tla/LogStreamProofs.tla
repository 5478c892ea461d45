--------------------------- MODULE LogStreamProofs --------------------------
(***************************************************************************)
(* Proofs about LogStream for every window, every size of the stream and   *)
(* any log of the game.                                                    *)
(*                                                                         *)
(* Everything rests on the IDs: an ID is computed from one fetch, but a    *)
(* fetch contains a second either as a whole or not at all, so each fetch  *)
(* gives a line the same ID (IndexInFetch), and IDs are ordered as lines   *)
(* are (IdOrder).  OrderInv then says that stream and client hold          *)
(* ascending lines.  CompleteInv adds what each of them may still lack:    *)
(* the batch continues the stream, the stream reaches back to the client,  *)
(* and between two fetches the stream has all lines older than the last.   *)
(***************************************************************************)
EXTENDS LogStream, FiniteSetTheorems, TLAPS

\* The ID of line i, in whatever fetch it comes.
Id(i) == <<game[i], IndexInBucket(i, 1)>>

Tagged(entries) == \A k \in DOMAIN entries : entries[k].id = Id(entries[k].line)

Rising(entries) ==
    \A a, b \in DOMAIN entries : a < b => entries[a].line < entries[b].line

Consecutive(entries) ==
    \A a \in 2 .. Len(entries) : entries[a].line = entries[a - 1].line + 1

LastLine(entries) == entries[Len(entries)].line

\* The last line that the client received, 0 before the first.
Got == IF received = <<>> THEN 0 ELSE received[Len(received)]

\* The line that Front is the ID of, 0 if there is none.
FrontLine == IF received = <<>> /\ outbox # <<>> THEN outbox[1].line ELSE Got

\* The game writes its log in the order of time.
Sorted ==
    /\ \A i \in Lines : game[i] <= now
    /\ \A i, j \in Lines : i < j => game[i] <= game[j]

\* What the consumer and the client remember is what was received last and
\* what was read last.
Marks ==
    /\ clientSeen = IF Got = 0 THEN NoId ELSE Id(Got)
    /\ lastSeen = IF outbox = <<>> THEN clientSeen ELSE outbox[Len(outbox)].id

\* What is read is after what was received.
ReadIsLater == outbox # <<>> => Got < outbox[1].line

OrderInv ==
    /\ TypeOK
    /\ Sorted
    /\ Tagged(stream) /\ Tagged(batch) /\ Tagged(outbox)
    /\ Rising(stream) /\ Rising(outbox)
    /\ Marks
    /\ ReadIsLater
    /\ ReceivedOnceInOrder

\* The stream has no gap, and reaches back to where the client is.
StreamReachesClient ==
    /\ Consecutive(stream)
    /\ stream # <<>> /\ FrontLine # 0 => stream[1].line <= FrontLine + 1

\* What is read has no gap and follows what was received.
ReadIsNext ==
    /\ Consecutive(outbox)
    /\ outbox # <<>> /\ Got # 0 => outbox[1].line = Got + 1

\* The batch continues the stream, or, after it was emptied, reaches back to
\* where the client is.
BatchContinues ==
    pc = "add" /\ batch # <<>> =>
        /\ stream # <<>> => batch[1].line <= LastLine(stream) + 1
        /\ stream = <<>> /\ FrontLine # 0 => batch[1].line <= FrontLine + 1

\* The batch has all lines that were written before it was fetched.
BatchIsComplete ==
    pc = "add" => \A i \in Lines : game[i] < fetched =>
        /\ batch # <<>> => i <= LastLine(batch)
        /\ batch = <<>> /\ stream # <<>> => i <= LastLine(stream)

\* Between two fetches the stream has all that was written before the last one.
StreamIsComplete ==
    pc = "fetch" /\ stream # <<>> =>
        \A i \in Lines : game[i] < sure => i <= LastLine(stream)

\* Only the fetch into an empty stream asks for the longer window.
LaterFetch == pc = "add" \/ (pc = "fetch" /\ stream # <<>>) => since = Refresh

CompleteInv ==
    /\ OrderInv
    /\ Consecutive(batch)
    /\ LaterFetch
    /\ ~lapsed =>
          /\ StreamReachesClient
          /\ ReadIsNext
          /\ BatchContinues
          /\ BatchIsComplete
          /\ StreamIsComplete
          /\ NoneMissed
-----------------------------------------------------------------------------
(* IDs.                                                                    *)

\* The lines of i's second that come before it.
Before(i) == {k \in 1 .. i - 1 : game[k] = game[i]}

LEMMA BeforeIsFinite ==
    ASSUME NEW i \in Nat \ {0}
    PROVE  IsFiniteSet(Before(i)) /\ IndexInBucket(i, 1) = Cardinality(Before(i))
           /\ IndexInBucket(i, 1) \in Nat
<1>1. Before(i) \subseteq 1 .. i - 1 /\ IsFiniteSet(1 .. i - 1)
    BY FS_Interval DEF Before
<1>2. IsFiniteSet(Before(i))
    BY <1>1, FS_Subset
<1> QED BY <1>2, FS_CardinalityType DEF IndexInBucket, Before

\* IDs are ordered as the lines are, and lines of one second have different ones.
LEMMA IdOrder ==
    ASSUME game \in Seq(Nat), Sorted, NEW i \in Lines, NEW j \in Lines
    PROVE  Greater(Id(j), Id(i)) <=> i < j
<1>1. /\ \A k \in Lines : k \in Nat \ {0} /\ game[k] \in Nat
      /\ \A k, n \in Lines : k < n => game[k] <= game[n]
    BY DEF Lines, Sorted
<1>2. ASSUME NEW k \in Lines, NEW n \in Lines, k < n, game[k] = game[n]
      PROVE  IndexInBucket(k, 1) < IndexInBucket(n, 1)
  <2>1. Before(k) \cup {k} \subseteq Before(n)
      BY <1>1, <1>2 DEF Before
  <2>2. k \notin Before(k)
      BY <1>1 DEF Before
  <2>3. /\ IsFiniteSet(Before(k)) /\ IsFiniteSet(Before(n))
        /\ IndexInBucket(k, 1) = Cardinality(Before(k)) /\ IndexInBucket(k, 1) \in Nat
        /\ IndexInBucket(n, 1) = Cardinality(Before(n)) /\ IndexInBucket(n, 1) \in Nat
      BY <1>1, BeforeIsFinite
  <2>4. Cardinality(Before(k) \cup {k}) = Cardinality(Before(k)) + 1
      BY <2>2, <2>3, FS_AddElement
  <2>5. Cardinality(Before(k) \cup {k}) <= Cardinality(Before(n))
      BY <2>1, <2>3, FS_Subset
  <2> QED BY <2>3, <2>4, <2>5
<1>3. ASSUME NEW k \in Lines, NEW n \in Lines, k < n
      PROVE  Greater(Id(n), Id(k)) /\ ~Greater(Id(k), Id(n))
  <2>1. /\ game[k] <= game[n] /\ game[k] \in Nat /\ game[n] \in Nat
        /\ IndexInBucket(k, 1) \in Nat /\ IndexInBucket(n, 1) \in Nat
      BY <1>1, <1>3, BeforeIsFinite
  <2>2. game[k] = game[n] => IndexInBucket(k, 1) < IndexInBucket(n, 1)
      BY <1>2, <1>3
  <2> QED BY <2>1, <2>2 DEF Greater, Id
<1>4. ~Greater(Id(i), Id(i))
    BY <1>1, BeforeIsFinite DEF Greater, Id
<1>5. i < j \/ j < i \/ i = j
    BY <1>1
<1>6. i \in Nat /\ j \in Nat
    BY <1>1
<1>7. CASE i < j
    BY <1>3, <1>7
<1>8. CASE j < i
    BY <1>3, <1>6, <1>8
<1>9. CASE i = j
    BY <1>4, <1>6, <1>9
<1> QED BY <1>5, <1>7, <1>8, <1>9

\* A fetch gives a line the ID that every other fetch gives it: it contains the
\* whole second.
LEMMA IndexInFetch ==
    ASSUME game \in Seq(Nat), now \in Nat, NEW w \in Nat, NEW lo, ShownFrom(lo, w),
           NEW i \in Lines, i >= lo
    PROVE  IndexInBucket(i, lo) = IndexInBucket(i, 1)
<1>1. lo \in 1 .. Len(game) + 1 /\ \A k \in Lines : k >= lo <=> now <= game[k] + w
    BY DEF ShownFrom, Shown
<1>2. i \in 1 .. Len(game) /\ Lines = 1 .. Len(game)
    BY DEF Lines
<1>3. now <= game[i] + w
    BY <1>1
<1>4. ASSUME NEW k \in 1 .. i - 1, game[k] = game[i] PROVE k \in lo .. i - 1
  <2>1. k \in Lines
      BY <1>2
  <2>2. k >= lo
      BY <1>1, <1>3, <1>4, <2>1
  <2> QED BY <1>1, <1>2, <2>2
<1>5. \A k \in lo .. i - 1 : k \in 1 .. i - 1
    BY <1>1, <1>2
<1>6. {k \in lo .. i - 1 : game[k] = game[i]} = {k \in 1 .. i - 1 : game[k] = game[i]}
    BY <1>4, <1>5
<1> QED BY <1>6 DEF IndexInBucket

LEMMA IdType ==
    ASSUME game \in Seq(Nat), NEW i \in Lines
    PROVE  Id(i) \in Ids /\ Id(i) # NoId /\ Id(i)[1] = game[i]
<1>1. i \in Nat \ {0} /\ game[i] \in Nat
    BY DEF Lines
<1>2. IndexInBucket(i, 1) \in Nat
    BY <1>1, BeforeIsFinite
<1> QED BY <1>1, <1>2, NoIdAssumption DEF Id, Ids

\* What the model compares, in terms of lines.
LEMMA FrontFacts ==
    ASSUME OrderInv
    PROVE  /\ Got \in Nat /\ FrontLine \in Nat
           /\ Got # 0 => Got \in Lines /\ FrontLine = Got
           /\ FrontLine = 0 => Front = NoId
           /\ FrontLine # 0 => /\ FrontLine \in Lines
                               /\ Front = Id(FrontLine) /\ Front # NoId
<1>1. /\ game \in Seq(Nat) /\ received \in Seq(Lines) /\ outbox \in Seq(Entry)
      /\ \A i \in Lines : i \in Nat \ {0}
    BY DEF OrderInv, TypeOK, GameTypeOK, Lines
<1>2. received # <<>> => Got \in Lines /\ Got # 0
  <2>1. received # <<>> => received[Len(received)] \in Lines
      BY <1>1
  <2> QED BY <1>1, <2>1 DEF Got
<1>3. outbox # <<>> => /\ outbox[1] \in Entry /\ Head(outbox) = outbox[1]
                       /\ 1 \in DOMAIN outbox
    BY <1>1
<1>4. outbox # <<>> => outbox[1].line \in Lines /\ Head(outbox).id = Id(outbox[1].line)
    BY <1>3 DEF Entry, OrderInv, Tagged
<1>5. received = <<>> => Got = 0
    BY DEF Got
<1>6. clientSeen = NoId <=> Got = 0
    BY <1>1, <1>2, <1>5, IdType DEF OrderInv, Marks
<1>7. CASE received # <<>>
    BY <1>1, <1>2, <1>6, <1>7, IdType DEF OrderInv, Marks, Front, FrontLine
<1>8. CASE received = <<>> /\ outbox # <<>>
    BY <1>1, <1>4, <1>5, <1>6, <1>8, IdType DEF Front, FrontLine
<1>9. CASE received = <<>> /\ outbox = <<>>
    BY <1>5, <1>6, <1>9 DEF Front, FrontLine
<1> QED BY <1>7, <1>8, <1>9
-----------------------------------------------------------------------------
(* Order: what the client receives ascends.                                *)

\* An entry with the right ID is compared as its line is.
LEMMA GreaterIsLater ==
    ASSUME OrderInv, NEW a \in Entry, a.id = Id(a.line), NEW i \in Lines
    PROVE  Greater(a.id, Id(i)) <=> i < a.line
<1>1. a.line \in Lines /\ game \in Seq(Nat) /\ Sorted
    BY DEF Entry, OrderInv, TypeOK, GameTypeOK
<1> QED BY <1>1, IdOrder

LEMMA InitOrder == Init => OrderInv
<1> SUFFICES ASSUME Init PROVE OrderInv
    OBVIOUS
<1>1. TypeOK
  <2>1. <<>> \in Seq(Nat) /\ <<>> \in Seq(Entry) /\ <<>> \in Seq(Lines)
      OBVIOUS
  <2>2. 0 \in 0 .. 0
      OBVIOUS
  <2> QED BY <2>1, <2>2 DEF Init, GameInit, TypeOK, GameTypeOK
<1>2. Lines = {}
    BY DEF Init, GameInit, Lines
<1>3. Got = 0
    BY DEF Init, Got
<1> QED BY <1>1, <1>2, <1>3 DEF Init, OrderInv, Sorted, Tagged, Rising, Marks, ReadIsLater,
        ReceivedOnceInOrder

\* Lines are written at the end of the log, and keep their IDs.
LEMMA GameStep ==
    ASSUME game \in Seq(Nat), now \in Nat, Sorted, GameNext
    PROVE  /\ Lines \subseteq Lines' /\ game' \in Seq(Nat) /\ now' \in Nat /\ now <= now'
           /\ \A i \in Lines : game'[i] = game[i]
           /\ \A i \in Lines' \ Lines : game'[i] = now
           /\ \A i \in Lines : Id(i)' = Id(i)
           /\ Sorted'
<1>1. /\ Lines \subseteq Lines' /\ game' \in Seq(Nat) /\ now' \in Nat /\ now <= now'
      /\ \A i \in Lines : game'[i] = game[i]
      /\ \A i \in Lines' \ Lines : game'[i] = now /\ \A j \in Lines : j < i
  <2>1. CASE Write
      BY <2>1 DEF Write, Lines
  <2>2. CASE Tick
      BY <2>2 DEF Tick, Lines
  <2> QED BY <2>1, <2>2 DEF GameNext
<1>2. ASSUME NEW i \in Lines PROVE Id(i)' = Id(i)
  <2>1. i \in Nat /\ \A k \in 1 .. i - 1 : k \in Lines
      BY DEF Lines
  <2>2. {k \in 1 .. i - 1 : game'[k] = game'[i]} = {k \in 1 .. i - 1 : game[k] = game[i]}
      BY <1>1, <2>1
  <2> QED BY <1>1, <2>2 DEF Id, IndexInBucket
<1>3. Sorted'
  <2>1. \A i \in Lines' \ Lines : \A j \in Lines' \ Lines : game'[i] = game'[j]
      BY <1>1
  <2>2. \A i \in Lines' : i \in Nat /\ game'[i] \in Nat
      BY <1>1 DEF Lines
  <2>3. \A i \in Lines : i \in Nat /\ game[i] \in Nat /\ game[i] <= now
      BY DEF Lines, Sorted
  <2>4. \A i \in Lines' : game'[i] <= now'
      BY <1>1, <2>2, <2>3
  <2>5. ASSUME NEW i \in Lines', NEW j \in Lines', i < j PROVE game'[i] <= game'[j]
    <3>1. CASE i \in Lines /\ j \in Lines
        BY <1>1, <2>5, <3>1 DEF Sorted
    <3>2. CASE i \in Lines /\ j \notin Lines
        BY <1>1, <2>3, <3>2
    <3>3. CASE i \notin Lines /\ j \in Lines
        BY <1>1, <2>2, <2>5, <3>3
    <3>4. CASE i \notin Lines /\ j \notin Lines
        BY <1>1, <3>4
    <3> QED BY <3>1, <3>2, <3>3, <3>4
  <2> QED BY <2>4, <2>5 DEF Sorted
<1> QED BY <1>1, <1>2, <1>3

LEMMA GameKeepsOrder ==
    ASSUME OrderInv, GameNext, UNCHANGED <<producer, consumer, lapsed>>
    PROVE  OrderInv'
<1>1. /\ game \in Seq(Nat) /\ now \in Nat /\ Sorted
      /\ stream \in Seq(Entry) /\ batch \in Seq(Entry) /\ outbox \in Seq(Entry)
      /\ received \in Seq(Lines)
    BY DEF OrderInv, TypeOK, GameTypeOK
<1>2. /\ Lines \subseteq Lines' /\ game' \in Seq(Nat) /\ now' \in Nat /\ now <= now'
      /\ \A i \in Lines : Id(i)' = Id(i)
      /\ Sorted'
    BY <1>1, GameStep
<1>3. UNCHANGED <<stream, batch, pc, since, fetched, sure, lastSeen, outbox, clientSeen,
                  received, lapsed>>
    BY DEF producer, consumer
<1>4. Entry \subseteq Entry'
    BY <1>2 DEF Entry, Ids
<1>5. TypeOK'
  <2>1. stream' \in Seq(Entry') /\ batch' \in Seq(Entry') /\ outbox' \in Seq(Entry')
      BY <1>1, <1>3, <1>4
  <2>2. received' \in Seq(Lines')
      BY <1>1, <1>2, <1>3
  <2>3. fetched \in 0 .. now' /\ sure \in 0 .. now'
      BY <1>1, <1>2 DEF OrderInv, TypeOK
  <2> QED BY <1>2, <1>3, <2>1, <2>2, <2>3 DEF TypeOK, OrderInv, GameTypeOK, Ids
<1>6. ASSUME NEW entries \in Seq(Entry), Tagged(entries)
      PROVE  \A k \in DOMAIN entries : entries[k].id = Id(entries[k].line)'
  <2>1. \A k \in DOMAIN entries : entries[k] \in Entry
      OBVIOUS
  <2>2. \A k \in DOMAIN entries : entries[k].line \in Lines
      BY <2>1 DEF Entry
  <2> QED BY <1>2, <1>6, <2>2 DEF Tagged
<1>7. Tagged(stream)' /\ Tagged(batch)' /\ Tagged(outbox)'
    BY <1>1, <1>3, <1>6 DEF OrderInv, Tagged
<1>8. Marks'
  <2>1. Got' = Got
      BY <1>3 DEF Got
  <2>2. Got # 0 => Got \in Lines
      BY FrontFacts
  <2> QED BY <1>2, <1>3, <2>1, <2>2 DEF OrderInv, Marks
<1>9. Rising(stream)' /\ Rising(outbox)' /\ ReadIsLater' /\ ReceivedOnceInOrder'
    BY <1>3 DEF OrderInv, Rising, ReadIsLater, ReceivedOnceInOrder, Got
<1> QED BY <1>2, <1>5, <1>7, <1>8, <1>9 DEF OrderInv

\* What a fetch gives: the lines from lo on, each with its ID.
LEMMA FetchFacts ==
    ASSUME OrderInv, Fetch
    PROVE  \E lo \in 1 .. Len(game) + 1 :
              /\ ShownFrom(lo, since)
              /\ batch' \in Seq(Entry) /\ Len(batch') = Len(game) - lo + 1
              /\ \A k \in 1 .. Len(game) - lo + 1 :
                    batch'[k].line = lo + k - 1 /\ batch'[k].id = Id(lo + k - 1)
<1>1. game \in Seq(Nat) /\ now \in Nat /\ since \in Nat
    BY StreamAssumption DEF OrderInv, TypeOK, GameTypeOK
<1>2. PICK lo \in 1 .. Len(game) + 1 :
          /\ ShownFrom(lo, since)
          /\ batch' = [k \in 1 .. Len(game) - lo + 1 |->
                          [id |-> <<game[lo + k - 1], IndexInBucket(lo + k - 1, lo)>>,
                           line |-> lo + k - 1]]
    BY DEF Fetch
<1>3. ASSUME NEW k \in 1 .. Len(game) - lo + 1
      PROVE  /\ batch'[k].line = lo + k - 1 /\ batch'[k].id = Id(lo + k - 1)
             /\ batch'[k] \in Entry
  <2>1. lo + k - 1 \in Lines /\ lo + k - 1 >= lo
      BY <1>1 DEF Lines
  <2>2. IndexInBucket(lo + k - 1, lo) = IndexInBucket(lo + k - 1, 1)
      BY <1>1, <1>2, <2>1, IndexInFetch
  <2>3. Id(lo + k - 1) \in Ids
      BY <1>1, <2>1, IdType
  <2> QED BY <1>2, <2>1, <2>2, <2>3 DEF Id, Entry
<1>4. Len(game) - lo + 1 \in Nat
    BY <1>1
<1>5. batch' \in Seq(Entry) /\ Len(batch') = Len(game) - lo + 1
  <2> DEFINE n == Len(game) - lo + 1
  <2>1. n \in Nat /\ DOMAIN batch' = 1 .. n /\ batch' = [k \in 1 .. n |-> batch'[k]]
      BY <1>2, <1>4
  <2>2. \A k \in 1 .. n : batch'[k] \in Entry
      BY <1>3
  <2> HIDE DEF n
  <2>3. batch' \in Seq(Entry) /\ Len(batch') = n
      BY <2>1, <2>2
  <2> QED BY <2>3 DEF n
<1> QED BY <1>2, <1>3, <1>5

LEMMA SameGame ==
    ASSUME UNCHANGED gameVars
    PROVE  /\ game' = game /\ now' = now /\ Lines' = Lines /\ Entry' = Entry
           /\ \A i : Id(i)' = Id(i)
           /\ Sorted' = Sorted /\ GameTypeOK' = GameTypeOK
BY DEF gameVars, Lines, Entry, Id, IndexInBucket, Sorted, GameTypeOK

\* What a step of the producer has to keep.
LEMMA ProducerKeepsOrder ==
    ASSUME OrderInv, UNCHANGED <<gameVars, consumer>>,
           stream' \in Seq(Entry), batch' \in Seq(Entry),
           Tagged(stream'), Tagged(batch'), Rising(stream'),
           pc' \in {"start", "fetch", "add"}, since' \in {Startup, Refresh},
           fetched' \in 0 .. now, sure' \in 0 .. now, lapsed' \in BOOLEAN
    PROVE  OrderInv'
<1>1. /\ game' = game /\ now' = now /\ Lines' = Lines /\ Entry' = Entry
      /\ \A i : Id(i)' = Id(i)
      /\ Sorted' = Sorted /\ GameTypeOK' = GameTypeOK
    BY SameGame
<1>2. UNCHANGED <<lastSeen, outbox, clientSeen, received>>
    BY DEF consumer
<1>3. TypeOK'
    BY <1>1, <1>2 DEF OrderInv, TypeOK
<1>4. Tagged(stream)' /\ Tagged(batch)' /\ Tagged(outbox)' /\ Rising(stream)' /\ Rising(outbox)'
    BY <1>1, <1>2 DEF OrderInv, Tagged, Rising
<1>5. Marks' /\ ReadIsLater' /\ ReceivedOnceInOrder'
    BY <1>1, <1>2 DEF OrderInv, Marks, Got, ReadIsLater, ReceivedOnceInOrder
<1> QED BY <1>1, <1>3, <1>4, <1>5 DEF OrderInv

LEMMA FetchKeepsOrder ==
    ASSUME OrderInv, Fetch
    PROVE  OrderInv'
<1>1. PICK lo \in 1 .. Len(game) + 1 :
         /\ batch' \in Seq(Entry) /\ Len(batch') = Len(game) - lo + 1
         /\ \A k \in 1 .. Len(game) - lo + 1 :
               batch'[k].line = lo + k - 1 /\ batch'[k].id = Id(lo + k - 1)
    BY FetchFacts
<1>2. DOMAIN batch' = 1 .. Len(batch')
    BY <1>1
<1>3. Tagged(batch')
    BY <1>1, <1>2 DEF Tagged
<1>4. /\ UNCHANGED <<gameVars, consumer, stream, sure>>
      /\ since' = Refresh /\ fetched' = now /\ pc' = "add"
      /\ lapsed' = (lapsed \/ Lapse)
    BY DEF Fetch
<1>5. now \in 0 .. now
    BY DEF OrderInv, TypeOK, GameTypeOK
<1>6. lapsed' \in BOOLEAN
    BY <1>4
<1> QED
    BY <1>1, <1>3, <1>4, <1>5, <1>6, ProducerKeepsOrder DEF OrderInv, TypeOK

\* The stream takes the head of the batch if it is later than its last entry,
\* and may lose its first one.
LEMMA AddFacts ==
    ASSUME OrderInv, Add
    PROVE  /\ batch # <<>> /\ batch[1] \in Entry /\ batch[1].id = Id(batch[1].line)
           /\ batch' = Tail(batch) /\ batch' \in Seq(Entry) /\ Len(batch') = Len(batch) - 1
           /\ \A k \in 1 .. Len(batch) - 1 : batch'[k] = batch[k + 1]
           /\ \/ /\ stream # <<>> /\ batch[1].line <= LastLine(stream)
                 /\ stream' = stream /\ lapsed' = lapsed
              \/ \E trimmed \in {0, 1} :
                    /\ stream # <<>> => LastLine(stream) < batch[1].line
                    /\ trimmed = 1 => Len(stream) >= StreamSize /\ stream # <<>>
                    /\ stream' \in Seq(Entry) /\ Len(stream') = Len(stream) + 1 - trimmed
                    /\ \A k \in 1 .. Len(stream) - trimmed : stream'[k] = stream[k + trimmed]
                    /\ stream'[Len(stream) + 1 - trimmed] = batch[1]
                    /\ lapsed' = (lapsed \/ (trimmed = 1 /\ Unseen(stream[1])))
<1> DEFINE e == batch[1]
<1>1. /\ stream \in Seq(Entry) /\ batch \in Seq(Entry) /\ batch # <<>>
    BY DEF OrderInv, TypeOK, Add
<1>2. e \in Entry /\ Head(batch) = e /\ e.id = Id(e.line) /\ e.line \in Nat
  <2>1. 1 \in DOMAIN batch /\ e \in Entry /\ Head(batch) = e
      BY <1>1
  <2>2. \A i \in Lines : i \in Nat
      BY DEF OrderInv, TypeOK, GameTypeOK, Lines
  <2> QED BY <2>1, <2>2 DEF OrderInv, Tagged, Entry
<1>3. /\ batch' = Tail(batch) /\ batch' \in Seq(Entry) /\ Len(batch') = Len(batch) - 1
      /\ \A k \in 1 .. Len(batch) - 1 : batch'[k] = batch[k + 1]
    BY <1>1 DEF Add
<1>4. stream # <<>> => /\ stream[Len(stream)] \in Entry /\ LastLine(stream) \in Lines
                       /\ LastLine(stream) \in Nat
                       /\ stream[Len(stream)].id = Id(LastLine(stream))
  <2>1. stream # <<>> => Len(stream) \in DOMAIN stream /\ stream[Len(stream)] \in Entry
      BY <1>1
  <2>2. \A i \in Lines : i \in Nat
      BY DEF OrderInv, TypeOK, GameTypeOK, Lines
  <2> QED BY <2>1, <2>2 DEF OrderInv, Tagged, Entry, LastLine
<1>5. stream # <<>> => (Greater(e.id, stream[Len(stream)].id) <=> LastLine(stream) < e.line)
    BY <1>2, <1>4, GreaterIsLater
<1>6. CASE ~(stream = <<>> \/ Greater(Head(batch).id, stream[Len(stream)].id))
  <2>1. stream' = stream /\ lapsed' = lapsed
      BY <1>6 DEF Add
  <2> HIDE DEF e
  <2>2. e.line <= LastLine(stream) /\ stream # <<>>
      BY <1>2, <1>4, <1>5, <1>6
  <2> QED BY <1>1, <1>2, <1>3, <2>1, <2>2 DEF e
<1>7. CASE stream = <<>> \/ Greater(Head(batch).id, stream[Len(stream)].id)
  <2>1. PICK trimmed \in {0, 1} :
           /\ trimmed = 1 => Len(stream) >= StreamSize
           /\ stream' = SubSeq(Append(stream, Head(batch)), 1 + trimmed, Len(stream) + 1)
           /\ lapsed' = (lapsed \/ (trimmed = 1 /\ Unseen(stream[1])))
      BY <1>7 DEF Add
  <2> HIDE DEF e
  <2>2. stream # <<>> => LastLine(stream) < e.line
      BY <1>2, <1>5, <1>7
  <2>3. trimmed = 1 => stream # <<>>
      BY <1>1, <2>1, StreamAssumption
  <2> DEFINE longer == Append(stream, e)
  <2>4. /\ longer \in Seq(Entry) /\ Len(longer) = Len(stream) + 1 /\ Len(stream) \in Nat
        /\ longer[Len(stream) + 1] = e
        /\ \A k \in 1 .. Len(stream) : longer[k] = stream[k]
      BY <1>1, <1>2
  <2>5. stream' = SubSeq(longer, 1 + trimmed, Len(stream) + 1)
      BY <1>2, <2>1
  <2> HIDE DEF longer
  <2>6. /\ stream' \in Seq(Entry) /\ Len(stream') = Len(stream) + 1 - trimmed
        /\ \A k \in 1 .. Len(stream) + 1 - trimmed : stream'[k] = longer[k + trimmed]
    <3>1. 1 + trimmed <= Len(stream) + 1 + 1 /\ Len(stream) + 1 - trimmed \in Nat
        BY <1>1, <2>3, <2>4
    <3>2. CASE trimmed = 0
        BY <2>4, <2>5, <3>1, <3>2
    <3>3. CASE trimmed = 1
        BY <2>4, <2>5, <3>1, <3>3
    <3> QED BY <3>2, <3>3
  <2>7. \A k \in 1 .. Len(stream) - trimmed : stream'[k] = stream[k + trimmed]
      BY <2>4, <2>6
  <2>8. stream'[Len(stream) + 1 - trimmed] = e
    <3>1. Len(stream) + 1 - trimmed \in 1 .. Len(stream) + 1 - trimmed
        BY <1>1, <2>3, <2>4
    <3> QED BY <2>4, <2>6, <3>1
  <2> QED BY <1>1, <1>2, <1>3, <2>1, <2>2, <2>3, <2>6, <2>7, <2>8 DEF e
<1> QED BY <1>6, <1>7

LEMMA AddKeepsOrder ==
    ASSUME OrderInv, Add
    PROVE  OrderInv'
<1>1. /\ stream \in Seq(Entry) /\ batch \in Seq(Entry)
      /\ \A i \in Lines : i \in Nat
    BY DEF OrderInv, TypeOK, GameTypeOK, Lines
<1>2. Tagged(batch')
  <2>1. DOMAIN batch' = 1 .. Len(batch) - 1 /\ DOMAIN batch = 1 .. Len(batch)
      BY <1>1, AddFacts
  <2>2. \A k \in 1 .. Len(batch) - 1 : k + 1 \in DOMAIN batch /\ batch'[k] = batch[k + 1]
      BY <1>1, <2>1, AddFacts
  <2> QED BY <2>1, <2>2 DEF OrderInv, Tagged
<1>3. stream' \in Seq(Entry) /\ Tagged(stream') /\ Rising(stream')
  <2>1. CASE stream' = stream
      BY <1>1, <2>1 DEF OrderInv
  <2>2. CASE stream' # stream
    <3>1. PICK trimmed \in {0, 1} :
              /\ stream # <<>> => LastLine(stream) < batch[1].line
              /\ trimmed = 1 => stream # <<>>
              /\ stream' \in Seq(Entry) /\ Len(stream') = Len(stream) + 1 - trimmed
              /\ \A k \in 1 .. Len(stream) - trimmed : stream'[k] = stream[k + trimmed]
              /\ stream'[Len(stream) + 1 - trimmed] = batch[1]
        BY <2>2, AddFacts
    <3>2. /\ DOMAIN stream = 1 .. Len(stream) /\ Len(stream) \in Nat
          /\ DOMAIN stream' = 1 .. Len(stream) + 1 - trimmed
        BY <1>1, <3>1
    <3>3. \A k \in 1 .. Len(stream) - trimmed : k + trimmed \in DOMAIN stream
        BY <3>2
    <3>4. \A k \in DOMAIN stream' :
              k \in 1 .. Len(stream) - trimmed \/ k = Len(stream) + 1 - trimmed
        BY <3>2
    <3>5. Tagged(stream')
      <4>1. Tagged(stream) /\ batch[1].id = Id(batch[1].line)
          BY AddFacts DEF OrderInv
      <4> QED BY <3>1, <3>3, <3>4, <4>1 DEF Tagged
    <3>6. \A k \in DOMAIN stream : stream[k].line \in Nat
      <4>1. \A k \in DOMAIN stream : stream[k] \in Entry
          BY <1>1
      <4>2. \A x \in Entry : x.line \in Lines
          BY DEF Entry
      <4> QED BY <1>1, <4>1, <4>2
    <3>7. \A k \in DOMAIN stream : stream[k].line <= LastLine(stream)
      <4> SUFFICES ASSUME NEW k \in DOMAIN stream PROVE stream[k].line <= LastLine(stream)
          OBVIOUS
      <4>1. Len(stream) \in DOMAIN stream /\ (k < Len(stream) \/ k = Len(stream))
          BY <3>2
      <4>2. k < Len(stream) => stream[k].line < stream[Len(stream)].line
          BY <4>1 DEF OrderInv, Rising
      <4> QED BY <3>6, <4>1, <4>2 DEF LastLine
    <3>8. batch[1].line \in Nat
        BY <1>1, AddFacts DEF Entry
    <3>9. ASSUME NEW a \in DOMAIN stream', NEW b \in DOMAIN stream', a < b
          PROVE  stream'[a].line < stream'[b].line
      <4>1. a \in 1 .. Len(stream) - trimmed
          BY <3>2, <3>9
      <4>2. CASE b \in 1 .. Len(stream) - trimmed
        <5>1. a + trimmed < b + trimmed
            BY <3>9, <3>2
        <5> QED BY <3>1, <3>3, <4>1, <4>2, <5>1 DEF OrderInv, Rising
      <4>3. CASE b = Len(stream) + 1 - trimmed
        <5>1. a + trimmed \in DOMAIN stream /\ stream # <<>>
            BY <3>2, <3>3, <4>1
        <5>2. stream[a + trimmed].line < batch[1].line
          <6>1. Len(stream) \in DOMAIN stream
              BY <3>2, <5>1
          <6> QED BY <3>1, <3>6, <3>7, <3>8, <5>1, <6>1 DEF LastLine
        <5> QED BY <3>1, <4>1, <4>3, <5>2
      <4> QED BY <3>4, <4>2, <4>3
    <3> QED BY <3>1, <3>5, <3>9 DEF Rising
  <2> QED BY <2>1, <2>2
<1>4. UNCHANGED <<gameVars, consumer, pc, since, fetched, sure>>
    BY DEF Add
<1>5. lapsed' \in BOOLEAN
    BY AddFacts DEF OrderInv, TypeOK
<1>6. batch' \in Seq(Entry)
    BY AddFacts
<1> QED
    BY <1>2, <1>3, <1>4, <1>5, <1>6, ProducerKeepsOrder DEF OrderInv, TypeOK

LEMMA OtherProducerStepsKeepOrder ==
    ASSUME OrderInv, Start \/ EndBatch \/ Crash
    PROVE  OrderInv'
<1>1. <<>> \in Seq(Entry) /\ Tagged(<<>>) /\ Rising(<<>>)
    BY DEF Tagged, Rising
<1>2. CASE Start
    BY <1>1, <1>2, ProducerKeepsOrder DEF Start, OrderInv, TypeOK
<1>3. CASE EndBatch
    BY <1>3, ProducerKeepsOrder DEF EndBatch, OrderInv, TypeOK
<1>4. CASE Crash
    BY <1>1, <1>4, ProducerKeepsOrder DEF Crash, OrderInv, TypeOK
<1> QED BY <1>2, <1>3, <1>4

\* What a step of the consumer has to keep.
LEMMA ConsumerKeepsOrder ==
    ASSUME OrderInv, UNCHANGED <<gameVars, producer, lapsed>>,
           outbox' \in Seq(Entry), Tagged(outbox'), Rising(outbox'),
           received' \in Seq(Lines), ReceivedOnceInOrder',
           clientSeen' = (IF Got' = 0 THEN NoId ELSE Id(Got')),
           lastSeen' = (IF outbox' = <<>> THEN clientSeen' ELSE outbox'[Len(outbox')].id),
           Got' # 0 => Got' \in Lines,
           ReadIsLater'
    PROVE  OrderInv'
<1>1. /\ game' = game /\ now' = now /\ Lines' = Lines /\ Entry' = Entry
      /\ \A i : Id(i)' = Id(i)
      /\ Sorted' = Sorted /\ GameTypeOK' = GameTypeOK
    BY SameGame
<1>2. UNCHANGED <<stream, batch, pc, since, fetched, sure, lapsed>>
    BY DEF producer
<1>3. clientSeen' \in Ids \cup {NoId}
    BY IdType DEF OrderInv, TypeOK, GameTypeOK
<1>4. lastSeen' \in Ids \cup {NoId}
  <2>1. CASE outbox' # <<>>
    <3>1. outbox'[Len(outbox')] \in Entry
        BY <2>1
    <3> QED BY <2>1, <3>1 DEF Entry
  <2> QED BY <1>3, <2>1
<1>5. TypeOK'
    BY <1>1, <1>2, <1>3, <1>4 DEF OrderInv, TypeOK
<1>6. Tagged(stream)' /\ Tagged(batch)' /\ Tagged(outbox)' /\ Rising(stream)' /\ Rising(outbox)'
    BY <1>1, <1>2 DEF OrderInv, Tagged, Rising
<1>7. Marks'
  <2>1. Id(Got)' = Id(Got')
      BY <1>1 DEF Id, IndexInBucket
  <2> QED BY <2>1 DEF Marks
<1> QED BY <1>1, <1>5, <1>6, <1>7 DEF OrderInv

\* A client gets the last entry first, and then the entries of the stream after
\* the last line it has seen.
LEMMA ReadFacts ==
    ASSUME OrderInv, Read
    PROVE  /\ stream # <<>>
           /\ outbox' \in Seq(Entry) /\ outbox' # <<>>
           /\ Got = 0 => outbox' = <<stream[Len(stream)]>>
           /\ Got # 0 => \E k \in DOMAIN stream :
                 /\ \A i \in DOMAIN stream : i >= k <=> Got < stream[i].line
                 /\ Len(outbox') = Len(stream) - k + 1
                 /\ \A n \in 1 .. Len(stream) - k + 1 : outbox'[n] = stream[n + k - 1]
<1>1. stream \in Seq(Entry) /\ stream # <<>> /\ outbox = <<>>
    BY DEF OrderInv, TypeOK, Read
<1>2. \A i \in DOMAIN stream : stream[i] \in Entry /\ stream[i].id = Id(stream[i].line)
    BY <1>1 DEF OrderInv, Tagged
<1>3. lastSeen = IF Got = 0 THEN NoId ELSE Id(Got)
    BY <1>1 DEF OrderInv, Marks
<1>4. CASE Got = 0
  <2>1. outbox' = <<stream[Len(stream)]>>
      BY <1>3, <1>4 DEF Read
  <2>2. stream[Len(stream)] \in Entry
      BY <1>1
  <2> QED BY <1>1, <1>4, <2>1, <2>2
<1>5. CASE Got # 0
  <2>1. Got \in Lines /\ Id(Got) # NoId
      BY <1>5, FrontFacts, IdType DEF OrderInv, TypeOK, GameTypeOK
  <2>2. PICK k \in DOMAIN stream :
           /\ \A i \in DOMAIN stream : i >= k <=> Greater(stream[i].id, Id(Got))
           /\ outbox' = SubSeq(stream, k, Len(stream))
      BY <1>3, <1>5, <2>1 DEF Read
  <2>3. \A i \in DOMAIN stream : Greater(stream[i].id, Id(Got)) <=> Got < stream[i].line
      BY <1>2, <2>1, GreaterIsLater
  <2>4. /\ outbox' \in Seq(Entry) /\ Len(outbox') = Len(stream) - k + 1
        /\ \A n \in 1 .. Len(stream) - k + 1 : outbox'[n] = stream[n + k - 1]
        /\ Len(stream) - k + 1 > 0
      BY <1>1, <2>2
  <2>5. outbox' # <<>>
      BY <2>4
  <2>6. \A i \in DOMAIN stream : i >= k <=> Got < stream[i].line
      BY <2>2, <2>3
  <2>7. \E n \in DOMAIN stream :
           /\ \A i \in DOMAIN stream : i >= n <=> Got < stream[i].line
           /\ Len(outbox') = Len(stream) - n + 1
           /\ \A m \in 1 .. Len(stream) - n + 1 : outbox'[m] = stream[m + n - 1]
      BY <2>4, <2>6
  <2> QED BY <1>1, <1>5, <2>4, <2>5, <2>7
<1> QED BY <1>4, <1>5

LEMMA ReadKeepsOrder ==
    ASSUME OrderInv, Read
    PROVE  OrderInv'
<1>1. stream \in Seq(Entry) /\ received \in Seq(Lines) /\ \A i \in Lines : i \in Nat \ {0}
    BY DEF OrderInv, TypeOK, GameTypeOK, Lines
<1>2. /\ UNCHANGED <<gameVars, producer, clientSeen, received, lapsed>>
      /\ lastSeen' = outbox'[Len(outbox')].id
    BY DEF Read
<1>3. Got' = Got
    BY <1>2 DEF Got
<1>4. PICK k \in DOMAIN stream :
         /\ Len(outbox') = Len(stream) - k + 1
         /\ \A n \in 1 .. Len(stream) - k + 1 : outbox'[n] = stream[n + k - 1]
         /\ Got # 0 => \A i \in DOMAIN stream : i >= k <=> Got < stream[i].line
  <2>1. CASE Got = 0
    <3>1. Len(stream) \in DOMAIN stream /\ Len(outbox') = 1 /\ outbox'[1] = stream[Len(stream)]
        BY <1>1, <2>1, ReadFacts
    <3> QED BY <1>1, <2>1, <3>1
  <2> QED BY <2>1, ReadFacts
<1>5. /\ DOMAIN outbox' = 1 .. Len(stream) - k + 1 /\ DOMAIN stream = 1 .. Len(stream)
      /\ outbox' \in Seq(Entry) /\ outbox' # <<>>
    BY <1>1, <1>4, ReadFacts
<1>6. \A n \in DOMAIN outbox' : n + k - 1 \in DOMAIN stream /\ outbox'[n] = stream[n + k - 1]
    BY <1>1, <1>4, <1>5
<1>7. Tagged(outbox')
    BY <1>6 DEF OrderInv, Tagged
<1>8. Rising(outbox')
  <2> SUFFICES ASSUME NEW a \in DOMAIN outbox', NEW b \in DOMAIN outbox', a < b
               PROVE  outbox'[a].line < outbox'[b].line
      BY DEF Rising
  <2>1. a + k - 1 < b + k - 1
      BY <1>5
  <2> QED BY <1>6, <2>1 DEF OrderInv, Rising
<1>9. ReadIsLater'
  <2>1. 1 \in DOMAIN outbox' /\ outbox'[1] = stream[k]
      BY <1>1, <1>5, <1>6
  <2>2. stream[k].line \in Nat \ {0}
    <3>1. stream[k] \in Entry
        BY <1>1
    <3> QED BY <1>1, <3>1 DEF Entry
  <2>3. Got < stream[k].line
      BY <1>4, <1>5, <2>2, FrontFacts
  <2> QED BY <1>3, <2>1, <2>3 DEF ReadIsLater
<1>10. Got # 0 => Got \in Lines
    BY FrontFacts
<1>11. clientSeen' = IF Got' = 0 THEN NoId ELSE Id(Got')
    BY <1>2, <1>3 DEF OrderInv, Marks
<1>12. ReceivedOnceInOrder'
    BY <1>2 DEF OrderInv, ReceivedOnceInOrder
<1> QED
    BY <1>1, <1>2, <1>3, <1>5, <1>7, <1>8, <1>9, <1>10, <1>11, <1>12, ConsumerKeepsOrder

LEMMA SendFacts ==
    ASSUME OrderInv, Send
    PROVE  /\ outbox # <<>> /\ Got' = outbox[1].line /\ Got' \in Lines /\ Got' # 0
           /\ Id(Got') = clientSeen' /\ Got < Got'
           /\ received' \in Seq(Lines) /\ Len(received') = Len(received) + 1
           /\ received'[Len(received) + 1] = Got'
           /\ \A k \in 1 .. Len(received) : received'[k] = received[k]
           /\ outbox' \in Seq(Entry) /\ Len(outbox') = Len(outbox) - 1
           /\ \A k \in 1 .. Len(outbox) - 1 : outbox'[k] = outbox[k + 1]
<1>1. outbox \in Seq(Entry) /\ outbox # <<>> /\ received \in Seq(Lines)
    BY DEF OrderInv, TypeOK, Send
<1>2. 1 \in DOMAIN outbox /\ outbox[1] \in Entry /\ Head(outbox) = outbox[1]
    BY <1>1
<1>3. outbox[1].line \in Lines /\ outbox[1].id = Id(outbox[1].line) /\ Got < outbox[1].line
    BY <1>1, <1>2 DEF OrderInv, Tagged, Entry, ReadIsLater
<1>4. received' = Append(received, outbox[1].line) /\ clientSeen' = outbox[1].id
    BY <1>2 DEF Send
<1>5. /\ received' \in Seq(Lines) /\ Len(received') = Len(received) + 1
      /\ received'[Len(received) + 1] = outbox[1].line
      /\ \A k \in 1 .. Len(received) : received'[k] = received[k]
    BY <1>1, <1>3, <1>4
<1>6. received' # <<>>
    BY <1>1, <1>5
<1>7. Got' = outbox[1].line
    BY <1>5, <1>6 DEF Got
<1>8. outbox[1].line # 0
    BY <1>3 DEF OrderInv, TypeOK, GameTypeOK, Lines
<1>9. /\ outbox' \in Seq(Entry) /\ Len(outbox') = Len(outbox) - 1
      /\ \A k \in 1 .. Len(outbox) - 1 : outbox'[k] = outbox[k + 1]
    BY <1>1 DEF Send
<1> QED BY <1>1, <1>3, <1>4, <1>5, <1>7, <1>8, <1>9

LEMMA SendKeepsOrder ==
    ASSUME OrderInv, Send
    PROVE  OrderInv'
<1>1. /\ received \in Seq(Lines) /\ outbox \in Seq(Entry) /\ \A i \in Lines : i \in Nat
    BY DEF OrderInv, TypeOK, GameTypeOK, Lines
<1>2. UNCHANGED <<gameVars, producer, lastSeen, lapsed>>
    BY DEF Send
<1>3. /\ DOMAIN outbox = 1 .. Len(outbox) /\ DOMAIN outbox' = 1 .. Len(outbox) - 1
      /\ Len(outbox) \in Nat \ {0}
      /\ \A k \in DOMAIN outbox' : k + 1 \in DOMAIN outbox /\ outbox'[k] = outbox[k + 1]
    BY <1>1, SendFacts
<1>4. Tagged(outbox')
    BY <1>3 DEF OrderInv, Tagged
<1>5. Rising(outbox')
  <2> SUFFICES ASSUME NEW a \in DOMAIN outbox', NEW b \in DOMAIN outbox', a < b
               PROVE  outbox'[a].line < outbox'[b].line
      BY DEF Rising
  <2>1. a + 1 < b + 1
      BY <1>3
  <2> QED BY <1>3, <2>1 DEF OrderInv, Rising
<1>6. ReadIsLater'
  <2> SUFFICES ASSUME outbox' # <<>> PROVE Got' < outbox'[1].line
      BY DEF ReadIsLater
  <2>1. 1 \in DOMAIN outbox' /\ 1 \in DOMAIN outbox /\ 1 + 1 \in DOMAIN outbox
      BY <1>3, SendFacts
  <2>2. outbox'[1] = outbox[1 + 1]
      BY <1>3, <2>1
  <2>3. outbox[1].line < outbox[1 + 1].line
      BY <2>1 DEF OrderInv, Rising
  <2> QED BY <2>2, <2>3, SendFacts
<1>7. ReceivedOnceInOrder'
  <2> SUFFICES ASSUME NEW a \in DOMAIN received', NEW b \in DOMAIN received', a < b
               PROVE  received'[a] < received'[b]
      BY DEF ReceivedOnceInOrder
  <2>1. /\ DOMAIN received = 1 .. Len(received) /\ Len(received) \in Nat
        /\ DOMAIN received' = 1 .. Len(received) + 1
      BY <1>1, SendFacts
  <2>2. a \in DOMAIN received /\ received'[a] = received[a]
      BY <2>1, SendFacts
  <2>3. CASE b \in DOMAIN received
      BY <2>1, <2>2, <2>3, SendFacts DEF OrderInv, ReceivedOnceInOrder
  <2>4. CASE b = Len(received) + 1
    <3>1. received # <<>> /\ Len(received) \in DOMAIN received /\ Got = received[Len(received)]
        BY <2>1, <2>2 DEF Got
    <3>2. \A k \in DOMAIN received : received[k] \in Nat
        BY <1>1
    <3>3. received[a] <= Got
      <4>1. a < Len(received) \/ a = Len(received)
          BY <2>1, <2>2
      <4>2. a < Len(received) => received[a] < received[Len(received)]
          BY <2>2, <3>1 DEF OrderInv, ReceivedOnceInOrder
      <4> QED BY <2>2, <3>1, <3>2, <4>1, <4>2
    <3>4. Got < Got' /\ received'[b] = Got' /\ Got' \in Nat /\ Got \in Nat
        BY <1>1, <2>4, <3>1, <3>2, SendFacts
    <3> QED BY <2>2, <3>2, <3>3, <3>4
  <2> QED BY <2>1, <2>3, <2>4
<1>8. lastSeen' = IF outbox' = <<>> THEN clientSeen' ELSE outbox'[Len(outbox')].id
  <2>1. lastSeen = outbox[Len(outbox)].id
      BY SendFacts DEF OrderInv, Marks
  <2>2. CASE outbox' = <<>>
    <3>1. Len(outbox) = 1
        BY <1>1, <2>2, SendFacts
    <3>2. clientSeen' = outbox[1].id
        BY SendFacts, <1>3, <3>1 DEF OrderInv, Tagged
    <3> QED BY <1>2, <2>1, <2>2, <3>1, <3>2
  <2>3. CASE outbox' # <<>>
    <3>1. outbox' \in Seq(Entry) /\ Len(outbox') = Len(outbox) - 1
        BY SendFacts
    <3>2. Len(outbox) - 1 \in DOMAIN outbox'
        BY <1>3, <2>3, <3>1
    <3>3. outbox'[Len(outbox')] = outbox[Len(outbox)]
        BY <1>3, <3>1, <3>2
    <3> QED BY <1>2, <2>1, <2>3, <3>3
  <2> QED BY <2>2, <2>3
<1> QED
    BY <1>2, <1>4, <1>5, <1>6, <1>7, <1>8, SendFacts, ConsumerKeepsOrder

LEMMA ReconnectKeepsOrder ==
    ASSUME OrderInv, Reconnect
    PROVE  OrderInv'
<1>1. /\ UNCHANGED <<gameVars, producer, clientSeen, received, lapsed>>
      /\ outbox' = <<>> /\ lastSeen' = clientSeen
    BY DEF Reconnect
<1>2. <<>> \in Seq(Entry) /\ Tagged(<<>>) /\ Rising(<<>>)
    BY DEF Tagged, Rising
<1>3. Got' = Got
    BY <1>1 DEF Got
<1>4. Got # 0 => Got \in Lines
    BY FrontFacts
<1>5. clientSeen' = IF Got' = 0 THEN NoId ELSE Id(Got')
    BY <1>1, <1>3 DEF OrderInv, Marks
<1>6. ReceivedOnceInOrder' /\ ReadIsLater'
    BY <1>1 DEF OrderInv, ReceivedOnceInOrder, ReadIsLater
<1>7. received' \in Seq(Lines)
    BY <1>1 DEF OrderInv, TypeOK
<1> QED
    BY <1>1, <1>2, <1>3, <1>4, <1>5, <1>6, <1>7, ConsumerKeepsOrder

LEMMA StepOrder ==
    ASSUME OrderInv, [Next]_vars
    PROVE  OrderInv'
<1>1. CASE UNCHANGED vars
  <2>1. UNCHANGED <<gameVars, consumer, stream, batch, pc, since, fetched, sure, lapsed>>
      BY <1>1 DEF vars, producer
  <2> QED BY <2>1, ProducerKeepsOrder DEF OrderInv, TypeOK
<1> QED
    BY <1>1, GameKeepsOrder, FetchKeepsOrder, AddKeepsOrder, OtherProducerStepsKeepOrder,
       ReadKeepsOrder, SendKeepsOrder, ReconnectKeepsOrder DEF Next

\* The invariant of the order.
LEMMA OrderAlways == Spec => []OrderInv
BY InitOrder, StepOrder, PTL DEF Spec
-----------------------------------------------------------------------------
(* Completeness: what the client receives has no gap.                      *)

LEMMA GotFacts ==
    ASSUME OrderInv
    PROVE  /\ \A i \in Lines : i \in Nat \ {0}
           /\ received = <<>> <=> Got = 0
           /\ \A entries \in Seq(Entry) : \A k \in DOMAIN entries :
                 entries[k].line \in Lines /\ entries[k].line \in Nat
<1>1. \A i \in Lines : i \in Nat \ {0}
    BY DEF OrderInv, TypeOK, GameTypeOK, Lines
<1>2. received = <<>> <=> Got = 0
  <2>1. received # <<>> => received[Len(received)] \in Lines
      BY DEF OrderInv, TypeOK
  <2> QED BY <1>1, <2>1 DEF Got
<1>3. ASSUME NEW entries \in Seq(Entry), NEW k \in DOMAIN entries
      PROVE  entries[k].line \in Lines /\ entries[k].line \in Nat
  <2>1. entries[k] \in Entry
      OBVIOUS
  <2> QED BY <1>1, <2>1 DEF Entry
<1> QED BY <1>1, <1>2, <1>3

\* While the consumer does nothing, the client is where it was.
LEMMA ClientStays ==
    ASSUME UNCHANGED consumer
    PROVE  /\ Got' = Got /\ FrontLine' = FrontLine
           /\ ReadIsNext => ReadIsNext'
           /\ ~lapsed /\ NoneMissed => NoneMissed'
<1>1. outbox' = outbox /\ received' = received
    BY DEF consumer
<1> QED BY <1>1 DEF Got, FrontLine, ReadIsNext, NoneMissed, Consecutive

LEMMA InitComplete == Init => CompleteInv
<1> SUFFICES ASSUME Init PROVE CompleteInv
    OBVIOUS
<1>1. /\ stream = <<>> /\ batch = <<>> /\ outbox = <<>> /\ received = <<>> /\ pc = "start"
      /\ Len(<<>>) = 0 /\ 2 .. 0 = {}
    BY DEF Init
<1>2. Consecutive(stream) /\ Consecutive(batch) /\ Consecutive(outbox) /\ NoneMissed
    BY <1>1 DEF Consecutive, NoneMissed
<1> QED
    BY <1>1, <1>2, InitOrder DEF CompleteInv, StreamReachesClient, ReadIsNext, BatchContinues,
       BatchIsComplete, StreamIsComplete, LaterFetch

LEMMA GameKeepsComplete ==
    ASSUME CompleteInv, GameNext, UNCHANGED <<producer, consumer, lapsed>>
    PROVE  CompleteInv'
<1>1. game \in Seq(Nat) /\ now \in Nat /\ Sorted /\ fetched \in 0 .. now /\ sure \in 0 .. now
    BY DEF CompleteInv, OrderInv, TypeOK, GameTypeOK
<1>2. /\ \A i \in Lines : game'[i] = game[i]
      /\ \A i \in Lines' \ Lines : game'[i] = now
    BY <1>1, GameStep
<1>3. UNCHANGED <<stream, batch, pc, since, fetched, sure, lapsed>>
    BY DEF producer
<1>4. \A i \in Lines' : game'[i] < fetched \/ game'[i] < sure => i \in Lines
    BY <1>1, <1>2
<1>5. Consecutive(batch)' /\ LaterFetch'
    BY <1>3 DEF CompleteInv, Consecutive, LaterFetch
<1>6. ~lapsed => StreamReachesClient' /\ BatchContinues'
    BY <1>3, ClientStays
    DEF CompleteInv, StreamReachesClient, BatchContinues, Consecutive, LastLine
<1>7. ~lapsed => BatchIsComplete' /\ StreamIsComplete'
    BY <1>2, <1>3, <1>4 DEF CompleteInv, BatchIsComplete, StreamIsComplete, LastLine
<1>8. OrderInv'
    BY GameKeepsOrder DEF CompleteInv
<1> QED BY <1>3, <1>5, <1>6, <1>7, <1>8, ClientStays DEF CompleteInv

LEMMA FetchKeepsComplete ==
    ASSUME CompleteInv, Fetch
    PROVE  CompleteInv'
<1>0. OrderInv /\ OrderInv'
    BY FetchKeepsOrder DEF CompleteInv
<1>1. PICK lo \in 1 .. Len(game) + 1 :
         /\ ShownFrom(lo, since)
         /\ batch' \in Seq(Entry) /\ Len(batch') = Len(game) - lo + 1
         /\ \A k \in 1 .. Len(game) - lo + 1 :
               batch'[k].line = lo + k - 1 /\ batch'[k].id = Id(lo + k - 1)
    BY <1>0, FetchFacts
<1>2. /\ game \in Seq(Nat) /\ now \in Nat /\ sure \in Nat /\ since \in Nat /\ Refresh \in Nat
      /\ Lines = 1 .. Len(game) /\ stream \in Seq(Entry)
      /\ \A i \in Lines : i \in Nat /\ game[i] \in Nat
  <2>1. game \in Seq(Nat) /\ now \in Nat /\ stream \in Seq(Entry) /\ sure \in 0 .. now
        /\ since \in {Startup, Refresh}
      BY <1>0 DEF OrderInv, TypeOK, GameTypeOK
  <2>2. Lines = 1 .. Len(game) /\ \A i \in 1 .. Len(game) : i \in Nat /\ game[i] \in Nat
      BY <2>1 DEF Lines
  <2> QED BY <2>1, <2>2, StreamAssumption
<1>3. /\ pc = "fetch" /\ UNCHANGED <<gameVars, stream, consumer, sure>>
      /\ since' = Refresh /\ fetched' = now /\ pc' = "add"
      /\ lapsed' = (lapsed \/ Lapse)
    BY DEF Fetch
<1>4. \A i \in Lines : i >= lo <=> now <= game[i] + since
    BY <1>1 DEF ShownFrom, Shown
<1>5. Consecutive(batch')
  <2> SUFFICES ASSUME NEW a \in 2 .. Len(batch')
               PROVE  batch'[a].line = batch'[a - 1].line + 1
      BY DEF Consecutive
  <2>0. Len(game) - lo + 1 \in Nat /\ a \in 2 .. Len(game) - lo + 1
      BY <1>1, <1>2
  <2>1. a \in 1 .. Len(game) - lo + 1 /\ a - 1 \in 1 .. Len(game) - lo + 1
      BY <2>0
  <2>2. batch'[a].line = lo + a - 1 /\ batch'[a - 1].line = lo + (a - 1) - 1
      BY <1>1, <2>1
  <2> QED BY <1>2, <2>2
<1>6. LaterFetch'
    BY <1>3 DEF LaterFetch
<1>7. ASSUME ~lapsed, ~Lapse PROVE StreamReachesClient' /\ BatchContinues' /\ BatchIsComplete'
  <2>1. ASSUME stream # <<>> PROVE lo <= LastLine(stream) + 1
    <3>1. since = Refresh /\ now <= sure + Refresh
        BY <1>2, <1>3, <1>7, <2>1 DEF CompleteInv, LaterFetch, Lapse
    <3>2. LastLine(stream) \in Lines /\ LastLine(stream) \in Nat
        BY <1>0, <1>2, <2>1, GotFacts DEF LastLine
    <3> DEFINE missed == LastLine(stream) + 1
    <3>3. ASSUME missed \in Lines, missed < lo PROVE FALSE
      <4>1. ~(now <= game[missed] + since)
          BY <1>2, <1>4, <3>3
      <4>2. game[missed] < sure
          BY <1>2, <3>1, <3>3, <4>1
      <4>3. missed <= LastLine(stream)
          BY <1>3, <1>7, <2>1, <3>3, <4>2 DEF CompleteInv, StreamIsComplete
      <4> QED BY <3>2, <4>3
    <3> QED BY <1>2, <3>2, <3>3
  <2>2. ASSUME stream = <<>>, FrontLine # 0 PROVE lo <= FrontLine
    <3>1. FrontLine \in Lines /\ Front = Id(FrontLine) /\ Front # NoId
        BY <1>0, <2>2, FrontFacts
    <3>2. Front[1] = game[FrontLine]
        BY <1>2, <3>1, IdType
    <3>3. now <= game[FrontLine] + since
        BY <1>2, <1>7, <2>2, <3>1, <3>2 DEF Lapse
    <3>4. FrontLine >= lo
        BY <1>4, <3>1, <3>3
    <3>5. FrontLine \in Nat /\ lo \in Nat
        BY <1>1, <1>2, <3>1
    <3> QED BY <3>4, <3>5
  <2>3. stream' = stream /\ FrontLine' = FrontLine /\ FrontLine \in Nat
      BY <1>0, <1>3, ClientStays, FrontFacts
  <2>4. StreamReachesClient'
      BY <1>7, <2>3 DEF CompleteInv, StreamReachesClient, Consecutive
  <2>5. BatchContinues'
    <3> SUFFICES ASSUME batch' # <<>>
                 PROVE  /\ stream # <<>> => batch'[1].line <= LastLine(stream) + 1
                        /\ stream = <<>> /\ FrontLine # 0 => batch'[1].line <= FrontLine + 1
        BY <2>3 DEF BatchContinues, LastLine
    <3>1. 1 \in 1 .. Len(game) - lo + 1
        BY <1>1, <1>2
    <3>2. batch'[1].line = lo /\ lo \in Nat
      <4>1. batch'[1].line = lo + 1 - 1
          BY <1>1, <3>1
      <4>2. lo \in Nat
          BY <1>1, <1>2
      <4> QED BY <4>1, <4>2
    <3>3. FrontLine # 0 /\ stream = <<>> => lo <= FrontLine + 1
        BY <2>2, <2>3, <3>2
    <3> QED BY <2>1, <3>2, <3>3
  <2>6. BatchIsComplete'
    <3> SUFFICES ASSUME NEW i \in Lines
                 PROVE  /\ batch' # <<>> => i <= LastLine(batch')
                        /\ batch' = <<>> /\ stream # <<>> => i <= LastLine(stream)
        BY <1>3, <2>3, SameGame DEF BatchIsComplete, LastLine
    <3>1. i \in 1 .. Len(game)
        BY <1>2
    <3>2. CASE batch' # <<>>
      <4>1. Len(game) - lo + 1 \in 1 .. Len(game) - lo + 1
          BY <1>1, <1>2, <3>2
      <4>2. LastLine(batch') = lo + (Len(game) - lo + 1) - 1
          BY <1>1, <4>1 DEF LastLine
      <4> QED BY <1>2, <3>1, <3>2, <4>2
    <3>3. CASE batch' = <<>> /\ stream # <<>>
      <4>1. lo = Len(game) + 1
          BY <1>1, <1>2, <3>3
      <4>2. LastLine(stream) \in Nat
          BY <1>0, <1>2, <3>3, GotFacts DEF LastLine
      <4> QED BY <1>2, <2>1, <3>1, <3>3, <4>1, <4>2
    <3> QED BY <3>2, <3>3
  <2> QED BY <2>4, <2>5, <2>6
<1>8. ~lapsed => ReadIsNext' /\ NoneMissed'
    BY <1>3, ClientStays DEF CompleteInv
<1>9. StreamIsComplete'
    BY <1>3 DEF StreamIsComplete
<1> QED BY <1>0, <1>3, <1>5, <1>6, <1>7, <1>8, <1>9 DEF CompleteInv, Consecutive

LEMMA AddKeepsComplete ==
    ASSUME CompleteInv, Add
    PROVE  CompleteInv'
<1>0. OrderInv /\ OrderInv'
    BY AddKeepsOrder DEF CompleteInv
<1>1. /\ stream \in Seq(Entry) /\ batch \in Seq(Entry) /\ batch # <<>>
      /\ batch[1].line \in Nat /\ \A i \in Lines : i \in Nat
      /\ stream # <<>> => LastLine(stream) \in Nat
  <2>1. stream \in Seq(Entry) /\ batch \in Seq(Entry) /\ batch # <<>>
      BY <1>0 DEF Add, OrderInv, TypeOK
  <2>2. 1 \in DOMAIN batch /\ (stream # <<>> => Len(stream) \in DOMAIN stream)
      BY <2>1
  <2> QED BY <1>0, <2>1, <2>2, GotFacts DEF LastLine
<1>2. /\ pc = "add" /\ UNCHANGED <<gameVars, consumer, pc, since, fetched, sure>>
      /\ game' = game /\ Lines' = Lines
      /\ batch' = Tail(batch) /\ batch' \in Seq(Entry) /\ Len(batch') = Len(batch) - 1
      /\ \A k \in 1 .. Len(batch) - 1 : batch'[k] = batch[k + 1]
    BY <1>0, AddFacts, SameGame DEF Add
<1>3. FrontLine' = FrontLine /\ FrontLine \in Nat
    BY <1>0, <1>2, ClientStays, FrontFacts
\* The batch that is left.
<1>4. \A a \in 2 .. Len(batch) : batch[a].line = batch[a - 1].line + 1
    BY DEF CompleteInv, Consecutive
<1>5. Consecutive(batch')
  <2> SUFFICES ASSUME NEW a \in 2 .. Len(batch')
               PROVE  batch'[a].line = batch'[a - 1].line + 1
      BY DEF Consecutive
  <2>1. a \in 1 .. Len(batch) - 1 /\ a - 1 \in 1 .. Len(batch) - 1 /\ a + 1 \in 2 .. Len(batch)
      BY <1>1, <1>2
  <2>2. batch'[a] = batch[a + 1] /\ batch'[a - 1] = batch[a]
      BY <1>2, <2>1
  <2>3. batch[a + 1].line = batch[a].line + 1
      BY <1>4, <2>1
  <2> QED BY <2>2, <2>3
<1>6. batch' # <<>> => /\ batch'[1].line = batch[1].line + 1
                       /\ LastLine(batch') = LastLine(batch)
  <2> SUFFICES ASSUME batch' # <<>>
               PROVE  batch'[1].line = batch[1].line + 1 /\ LastLine(batch') = LastLine(batch)
      OBVIOUS
  <2>1. /\ 1 \in 1 .. Len(batch) - 1 /\ 2 \in 2 .. Len(batch)
        /\ Len(batch) - 1 \in 1 .. Len(batch) - 1
      BY <1>1, <1>2
  <2>2. batch'[1] = batch[2] /\ batch'[Len(batch')] = batch[Len(batch)]
      BY <1>1, <1>2, <2>1
  <2>3. batch[2].line = batch[1].line + 1
      BY <1>4, <2>1
  <2> QED BY <2>2, <2>3 DEF LastLine
<1>7. batch' = <<>> => LastLine(batch) = batch[1].line
  <2>1. batch' = <<>> => Len(batch') = 0
      OBVIOUS
  <2>2. Len(batch) \in Nat /\ Len(batch') = Len(batch) - 1
      BY <1>1, <1>2
  <2>3. batch' = <<>> => Len(batch) = 1
      BY <2>1, <2>2
  <2> QED BY <2>3 DEF LastLine
\* The stream.
<1>8. ~lapsed => /\ \A i \in Lines : game[i] < fetched => i <= LastLine(batch)
                 /\ stream # <<>> => batch[1].line <= LastLine(stream) + 1
                 /\ stream = <<>> /\ FrontLine # 0 => batch[1].line <= FrontLine + 1
                 /\ Consecutive(stream)
                 /\ stream # <<>> /\ FrontLine # 0 => stream[1].line <= FrontLine + 1
    BY <1>1, <1>2
    DEF CompleteInv, BatchIsComplete, BatchContinues, StreamReachesClient
<1>9. ASSUME stream # <<>>, batch[1].line <= LastLine(stream), stream' = stream,
             ~lapsed
      PROVE  StreamReachesClient' /\ BatchContinues' /\ BatchIsComplete'
  <2>1. StreamReachesClient'
      BY <1>3, <1>8, <1>9 DEF StreamReachesClient, Consecutive
  <2>2. BatchContinues'
      BY <1>1, <1>6, <1>9 DEF BatchContinues, LastLine
  <2>3. BatchIsComplete'
    <3>1. LastLine(stream)' = LastLine(stream) /\ LastLine(batch)' = LastLine(batch')
        BY <1>9 DEF LastLine
    <3> QED BY <1>1, <1>2, <1>6, <1>7, <1>8, <1>9, <3>1 DEF BatchIsComplete
  <2> QED BY <2>1, <2>2, <2>3
<1>10. ASSUME NEW trimmed \in {0, 1},
              stream # <<>> => LastLine(stream) < batch[1].line,
              trimmed = 1 => stream # <<>>,
              stream' \in Seq(Entry), Len(stream') = Len(stream) + 1 - trimmed,
              \A k \in 1 .. Len(stream) - trimmed : stream'[k] = stream[k + trimmed],
              stream'[Len(stream) + 1 - trimmed] = batch[1],
              lapsed' = (lapsed \/ (trimmed = 1 /\ Unseen(stream[1]))),
              ~lapsed'
       PROVE  StreamReachesClient' /\ BatchContinues' /\ BatchIsComplete'
  <2>1. ~lapsed /\ (trimmed = 1 => ~Unseen(stream[1]))
      BY <1>10
  <2>2. stream' # <<>> /\ LastLine(stream') = batch[1].line
      BY <1>1, <1>10 DEF LastLine
  <2>3. stream # <<>> => batch[1].line = LastLine(stream) + 1
      BY <1>1, <1>8, <1>10, <2>1
  <2>4. Consecutive(stream')
    <3> SUFFICES ASSUME NEW a \in 2 .. Len(stream')
                 PROVE  stream'[a].line = stream'[a - 1].line + 1
        BY DEF Consecutive
    <3>1. a - 1 \in 1 .. Len(stream) - trimmed /\ stream'[a - 1] = stream[a - 1 + trimmed]
      <4>1. a \in 2 .. Len(stream) + 1 - trimmed /\ Len(stream) \in Nat
          BY <1>1, <1>10
      <4>2. a - 1 \in 1 .. Len(stream) - trimmed
          BY <4>1
      <4> QED BY <1>10, <4>2
    <3>2. CASE a \in 1 .. Len(stream) - trimmed
      <4>1. a + trimmed \in 2 .. Len(stream) /\ stream'[a] = stream[a + trimmed]
          BY <1>1, <1>10, <3>2
      <4>2. stream[a + trimmed].line = stream[(a + trimmed) - 1].line + 1
          BY <1>8, <2>1, <4>1 DEF Consecutive
      <4>3. (a + trimmed) - 1 = a - 1 + trimmed
          BY <3>1
      <4> QED BY <3>1, <4>1, <4>2, <4>3
    <3>3. CASE a = Len(stream) + 1 - trimmed
      <4>1. stream # <<>> /\ a - 1 + trimmed = Len(stream)
          BY <1>1, <1>10, <3>1, <3>3
      <4> QED BY <1>10, <2>3, <3>1, <3>3, <4>1 DEF LastLine
    <3>4. a \in 1 .. Len(stream) - trimmed \/ a = Len(stream) + 1 - trimmed
        BY <1>1, <1>10
    <3> QED BY <3>2, <3>3, <3>4
  <2>5. ASSUME FrontLine # 0 PROVE stream'[1].line <= FrontLine + 1
    <3>1. CASE stream = <<>>
      <4>1. Len(stream) = 0 /\ trimmed = 0
          BY <1>10, <3>1
      <4> QED BY <1>8, <1>10, <2>1, <2>5, <3>1, <4>1
    <3>2. CASE stream # <<>> /\ trimmed = 0
      <4>1. 1 \in 1 .. Len(stream) - trimmed
          BY <1>1, <3>2
      <4>2. stream'[1] = stream[1 + trimmed]
          BY <1>10, <4>1
      <4> QED BY <1>8, <2>1, <2>5, <3>2, <4>2
    <3>3. CASE stream # <<>> /\ trimmed = 1
      <4>1. /\ 1 \in DOMAIN stream /\ stream[1] \in Entry /\ stream[1].line \in Nat
            /\ stream[1].id = Id(stream[1].line)
          BY <1>0, <1>1, <3>3, GotFacts DEF OrderInv, Tagged
      <4>2. FrontLine \in Lines /\ Front = Id(FrontLine) /\ Front # NoId
          BY <1>0, <2>5, FrontFacts
      <4>3. stream[1].line <= FrontLine
        <5>1. ~(FrontLine < stream[1].line)
            BY <1>0, <2>1, <3>3, <4>1, <4>2, GreaterIsLater DEF Unseen
        <5> QED BY <1>3, <4>1, <5>1
      <4>4. stream'[1].line = stream[1].line + 1
        <5>1. CASE Len(stream) = 1
          <6>1. Len(stream) + 1 - trimmed = 1 /\ LastLine(stream) = stream[1].line
              BY <3>3, <5>1 DEF LastLine
          <6> QED BY <1>10, <2>3, <3>3, <6>1
        <5>2. CASE Len(stream) # 1
          <6>1. 1 \in 1 .. Len(stream) - trimmed /\ 2 \in 2 .. Len(stream)
            <7>1. Len(stream) \in Nat /\ Len(stream) # 0
                BY <1>1, <3>3
            <7>2. Len(stream) >= 2 /\ Len(stream) - trimmed = Len(stream) - 1
                BY <3>3, <5>2, <7>1
            <7> QED BY <7>1, <7>2
          <6>2. stream'[1] = stream[1 + trimmed] /\ 1 + trimmed = 2
              BY <1>10, <3>3, <6>1
          <6>3. stream[2].line = stream[2 - 1].line + 1
              BY <1>8, <2>1, <6>1 DEF Consecutive
          <6> QED BY <6>2, <6>3
        <5> QED BY <5>1, <5>2
      <4> QED BY <1>3, <4>1, <4>3, <4>4
    <3> QED BY <3>1, <3>2, <3>3
  <2>6. StreamReachesClient'
      BY <1>3, <2>4, <2>5 DEF StreamReachesClient, Consecutive
  <2>7. BatchContinues'
    <3>1. LastLine(stream)' = batch[1].line
        BY <2>2 DEF LastLine
    <3> QED BY <1>1, <1>6, <2>2, <3>1 DEF BatchContinues
  <2>8. BatchIsComplete'
    <3>1. LastLine(stream)' = batch[1].line /\ LastLine(batch)' = LastLine(batch')
        BY <2>2 DEF LastLine
    <3> QED BY <1>2, <1>6, <1>7, <1>8, <2>1, <3>1 DEF BatchIsComplete
  <2> QED BY <2>6, <2>7, <2>8
<1>11. ~lapsed' => ~lapsed /\ StreamReachesClient' /\ BatchContinues' /\ BatchIsComplete'
  <2>1. CASE stream # <<>> /\ batch[1].line <= LastLine(stream) /\ stream' = stream
             /\ lapsed' = lapsed
      BY <1>8, <2>1, <1>9
  <2>2. CASE \E trimmed \in {0, 1} :
                /\ stream # <<>> => LastLine(stream) < batch[1].line
                /\ trimmed = 1 => Len(stream) >= StreamSize /\ stream # <<>>
                /\ stream' \in Seq(Entry) /\ Len(stream') = Len(stream) + 1 - trimmed
                /\ \A k \in 1 .. Len(stream) - trimmed : stream'[k] = stream[k + trimmed]
                /\ stream'[Len(stream) + 1 - trimmed] = batch[1]
                /\ lapsed' = (lapsed \/ (trimmed = 1 /\ Unseen(stream[1])))
      BY <1>10, <2>2
  <2> QED BY <1>0, <2>1, <2>2, AddFacts
<1>12. ~lapsed => ReadIsNext' /\ NoneMissed'
    BY <1>2, ClientStays DEF CompleteInv
<1>13. LaterFetch' /\ StreamIsComplete'
    BY <1>2 DEF CompleteInv, LaterFetch, StreamIsComplete
<1> QED BY <1>0, <1>5, <1>11, <1>12, <1>13 DEF CompleteInv, Consecutive

LEMMA OtherProducerStepsKeepComplete ==
    ASSUME CompleteInv, Start \/ EndBatch \/ Crash
    PROVE  CompleteInv'
<1>1. OrderInv'
    BY OtherProducerStepsKeepOrder DEF CompleteInv
<1>2. UNCHANGED consumer /\ UNCHANGED gameVars /\ lapsed' = lapsed
    BY DEF Start, EndBatch, Crash
<1>3. game' = game /\ Lines' = Lines /\ FrontLine' = FrontLine
    BY <1>2, ClientStays, SameGame
<1>4. ~lapsed => ReadIsNext' /\ NoneMissed'
    BY <1>2, ClientStays DEF CompleteInv
<1>5. Consecutive(<<>>)
  <2>1. 2 .. Len(<<>>) = {}
      OBVIOUS
  <2> QED BY <2>1 DEF Consecutive
<1>6. CASE Start
  <2>1. stream' = <<>> /\ pc' = "fetch" /\ batch' = batch
      BY <1>6 DEF Start
  <2>2. Consecutive(batch)' /\ LaterFetch'
      BY <2>1 DEF CompleteInv, Consecutive, LaterFetch
  <2>3. StreamReachesClient' /\ BatchContinues' /\ BatchIsComplete' /\ StreamIsComplete'
      BY <1>5, <2>1
      DEF StreamReachesClient, BatchContinues, BatchIsComplete, StreamIsComplete, Consecutive
  <2> QED BY <1>1, <1>2, <1>4, <2>2, <2>3 DEF CompleteInv
<1>7. CASE EndBatch
  <2>1. /\ pc = "add" /\ batch = <<>> /\ pc' = "fetch" /\ sure' = fetched
        /\ stream' = stream /\ batch' = batch /\ since' = since
      BY <1>7 DEF EndBatch
  <2>2. Consecutive(batch)' /\ LaterFetch'
      BY <2>1 DEF CompleteInv, Consecutive, LaterFetch
  <2>3. ~lapsed => StreamReachesClient'
      BY <1>3, <2>1 DEF CompleteInv, StreamReachesClient, Consecutive
  <2>4. BatchContinues' /\ BatchIsComplete'
      BY <2>1 DEF BatchContinues, BatchIsComplete
  <2>5. ~lapsed => StreamIsComplete'
      BY <1>3, <2>1 DEF CompleteInv, BatchIsComplete, StreamIsComplete, LastLine
  <2> QED BY <1>1, <1>2, <1>4, <2>2, <2>3, <2>4, <2>5 DEF CompleteInv
<1>8. CASE Crash
  <2>1. pc' = "start" /\ batch' = <<>> /\ stream' = stream
      BY <1>8 DEF Crash
  <2>2. Consecutive(batch)' /\ LaterFetch'
      BY <1>5, <2>1 DEF Consecutive, LaterFetch
  <2>3. ~lapsed => StreamReachesClient'
      BY <1>3, <2>1 DEF CompleteInv, StreamReachesClient, Consecutive
  <2>4. BatchContinues' /\ BatchIsComplete' /\ StreamIsComplete'
      BY <2>1 DEF BatchContinues, BatchIsComplete, StreamIsComplete
  <2> QED BY <1>1, <1>2, <1>4, <2>2, <2>3, <2>4 DEF CompleteInv
<1> QED BY <1>6, <1>7, <1>8

\* What a step of the consumer has to keep: the client does not go back, unless
\* to a first line that was on its way.
LEMMA ConsumerKeepsComplete ==
    ASSUME CompleteInv, UNCHANGED <<gameVars, producer, lapsed>>, OrderInv',
           ~lapsed /\ stream # <<>> /\ FrontLine' # 0 => stream[1].line <= FrontLine' + 1,
           ~lapsed /\ pc = "add" /\ batch # <<>> /\ stream = <<>> /\ FrontLine' # 0
               => batch[1].line <= FrontLine' + 1,
           ~lapsed => ReadIsNext' /\ NoneMissed'
    PROVE  CompleteInv'
<1>1. /\ game' = game /\ Lines' = Lines
      /\ UNCHANGED <<stream, batch, pc, since, fetched, sure, lapsed>>
    BY SameGame DEF producer
<1>2. Consecutive(batch)' /\ LaterFetch'
    BY <1>1 DEF CompleteInv, Consecutive, LaterFetch
<1>3. ~lapsed => StreamReachesClient'
    BY <1>1 DEF CompleteInv, StreamReachesClient, Consecutive
<1>4. ~lapsed => BatchContinues'
    BY <1>1 DEF CompleteInv, BatchContinues, LastLine
<1>5. ~lapsed => BatchIsComplete' /\ StreamIsComplete'
    BY <1>1 DEF CompleteInv, BatchIsComplete, StreamIsComplete, LastLine
<1> QED BY <1>1, <1>2, <1>3, <1>4, <1>5 DEF CompleteInv

LEMMA ReadKeepsComplete ==
    ASSUME CompleteInv, Read
    PROVE  CompleteInv'
<1>0. OrderInv /\ OrderInv'
    BY ReadKeepsOrder DEF CompleteInv
<1>1. /\ UNCHANGED <<gameVars, producer, clientSeen, received, lapsed>>
      /\ outbox = <<>> /\ stream # <<>> /\ stream \in Seq(Entry)
      /\ outbox' \in Seq(Entry) /\ outbox' # <<>>
    BY <1>0, ReadFacts DEF Read, OrderInv, TypeOK
<1>2. Got' = Got /\ Got \in Nat /\ (received = <<>> <=> Got = 0)
    BY <1>0, <1>1, FrontFacts, GotFacts DEF Got
<1>3. \A k \in DOMAIN stream : stream[k].line \in Nat
    BY <1>0, <1>1, GotFacts
<1>4. NoneMissed'
    BY <1>1 DEF CompleteInv, NoneMissed
<1>5. CASE Got = 0
  <2>1. outbox' = <<stream[Len(stream)]>>
      BY <1>0, <1>5, ReadFacts
  <2>2. FrontLine' = stream[Len(stream)].line
      BY <1>1, <1>2, <1>5, <2>1 DEF FrontLine
  <2>3. 1 \in DOMAIN stream /\ Len(stream) \in DOMAIN stream
        /\ (1 < Len(stream) \/ 1 = Len(stream))
    <3>1. DOMAIN stream = 1 .. Len(stream) /\ Len(stream) \in Nat /\ Len(stream) # 0
        BY <1>1
    <3> QED BY <3>1
  <2>4. stream[1].line <= FrontLine' + 1
    <3>1. 1 < Len(stream) => stream[1].line < stream[Len(stream)].line
        BY <1>0, <2>3 DEF OrderInv, Rising
    <3> QED BY <1>3, <2>2, <2>3, <3>1
  <2>5. ReadIsNext'
    <3>1. Len(outbox') = 1 /\ 2 .. 1 = {}
        BY <2>1
    <3> QED BY <1>2, <1>5, <3>1 DEF ReadIsNext, Consecutive
  <2> QED BY <1>0, <1>1, <1>4, <2>4, <2>5, ConsumerKeepsComplete
<1>6. CASE Got # 0
  <2>1. FrontLine' = FrontLine
      BY <1>1, <1>2, <1>6 DEF FrontLine
  <2>2. FrontLine = Got
      BY <1>0, <1>6, FrontFacts
  <2>3. PICK k \in DOMAIN stream :
           /\ \A i \in DOMAIN stream : i >= k <=> Got < stream[i].line
           /\ Len(outbox') = Len(stream) - k + 1
           /\ \A n \in 1 .. Len(stream) - k + 1 : outbox'[n] = stream[n + k - 1]
      BY <1>0, <1>6, ReadFacts
  <2>4. DOMAIN stream = 1 .. Len(stream) /\ Len(stream) \in Nat
      BY <1>1
  <2>5. ASSUME ~lapsed PROVE ReadIsNext'
    <3>1. \A a \in 2 .. Len(stream) : stream[a].line = stream[a - 1].line + 1
        BY <2>5 DEF CompleteInv, StreamReachesClient, Consecutive
    <3>2. Consecutive(outbox')
      <4> SUFFICES ASSUME NEW a \in 2 .. Len(outbox')
                   PROVE  outbox'[a].line = outbox'[a - 1].line + 1
          BY DEF Consecutive
      <4>1. /\ a \in 1 .. Len(stream) - k + 1 /\ a - 1 \in 1 .. Len(stream) - k + 1
            /\ a + k - 1 \in 2 .. Len(stream) /\ (a + k - 1) - 1 = (a - 1) + k - 1
          BY <2>3, <2>4
      <4>2. outbox'[a] = stream[a + k - 1] /\ outbox'[a - 1] = stream[(a - 1) + k - 1]
          BY <2>3, <4>1
      <4>3. stream[a + k - 1].line = stream[(a + k - 1) - 1].line + 1
          BY <3>1, <4>1
      <4> QED BY <4>1, <4>2, <4>3
    <3>3. outbox'[1] = stream[k]
      <4>1. 1 \in 1 .. Len(stream) - k + 1 /\ 1 + k - 1 = k
          BY <2>4
      <4> QED BY <2>3, <4>1
    <3>4. Got < stream[k].line
        BY <2>3, <2>4
    <3>5. stream[k].line <= Got + 1
      <4>1. CASE k = 1
          BY <1>1, <1>6, <2>2, <2>5, <4>1 DEF CompleteInv, StreamReachesClient
      <4>2. CASE k # 1
        <5>1. k - 1 \in DOMAIN stream /\ k \in 2 .. Len(stream) /\ ~(k - 1 >= k)
            BY <2>4, <4>2
        <5>2. ~(Got < stream[k - 1].line) /\ stream[k].line = stream[k - 1].line + 1
            BY <2>3, <3>1, <5>1
        <5>3. stream[k - 1].line \in Nat
            BY <1>3, <5>1
        <5> QED BY <1>2, <5>2, <5>3
      <4> QED BY <4>1, <4>2
    <3>6. stream[k].line = Got + 1
        BY <1>2, <1>3, <3>4, <3>5
    <3> QED BY <1>2, <3>2, <3>3, <3>6 DEF ReadIsNext, Consecutive
  <2>6. ~lapsed => stream[1].line <= FrontLine + 1
      BY <1>1, <1>6, <2>2 DEF CompleteInv, StreamReachesClient
  <2> QED BY <1>0, <1>1, <1>4, <2>1, <2>5, <2>6, ConsumerKeepsComplete
<1> QED BY <1>5, <1>6

LEMMA SendKeepsComplete ==
    ASSUME CompleteInv, Send
    PROVE  CompleteInv'
<1>0. OrderInv /\ OrderInv'
    BY SendKeepsOrder DEF CompleteInv
<1>1. UNCHANGED <<gameVars, producer, lastSeen, lapsed>>
    BY DEF Send
<1>2. /\ outbox # <<>> /\ Got' = outbox[1].line /\ Got' # 0 /\ Got < Got'
      /\ Len(received') = Len(received) + 1 /\ received'[Len(received) + 1] = Got'
      /\ \A k \in 1 .. Len(received) : received'[k] = received[k]
      /\ outbox' \in Seq(Entry) /\ Len(outbox') = Len(outbox) - 1
      /\ \A k \in 1 .. Len(outbox) - 1 : outbox'[k] = outbox[k + 1]
    BY <1>0, SendFacts
<1>3. /\ Got \in Nat /\ Got' \in Nat /\ received \in Seq(Lines) /\ outbox \in Seq(Entry)
      /\ (received = <<>> <=> Got = 0) /\ \A i \in Lines : i \in Nat
    BY <1>0, FrontFacts, GotFacts, SendFacts DEF OrderInv, TypeOK
<1>4. received' # <<>>
    BY <1>2, <1>3
<1>5. FrontLine' = Got'
    BY <1>4 DEF FrontLine
<1>6. FrontLine # 0 /\ FrontLine <= FrontLine' /\ FrontLine \in Nat
    BY <1>2, <1>3, <1>5 DEF FrontLine
<1>7. /\ stream # <<>> => stream[1].line \in Nat
      /\ batch # <<>> => batch[1].line \in Nat
  <2>1. stream \in Seq(Entry) /\ batch \in Seq(Entry)
      BY <1>0 DEF OrderInv, TypeOK
  <2>2. (stream # <<>> => 1 \in DOMAIN stream) /\ (batch # <<>> => 1 \in DOMAIN batch)
      BY <2>1
  <2> QED BY <1>0, <2>1, <2>2, GotFacts
<1>8. ~lapsed /\ stream # <<>> => stream[1].line <= FrontLine' + 1
    BY <1>3, <1>5, <1>6, <1>7 DEF CompleteInv, StreamReachesClient
<1>9. ~lapsed /\ pc = "add" /\ batch # <<>> /\ stream = <<>> => batch[1].line <= FrontLine' + 1
    BY <1>3, <1>5, <1>6, <1>7 DEF CompleteInv, BatchContinues
<1>10. ASSUME ~lapsed PROVE NoneMissed'
  <2> SUFFICES ASSUME NEW a \in 2 .. Len(received')
               PROVE  received'[a] = received'[a - 1] + 1
      BY DEF NoneMissed
  <2>1. Len(received) \in Nat /\ a - 1 \in 1 .. Len(received)
      BY <1>2, <1>3
  <2>2. CASE a \in 2 .. Len(received)
    <3>1. received[a] = received[a - 1] + 1
        BY <1>10, <2>2 DEF CompleteInv, NoneMissed
    <3> QED BY <1>2, <2>1, <2>2, <3>1
  <2>3. CASE a = Len(received) + 1
    <3>1. received # <<>> /\ Got = received[a - 1] /\ Got # 0
        BY <1>3, <2>1, <2>3 DEF Got
    <3>2. outbox[1].line = Got + 1
        BY <1>2, <1>10, <3>1 DEF CompleteInv, ReadIsNext
    <3> QED BY <1>2, <2>1, <2>3, <3>1, <3>2
  <2> QED BY <1>2, <2>1, <2>2, <2>3
<1>11. ASSUME ~lapsed PROVE ReadIsNext'
  <2>1. \A a \in 2 .. Len(outbox) : outbox[a].line = outbox[a - 1].line + 1
      BY <1>11 DEF CompleteInv, ReadIsNext, Consecutive
  <2>2. Len(outbox) \in Nat
      BY <1>3
  <2>3. Consecutive(outbox')
    <3> SUFFICES ASSUME NEW a \in 2 .. Len(outbox')
                 PROVE  outbox'[a].line = outbox'[a - 1].line + 1
        BY DEF Consecutive
    <3>1. a \in 1 .. Len(outbox) - 1 /\ a - 1 \in 1 .. Len(outbox) - 1 /\ a + 1 \in 2 .. Len(outbox)
        BY <1>2, <2>2
    <3>2. outbox'[a] = outbox[a + 1] /\ outbox'[a - 1] = outbox[a]
        BY <1>2, <3>1
    <3>3. outbox[a + 1].line = outbox[a].line + 1
        BY <2>1, <3>1
    <3> QED BY <3>2, <3>3
  <2>4. outbox' # <<>> => outbox'[1].line = Got' + 1
    <3> SUFFICES ASSUME outbox' # <<>> PROVE outbox'[1].line = Got' + 1
        OBVIOUS
    <3>0. Len(outbox') \in Nat /\ Len(outbox') # 0
        BY <1>2
    <3>1. 1 \in 1 .. Len(outbox) - 1 /\ 2 \in 2 .. Len(outbox)
        BY <1>2, <2>2, <3>0
    <3>2. outbox'[1] = outbox[2] /\ outbox[2].line = outbox[1].line + 1
        BY <1>2, <2>1, <3>1
    <3> QED BY <1>2, <3>2
  <2> QED BY <2>3, <2>4 DEF ReadIsNext, Consecutive
<1> QED BY <1>0, <1>1, <1>8, <1>9, <1>10, <1>11, ConsumerKeepsComplete

LEMMA ReconnectKeepsComplete ==
    ASSUME CompleteInv, Reconnect
    PROVE  CompleteInv'
<1>0. OrderInv /\ OrderInv'
    BY ReconnectKeepsOrder DEF CompleteInv
<1>1. /\ UNCHANGED <<gameVars, producer, clientSeen, received, lapsed>>
      /\ outbox' = <<>>
    BY DEF Reconnect
<1>2. Got' = Got /\ FrontLine' = Got
    BY <1>1 DEF Got, FrontLine
<1>3. FrontLine' # 0 => FrontLine = FrontLine'
    BY <1>0, <1>2, FrontFacts
<1>4. ~lapsed => ReadIsNext' /\ NoneMissed'
  <2>1. 2 .. Len(<<>>) = {}
      OBVIOUS
  <2> QED BY <1>1, <2>1 DEF CompleteInv, ReadIsNext, Consecutive, NoneMissed
<1> QED
    BY <1>0, <1>1, <1>3, <1>4, ConsumerKeepsComplete
    DEF CompleteInv, StreamReachesClient, BatchContinues

LEMMA StepComplete ==
    ASSUME CompleteInv, [Next]_vars
    PROVE  CompleteInv'
<1>1. CASE UNCHANGED vars
  <2>1. UNCHANGED <<gameVars, producer, consumer, lapsed>>
      BY <1>1 DEF vars
  <2>2. FrontLine' = FrontLine /\ (~lapsed => ReadIsNext' /\ NoneMissed')
      BY <2>1, ClientStays DEF CompleteInv
  <2>3. OrderInv'
      BY <1>1, StepOrder DEF CompleteInv
  <2> QED
      BY <2>1, <2>2, <2>3, ConsumerKeepsComplete
      DEF CompleteInv, StreamReachesClient, BatchContinues
<1> QED
    BY <1>1, GameKeepsComplete, FetchKeepsComplete, AddKeepsComplete,
       OtherProducerStepsKeepComplete, ReadKeepsComplete, SendKeepsComplete,
       ReconnectKeepsComplete DEF Next

LEMMA CompleteAlways == Spec => []CompleteInv
BY InitComplete, StepComplete, PTL DEF Spec

-----------------------------------------------------------------------------
(* Theorems.                                                               *)

\* Every variable of LogStream stays within its type.
THEOREM StreamTypeCorrect == Spec => []TypeOK
<1>1. OrderInv => TypeOK
    BY DEF OrderInv
<1> QED BY <1>1, OrderAlways, PTL

\* Whatever the size of the stream and the windows, over every death of the
\* process and every lost connection, the lines a client receives ascend.
THEOREM LinesAreReceivedInOrder == Spec => []ReceivedOnceInOrder
<1>1. OrderInv => ReceivedOnceInOrder
    BY DEF OrderInv
<1> QED BY <1>1, OrderAlways, PTL

\* As long as no fetch came too late and nothing the client had not seen was
\* trimmed or emptied, it receives every line after its first one.
THEOREM NoLineIsSkipped == Spec => []NoneMissed
<1>1. CompleteInv => NoneMissed
    BY DEF CompleteInv, NoneMissed
<1> QED BY <1>1, CompleteAlways, PTL
=============================================================================

------------------------------ MODULE VipsProofs ------------------------------
(***************************************************************************)
(* Proofs about Vips for every number of players, of processes that serve  *)
(* requests, of failures, and every set of uploads.                        *)
(*                                                                         *)
(* VipLastsAsGiven is not inductive: that nobody takes the VIP away needs  *)
(* that no call is left that would (LastInv), and for this that a job's    *)
(* adds come last and are of different players (AddsLast), and that the    *)
(* service asks for the rows, which never say less than was given.  What a *)
(* job leaves is what it has done with what it has yet to do (Left): it    *)
(* holds of every player while the job works, and is the result when       *)
(* nothing is left.                                                        *)
(***************************************************************************)
EXTENDS Vips, FiniteSetTheorems, TLAPS

-----------------------------------------------------------------------------
(***************************************************************************)
(* The calls there are, and the steps of each.                             *)
(***************************************************************************)
Adds == [do : {"add"}, player : Players, till : Expirations]
Removes == [do : {"remove"}, player : Players, till : {None}]
Wholes == [do : {"list", "replace", "reconcile"}, player : {Nobody}, till : {None}]
Calls == Adds \cup Removes \cup Wholes

StepsOf(call) ==
    CASE call.do \in {"add", "remove"} -> {"clear", "send", "record"}
      [] call.do = "list" -> {"ask", "read", "store"}
      [] OTHER -> {"query"}

ReplaceCall == Call("replace", Nobody, None)

TypeInv ==
    /\ now \in 0 .. MaxTime /\ faults \in 0 .. MaxFaults
    /\ vips \subseteq Players
    /\ rows \in [Players -> Expirations \cup {None}]
    /\ given \in [Players -> Expirations \cup {None}]
    /\ cache \in Lists \cup {Nothing}
    /\ calls \in [Processes -> Seq(Calls)]
    /\ at \in [Processes -> {"clear", "send", "record", "ask", "read", "store", "query"}]
    /\ list \in [Processes -> Lists]
    /\ alone \in [Processes -> BOOLEAN] /\ fresh \in [Processes -> BOOLEAN]
    /\ target \in [Processes -> Uploads \cup {<<>>, Nothing}]

\* After an add there are but adds, of other players.
AddsLast(todo) ==
    \A i, j \in DOMAIN todo :
        i < j /\ todo[i] \in Adds => todo[j] \in Adds /\ todo[j].player # todo[i].player

\* What a list is read for comes next.
ListThenUse(todo) ==
    \A i \in DOMAIN todo : todo[i].do = "list" =>
        i + 1 \in DOMAIN todo /\ todo[i + 1].do \in {"replace", "reconcile"}

Ordered(todo) == AddsLast(todo) /\ ListThenUse(todo)

\* Where the processes are.
ShapeInv ==
    /\ \A q \in Processes : at[q] \in IF Busy(q) THEN StepsOf(Head(calls[q])) ELSE {"query"}
    /\ \A q \in Processes \ {Log} : Ordered(calls[q])
    /\ \A q \in Processes : \A i \in DOMAIN calls[q] :
          calls[q][i].do = "replace" => target[q] # Nothing
    /\ calls[Log] \in {<<>>, <<ListCall>>} /\ (Busy(Log) => at[Log] = "store")

\* Who is alone is, and knows what its command has done.
AloneInv ==
    \A q \in Processes : alone[q] =>
        /\ q # Log
        /\ \A r \in Processes \ {q, Log} : ~Busy(r)
        /\ at[q] = "record" =>
              (Head(calls[q]).player \in vips <=> Head(calls[q]).do = "add")

\* Nothing in calls concerns p.
Spared(todo, p) == \A i \in DOMAIN todo : todo[i].player # p /\ todo[i].do # "replace"

LastInv ==
    \A p \in Players : given[p] # None /\ now <= given[p] =>
        /\ p \in vips /\ rows[p] # None /\ rows[p] >= given[p]
        /\ \A q \in Processes : Spared(calls[q], p)

\* A bulk job that nothing disturbs asks for the VIPs, has them, or has yet to
\* remove and add some of them.
Asking(q) ==
    /\ calls[q] = <<ListCall, ReplaceCall>>
    /\ cache # Nothing => DOMAIN cache = vips
    /\ at[q] = "store" => DOMAIN list[q] = vips
    /\ Busy(Log) => DOMAIN list[Log] = vips

Replacing(q) == calls[q] = <<ReplaceCall>> /\ DOMAIN list[q] = vips

Left(todo, p, upload, there, row) ==
    \/ \E i \in DOMAIN todo : todo[i].player = p /\ todo[i] \in Adds
    \/ \E i \in DOMAIN todo : todo[i].player = p /\ p \notin DOMAIN upload
    \/ /\ \A i \in DOMAIN todo : todo[i].player # p
       /\ there <=> p \in DOMAIN upload
       /\ there => row = upload[p]

Working(q) ==
    /\ \A i \in DOMAIN calls[q] : calls[q][i] \in Adds \cup Removes
    /\ \A i \in DOMAIN calls[q] : calls[q][i] \in Adds =>
          calls[q][i].player \in DOMAIN target[q] /\ calls[q][i].till = target[q][calls[q][i].player]
    /\ \A p \in Players : Left(calls[q], p, target[q], p \in vips, rows[p])

BulkInv ==
    \A q \in Processes : alone[q] /\ fresh[q] /\ target[q] # Nothing =>
        Asking(q) \/ Replacing(q) \/ Working(q)

IInv == TypeInv /\ ShapeInv /\ AloneInv /\ LastInv /\ BulkInv

\* SetToSeq enumerates a finite set.
LEMMA SetToSeqFacts ==
    ASSUME NEW S, IsFiniteSet(S)
    PROVE  /\ SetToSeq(S) \in Seq(S)
           /\ \A a, b \in DOMAIN SetToSeq(S) : SetToSeq(S)[a] = SetToSeq(S)[b] => a = b
           /\ \A x \in S : \E i \in DOMAIN SetToSeq(S) : SetToSeq(S)[i] = x
<1> DEFINE n == Cardinality(S)
<1>1. n \in Nat /\ ExistsBijection(1 .. n, S)
    BY FS_CardinalityType
<1>2. PICK f : f \in Bijection(1 .. n, S)
    BY <1>1 DEF ExistsBijection
<1>3. f \in [1 .. n -> S] /\ IsInjective(f)
    BY <1>2 DEF Bijection, Injection
<1> DEFINE g == SetToSeq(S)
<1>4. g \in [1 .. n -> S] /\ IsInjective(g)
    BY <1>3 DEF SetToSeq
<1>5. g \in Injection(1 .. n, S)
    BY <1>4 DEF Injection
<1> HIDE DEF g
<1> DEFINE R == {g[i] : i \in 1 .. n}
<1>6. IsFiniteSet(1 .. n) /\ Cardinality(1 .. n) = n
    BY <1>1, FS_Interval
<1>7. g \in Surjection(1 .. n, R) /\ g \in Injection(1 .. n, R)
    BY <1>4, <1>5 DEF Surjection, Injection
<1>8. Cardinality(R) = n
    BY <1>6, <1>7, FS_Surjection
<1>9. R = S
  <2>1. R \in SUBSET S
      BY <1>4
  <2> HIDE DEF R
  <2> QED BY <1>8, <2>1, FS_Subset
<1>10. g \in Seq(S) /\ DOMAIN g = 1 .. n
    BY <1>1, <1>4
<1>11. \A x \in S : \E i \in DOMAIN g : g[i] = x
    BY <1>9, <1>10
<1> QED BY <1>4, <1>10, <1>11 DEF IsInjective, g

-----------------------------------------------------------------------------
LEMMA CallFacts ==
    ASSUME NEW c \in Calls
    PROVE  /\ c \in Adds <=> c.do = "add"
           /\ c \in Removes <=> c.do = "remove"
           /\ c.do \in {"add", "remove"} <=> c.player \in Players
           /\ c.do \in {"add", "remove", "list", "replace", "reconcile"}
           /\ c \notin Adds => c.till = None
           /\ c \in Adds => c.till \in Expirations /\ c.till # None
           /\ c.till \in Expirations \cup {None}
BY VipsAssumption DEF Calls, Adds, Removes, Wholes, None, Expirations, Indefinite

LEMMA FixedCalls ==
    /\ ListCall \in Calls /\ ReplaceCall \in Calls /\ Call("reconcile", Nobody, None) \in Calls
    /\ ListCall.do = "list" /\ ReplaceCall.do = "replace"
    /\ ListCall.player = Nobody /\ ReplaceCall.player = Nobody
    /\ ListCall # ReplaceCall
BY DEF ListCall, ReplaceCall, Call, Calls, Wholes

LEMMA ProcessFacts ==
    /\ Log \in Processes /\ Expirer \in Processes /\ Requests \subseteq Processes
    /\ Expirer # Log /\ Log \notin Requests /\ Expirer \notin Requests
    /\ Nobody \notin Players
BY VipsAssumption DEF Processes

LEMMA EmptyList == <<>> \in Lists
<1>1. <<>> \in [{} -> BOOLEAN]
    BY SMT
<1> QED BY <1>1 DEF Lists

LEMMA ListFacts ==
    /\ Nothing \notin Lists
    /\ \A l \in Lists : DOMAIN l \subseteq Players
    /\ \A s \in SUBSET Players : [p \in s |-> FALSE] \in Lists
<1>1. ASSUME NEW l \in Lists PROVE DOMAIN l \subseteq Players
    BY <1>1 DEF Lists
<1>2. DOMAIN Nothing = {Nobody}
    BY DEF Nothing
<1>3. Nothing \notin Lists
    BY <1>1, <1>2, ProcessFacts
<1>4. ASSUME NEW s \in SUBSET Players PROVE [p \in s |-> FALSE] \in Lists
    BY <1>4 DEF Lists
<1> QED BY <1>1, <1>3, <1>4

LEMMA FirstStep ==
    ASSUME NEW c \in Calls
    PROVE  /\ Firsts[c.do] \in StepsOf(c) /\ Firsts[c.do] \notin {"record", "store"}
           /\ Firsts[c.do] \in {"clear", "ask", "query"}
           /\ StepsOf(c) \subseteq {"clear", "send", "record", "ask", "read", "store", "query"}
<1>1. c.do \in {"add", "remove", "list", "replace", "reconcile"}
    BY CallFacts
<1> QED BY <1>1 DEF Firsts, StepsOf

LEMMA TailFacts ==
    ASSUME NEW todo \in Seq(Calls), todo # <<>>
    PROVE  /\ Head(todo) \in Calls /\ Head(todo) = todo[1] /\ 1 \in DOMAIN todo
           /\ Tail(todo) \in Seq(Calls) /\ DOMAIN todo = 1 .. Len(todo) /\ Len(todo) \in Nat
           /\ \A i \in DOMAIN Tail(todo) : i + 1 \in DOMAIN todo /\ Tail(todo)[i] = todo[i + 1] /\ 1 < i + 1
           /\ \A i \in DOMAIN todo : i = 1 \/ (i - 1 \in DOMAIN Tail(todo) /\ Tail(todo)[i - 1] = todo[i])
           /\ Ordered(todo) => AddsLast(todo) /\ Ordered(Tail(todo))
           /\ \A p : Spared(todo, p) => Spared(Tail(todo), p)
<1>1. /\ Head(todo) \in Calls /\ Head(todo) = todo[1] /\ 1 \in DOMAIN todo
      /\ Tail(todo) \in Seq(Calls) /\ DOMAIN todo = 1 .. Len(todo) /\ Len(todo) \in Nat
      /\ DOMAIN Tail(todo) = 1 .. Len(todo) - 1
    BY SMT
<1>2. \A i \in DOMAIN Tail(todo) : i + 1 \in DOMAIN todo /\ Tail(todo)[i] = todo[i + 1] /\ 1 < i + 1
    BY <1>1
<1>3. \A i \in DOMAIN todo : i = 1 \/ (i - 1 \in DOMAIN Tail(todo) /\ Tail(todo)[i - 1] = todo[i])
  <2> SUFFICES ASSUME NEW i \in DOMAIN todo, i # 1
               PROVE  i - 1 \in DOMAIN Tail(todo) /\ Tail(todo)[i - 1] = todo[i]
      OBVIOUS
  <2>1. i - 1 \in 1 .. Len(todo) - 1 /\ (i - 1) + 1 = i
      BY <1>1
  <2> QED BY <1>1, <1>2, <2>1
<1>4. AddsLast(todo) => AddsLast(Tail(todo))
  <2> SUFFICES ASSUME AddsLast(todo), NEW i \in DOMAIN Tail(todo), NEW j \in DOMAIN Tail(todo),
                      i < j, Tail(todo)[i] \in Adds
               PROVE  Tail(todo)[j] \in Adds /\ Tail(todo)[j].player # Tail(todo)[i].player
      BY DEF AddsLast
  <2>1. i + 1 < j + 1
      BY <1>1
  <2> QED BY <1>2, <2>1 DEF AddsLast
<1>5. \A p : Spared(todo, p) => Spared(Tail(todo), p)
    BY <1>2 DEF Spared
<1>6. ListThenUse(todo) => ListThenUse(Tail(todo))
  <2> SUFFICES ASSUME ListThenUse(todo), NEW i \in DOMAIN Tail(todo), Tail(todo)[i].do = "list"
               PROVE  i + 1 \in DOMAIN Tail(todo) /\ Tail(todo)[i + 1].do \in {"replace", "reconcile"}
      BY DEF ListThenUse
  <2>1. i \in Nat /\ i + 1 \in DOMAIN todo /\ todo[i + 1].do = "list" /\ i + 1 \in Nat
      BY <1>1, <1>2
  <2>2. (i + 1) + 1 \in DOMAIN todo /\ todo[(i + 1) + 1].do \in {"replace", "reconcile"}
      BY <2>1 DEF ListThenUse
  <2>3. (i + 1) + 1 # 1 /\ ((i + 1) + 1) - 1 = i + 1
      BY <2>1
  <2> QED BY <1>3, <2>2, <2>3
<1> QED BY <1>1, <1>2, <1>3, <1>4, <1>5, <1>6 DEF Ordered

-----------------------------------------------------------------------------
(***************************************************************************)
(* A process has other calls than before, and begins the first of them.    *)
(***************************************************************************)
\* What the types and the shapes say when q has todo to do.
LEMMA TodoKeepsShape ==
    ASSUME TypeInv, ShapeInv, NEW q \in Processes, q # Log, NEW todo \in Seq(Calls), Todo(q, todo),
           Ordered(todo), target' \in [Processes -> Uploads \cup {<<>>, Nothing}],
           \A r \in Processes \ {q} : target'[r] = target[r],
           \A i \in DOMAIN todo : todo[i].do = "replace" => target'[q] # Nothing
    PROVE  /\ calls' \in [Processes -> Seq(Calls)] /\ calls'[q] = todo
           /\ at' \in [Processes -> {"clear", "send", "record", "ask", "read", "store", "query"}]
           /\ list' \in [Processes -> Lists]
           /\ at'[q] \notin {"record", "store"}
           /\ \A r \in Processes \ {q} :
                 calls'[r] = calls[r] /\ at'[r] = at[r] /\ list'[r] = list[r]
           /\ todo # <<>> => list'[q] = list[q]
           /\ ShapeInv'
<1>1. /\ calls \in [Processes -> Seq(Calls)] /\ list \in [Processes -> Lists]
      /\ at \in [Processes -> {"clear", "send", "record", "ask", "read", "store", "query"}]
    BY DEF TypeInv
<1> DEFINE first == IF todo = <<>> THEN "query" ELSE Firsts[Head(todo).do]
           left == IF todo = <<>> THEN <<>> ELSE list[q]
<1>2. /\ calls' = [calls EXCEPT ![q] = todo] /\ at' = [at EXCEPT ![q] = first]
      /\ list' = [list EXCEPT ![q] = left]
    BY DEF Todo
<1>3. /\ first \in IF todo # <<>> THEN StepsOf(Head(todo)) ELSE {"query"}
      /\ first \in {"clear", "ask", "query"}
  <2>1. CASE todo = <<>>
      BY <2>1
  <2>2. CASE todo # <<>>
    <3>1. Head(todo) \in Calls
        BY <2>2, TailFacts
    <3>2. Firsts[Head(todo).do] \in StepsOf(Head(todo)) /\ Firsts[Head(todo).do] \in {"clear", "ask", "query"}
        BY <3>1, FirstStep
    <3> QED BY <2>2, <3>2
  <2> QED BY <2>1, <2>2
<1>4. left \in Lists
    BY <1>1, EmptyList
<1> HIDE DEF first, left
<1>5. /\ calls' \in [Processes -> Seq(Calls)] /\ calls'[q] = todo /\ at'[q] = first
      /\ \A r \in Processes \ {q} :
            calls'[r] = calls[r] /\ at'[r] = at[r] /\ list'[r] = list[r]
    BY <1>1, <1>2
<1>6. list' \in [Processes -> Lists] /\ (todo # <<>> => list'[q] = list[q])
    BY <1>1, <1>2, <1>4 DEF left
<1>7. at' \in [Processes -> {"clear", "send", "record", "ask", "read", "store", "query"}]
    BY <1>1, <1>2, <1>3
<1>8. ShapeInv'
  <2>1. \A r \in Processes : at'[r] \in IF Busy(r)' THEN StepsOf(Head(calls'[r])) ELSE {"query"}
    <3>1. at'[q] \in IF calls'[q] # <<>> THEN StepsOf(Head(calls'[q])) ELSE {"query"}
        BY <1>3, <1>5
    <3>2. \A r \in Processes \ {q} : at'[r] \in IF calls'[r] # <<>> THEN StepsOf(Head(calls'[r])) ELSE {"query"}
        BY <1>5 DEF ShapeInv, Busy
    <3> QED BY <3>1, <3>2 DEF Busy
  <2>2. \A r \in Processes \ {Log} : Ordered(calls'[r])
      BY <1>5 DEF ShapeInv
  <2>3. \A r \in Processes : \A i \in DOMAIN calls'[r] :
            calls'[r][i].do = "replace" => target'[r] # Nothing
      BY <1>5 DEF ShapeInv
  <2>4. calls'[Log] \in {<<>>, <<ListCall>>} /\ (Busy(Log)' => at'[Log] = "store")
      BY <1>5, ProcessFacts DEF ShapeInv, Busy
  <2> QED BY <2>1, <2>2, <2>3, <2>4 DEF ShapeInv
<1> QED BY <1>3, <1>5, <1>6, <1>7, <1>8

\* A process that is alone begins as such: it is at no record, and the others idle.
LEMMA BeginKeeps ==
    ASSUME IInv, NEW q \in Requests \cup {Expirer}, NEW todo \in Seq(Calls),
           NEW upload \in Uploads \cup {<<>>, Nothing}, Begin(q, todo, upload),
           todo # <<>>, Ordered(todo),
           \A i \in DOMAIN todo : todo[i].do = "replace" => upload # Nothing,
           upload # Nothing => todo = <<ListCall, ReplaceCall>>,
           given' \in [Players -> Expirations \cup {None}],
           \A p \in Players : given'[p] \in {given[p], None},
           \A p \in Players : given'[p] # None /\ now <= given'[p] => Spared(todo, p)
    PROVE  IInv'
<1>1. /\ TypeInv /\ ShapeInv /\ AloneInv /\ LastInv /\ BulkInv
      /\ q \in Processes /\ q # Log /\ ~Busy(q) /\ Todo(q, todo)
      /\ target' = [target EXCEPT ![q] = upload]
      /\ alone' = [r \in Processes |-> r = q /\ \A s \in Processes \ {q, Log} : ~Busy(s)]
      /\ fresh' = [fresh EXCEPT ![q] = upload # Nothing /\ at[Log] # "store"
                                       /\ (cache = Nothing \/ DOMAIN cache = vips)]
      /\ UNCHANGED <<now, vips, rows, cache, faults>>
    BY ProcessFacts DEF IInv, Begin
<1>2. /\ target \in [Processes -> Uploads \cup {<<>>, Nothing}] /\ fresh \in [Processes -> BOOLEAN]
    BY <1>1 DEF TypeInv
<1>3. /\ target' \in [Processes -> Uploads \cup {<<>>, Nothing}] /\ target'[q] = upload
      /\ \A r \in Processes \ {q} : target'[r] = target[r]
    BY <1>1, <1>2
<1>4. fresh' \in [Processes -> BOOLEAN]
    BY <1>1, <1>2
<1>5. alone' \in [Processes -> BOOLEAN] /\ \A r \in Processes : alone'[r] => r = q
      /\ \A s \in Processes \ {q, Log} : ~Busy(s)
    BY <1>1
<1>6. /\ calls' \in [Processes -> Seq(Calls)] /\ calls'[q] = todo
      /\ at' \in [Processes -> {"clear", "send", "record", "ask", "read", "store", "query"}]
      /\ list' \in [Processes -> Lists]
      /\ at'[q] \notin {"record", "store"}
      /\ \A r \in Processes \ {q} : calls'[r] = calls[r] /\ at'[r] = at[r] /\ list'[r] = list[r]
      /\ ShapeInv'
    BY <1>1, <1>3, TodoKeepsShape
<1>7. TypeInv'
    BY <1>1, <1>3, <1>4, <1>5, <1>6 DEF TypeInv
<1>8. AloneInv'
  <2> SUFFICES ASSUME NEW r \in Processes, alone'[r]
               PROVE  /\ r # Log
                      /\ \A s \in Processes \ {r, Log} : calls'[s] = <<>>
                      /\ at'[r] # "record"
      BY DEF AloneInv, Busy
  <2>1. r = q
      BY <1>5
  <2> QED BY <1>1, <1>5, <1>6, <2>1 DEF Busy
<1>9. LastInv'
  <2> SUFFICES ASSUME NEW p \in Players, given'[p] # None, now <= given'[p]
               PROVE  /\ p \in vips /\ rows[p] # None /\ rows[p] >= given'[p]
                      /\ \A r \in Processes : Spared(calls'[r], p)
      BY <1>1 DEF LastInv
  <2>1. given'[p] = given[p]
      OBVIOUS
  <2>2. /\ p \in vips /\ rows[p] # None /\ rows[p] >= given[p]
        /\ \A r \in Processes : Spared(calls[r], p)
      BY <1>1, <2>1 DEF LastInv
  <2> QED BY <1>6, <2>1, <2>2
<1>10. ASSUME NEW r \in Processes, alone'[r], fresh'[r], target'[r] # Nothing
       PROVE  Asking(r)'
  <2>1. r = q
      BY <1>5, <1>10
  <2>2. upload # Nothing /\ at[Log] # "store" /\ (cache = Nothing \/ DOMAIN cache = vips)
      BY <1>1, <1>2, <1>3, <1>10, <2>1
  <2>3. ~Busy(Log)
      BY <1>1, <2>2 DEF ShapeInv
  <2>4. calls'[Log] = <<>>
      BY <1>1, <1>6, <2>3, ProcessFacts DEF Busy
  <2>5. calls'[r] = <<ListCall, ReplaceCall>> /\ at'[r] # "store"
      BY <1>6, <2>1, <2>2
  <2> QED BY <1>1, <2>2, <2>4, <2>5 DEF Asking, Busy
<1>11. BulkInv'
    BY <1>10 DEF BulkInv
<1> QED BY <1>6, <1>7, <1>8, <1>9, <1>11 DEF IInv

-----------------------------------------------------------------------------
(***************************************************************************)
(* What requests, jobs and the service have to do when they begin.         *)
(***************************************************************************)
LEMMA EachFacts ==
    ASSUME NEW players \in SUBSET Players
    PROVE  /\ Each("remove", players) \in Seq(Calls)
           /\ \A i \in DOMAIN Each("remove", players) :
                 /\ Each("remove", players)[i] \in Removes
                 /\ Each("remove", players)[i].player \in players
           /\ \A p \in players : \E i \in DOMAIN Each("remove", players) :
                 Each("remove", players)[i].player = p
<1> DEFINE order == SetToSeq(players)
           each == Each("remove", players)
<1>1. IsFiniteSet(players)
    BY VipsAssumption, FS_Subset
<1>2. /\ order \in Seq(players)
      /\ \A p \in players : \E i \in DOMAIN order : order[i] = p
    BY <1>1, SetToSeqFacts
<1>3. each = [i \in DOMAIN order |-> Call("remove", order[i], None)]
    BY DEF Each
<1> HIDE DEF order, each
<1>4. /\ DOMAIN order = 1 .. Len(order) /\ Len(order) \in Nat
      /\ \A i \in DOMAIN order : order[i] \in players
    BY <1>2
<1>5. \A i \in DOMAIN order : each[i] \in Removes /\ each[i].player = order[i]
    BY <1>3, <1>4 DEF Call, Removes
<1>6. each \in Seq(Calls) /\ DOMAIN each = DOMAIN order
  <2>1. \A i \in 1 .. Len(order) : Call("remove", order[i], None) \in Calls
      BY <1>3, <1>4, <1>5 DEF Calls
  <2> QED BY <1>3, <1>4, <2>1
<1>7. /\ \A i \in DOMAIN each : each[i] \in Removes /\ each[i].player \in players
      /\ \A p \in players : \E i \in DOMAIN each : each[i].player = p
    BY <1>2, <1>4, <1>5, <1>6
<1> QED BY <1>6, <1>7 DEF each

\* Each call of two lists, one after the other, is a call of one of them.
LEMMA JoinFacts ==
    ASSUME NEW s \in Seq(Calls), NEW t \in Seq(Calls)
    PROVE  /\ s \o t \in Seq(Calls) /\ DOMAIN s = 1 .. Len(s) /\ Len(s) \in Nat
           /\ \A i \in DOMAIN (s \o t) :
                 \/ i \in DOMAIN s /\ (s \o t)[i] = s[i]
                 \/ i - Len(s) \in DOMAIN t /\ (s \o t)[i] = t[i - Len(s)] /\ i > Len(s)
           /\ \A i \in DOMAIN s : i \in DOMAIN (s \o t) /\ (s \o t)[i] = s[i]
           /\ \A i \in DOMAIN t : i + Len(s) \in DOMAIN (s \o t) /\ (s \o t)[i + Len(s)] = t[i]
<1> DEFINE u == s \o t
<1>1. /\ u \in Seq(Calls) /\ Len(u) = Len(s) + Len(t) /\ Len(s) \in Nat /\ Len(t) \in Nat
      /\ DOMAIN s = 1 .. Len(s) /\ DOMAIN t = 1 .. Len(t) /\ DOMAIN u = 1 .. Len(s) + Len(t)
      /\ \A i \in 1 .. Len(s) + Len(t) : u[i] = IF i <= Len(s) THEN s[i] ELSE t[i - Len(s)]
    BY SMT
<1> HIDE DEF u
<1>2. ASSUME NEW i \in DOMAIN u
      PROVE  \/ i \in DOMAIN s /\ u[i] = s[i]
             \/ i - Len(s) \in DOMAIN t /\ u[i] = t[i - Len(s)] /\ i > Len(s)
    BY <1>1
<1>3. ASSUME NEW i \in DOMAIN s PROVE i \in DOMAIN u /\ u[i] = s[i]
    BY <1>1
<1>4. ASSUME NEW i \in DOMAIN t PROVE i + Len(s) \in DOMAIN u /\ u[i + Len(s)] = t[i]
  <2>1. i + Len(s) \in 1 .. Len(s) + Len(t) /\ ~(i + Len(s) <= Len(s)) /\ i + Len(s) - Len(s) = i
      BY <1>1
  <2> QED BY <1>1, <2>1
<1> QED BY <1>1, <1>2, <1>3, <1>4 DEF u

LEMMA OneCall ==
    ASSUME NEW c \in Calls, c.do # "list"
    PROVE  /\ <<c>> \in Seq(Calls) /\ <<c>> # <<>> /\ Ordered(<<c>>)
           /\ \A i \in DOMAIN <<c>> : <<c>>[i] = c
BY DEF Ordered, AddsLast, ListThenUse

LEMMA BulkCalls ==
    /\ <<ListCall, ReplaceCall>> \in Seq(Calls) /\ <<ListCall, ReplaceCall>> # <<>>
    /\ Ordered(<<ListCall, ReplaceCall>>)
<1> DEFINE l == ListCall
           r == ReplaceCall
<1>1. l \in Calls /\ r \in Calls /\ l \notin Adds /\ r \notin Adds /\ r.do = "replace"
    BY FixedCalls, CallFacts
<1> HIDE DEF l, r
<1>2. <<l, r>> \in Seq(Calls) /\ <<l, r>> # <<>> /\ AddsLast(<<l, r>>)
    BY <1>1 DEF AddsLast
<1>3. ListThenUse(<<l, r>>)
    BY <1>1 DEF ListThenUse
<1> QED BY <1>2, <1>3 DEF l, r, Ordered

LEMMA ForgetFacts ==
    ASSUME TypeInv, NEW players \in SUBSET Players, Forget(players)
    PROVE  /\ given' \in [Players -> Expirations \cup {None}]
           /\ \A p \in Players : given'[p] \in {given[p], None}
           /\ \A p \in players : given'[p] = None
BY DEF TypeInv, Forget

LEMMA RequestAddKeeps ==
    ASSUME IInv, NEW q \in Requests, RequestAdd(q)
    PROVE  IInv'
<1>1. PICK p \in Players, t \in Terms : Begin(q, <<Call("add", p, t)>>, Nothing) /\ Forget({p})
    BY DEF RequestAdd
<1> DEFINE c == Call("add", p, t)
<1>2. c \in Calls /\ c.player = p /\ c.do = "add"
    BY VipsAssumption DEF Call, Calls, Adds, Expirations, Indefinite
<1> HIDE DEF c
<1>3. Begin(q, <<c>>, Nothing)
    BY <1>1 DEF c
<1>4. /\ given' \in [Players -> Expirations \cup {None}]
      /\ \A x \in Players : given'[x] \in {given[x], None}
      /\ \A x \in Players : given'[x] # None => Spared(<<c>>, x)
  <2>1. TypeInv /\ {p} \in SUBSET Players
      BY DEF IInv
  <2> QED BY <1>1, <1>2, <2>1, OneCall, ForgetFacts DEF Spared
<1>5. /\ <<c>> \in Seq(Calls) /\ <<c>> # <<>> /\ Ordered(<<c>>)
      /\ \A i \in DOMAIN <<c>> : <<c>>[i].do # "replace"
    BY <1>2, OneCall
<1> DEFINE todo == <<c>>
<1> HIDE DEF todo
<1>6. /\ todo \in Seq(Calls) /\ todo # <<>> /\ Ordered(todo) /\ Begin(q, todo, Nothing)
      /\ \A i \in DOMAIN todo : todo[i].do # "replace"
      /\ \A x \in Players : given'[x] # None => Spared(todo, x)
    BY <1>3, <1>4, <1>5 DEF todo
<1> QED BY <1>4, <1>6, BeginKeeps

LEMMA RequestRemoveKeeps ==
    ASSUME IInv, NEW q \in Requests, RequestRemove(q)
    PROVE  IInv'
<1>1. PICK p \in Players : Begin(q, <<Call("remove", p, None)>>, Nothing) /\ Forget({p})
    BY DEF RequestRemove
<1> DEFINE c == Call("remove", p, None)
<1>2. c \in Calls /\ c.player = p /\ c.do = "remove"
    BY DEF Call, Calls, Removes
<1> HIDE DEF c
<1>3. Begin(q, <<c>>, Nothing)
    BY <1>1 DEF c
<1>4. /\ given' \in [Players -> Expirations \cup {None}]
      /\ \A x \in Players : given'[x] \in {given[x], None}
      /\ \A x \in Players : given'[x] # None => Spared(<<c>>, x)
  <2>1. TypeInv /\ {p} \in SUBSET Players
      BY DEF IInv
  <2> QED BY <1>1, <1>2, <2>1, OneCall, ForgetFacts DEF Spared
<1>5. /\ <<c>> \in Seq(Calls) /\ <<c>> # <<>> /\ Ordered(<<c>>)
      /\ \A i \in DOMAIN <<c>> : <<c>>[i].do # "replace"
    BY <1>2, OneCall
<1> DEFINE todo == <<c>>
<1> HIDE DEF todo
<1>6. /\ todo \in Seq(Calls) /\ todo # <<>> /\ Ordered(todo) /\ Begin(q, todo, Nothing)
      /\ \A i \in DOMAIN todo : todo[i].do # "replace"
      /\ \A x \in Players : given'[x] # None => Spared(todo, x)
    BY <1>3, <1>4, <1>5 DEF todo
<1> QED BY <1>4, <1>6, BeginKeeps

\* An upload, and the removal of all VIPs.
LEMMA BulkKeeps ==
    ASSUME IInv, NEW q \in Requests, bulk_vip(q) \/ do_remove_all_vips(q)
    PROVE  IInv'
<1>1. PICK upload \in Uploads \cup {<<>>} :
          Begin(q, <<ListCall, ReplaceCall>>, upload) /\ Forget(Players)
    BY DEF bulk_vip, do_remove_all_vips, async_upload_vips, ReplaceCall
<1>2. /\ given' \in [Players -> Expirations \cup {None}]
      /\ \A x \in Players : given'[x] \in {given[x], None} /\ given'[x] = None
    BY <1>1, ForgetFacts DEF IInv
<1>3. upload # Nothing
  <2>1. DOMAIN upload \subseteq Players
      BY VipsAssumption
  <2>2. DOMAIN Nothing = {Nobody}
      BY DEF Nothing
  <2> QED BY <2>1, <2>2, ProcessFacts
<1> DEFINE todo == <<ListCall, ReplaceCall>>
<1>4. /\ todo \in Seq(Calls) /\ todo # <<>> /\ Ordered(todo) /\ Begin(q, todo, upload)
      /\ todo = <<ListCall, ReplaceCall>>
    BY <1>1, BulkCalls
<1> HIDE DEF todo
<1> QED BY <1>2, <1>3, <1>4, BeginKeeps

\* The service removes none of those who are VIPs for some time yet.
LEMMA RemoveExpiredKeeps ==
    ASSUME IInv, remove_expired_vips
    PROVE  IInv'
<1> DEFINE each == Each("remove", Expired)
           rest == <<ListCall, Call("reconcile", Nobody, None)>>
           todo == each \o rest
<1>1. TypeInv /\ LastInv
    BY DEF IInv
<1>2. Begin(Expirer, todo, Nothing) /\ given' = given
    BY DEF remove_expired_vips
<1>3. /\ rest \in Seq(Calls) /\ DOMAIN rest = 1 .. 2
      /\ \A i \in DOMAIN rest : rest[i] \in Wholes /\ rest[i].do # "replace"
      /\ rest[2].do = "reconcile"
  <2> DEFINE l == ListCall
             r == Call("reconcile", Nobody, None)
  <2>1. l \in Wholes /\ r \in Wholes /\ l.do # "replace" /\ r.do = "reconcile"
      BY DEF ListCall, Call, Wholes
  <2> HIDE DEF l, r
  <2>2. /\ <<l, r>> \in Seq(Calls) /\ DOMAIN <<l, r>> = 1 .. 2 /\ <<l, r>>[2] = r
        /\ \A i \in 1 .. 2 : <<l, r>>[i] \in {l, r}
      BY <2>1 DEF Calls
  <2> QED BY <2>1, <2>2 DEF l, r
<1>4. /\ each \in Seq(Calls)
      /\ \A i \in DOMAIN each : each[i] \in Removes /\ each[i].player \in Expired
  <2>1. Expired \in SUBSET Players
      BY DEF Expired
  <2> QED BY <2>1, EachFacts
<1> HIDE DEF each, rest
<1>5. /\ todo \in Seq(Calls) /\ todo # <<>>
      /\ \A i \in DOMAIN todo :
            \/ todo[i] \in Removes /\ todo[i].player \in Expired
            \/ todo[i] \in Wholes /\ todo[i].do # "replace"
      /\ ListThenUse(todo)
  <2>1. /\ \A i \in DOMAIN todo : \/ i \in DOMAIN each /\ todo[i] = each[i]
                                  \/ i - Len(each) \in DOMAIN rest /\ todo[i] = rest[i - Len(each)]
        /\ todo \in Seq(Calls) /\ Len(each) \in Nat
        /\ \A i \in DOMAIN rest : i + Len(each) \in DOMAIN todo /\ todo[i + Len(each)] = rest[i]
      BY <1>3, <1>4, JoinFacts
  <2> HIDE DEF todo
  <2>2. 1 \in DOMAIN rest /\ 2 \in DOMAIN rest
      BY <1>3
  <2>3. todo # <<>>
      BY <2>1, <2>2
  <2>4. ListThenUse(todo)
    <3> SUFFICES ASSUME NEW i \in DOMAIN todo, todo[i].do = "list"
                 PROVE  i + 1 \in DOMAIN todo /\ todo[i + 1].do \in {"replace", "reconcile"}
        BY DEF ListThenUse
    <3>1. i - Len(each) \in 1 .. 2 /\ todo[i] = rest[i - Len(each)] /\ i \in Nat
        BY <1>3, <1>4, <2>1 DEF Removes
    <3>2. i - Len(each) = 1
        BY <1>3, <3>1
    <3> DEFINE n == Len(each)
    <3>4. i \in Nat /\ n \in Nat /\ i - n = 1
        BY <2>1, <3>1, <3>2
    <3> HIDE DEF n
    <3>5. i + 1 = 2 + n
        BY <3>4
    <3>3. i + 1 = 2 + Len(each)
        BY <3>5 DEF n
    <3> QED BY <1>3, <2>1, <2>2, <3>3
  <2> QED BY <1>3, <1>4, <2>1, <2>3, <2>4
<1> HIDE DEF todo
<1>6. Ordered(todo) /\ \A i \in DOMAIN todo : todo[i].do # "replace"
    BY <1>5 DEF Ordered, AddsLast, Adds, Removes, Wholes
<1>7. \A p \in Players : given[p] # None /\ now <= given[p] => Spared(todo, p)
  <2> SUFFICES ASSUME NEW p \in Players, given[p] # None, now <= given[p],
                      NEW i \in DOMAIN todo
               PROVE  todo[i].player # p
      BY <1>6 DEF Spared
  <2>1. rows[p] # None /\ rows[p] >= given[p]
      BY <1>1 DEF LastInv
  <2>2. now \in Nat /\ given[p] \in Nat /\ rows[p] \in Nat
      BY <1>1, <2>1, VipsAssumption DEF TypeInv, Expirations, Indefinite
  <2>3. p \notin Expired
      BY <2>1, <2>2 DEF Expired
  <2>4. \A x \in Wholes : x.player \notin Players
      BY ProcessFacts DEF Wholes
  <2> QED BY <1>5, <2>3, <2>4
<1>8. given' \in [Players -> Expirations \cup {None}] /\ \A p \in Players : given'[p] \in {given[p], None}
    BY <1>1, <1>2 DEF TypeInv
<1> QED BY <1>2, <1>5, <1>6, <1>7, <1>8, BeginKeeps

-----------------------------------------------------------------------------
(***************************************************************************)
(* The first call of a process has returned, or has raised.                *)
(***************************************************************************)
LEMMA GotoKeeps ==
    ASSUME IInv, NEW q \in Processes, q # Log, Busy(q), NEW todo \in Seq(Calls),
           NEW returned \in BOOLEAN, Goto(q, todo, returned), Ordered(todo),
           \A i \in DOMAIN todo : todo[i].do = "replace" => target[q] # Nothing,
           UNCHANGED <<now, cache>>, vips' \subseteq Players, faults' \in 0 .. MaxFaults,
           rows' \in [Players -> Expirations \cup {None}],
           given' \in [Players -> Expirations \cup {None}],
           \A p \in Players : given'[p] # None /\ now <= given'[p] =>
              /\ p \in vips' /\ rows'[p] # None /\ rows'[p] >= given'[p]
              /\ Spared(todo, p)
              /\ \A r \in Processes \ {q} : Spared(calls[r], p),
           alone[q] /\ returned /\ todo # <<>> /\ fresh[q] /\ target[q] # Nothing /\ calls'[q] = todo
              => Asking(q)' \/ Replacing(q)' \/ Working(q)'
    PROVE  IInv'
<1>1. /\ TypeInv /\ ShapeInv /\ AloneInv /\ LastInv /\ BulkInv /\ Todo(q, todo)
      /\ alone' = [alone EXCEPT ![q] = @ /\ returned /\ todo # <<>>]
      /\ fresh' = [fresh EXCEPT ![q] = @ /\ todo # <<>>]
      /\ target' = [target EXCEPT ![q] = IF todo = <<>> THEN Nothing ELSE @]
    BY DEF IInv, Goto
<1>2. /\ target \in [Processes -> Uploads \cup {<<>>, Nothing}] /\ fresh \in [Processes -> BOOLEAN]
      /\ alone \in [Processes -> BOOLEAN]
    BY <1>1 DEF TypeInv
<1>3. /\ target' \in [Processes -> Uploads \cup {<<>>, Nothing}]
      /\ \A r \in Processes \ {q} : target'[r] = target[r]
      /\ todo # <<>> => target'[q] = target[q]
    BY <1>1, <1>2
<1>4. fresh' \in [Processes -> BOOLEAN] /\ (fresh'[q] => fresh[q])
    BY <1>1, <1>2
<1>5. /\ alone' \in [Processes -> BOOLEAN] /\ \A r \in Processes \ {q} : alone'[r] = alone[r]
      /\ alone'[q] => alone[q] /\ returned /\ todo # <<>>
    BY <1>1, <1>2
<1>6. \A r \in Processes : alone'[r] => r = q
    BY <1>1, <1>5 DEF AloneInv
<1>7. /\ calls' \in [Processes -> Seq(Calls)] /\ calls'[q] = todo
      /\ at' \in [Processes -> {"clear", "send", "record", "ask", "read", "store", "query"}]
      /\ list' \in [Processes -> Lists]
      /\ at'[q] \notin {"record", "store"}
      /\ \A r \in Processes \ {q} : calls'[r] = calls[r] /\ at'[r] = at[r] /\ list'[r] = list[r]
      /\ ShapeInv'
  <2>1. \A i \in DOMAIN todo : todo[i].do = "replace" => target'[q] # Nothing
    <3>1. \A i \in DOMAIN todo : todo # <<>>
        OBVIOUS
    <3> QED BY <1>3, <3>1
  <2> QED BY <1>1, <1>3, <2>1, TodoKeepsShape
<1>8. TypeInv'
    BY <1>1, <1>3, <1>4, <1>5, <1>7 DEF TypeInv
<1>9. AloneInv'
  <2> SUFFICES ASSUME NEW r \in Processes, alone'[r]
               PROVE  /\ r # Log
                      /\ \A s \in Processes \ {r, Log} : calls'[s] = <<>>
                      /\ at'[r] # "record"
      BY DEF AloneInv, Busy
  <2>1. r = q /\ alone[q] /\ todo # <<>>
      BY <1>5, <1>6
  <2> QED BY <1>1, <1>7, <2>1 DEF AloneInv, Busy
<1>10. LastInv'
  <2> SUFFICES ASSUME NEW p \in Players, given'[p] # None, now <= given'[p]
               PROVE  /\ p \in vips' /\ rows'[p] # None /\ rows'[p] >= given'[p]
                      /\ \A r \in Processes : Spared(calls'[r], p)
      BY DEF LastInv
  <2> QED BY <1>7
<1>11. ASSUME NEW r \in Processes, alone'[r], fresh'[r], target'[r] # Nothing
       PROVE  Asking(r)' \/ Replacing(r)' \/ Working(r)'
  <2>1. r = q
      BY <1>6, <1>11
  <2>2. alone[q] /\ returned /\ todo # <<>> /\ fresh[q] /\ target[q] # Nothing
      BY <1>3, <1>4, <1>5, <1>11, <2>1
  <2> QED BY <1>7, <2>1, <2>2
<1>12. BulkInv'
    BY <1>11 DEF BulkInv
<1> QED BY <1>7, <1>8, <1>9, <1>10, <1>12 DEF IInv

\* Nobody is alone any more who fails, and no VIP is lost whom nothing concerns.
LEMMA FailsKeeps ==
    ASSUME IInv, NEW q \in Processes, Fails(q)
    PROVE  IInv'
<1>1. PICK todo \in AfterRaise(q) : Goto(q, todo, FALSE)
    BY DEF Fails
<1>2. /\ Busy(q) /\ q # Log /\ faults < MaxFaults /\ faults' = faults + 1
      /\ vips' \in IF at[q] = "send" THEN {vips, Sent(Head(calls[q]))} ELSE {vips}
      /\ UNCHANGED <<now, rows, cache, given>>
      /\ TypeInv /\ ShapeInv /\ LastInv
    BY DEF Fails, IInv
<1>3. /\ calls[q] \in Seq(Calls) /\ calls[q] # <<>> /\ Ordered(calls[q])
      /\ Head(calls[q]) \in Calls /\ Head(calls[q]) = calls[q][1] /\ 1 \in DOMAIN calls[q]
    BY <1>2, TailFacts DEF TypeInv, ShapeInv, Busy
<1>4. todo \in {<<>>, Tail(calls[q])}
    BY <1>1 DEF AfterRaise
<1>5. todo \in Seq(Calls) /\ Ordered(todo) /\ \A p : Spared(calls[q], p) => Spared(todo, p)
  <2>1. CASE todo = <<>>
      BY <2>1 DEF Ordered, AddsLast, ListThenUse, Spared
  <2>2. CASE todo = Tail(calls[q])
      BY <1>3, <2>2, TailFacts
  <2> QED BY <1>4, <2>1, <2>2
<1>6. \A i \in DOMAIN todo : todo[i].do = "replace" => target[q] # Nothing
  <2>1. CASE todo = <<>>
      BY <2>1
  <2>2. CASE todo = Tail(calls[q])
    <3>1. \A i \in DOMAIN todo : i + 1 \in DOMAIN calls[q] /\ todo[i] = calls[q][i + 1]
        BY <1>3, <2>2, TailFacts
    <3> QED BY <1>2, <3>1 DEF ShapeInv
  <2> QED BY <1>4, <2>1, <2>2
<1>7. vips' \subseteq Players
  <2>1. vips \subseteq Players
      BY <1>2 DEF TypeInv
  <2>2. at[q] = "send" => Sent(Head(calls[q])) \subseteq Players
    <3>1. Head(calls[q]).do = "add" => Head(calls[q]).player \in Players
        BY <1>3, CallFacts
    <3> QED BY <2>1, <3>1 DEF Sent
  <2> QED BY <1>2, <2>1, <2>2
<1>8. ASSUME NEW p \in Players, given[p] # None, now <= given[p]
      PROVE  /\ p \in vips' /\ rows[p] # None /\ rows[p] >= given[p]
             /\ Spared(todo, p)
             /\ \A r \in Processes \ {q} : Spared(calls[r], p)
  <2>1. /\ p \in vips /\ rows[p] # None /\ rows[p] >= given[p]
        /\ \A r \in Processes : Spared(calls[r], p)
      BY <1>2, <1>8 DEF LastInv
  <2>2. Head(calls[q]).player # p
      BY <1>3, <2>1 DEF Spared
  <2>3. p \in vips'
      BY <1>2, <2>1, <2>2 DEF Sent
  <2> QED BY <1>5, <2>1, <2>3
<1>9. /\ rows' \in [Players -> Expirations \cup {None}] /\ given' \in [Players -> Expirations \cup {None}]
      /\ rows' = rows /\ given' = given /\ UNCHANGED <<now, cache>>
    BY <1>2 DEF TypeInv
<1>10. faults' \in 0 .. MaxFaults
  <2>1. faults \in 0 .. MaxFaults /\ MaxFaults \in Nat
      BY <1>2, VipsAssumption DEF TypeInv
  <2> QED BY <1>2, <2>1
<1> QED BY <1>1, <1>2, <1>5, <1>6, <1>7, <1>8, <1>9, <1>10, GotoKeeps

LEMMA ReconcileKeeps ==
    ASSUME IInv, Reconcile
    PROVE  IInv'
<1>1. /\ Does(Expirer, "reconcile", "query") /\ Goto(Expirer, <<>>, TRUE) /\ Busy(Expirer)
      /\ UNCHANGED <<now, vips, cache, faults, given>>
      /\ TypeInv /\ LastInv /\ Expirer \in Processes /\ Expirer # Log
    BY ProcessFacts DEF Reconcile, Does, IInv
<1>2. PICK known \in SUBSET Players :
          rows' = [p \in Players |-> IF p \in known THEN Indefinite ELSE rows[p]]
  <2>1. DOMAIN list[Expirer] \subseteq Players
      BY <1>1, ListFacts DEF TypeInv
  <2> QED BY <2>1 DEF Reconcile
<1>3. /\ rows \in [Players -> Expirations \cup {None}] /\ given' \in [Players -> Expirations \cup {None}]
      /\ Indefinite \in Expirations /\ vips' \subseteq Players /\ faults' \in 0 .. MaxFaults
      /\ Indefinite # None /\ \A t \in Expirations : t <= Indefinite
    BY <1>1, VipsAssumption DEF TypeInv, Expirations, Indefinite, None
<1>4. rows' \in [Players -> Expirations \cup {None}]
    BY <1>2, <1>3
<1>5. ASSUME NEW p \in Players, given'[p] # None, now <= given'[p]
      PROVE  /\ p \in vips' /\ rows'[p] # None /\ rows'[p] >= given'[p]
             /\ Spared(<<>>, p)
             /\ \A r \in Processes \ {Expirer} : Spared(calls[r], p)
  <2>1. given[p] # None /\ now <= given[p] /\ given[p] \in Expirations /\ given' = given /\ vips' = vips
      BY <1>1, <1>5 DEF TypeInv
  <2>2. /\ p \in vips /\ rows[p] # None /\ rows[p] >= given[p]
        /\ \A r \in Processes : Spared(calls[r], p)
      BY <1>1, <2>1 DEF LastInv
  <2>3. given[p] <= Indefinite /\ given[p] \in Int /\ Indefinite \in Int
      BY <1>3, <2>1 DEF Expirations
  <2>4. rows'[p] # None /\ rows'[p] >= given[p]
      BY <1>2, <1>3, <2>2, <2>3
  <2> QED BY <2>1, <2>2, <2>4 DEF Spared
<1> DEFINE todo == <<>>
<1>6. todo \in Seq(Calls) /\ Ordered(todo) /\ DOMAIN todo = {} /\ todo = <<>> /\ Goto(Expirer, todo, TRUE)
  <2>1. todo \in Seq(Calls) /\ DOMAIN todo = {} /\ todo = <<>>
      OBVIOUS
  <2>2. Goto(Expirer, todo, TRUE)
      BY <1>1
  <2> HIDE DEF todo
  <2> QED BY <2>1, <2>2 DEF Ordered, AddsLast, ListThenUse
<1> HIDE DEF todo
<1>7. \A p \in Players : given'[p] # None /\ now <= given'[p] =>
              /\ p \in vips' /\ rows'[p] # None /\ rows'[p] >= given'[p]
              /\ Spared(todo, p)
              /\ \A r \in Processes \ {Expirer} : Spared(calls[r], p)
    BY <1>5, <1>6
<1>8. UNCHANGED <<now, cache>>
    BY <1>1
<1> QED BY <1>1, <1>3, <1>4, <1>6, <1>7, <1>8, GotoKeeps

\* When a job that nothing disturbs has written a row, what the file says of the
\* player is so, or some call is left to make it so.
LEMMA RecordLeaves ==
    ASSUME IInv, NEW q \in Processes, Record(q), alone[q], fresh[q], target[q] # Nothing
    PROVE  /\ Working(q)
           /\ \A p \in Players : Left(Tail(calls[q]), p, target[q], p \in vips', rows'[p])
<1> DEFINE c == Head(calls[q])
           todo == Tail(calls[q])
<1>1. /\ TypeInv /\ ShapeInv /\ AloneInv /\ BulkInv
      /\ Busy(q) /\ at[q] = "record" /\ c.do \in {"add", "remove"}
      /\ rows' = [rows EXCEPT ![c.player] = c.till] /\ vips' = vips
    BY DEF IInv, Record, Does
<1>2. /\ calls[q] \in Seq(Calls) /\ calls[q] # <<>> /\ AddsLast(calls[q])
    BY <1>1 DEF TypeInv, ShapeInv, AloneInv, Busy, Ordered
<1>3. /\ c \in Calls /\ c = calls[q][1] /\ 1 \in DOMAIN calls[q] /\ todo \in Seq(Calls)
      /\ \A i \in DOMAIN todo : i + 1 \in DOMAIN calls[q] /\ todo[i] = calls[q][i + 1] /\ 1 < i + 1
      /\ \A i \in DOMAIN calls[q] : i = 1 \/ (i - 1 \in DOMAIN todo /\ todo[i - 1] = calls[q][i])
    BY <1>2, TailFacts
<1>4. c.player \in vips <=> c.do = "add"
    BY <1>1 DEF AloneInv
<1> HIDE DEF c, todo
<1>5. c.player \in Players /\ (c \in Adds <=> c.do = "add")
    BY <1>1, <1>3, CallFacts
<1>6. rows'[c.player] = c.till /\ \A p \in Players : p # c.player => rows'[p] = rows[p]
    BY <1>1, <1>5 DEF TypeInv
<1>7. Working(q)
  <2>1. Asking(q) => c.do = "list"
      BY <1>3, FixedCalls DEF Asking
  <2>2. Replacing(q) => c.do = "replace"
      BY <1>3, FixedCalls DEF Replacing
  <2> QED BY <1>1, <2>1, <2>2 DEF BulkInv
<1>8. c.do = "add" => c.player \in DOMAIN target[q] /\ c.till = target[q][c.player]
    BY <1>3, <1>5, <1>7 DEF Working
<1>9. ASSUME NEW p \in Players PROVE Left(todo, p, target[q], p \in vips, rows'[p])
  <2>1. Left(calls[q], p, target[q], p \in vips, rows[p])
      BY <1>7 DEF Working
  <2>2. CASE p = c.player
    <3>1. CASE c.do = "add"
      <4>1. \A i \in DOMAIN todo : todo[i].player # p
          BY <1>2, <1>3, <1>5, <2>2, <3>1 DEF AddsLast
      <4> QED BY <1>4, <1>6, <1>8, <2>2, <3>1, <4>1 DEF Left
    <3>2. CASE c.do = "remove"
      <4>1. p \notin vips
          BY <1>4, <2>2, <3>2
      <4>2. CASE \E i \in DOMAIN calls[q] : calls[q][i].player = p /\ calls[q][i] \in Adds
          BY <1>3, <1>5, <3>2, <4>2 DEF Left
      <4>3. CASE p \notin DOMAIN target[q]
          BY <4>1, <4>3 DEF Left
      <4>4. CASE \A i \in DOMAIN calls[q] : calls[q][i].player # p
          BY <1>3, <2>2, <4>4
      <4> QED BY <2>1, <4>2, <4>3, <4>4 DEF Left
    <3> QED BY <1>1, <3>1, <3>2
  <2>3. CASE p # c.player
    <3>1. rows'[p] = rows[p]
        BY <1>6, <2>3
    <3> QED BY <1>3, <2>1, <2>3, <3>1 DEF Left
  <2> QED BY <2>2, <2>3
<1> QED BY <1>1, <1>7, <1>9 DEF todo

\* The row is written: who is alone has a VIP that is as the row says.
LEMMA RecordKeeps ==
    ASSUME IInv, NEW q \in Processes, Record(q)
    PROVE  IInv'
<1> DEFINE c == Head(calls[q])
           todo == Tail(calls[q])
<1>1. /\ TypeInv /\ ShapeInv /\ AloneInv /\ LastInv /\ BulkInv
      /\ Busy(q) /\ at[q] = "record" /\ c.do \in {"add", "remove"}
      /\ rows' = [rows EXCEPT ![c.player] = c.till]
      /\ given' = IF c.do = "add" /\ alone[q] THEN [given EXCEPT ![c.player] = c.till] ELSE given
      /\ Goto(q, todo, TRUE) /\ UNCHANGED <<now, vips, cache, faults>>
    BY DEF IInv, Record, Does
<1>2. /\ calls[q] \in Seq(Calls) /\ calls[q] # <<>> /\ Ordered(calls[q]) /\ AddsLast(calls[q]) /\ q # Log
    BY <1>1 DEF TypeInv, ShapeInv, Busy, Ordered
<1>3. /\ c \in Calls /\ c = calls[q][1] /\ 1 \in DOMAIN calls[q] /\ todo \in Seq(Calls)
      /\ \A i \in DOMAIN todo : i + 1 \in DOMAIN calls[q] /\ todo[i] = calls[q][i + 1] /\ 1 < i + 1
      /\ \A i \in DOMAIN calls[q] : i = 1 \/ (i - 1 \in DOMAIN todo /\ todo[i - 1] = calls[q][i])
      /\ Ordered(todo) /\ \A p : Spared(calls[q], p) => Spared(todo, p)
    BY <1>2, TailFacts
<1> HIDE DEF c, todo
<1>4. /\ c.player \in Players /\ c.till \in Expirations \cup {None}
      /\ c \in Adds <=> c.do = "add"
      /\ c.do = "add" => c.till \in Expirations /\ c.till # None
    BY <1>1, <1>3, CallFacts
<1>5. alone[q] => /\ (c.player \in vips <=> c.do = "add")
                  /\ \A r \in Processes \ {q, Log} : calls[r] = <<>>
    BY <1>1 DEF AloneInv, Busy, c
<1>6. /\ rows' \in [Players -> Expirations \cup {None}]
      /\ given' \in [Players -> Expirations \cup {None}]
      /\ vips' \subseteq Players /\ faults' \in 0 .. MaxFaults
      /\ rows'[c.player] = c.till /\ \A p \in Players : p # c.player => rows'[p] = rows[p]
    BY <1>1, <1>4 DEF TypeInv
<1>7. \A i \in DOMAIN todo : todo[i].do = "replace" => target[q] # Nothing
    BY <1>1, <1>3 DEF ShapeInv
<1>8. ASSUME NEW p \in Players, given'[p] # None, now <= given'[p]
      PROVE  /\ p \in vips' /\ rows'[p] # None /\ rows'[p] >= given'[p]
             /\ Spared(todo, p)
             /\ \A r \in Processes \ {q} : Spared(calls[r], p)
  <2>1. CASE c.do = "add" /\ alone[q] /\ p = c.player
    <3>1. given'[p] = c.till /\ rows'[p] = c.till /\ p \in vips'
        BY <1>1, <1>4, <1>5, <1>6, <2>1 DEF TypeInv
    <3>2. c.till >= c.till
        BY <1>4, <2>1, VipsAssumption DEF Expirations, Indefinite
    <3>3. Spared(todo, p)
      <4>1. \A i \in DOMAIN todo : todo[i] \in Adds /\ todo[i].player # p
          BY <1>2, <1>3, <1>4, <2>1 DEF AddsLast
      <4> QED BY <4>1 DEF Spared, Adds
    <3>4. \A r \in Processes \ {q, Log} : Spared(calls[r], p)
        BY <1>5, <2>1 DEF Spared
    <3>5. Spared(calls[Log], p)
      <4>1. calls[Log] = <<>> \/ calls[Log] = <<ListCall>>
          BY <1>1 DEF ShapeInv
      <4>2. ListCall.player # p /\ ListCall.do # "replace"
          BY FixedCalls, ProcessFacts
      <4> QED BY <4>1, <4>2 DEF Spared
    <3> QED BY <1>4, <2>1, <3>1, <3>2, <3>3, <3>4, <3>5
  <2>2. CASE ~(c.do = "add" /\ alone[q] /\ p = c.player)
    <3>1. given'[p] = given[p]
        BY <1>1, <1>4, <2>2 DEF TypeInv
    <3>2. /\ p \in vips /\ rows[p] # None /\ rows[p] >= given[p]
          /\ \A r \in Processes : Spared(calls[r], p)
        BY <1>1, <1>8, <3>1 DEF LastInv
    <3>3. p # c.player
        BY <1>3, <3>2 DEF Spared
    <3> QED BY <1>1, <1>3, <1>6, <3>1, <3>2, <3>3
  <2> QED BY <2>1, <2>2
<1>9. ASSUME alone[q], todo # <<>>, fresh[q], target[q] # Nothing, calls'[q] = todo
      PROVE  Working(q)'
  <2>1. Working(q) /\ \A p \in Players : Left(todo, p, target[q], p \in vips', rows'[p])
      BY <1>9, RecordLeaves DEF todo
  <2>2. target'[q] = target[q]
      BY <1>1, <1>9 DEF Goto, TypeInv
  <2>5. \A i \in DOMAIN todo : todo[i] \in Adds \cup Removes
      BY <1>3, <2>1 DEF Working
  <2>6. \A i \in DOMAIN todo : todo[i] \in Adds =>
            todo[i].player \in DOMAIN target[q] /\ todo[i].till = target[q][todo[i].player]
      BY <1>3, <2>1 DEF Working
  <2> QED BY <1>1, <1>9, <2>1, <2>2, <2>5, <2>6 DEF Working
<1>10. UNCHANGED <<now, cache>>
    BY <1>1
<1> QED BY <1>1, <1>2, <1>3, <1>6, <1>7, <1>8, <1>9, <1>10, GotoKeeps

\* The calls that add the VIPs of a file.
LEMMA AddAllFacts ==
    ASSUME NEW upload, DOMAIN upload \subseteq Players, upload \in [DOMAIN upload -> Expirations]
    PROVE  LET order == SetToSeq(DOMAIN upload)
               adds == [i \in DOMAIN order |-> Call("add", order[i], upload[order[i]])]
           IN  /\ adds \in Seq(Calls)
               /\ \A i \in DOMAIN adds :
                     /\ adds[i] \in Adds /\ adds[i].player \in DOMAIN upload
                     /\ adds[i].till = upload[adds[i].player]
               /\ \A i, j \in DOMAIN adds : adds[i].player = adds[j].player => i = j
               /\ \A p \in DOMAIN upload : \E i \in DOMAIN adds : adds[i].player = p
<1> DEFINE order == SetToSeq(DOMAIN upload)
           adds == [i \in DOMAIN order |-> Call("add", order[i], upload[order[i]])]
<1>1. IsFiniteSet(DOMAIN upload)
    BY VipsAssumption, FS_Subset
<1>2. /\ order \in Seq(DOMAIN upload)
      /\ \A a, b \in DOMAIN order : order[a] = order[b] => a = b
      /\ \A p \in DOMAIN upload : \E i \in DOMAIN order : order[i] = p
    BY <1>1, SetToSeqFacts
<1> HIDE DEF order
<1>3. /\ DOMAIN order = 1 .. Len(order) /\ Len(order) \in Nat
      /\ \A i \in DOMAIN order : order[i] \in DOMAIN upload
    BY <1>2
<1>4. ASSUME NEW i \in DOMAIN order
      PROVE  /\ Call("add", order[i], upload[order[i]]) \in Adds
             /\ Call("add", order[i], upload[order[i]]) \in Calls
             /\ Call("add", order[i], upload[order[i]]).player = order[i]
             /\ Call("add", order[i], upload[order[i]]).till = upload[order[i]]
  <2>1. order[i] \in Players /\ upload[order[i]] \in Expirations
      BY <1>3
  <2> QED BY <2>1 DEF Call, Adds, Calls
<1>5. /\ DOMAIN adds = DOMAIN order
      /\ \A i \in DOMAIN order : adds[i] \in Adds /\ adds[i] \in Calls /\ adds[i].player = order[i]
                                 /\ adds[i].till = upload[order[i]]
    BY <1>4
<1>6. adds \in Seq(Calls)
    BY <1>3, <1>4
<1> HIDE DEF adds
<1>7. /\ adds \in Seq(Calls)
      /\ \A i \in DOMAIN adds :
            /\ adds[i] \in Adds /\ adds[i].player \in DOMAIN upload
            /\ adds[i].till = upload[adds[i].player]
      /\ \A i, j \in DOMAIN adds : adds[i].player = adds[j].player => i = j
      /\ \A p \in DOMAIN upload : \E i \in DOMAIN adds : adds[i].player = p
    BY <1>2, <1>3, <1>5, <1>6
<1> QED BY <1>7 DEF adds, order

\* The job has the list of the VIPs and knows whom to remove and to add.
LEMMA ReplaceKeeps ==
    ASSUME IInv, NEW q \in Requests, Replace(q)
    PROVE  IInv'
<1> DEFINE upload == target[q]
           order == SetToSeq(DOMAIN upload)
           removes == Each("remove", DOMAIN list[q])
           adds == [i \in DOMAIN order |-> Call("add", order[i], upload[order[i]])]
           todo == removes \o adds
<1>1. /\ TypeInv /\ ShapeInv /\ AloneInv /\ LastInv /\ BulkInv /\ q \in Processes /\ q # Log
      /\ Busy(q) /\ Head(calls[q]).do = "replace" /\ Goto(q, todo, TRUE)
      /\ UNCHANGED <<now, vips, rows, cache, faults, given>>
    BY ProcessFacts DEF IInv, Replace, Does
<1>2. /\ calls[q] \in Seq(Calls) /\ calls[q] # <<>>
      /\ Head(calls[q]) = calls[q][1] /\ 1 \in DOMAIN calls[q]
    BY <1>1, TailFacts DEF TypeInv, Busy
<1>3. /\ upload # Nothing /\ DOMAIN upload \subseteq Players
      /\ upload \in [DOMAIN upload -> Expirations]
  <2>1. upload \in Uploads \cup {<<>>, Nothing} /\ upload # Nothing
      BY <1>1, <1>2 DEF TypeInv, ShapeInv
  <2>2. CASE upload \in Uploads
      BY <2>1, <2>2, VipsAssumption DEF Expirations, Indefinite
  <2>3. CASE upload = <<>>
    <3>1. <<>> \in [{} -> Expirations] /\ DOMAIN <<>> = {}
        BY SMT
    <3> QED BY <2>1, <2>3, <3>1
  <2> QED BY <2>1, <2>2, <2>3
<1>4. /\ adds \in Seq(Calls)
      /\ \A i \in DOMAIN adds :
            /\ adds[i] \in Adds /\ adds[i].player \in DOMAIN upload
            /\ adds[i].till = upload[adds[i].player]
      /\ \A i, j \in DOMAIN adds : adds[i].player = adds[j].player => i = j
      /\ \A p \in DOMAIN upload : \E i \in DOMAIN adds : adds[i].player = p
    BY <1>3, AddAllFacts
<1>5. /\ removes \in Seq(Calls) /\ DOMAIN list[q] \subseteq Players
      /\ \A i \in DOMAIN removes : removes[i] \in Removes /\ removes[i].player \in DOMAIN list[q]
      /\ \A p \in DOMAIN list[q] : \E i \in DOMAIN removes : removes[i].player = p
  <2>1. DOMAIN list[q] \in SUBSET Players
      BY <1>1, ListFacts DEF TypeInv
  <2> QED BY <2>1, EachFacts
<1> HIDE DEF upload, order, removes, adds
<1>6. /\ todo \in Seq(Calls) /\ Len(removes) \in Nat /\ DOMAIN removes = 1 .. Len(removes)
      /\ \A i \in DOMAIN todo :
            \/ i \in DOMAIN removes /\ todo[i] = removes[i]
            \/ i - Len(removes) \in DOMAIN adds /\ todo[i] = adds[i - Len(removes)] /\ i > Len(removes)
      /\ \A i \in DOMAIN removes : i \in DOMAIN todo /\ todo[i] = removes[i]
      /\ \A i \in DOMAIN adds : i + Len(removes) \in DOMAIN todo /\ todo[i + Len(removes)] = adds[i]
    BY <1>4, <1>5, JoinFacts
<1> HIDE DEF todo
<1>7. \A i \in DOMAIN todo : i \in Nat
    BY <1>6
<1>9. \A i \in DOMAIN todo : todo[i] \in Adds \cup Removes
    BY <1>4, <1>5, <1>6
<1>10. \A i \in DOMAIN todo : todo[i].do # "replace"
    BY <1>9 DEF Adds, Removes
<1>8. Ordered(todo)
  <2> SUFFICES ASSUME NEW i \in DOMAIN todo, NEW j \in DOMAIN todo, i < j, todo[i] \in Adds
               PROVE  todo[j] \in Adds /\ todo[j].player # todo[i].player
      BY <1>9 DEF Ordered, AddsLast, ListThenUse, Adds, Removes
  <2>1. i \notin DOMAIN removes
    <3>1. Adds \cap Removes = {}
        BY DEF Adds, Removes
    <3> QED BY <1>5, <1>6, <3>1
  <2>2. i - Len(removes) \in DOMAIN adds /\ todo[i] = adds[i - Len(removes)] /\ i > Len(removes)
      BY <1>6, <2>1
  <2>3. j \notin DOMAIN removes
      BY <1>6, <1>7, <2>2
  <2>4. j - Len(removes) \in DOMAIN adds /\ todo[j] = adds[j - Len(removes)]
      BY <1>6, <2>3
  <2>5. i - Len(removes) # j - Len(removes)
      BY <1>6, <1>7
  <2> QED BY <1>4, <2>2, <2>4, <2>5
<1>11. ASSUME NEW p \in Players, given'[p] # None, now <= given'[p] PROVE FALSE
  <2>1. Spared(calls[q], p)
      BY <1>1, <1>11 DEF LastInv
  <2> QED BY <1>1, <1>2, <2>1 DEF Spared
<1>12. ASSUME alone[q], todo # <<>>, fresh[q], calls'[q] = todo PROVE Working(q)'
  <2>1. DOMAIN list[q] = vips
    <3>1. Asking(q) => Head(calls[q]).do = "list"
        BY <1>2, FixedCalls DEF Asking
    <3>2. Working(q) => Head(calls[q]).do # "replace"
        BY <1>2 DEF Working, Adds, Removes
    <3> QED BY <1>1, <1>3, <1>12, <3>1, <3>2 DEF BulkInv, Replacing, upload
  <2>2. target'[q] = upload
      BY <1>1, <1>12 DEF Goto, TypeInv, upload
  <2>3. \A i \in DOMAIN todo : todo[i] \in Adds =>
            todo[i].player \in DOMAIN upload /\ todo[i].till = upload[todo[i].player]
    <3> SUFFICES ASSUME NEW i \in DOMAIN todo, todo[i] \in Adds
                 PROVE  todo[i].player \in DOMAIN upload /\ todo[i].till = upload[todo[i].player]
        OBVIOUS
    <3>1. Adds \cap Removes = {}
        BY DEF Adds, Removes
    <3>2. i \notin DOMAIN removes
        BY <1>5, <1>6, <3>1
    <3>3. i - Len(removes) \in DOMAIN adds /\ todo[i] = adds[i - Len(removes)]
        BY <1>6, <3>2
    <3> QED BY <1>4, <3>3
  <2>4. ASSUME NEW p \in Players PROVE Left(todo, p, upload, p \in vips, rows[p])
    <3>1. CASE p \in DOMAIN upload
      <4>1. PICK i \in DOMAIN adds : adds[i].player = p
          BY <1>4, <3>1
      <4>2. i + Len(removes) \in DOMAIN todo /\ todo[i + Len(removes)] = adds[i] /\ adds[i] \in Adds
          BY <1>4, <1>6
      <4> QED BY <4>1, <4>2 DEF Left
    <3>2. CASE p \notin DOMAIN upload /\ p \in vips
        BY <1>5, <1>6, <2>1, <3>2 DEF Left
    <3>3. CASE p \notin DOMAIN upload /\ p \notin vips
        BY <3>3 DEF Left
    <3> QED BY <3>1, <3>2, <3>3
  <2> QED BY <1>1, <1>9, <1>12, <2>2, <2>3, <2>4 DEF Working
<1>13. /\ UNCHANGED <<now, cache>> /\ vips' \subseteq Players /\ faults' \in 0 .. MaxFaults
       /\ rows' \in [Players -> Expirations \cup {None}]
       /\ given' \in [Players -> Expirations \cup {None}]
    BY <1>1 DEF TypeInv
<1> QED BY <1>1, <1>6, <1>8, <1>10, <1>11, <1>12, <1>13, GotoKeeps

-----------------------------------------------------------------------------
(***************************************************************************)
(* Steps within a call, and those of nobody in particular.                 *)
(***************************************************************************)
\* The first call of q goes on, and nobody's calls change.
LEMMA StepKeeps ==
    ASSUME IInv, NEW q \in Processes, q # Log, NEW step, Step(q, step), Busy(q),
           step \in StepsOf(Head(calls[q])),
           UNCHANGED <<now, rows, faults, ghosts>>,
           vips' \subseteq Players, cache' \in Lists \cup {Nothing},
           \A p \in Players : p \in vips /\ Spared(calls[q], p) => p \in vips',
           alone[q] /\ step = "record" =>
              (Head(calls[q]).player \in vips' <=> Head(calls[q]).do = "add"),
           alone[q] /\ fresh[q] /\ target[q] # Nothing =>
              Asking(q)' \/ Replacing(q)' \/ Working(q)'
    PROVE  IInv'
<1>1. /\ TypeInv /\ ShapeInv /\ AloneInv /\ LastInv /\ BulkInv
      /\ at' = [at EXCEPT ![q] = step] /\ calls' = calls /\ list' = list
      /\ UNCHANGED <<now, rows, faults, given, alone, fresh, target>>
    BY DEF IInv, Step, ghosts
<1>2. /\ step \in {"clear", "send", "record", "ask", "read", "store", "query"}
      /\ at \in [Processes -> {"clear", "send", "record", "ask", "read", "store", "query"}]
      /\ calls \in [Processes -> Seq(Calls)]
  <2>1. Head(calls[q]) \in Calls
      BY <1>1, TailFacts DEF TypeInv, Busy
  <2> QED BY <1>1, <2>1, FirstStep DEF TypeInv
<1>3. /\ at'[q] = step /\ \A r \in Processes \ {q} : at'[r] = at[r]
      /\ at' \in [Processes -> {"clear", "send", "record", "ask", "read", "store", "query"}]
    BY <1>1, <1>2
<1>4. TypeInv'
    BY <1>1, <1>3 DEF TypeInv
<1>5. ShapeInv'
  <2>1. \A r \in Processes : at'[r] \in IF Busy(r)' THEN StepsOf(Head(calls'[r])) ELSE {"query"}
      BY <1>1, <1>3 DEF ShapeInv, Busy
  <2>2. calls'[Log] \in {<<>>, <<ListCall>>} /\ (Busy(Log)' => at'[Log] = "store")
      BY <1>1, <1>3, ProcessFacts DEF ShapeInv, Busy
  <2> QED BY <1>1, <2>1, <2>2 DEF ShapeInv
<1>6. AloneInv'
  <2> SUFFICES ASSUME NEW r \in Processes, alone'[r]
               PROVE  /\ r # Log
                      /\ \A s \in Processes \ {r, Log} : calls'[s] = <<>>
                      /\ at'[r] = "record" => (Head(calls'[r]).player \in vips' <=> Head(calls'[r]).do = "add")
      BY DEF AloneInv, Busy
  <2>1. /\ r # Log /\ \A s \in Processes \ {r, Log} : calls[s] = <<>>
        /\ r = q
      BY <1>1 DEF AloneInv, Busy
  <2> QED BY <1>1, <1>3, <2>1
<1>7. LastInv'
  <2> SUFFICES ASSUME NEW p \in Players, given[p] # None, now <= given[p]
               PROVE  p \in vips' /\ rows[p] # None /\ rows[p] >= given[p]
                      /\ \A r \in Processes : Spared(calls[r], p)
      BY <1>1 DEF LastInv
  <2>1. /\ p \in vips /\ rows[p] # None /\ rows[p] >= given[p]
        /\ \A r \in Processes : Spared(calls[r], p)
      BY <1>1 DEF LastInv
  <2> QED BY <2>1
<1>8. ASSUME NEW r \in Processes, alone'[r], fresh'[r], target'[r] # Nothing
      PROVE  Asking(r)' \/ Replacing(r)' \/ Working(r)'
  <2>1. r = q
      BY <1>1, <1>8 DEF AloneInv
  <2> QED BY <1>1, <1>8, <2>1
<1>9. BulkInv'
    BY <1>8 DEF BulkInv
<1> QED BY <1>4, <1>5, <1>6, <1>7, <1>9 DEF IInv

LEMMA ClearCacheKeeps ==
    ASSUME IInv, NEW q \in Processes, ClearCache(q)
    PROVE  IInv'
<1>1. /\ TypeInv /\ ShapeInv /\ BulkInv
      /\ Busy(q) /\ Head(calls[q]).do \in {"add", "remove"} /\ at[q] = "clear"
      /\ cache' = Nothing /\ Step(q, "send") /\ UNCHANGED <<now, vips, rows, faults, ghosts>>
    BY DEF IInv, ClearCache, Does
<1>2. q # Log /\ "send" \in StepsOf(Head(calls[q]))
    BY <1>1 DEF ShapeInv, StepsOf
<1>3. ASSUME alone[q], fresh[q], target[q] # Nothing PROVE Working(q)'
  <2>1. Working(q)
    <3>1. Asking(q) => Head(calls[q]).do = "list"
        BY FixedCalls DEF Asking
    <3>2. Replacing(q) => Head(calls[q]).do = "replace"
        BY FixedCalls DEF Replacing
    <3> QED BY <1>1, <1>3, <3>1, <3>2 DEF BulkInv
  <2> QED BY <1>1, <2>1 DEF Working, Step, ghosts
<1>4. vips' \subseteq Players /\ vips' = vips
    BY <1>1 DEF TypeInv
<1>5. "send" # "record"
    OBVIOUS
<1> QED BY <1>1, <1>2, <1>3, <1>4, <1>5, StepKeeps

LEMMA SendKeeps ==
    ASSUME IInv, NEW q \in Processes, Send(q)
    PROVE  IInv'
<1> DEFINE c == Head(calls[q])
<1>1. /\ TypeInv /\ ShapeInv /\ BulkInv
      /\ Busy(q) /\ c.do \in {"add", "remove"} /\ at[q] = "send"
      /\ cache' = Nothing /\ Step(q, "record") /\ vips' = Sent(c)
      /\ UNCHANGED <<now, rows, faults, ghosts>>
    BY DEF IInv, Send, Does
<1>2. q # Log /\ "record" \in StepsOf(Head(calls[q]))
    BY <1>1 DEF ShapeInv, StepsOf
<1>3. c \in Calls /\ c.player \in Players /\ c = calls[q][1] /\ 1 \in DOMAIN calls[q]
  <2>1. c \in Calls /\ c = calls[q][1] /\ 1 \in DOMAIN calls[q]
      BY <1>1, TailFacts DEF TypeInv, Busy
  <2> QED BY <1>1, <2>1, CallFacts
<1>4. /\ vips' \subseteq Players /\ (c.player \in vips' <=> c.do = "add")
      /\ \A p \in Players : p # c.player => (p \in vips' <=> p \in vips)
    BY <1>1, <1>3 DEF Sent, TypeInv
<1>5. \A p \in Players : p \in vips /\ Spared(calls[q], p) => p \in vips'
    BY <1>3, <1>4 DEF Spared
<1>6. ASSUME alone[q], fresh[q], target[q] # Nothing PROVE Working(q)'
  <2>1. Working(q)
    <3>1. Asking(q) => Head(calls[q]).do = "list"
        BY FixedCalls DEF Asking
    <3>2. Replacing(q) => Head(calls[q]).do = "replace"
        BY FixedCalls DEF Replacing
    <3> QED BY <1>1, <1>6, <3>1, <3>2 DEF BulkInv
  <2>2. ASSUME NEW p \in Players PROVE Left(calls[q], p, target[q], p \in vips', rows[p])
    <3>1. Left(calls[q], p, target[q], p \in vips, rows[p])
        BY <2>1 DEF Working
    <3>2. CASE p = c.player
      <4>1. c \in Adds \cup Removes
          BY <1>3, <2>1 DEF Working
      <4>2. CASE c \in Adds
          BY <1>3, <3>2, <4>2 DEF Left
      <4>3. CASE p \notin DOMAIN target[q]
          BY <1>3, <3>2, <4>3 DEF Left
      <4>4. CASE c \notin Adds /\ p \in DOMAIN target[q]
        <5>1. \E i \in DOMAIN calls[q] : calls[q][i].player = p /\ calls[q][i] \in Adds
            BY <1>3, <3>1, <3>2, <4>4 DEF Left
        <5> QED BY <5>1 DEF Left
      <4> QED BY <4>2, <4>3, <4>4
    <3>3. CASE p # c.player
        BY <1>4, <3>1, <3>3 DEF Left
    <3> QED BY <3>2, <3>3
  <2> QED BY <1>1, <2>1, <2>2 DEF Working, Step, ghosts
<1>7. cache' \in Lists \cup {Nothing}
    BY <1>1
<1> HIDE DEF c
<1>8. alone[q] => (Head(calls[q]).player \in vips' <=> Head(calls[q]).do = "add")
    BY <1>4 DEF c
<1> QED BY <1>1, <1>2, <1>4, <1>5, <1>6, <1>7, <1>8, StepKeeps

-----------------------------------------------------------------------------
(***************************************************************************)
(* The list of the VIPs.                                                   *)
(***************************************************************************)
\* Who lists the VIPs as a job that nothing disturbs is asking for them.
LEMMA ListIsAsking ==
    ASSUME IInv, NEW q \in Processes, Busy(q), Head(calls[q]).do = "list",
           alone[q], fresh[q], target[q] # Nothing
    PROVE  Asking(q)
<1>1. Head(calls[q]) = calls[q][1] /\ 1 \in DOMAIN calls[q]
    BY TailFacts DEF IInv, TypeInv, Busy
<1>2. Replacing(q) => Head(calls[q]).do = "replace"
    BY FixedCalls DEF Replacing
<1>3. Working(q) => Head(calls[q]).do # "list"
    BY <1>1 DEF Working, Adds, Removes
<1> QED BY <1>2, <1>3 DEF IInv, BulkInv

\* q has its list.
LEMMA GotKeeps ==
    ASSUME IInv, NEW q \in Processes, q # Log, Busy(q), Head(calls[q]).do = "list",
           NEW all \in Lists, Got(q, all), cache' \in Lists \cup {Nothing},
           UNCHANGED <<now, vips, rows, faults, given>>,
           Asking(q) => DOMAIN all = vips
    PROVE  IInv'
<1> DEFINE todo == Tail(calls[q])
<1>1. /\ TypeInv /\ ShapeInv /\ AloneInv /\ LastInv /\ BulkInv
      /\ calls' = [calls EXCEPT ![q] = todo] /\ at' = [at EXCEPT ![q] = "query"]
      /\ list' = [list EXCEPT ![q] = all]
      /\ UNCHANGED <<now, vips, rows, faults, given, alone, fresh, target>>
    BY DEF IInv, Got
<1>2. calls[q] \in Seq(Calls) /\ calls[q] # <<>> /\ Ordered(calls[q])
    BY <1>1 DEF TypeInv, ShapeInv, Busy
<1>3. /\ Head(calls[q]) = calls[q][1] /\ 1 \in DOMAIN calls[q] /\ todo \in Seq(Calls)
      /\ \A i \in DOMAIN todo : i + 1 \in DOMAIN calls[q] /\ todo[i] = calls[q][i + 1]
      /\ \A i \in DOMAIN calls[q] : i = 1 \/ (i - 1 \in DOMAIN todo /\ todo[i - 1] = calls[q][i])
      /\ Ordered(todo) /\ \A p : Spared(calls[q], p) => Spared(todo, p)
    BY <1>2, TailFacts
<1>4. todo # <<>> /\ Head(todo).do \in {"replace", "reconcile"}
  <2>1. 1 + 1 \in DOMAIN calls[q] /\ calls[q][1 + 1].do \in {"replace", "reconcile"}
      BY <1>2, <1>3 DEF Ordered, ListThenUse
  <2>2. 1 + 1 # 1 /\ (1 + 1) - 1 = 1
      OBVIOUS
  <2>3. 1 \in DOMAIN todo /\ todo[1].do \in {"replace", "reconcile"}
      BY <1>3, <2>1, <2>2
  <2>4. todo # <<>>
    <3>1. DOMAIN <<>> = {}
        OBVIOUS
    <3> QED BY <2>3, <3>1
  <2> QED BY <1>3, <2>3, <2>4, TailFacts
<1> HIDE DEF todo
<1>5. /\ calls \in [Processes -> Seq(Calls)] /\ list \in [Processes -> Lists]
      /\ at \in [Processes -> {"clear", "send", "record", "ask", "read", "store", "query"}]
    BY <1>1 DEF TypeInv
<1>6. /\ calls' \in [Processes -> Seq(Calls)] /\ calls'[q] = todo
      /\ list' \in [Processes -> Lists] /\ list'[q] = all
      /\ at' \in [Processes -> {"clear", "send", "record", "ask", "read", "store", "query"}]
      /\ at'[q] = "query"
      /\ \A r \in Processes \ {q} : calls'[r] = calls[r] /\ at'[r] = at[r] /\ list'[r] = list[r]
    BY <1>1, <1>3, <1>5
<1>7. TypeInv'
    BY <1>1, <1>6 DEF TypeInv
<1>8. ShapeInv'
  <2>1. \A r \in Processes : at'[r] \in IF Busy(r)' THEN StepsOf(Head(calls'[r])) ELSE {"query"}
    <3>1. "query" \in StepsOf(Head(todo))
        BY <1>4 DEF StepsOf
    <3>2. \A r \in Processes \ {q} : at'[r] \in IF calls'[r] # <<>> THEN StepsOf(Head(calls'[r])) ELSE {"query"}
        BY <1>1, <1>6 DEF ShapeInv, Busy
    <3> QED BY <1>4, <1>6, <3>1, <3>2 DEF Busy
  <2>2. \A r \in Processes \ {Log} : Ordered(calls'[r])
      BY <1>1, <1>3, <1>6 DEF ShapeInv
  <2>3. \A r \in Processes : \A i \in DOMAIN calls'[r] :
            calls'[r][i].do = "replace" => target'[r] # Nothing
    <3>1. \A i \in DOMAIN todo : todo[i].do = "replace" => target[q] # Nothing
        BY <1>1, <1>3 DEF ShapeInv
    <3> QED BY <1>1, <1>6, <3>1 DEF ShapeInv
  <2>4. calls'[Log] \in {<<>>, <<ListCall>>} /\ (Busy(Log)' => at'[Log] = "store")
      BY <1>1, <1>6, ProcessFacts DEF ShapeInv, Busy
  <2> QED BY <2>1, <2>2, <2>3, <2>4 DEF ShapeInv
<1>9. \A r \in Processes : alone[r] => r = q
    BY <1>1 DEF AloneInv
<1>10. AloneInv'
  <2> SUFFICES ASSUME NEW r \in Processes, alone[r]
               PROVE  /\ r # Log
                      /\ \A s \in Processes \ {r, Log} : calls'[s] = <<>>
                      /\ at'[r] # "record"
      BY <1>1 DEF AloneInv, Busy
  <2>1. r = q
      BY <1>9
  <2> QED BY <1>1, <1>6, <2>1 DEF AloneInv, Busy
<1>11. LastInv'
  <2> SUFFICES ASSUME NEW p \in Players, given[p] # None, now <= given[p]
               PROVE  p \in vips /\ rows[p] # None /\ rows[p] >= given[p]
                      /\ \A r \in Processes : Spared(calls'[r], p)
      BY <1>1 DEF LastInv
  <2>1. /\ p \in vips /\ rows[p] # None /\ rows[p] >= given[p]
        /\ \A r \in Processes : Spared(calls[r], p)
      BY <1>1 DEF LastInv
  <2> QED BY <1>3, <1>6, <2>1
<1>12. ASSUME NEW r \in Processes, alone'[r], fresh'[r], target'[r] # Nothing
       PROVE  Replacing(r)'
  <2>1. r = q /\ Asking(q)
      BY <1>1, <1>9, <1>12, ListIsAsking
  <2>2. todo = <<ReplaceCall>>
      BY <2>1 DEF Asking, todo
  <2> QED BY <1>1, <1>6, <2>1, <2>2 DEF Replacing
<1>13. BulkInv'
    BY <1>12 DEF BulkInv
<1> QED BY <1>7, <1>8, <1>10, <1>11, <1>13 DEF IInv

LEMMA AskKeeps ==
    ASSUME IInv, NEW q \in Processes, Ask(q)
    PROVE  IInv'
<1>1. /\ TypeInv /\ ShapeInv /\ Busy(q) /\ Head(calls[q]).do = "list" /\ at[q] = "ask"
      /\ UNCHANGED <<now, vips, rows, cache, faults, given>>
      /\ vips' \subseteq Players /\ cache' \in Lists \cup {Nothing}
    BY DEF IInv, TypeInv, Ask, Does
<1>2. q # Log
    BY <1>1 DEF ShapeInv
<1>3. CASE cache = Nothing
  <2>1. Step(q, "read") /\ UNCHANGED <<alone, fresh, target>>
      BY <1>3 DEF Ask
  <2>2. ASSUME alone[q], fresh[q], target[q] # Nothing PROVE Asking(q)'
    <3>1. Asking(q) /\ calls' = calls /\ list' = list
        BY <1>1, <2>1, <2>2, ListIsAsking DEF Step
    <3>2. at'[q] = "read"
        BY <1>1, <2>1 DEF Step, TypeInv
    <3> QED BY <1>1, <3>1, <3>2 DEF Asking, Busy
  <2>3. "read" \in StepsOf(Head(calls[q])) /\ "read" # "record"
      BY <1>1 DEF StepsOf
  <2>4. UNCHANGED <<now, rows, faults, ghosts>> /\ vips' = vips
      BY <1>1, <2>1 DEF ghosts
  <2> QED BY <1>1, <1>2, <2>1, <2>2, <2>3, <2>4, StepKeeps
<1>4. CASE cache # Nothing
  <2>1. Got(q, cache) /\ cache \in Lists
      BY <1>1, <1>4 DEF Ask, TypeInv
  <2>2. Asking(q) => DOMAIN cache = vips
      BY <1>4 DEF Asking
  <2> DEFINE all == cache
  <2> HIDE DEF all
  <2>3. all \in Lists /\ Got(q, all) /\ (Asking(q) => DOMAIN all = vips)
      BY <2>1, <2>2 DEF all
  <2> QED BY <1>1, <1>2, <2>3, GotKeeps
<1> QED BY <1>3, <1>4

\* The command answers with the VIPs of the game server.
LEMMA ReadServerKeeps ==
    ASSUME IInv, NEW q \in Processes, ReadServer(q)
    PROVE  IInv'
<1> DEFINE answer == [p \in vips |-> FALSE]
<1>1. /\ TypeInv /\ ShapeInv /\ AloneInv /\ LastInv /\ BulkInv
      /\ Busy(q) /\ Head(calls[q]).do = "list" /\ at[q] = "read"
      /\ at' = [at EXCEPT ![q] = "store"] /\ list' = [list EXCEPT ![q] = answer]
      /\ UNCHANGED <<now, vips, rows, cache, calls, faults, given, alone, fresh, target>>
    BY DEF IInv, ReadServer, Does, ghosts
<1>2. q # Log
    BY <1>1 DEF ShapeInv
<1>3. answer \in Lists /\ DOMAIN answer = vips
    BY <1>1, ListFacts DEF TypeInv
<1> HIDE DEF answer
<1>4. /\ list' \in [Processes -> Lists] /\ list'[q] = answer
      /\ at' \in [Processes -> {"clear", "send", "record", "ask", "read", "store", "query"}]
      /\ at'[q] = "store"
      /\ \A r \in Processes \ {q} : at'[r] = at[r] /\ list'[r] = list[r]
  <2>1. /\ list \in [Processes -> Lists]
        /\ at \in [Processes -> {"clear", "send", "record", "ask", "read", "store", "query"}]
      BY <1>1 DEF TypeInv
  <2> QED BY <1>1, <1>3, <2>1
<1>5. TypeInv'
    BY <1>1, <1>4 DEF TypeInv
<1>6. ShapeInv'
  <2>1. \A r \in Processes : at'[r] \in IF Busy(r)' THEN StepsOf(Head(calls'[r])) ELSE {"query"}
    <3>1. "store" \in StepsOf(Head(calls[q]))
        BY <1>1 DEF StepsOf
    <3> QED BY <1>1, <1>4, <3>1 DEF ShapeInv, Busy
  <2>2. calls'[Log] \in {<<>>, <<ListCall>>} /\ (Busy(Log)' => at'[Log] = "store")
      BY <1>1, <1>2, <1>4, ProcessFacts DEF ShapeInv, Busy
  <2> QED BY <1>1, <2>1, <2>2 DEF ShapeInv
<1>7. \A r \in Processes : alone[r] => r = q
    BY <1>1, <1>2 DEF AloneInv
<1>8. AloneInv'
  <2> SUFFICES ASSUME NEW r \in Processes, alone[r]
               PROVE  /\ r # Log
                      /\ \A s \in Processes \ {r, Log} : calls[s] = <<>>
                      /\ at'[r] # "record"
      BY <1>1 DEF AloneInv, Busy
  <2>1. r = q
      BY <1>7
  <2> QED BY <1>1, <1>4, <2>1 DEF AloneInv, Busy
<1>9. LastInv'
    BY <1>1 DEF LastInv
<1>10. ASSUME NEW r \in Processes, alone'[r], fresh'[r], target'[r] # Nothing
       PROVE  Asking(r)'
  <2>1. r = q /\ Asking(q)
      BY <1>1, <1>7, <1>10, ListIsAsking
  <2>2. list'[Log] = list[Log]
      BY <1>2, <1>4, ProcessFacts
  <2> QED BY <1>1, <1>3, <1>4, <2>1, <2>2 DEF Asking, Busy
<1>11. BulkInv'
    BY <1>10 DEF BulkInv
<1> QED BY <1>5, <1>6, <1>8, <1>9, <1>11 DEF IInv

\* Which of them have a row is looked up, and the list is kept for the others.
LEMMA ReadRowsKeeps ==
    ASSUME IInv, NEW q \in Processes, ReadRows(q)
    PROVE  IInv'
<1> DEFINE all == [p \in DOMAIN list[q] |-> rows[p] # None]
<1>1. /\ TypeInv /\ ShapeInv /\ AloneInv /\ LastInv /\ BulkInv
      /\ Busy(q) /\ Head(calls[q]).do = "list" /\ at[q] = "store"
      /\ cache' = all /\ Got(q, all) /\ UNCHANGED <<now, vips, rows, faults, given>>
    BY DEF IInv, ReadRows, Does
<1>2. all \in Lists /\ DOMAIN all = DOMAIN list[q]
  <2>1. DOMAIN list[q] \subseteq Players
      BY <1>1, ListFacts DEF TypeInv
  <2> QED BY <2>1 DEF Lists
<1> HIDE DEF all
<1>3. cache' \in Lists \cup {Nothing}
    BY <1>1, <1>2
<1>4. CASE q # Log
  <2>1. Asking(q) => DOMAIN all = vips
      BY <1>1, <1>2 DEF Asking
  <2> QED BY <1>1, <1>2, <1>3, <1>4, <2>1, GotKeeps
<1>5. CASE q = Log
  <2>1. /\ calls' = [calls EXCEPT ![Log] = Tail(@)] /\ at' = [at EXCEPT ![Log] = "query"]
        /\ list' = [list EXCEPT ![Log] = <<>>]
        /\ UNCHANGED <<now, vips, rows, faults, given, alone, fresh, target>>
      BY <1>1, <1>5 DEF Got
  <2>2. /\ calls \in [Processes -> Seq(Calls)] /\ list \in [Processes -> Lists] /\ Log \in Processes
        /\ at \in [Processes -> {"clear", "send", "record", "ask", "read", "store", "query"}]
      BY <1>1, ProcessFacts DEF TypeInv
  <2>3. calls[Log] = <<ListCall>> /\ Tail(calls[Log]) = <<>>
    <3> DEFINE c == ListCall
    <3>1. calls[Log] = <<c>>
        BY <1>1, <1>5 DEF ShapeInv, Busy
    <3> HIDE DEF c
    <3>2. Tail(<<c>>) = <<>>
        OBVIOUS
    <3> QED BY <3>1, <3>2 DEF c
  <2>4. /\ calls' \in [Processes -> Seq(Calls)] /\ calls'[Log] = <<>> /\ at'[Log] = "query"
        /\ list' \in [Processes -> Lists]
        /\ at' \in [Processes -> {"clear", "send", "record", "ask", "read", "store", "query"}]
        /\ \A r \in Processes \ {Log} : calls'[r] = calls[r] /\ at'[r] = at[r] /\ list'[r] = list[r]
      BY <2>1, <2>2, <2>3, EmptyList
  <2>5. TypeInv'
      BY <1>1, <1>3, <2>1, <2>4 DEF TypeInv
  <2>6. ShapeInv'
    <3>1. \A r \in Processes : at'[r] \in IF Busy(r)' THEN StepsOf(Head(calls'[r])) ELSE {"query"}
        BY <1>1, <2>4 DEF ShapeInv, Busy
    <3>2. \A r \in Processes \ {Log} : Ordered(calls'[r])
        BY <1>1, <2>4 DEF ShapeInv
    <3>3. \A r \in Processes : \A i \in DOMAIN calls'[r] :
              calls'[r][i].do = "replace" => target'[r] # Nothing
        BY <1>1, <2>1, <2>4 DEF ShapeInv
    <3> QED BY <2>4, <3>1, <3>2, <3>3 DEF ShapeInv, Busy
  <2>7. AloneInv'
    <3> SUFFICES ASSUME NEW r \in Processes, alone[r]
                 PROVE  /\ r # Log
                        /\ \A s \in Processes \ {r, Log} : calls'[s] = <<>>
                        /\ at'[r] = "record" => (Head(calls'[r]).player \in vips <=> Head(calls'[r]).do = "add")
        BY <2>1 DEF AloneInv, Busy
    <3>1. /\ r # Log /\ \A s \in Processes \ {r, Log} : calls[s] = <<>>
          /\ at[r] = "record" => (Head(calls[r]).player \in vips <=> Head(calls[r]).do = "add")
        BY <1>1 DEF AloneInv, Busy
    <3> QED BY <2>4, <3>1
  <2>8. LastInv'
    <3> SUFFICES ASSUME NEW p \in Players, given[p] # None, now <= given[p]
                 PROVE  p \in vips /\ rows[p] # None /\ rows[p] >= given[p]
                        /\ \A r \in Processes : Spared(calls'[r], p)
        BY <2>1 DEF LastInv
    <3>1. /\ p \in vips /\ rows[p] # None /\ rows[p] >= given[p]
          /\ \A r \in Processes : Spared(calls[r], p)
        BY <1>1 DEF LastInv
    <3>2. Spared(<<>>, p)
        BY DEF Spared
    <3> QED BY <2>4, <3>1, <3>2
  <2>9. ASSUME NEW r \in Processes, alone'[r], fresh'[r], target'[r] # Nothing
        PROVE  Asking(r)' \/ Replacing(r)' \/ Working(r)'
    <3>1. Asking(r) \/ Replacing(r) \/ Working(r)
        BY <1>1, <2>1, <2>9 DEF BulkInv
    <3>2. r # Log
        BY <1>1, <2>1, <2>9 DEF AloneInv
    <3>3. calls'[r] = calls[r] /\ at'[r] = at[r] /\ list'[r] = list[r]
        BY <2>4, <3>2
    <3>4. CASE Asking(r)
      <4>1. DOMAIN cache' = vips
          BY <1>1, <1>2, <1>5, <3>4 DEF Asking
      <4> QED BY <2>1, <2>4, <3>3, <3>4, <4>1 DEF Asking, Busy
    <3>5. CASE Replacing(r)
        BY <2>1, <3>3, <3>5 DEF Replacing
    <3>6. CASE Working(r)
        BY <2>1, <3>3, <3>6 DEF Working
    <3> QED BY <3>1, <3>4, <3>5, <3>6
  <2>10. BulkInv'
      BY <2>9 DEF BulkInv
  <2> QED BY <2>5, <2>6, <2>7, <2>8, <2>10 DEF IInv
<1> QED BY <1>4, <1>5

\* The log loop asks the game server for the VIPs, since nothing is cached.
LEMMA RealVipsKeeps ==
    ASSUME IInv, _set_real_vips
    PROVE  IInv'
<1> DEFINE answer == [p \in vips |-> FALSE]
<1>1. /\ TypeInv /\ ShapeInv /\ AloneInv /\ LastInv /\ BulkInv
      /\ cache = Nothing /\ calls[Log] = <<>>
      /\ calls' = [calls EXCEPT ![Log] = <<ListCall>>] /\ at' = [at EXCEPT ![Log] = "store"]
      /\ list' = [list EXCEPT ![Log] = answer]
      /\ UNCHANGED <<now, vips, rows, cache, faults, given, alone, fresh, target>>
    BY DEF IInv, _set_real_vips, Busy, ghosts
<1>2. answer \in Lists /\ DOMAIN answer = vips
    BY <1>1, ListFacts DEF TypeInv
<1> DEFINE c == ListCall
<1>3. c \in Calls /\ c.do = "list" /\ c.player = Nobody /\ "store" \in StepsOf(c)
    BY FixedCalls DEF StepsOf
<1>4. calls' = [calls EXCEPT ![Log] = <<c>>]
    BY <1>1
<1> HIDE DEF answer, c
<1>5. <<c>> \in Seq(Calls) /\ <<c>> # <<>> /\ Head(<<c>>) = c
      /\ \A i \in DOMAIN <<c>> : <<c>>[i] = c
    BY <1>3
<1>6. /\ calls' \in [Processes -> Seq(Calls)] /\ calls'[Log] = <<c>>
      /\ list' \in [Processes -> Lists] /\ list'[Log] = answer /\ at'[Log] = "store"
      /\ at' \in [Processes -> {"clear", "send", "record", "ask", "read", "store", "query"}]
      /\ \A r \in Processes \ {Log} : calls'[r] = calls[r] /\ at'[r] = at[r] /\ list'[r] = list[r]
  <2>1. /\ calls \in [Processes -> Seq(Calls)] /\ list \in [Processes -> Lists] /\ Log \in Processes
        /\ at \in [Processes -> {"clear", "send", "record", "ask", "read", "store", "query"}]
      BY <1>1, ProcessFacts DEF TypeInv
  <2> QED BY <1>1, <1>2, <1>4, <1>5, <2>1
<1>7. TypeInv'
    BY <1>1, <1>6 DEF TypeInv
<1>8. ShapeInv'
  <2>1. \A r \in Processes : at'[r] \in IF Busy(r)' THEN StepsOf(Head(calls'[r])) ELSE {"query"}
    <3>1. at'[Log] \in IF calls'[Log] # <<>> THEN StepsOf(Head(calls'[Log])) ELSE {"query"}
        BY <1>3, <1>5, <1>6
    <3> QED BY <1>1, <1>6, <3>1 DEF ShapeInv, Busy
  <2>2. \A r \in Processes \ {Log} : Ordered(calls'[r])
      BY <1>1, <1>6 DEF ShapeInv
  <2>3. \A r \in Processes : \A i \in DOMAIN calls'[r] :
            calls'[r][i].do = "replace" => target'[r] # Nothing
      BY <1>1, <1>3, <1>5, <1>6 DEF ShapeInv
  <2>4. calls'[Log] = <<ListCall>>
      BY <1>6 DEF c
  <2> QED BY <1>6, <2>1, <2>2, <2>3, <2>4 DEF ShapeInv, Busy
<1>9. AloneInv'
  <2> SUFFICES ASSUME NEW r \in Processes, alone[r]
               PROVE  /\ r # Log
                      /\ \A s \in Processes \ {r, Log} : calls'[s] = <<>>
                      /\ at'[r] = "record" => (Head(calls'[r]).player \in vips <=> Head(calls'[r]).do = "add")
      BY <1>1 DEF AloneInv, Busy
  <2>1. /\ r # Log /\ \A s \in Processes \ {r, Log} : calls[s] = <<>>
        /\ at[r] = "record" => (Head(calls[r]).player \in vips <=> Head(calls[r]).do = "add")
      BY <1>1 DEF AloneInv, Busy
  <2> QED BY <1>6, <2>1
<1>10. LastInv'
  <2> SUFFICES ASSUME NEW p \in Players, given[p] # None, now <= given[p]
               PROVE  p \in vips /\ rows[p] # None /\ rows[p] >= given[p]
                      /\ \A r \in Processes : Spared(calls'[r], p)
      BY <1>1 DEF LastInv
  <2>1. /\ p \in vips /\ rows[p] # None /\ rows[p] >= given[p]
        /\ \A r \in Processes : Spared(calls[r], p)
      BY <1>1 DEF LastInv
  <2>2. Spared(<<c>>, p)
    <3>1. c.player # p /\ c.do # "replace"
        BY <1>3, ProcessFacts
    <3> QED BY <1>5, <3>1 DEF Spared
  <2> QED BY <1>6, <2>1, <2>2
<1>11. ASSUME NEW r \in Processes, alone'[r], fresh'[r], target'[r] # Nothing
       PROVE  Asking(r)' \/ Replacing(r)' \/ Working(r)'
  <2>1. Asking(r) \/ Replacing(r) \/ Working(r)
      BY <1>1, <1>11 DEF BulkInv
  <2>2. r # Log
      BY <1>1, <1>11 DEF AloneInv
  <2>3. calls'[r] = calls[r] /\ at'[r] = at[r] /\ list'[r] = list[r]
      BY <1>6, <2>2
  <2>4. CASE Asking(r)
      BY <1>1, <1>2, <1>6, <2>3, <2>4 DEF Asking
  <2>5. CASE Replacing(r)
      BY <1>1, <2>3, <2>5 DEF Replacing
  <2>6. CASE Working(r)
      BY <1>1, <2>3, <2>6 DEF Working
  <2> QED BY <2>1, <2>4, <2>5, <2>6
<1>12. BulkInv'
    BY <1>11 DEF BulkInv
<1> QED BY <1>7, <1>8, <1>9, <1>10, <1>12 DEF IInv

LEMMA LapseKeeps ==
    ASSUME IInv, Lapse
    PROVE  IInv'
<1>1. /\ TypeInv /\ ShapeInv /\ AloneInv /\ LastInv /\ BulkInv /\ cache' = Nothing
      /\ UNCHANGED <<now, vips, rows, calls, at, list, faults, given, alone, fresh, target>>
    BY DEF IInv, Lapse, ghosts
<1>2. TypeInv'
    BY <1>1 DEF TypeInv
<1>3. ShapeInv' /\ AloneInv' /\ LastInv'
    BY <1>1 DEF ShapeInv, AloneInv, LastInv, Busy
<1>4. BulkInv'
    BY <1>1 DEF BulkInv, Asking, Replacing, Working, Busy
<1> QED BY <1>2, <1>3, <1>4 DEF IInv

\* Time lets nobody lose a VIP.
LEMMA TickKeeps ==
    ASSUME IInv, Tick
    PROVE  IInv'
<1>1. /\ TypeInv /\ ShapeInv /\ AloneInv /\ LastInv /\ BulkInv /\ now < MaxTime /\ now' = now + 1
      /\ UNCHANGED <<vips, rows, cache, calls, at, list, faults, given, alone, fresh, target>>
    BY DEF IInv, Tick, ghosts
<1>2. now' \in 0 .. MaxTime
  <2>1. now \in 0 .. MaxTime /\ MaxTime \in Nat
      BY <1>1, VipsAssumption DEF TypeInv
  <2> QED BY <1>1, <2>1
<1>3. TypeInv'
    BY <1>1, <1>2 DEF TypeInv
<1>4. ShapeInv' /\ AloneInv'
    BY <1>1 DEF ShapeInv, AloneInv, Busy
<1>5. LastInv'
  <2> SUFFICES ASSUME NEW p \in Players, given[p] # None, now' <= given[p]
               PROVE  now <= given[p]
      BY <1>1 DEF LastInv
  <2>1. now \in Int /\ given[p] \in Int
      BY <1>1, VipsAssumption DEF TypeInv, Expirations, Indefinite
  <2> QED BY <1>1, <2>1
<1>6. BulkInv'
    BY <1>1 DEF BulkInv, Asking, Replacing, Working, Busy
<1> QED BY <1>3, <1>4, <1>5, <1>6 DEF IInv

-----------------------------------------------------------------------------
LEMMA InitIInv == Init => IInv
<1> SUFFICES ASSUME Init PROVE IInv
    OBVIOUS
<1>1. /\ now = 0 /\ faults = 0 /\ vips \in SUBSET Players /\ rows \in [Players -> {None, 0}]
      /\ cache = Nothing /\ calls = [q \in Processes |-> <<>>]
      /\ at = [q \in Processes |-> "query"] /\ list = [q \in Processes |-> <<>>]
      /\ given = [p \in Players |-> None]
      /\ alone = [q \in Processes |-> FALSE] /\ fresh = [q \in Processes |-> FALSE]
      /\ target = [q \in Processes |-> Nothing]
    BY DEF Init
<1>2. TypeInv
  <2>1. 0 \in 0 .. MaxTime /\ 0 \in 0 .. MaxFaults /\ 0 \in Expirations
      BY VipsAssumption DEF Expirations, Indefinite
  <2>2. <<>> \in Seq(Calls)
      OBVIOUS
  <2>3. calls \in [Processes -> Seq(Calls)] /\ list \in [Processes -> Lists]
      BY <1>1, <2>2, EmptyList
  <2> QED BY <1>1, <2>1, <2>3 DEF TypeInv
<1>3. Ordered(<<>>)
    BY DEF Ordered, AddsLast, ListThenUse
<1>4. ShapeInv
    BY <1>1, <1>3, ProcessFacts DEF ShapeInv, Busy
<1>5. AloneInv /\ LastInv /\ BulkInv
    BY <1>1 DEF AloneInv, LastInv, BulkInv
<1> QED BY <1>2, <1>4, <1>5 DEF IInv

LEMMA NextIInv ==
    ASSUME IInv, [Next]_vars
    PROVE  IInv'
<1>1. ASSUME NEW q \in Processes, Move(q) PROVE IInv'
  <2>1. Ask(q) \/ ReadServer(q) \/ ReadRows(q) \/ ClearCache(q) \/ Send(q) \/ Record(q)
      BY <1>1 DEF Move
  <2> QED BY <2>1, AskKeeps, ReadServerKeeps, ReadRowsKeeps, ClearCacheKeeps, SendKeeps, RecordKeeps
<1>2. CASE Tick
    BY <1>2, TickKeeps
<1>3. CASE Lapse
    BY <1>3, LapseKeeps
<1>4. CASE Service
    BY <1>1, <1>4, RemoveExpiredKeeps, ReconcileKeeps, ProcessFacts DEF Service
<1>5. CASE _set_real_vips
    BY <1>5, RealVipsKeeps
<1>6. CASE ReadRows(Log)
    BY <1>6, ReadRowsKeeps, ProcessFacts
<1>7. ASSUME NEW q \in Requests,
             RequestAdd(q) \/ RequestRemove(q) \/ bulk_vip(q) \/ do_remove_all_vips(q) \/ Replace(q) \/ Move(q)
      PROVE  IInv'
    BY <1>1, <1>7, RequestAddKeeps, RequestRemoveKeeps, BulkKeeps, ReplaceKeeps, ProcessFacts
<1>8. ASSUME NEW q \in Processes, Fails(q) PROVE IInv'
    BY <1>8, FailsKeeps
<1>9. CASE UNCHANGED vars
  <2>1. UNCHANGED <<now, vips, rows, cache, calls, at, list, faults, given, alone, fresh, target>>
      BY <1>9 DEF vars
  <2>2. TypeInv'
      BY <2>1 DEF IInv, TypeInv
  <2>3. ShapeInv' /\ AloneInv' /\ LastInv'
      BY <2>1 DEF IInv, ShapeInv, AloneInv, LastInv, Busy
  <2>4. BulkInv'
      BY <2>1 DEF IInv, BulkInv, Asking, Replacing, Working, Busy
  <2> QED BY <2>2, <2>3, <2>4 DEF IInv
<1> QED BY <1>2, <1>3, <1>4, <1>5, <1>6, <1>7, <1>8, <1>9 DEF Next

-----------------------------------------------------------------------------
\* A step of a process leaves the calls of the others alone.
LEMMA OwnCalls ==
    ASSUME IInv, NEW r \in Processes,
           \/ Move(r) \/ Fails(r) \/ Replace(r)
           \/ \E todo, upload : Begin(r, todo, upload)
           \/ Reconcile /\ r = Expirer
           \/ _set_real_vips /\ r = Log
    PROVE  \A q \in Processes \ {r} : calls'[q] = calls[q]
<1>1. calls \in [Processes -> Seq(Calls)]
    BY DEF IInv, TypeInv
<1>2. ASSUME NEW todo, Todo(r, todo) PROVE \A q \in Processes \ {r} : calls'[q] = calls[q]
    BY <1>1, <1>2 DEF Todo
<1>3. ASSUME NEW all, Got(r, all) PROVE \A q \in Processes \ {r} : calls'[q] = calls[q]
    BY <1>1, <1>3 DEF Got
<1>4. CASE Ask(r)
    BY <1>3, <1>4 DEF Ask, Step
<1>5. CASE ReadServer(r) \/ ClearCache(r) \/ Send(r)
    BY <1>5 DEF ReadServer, ClearCache, Send, Step
<1>6. CASE ReadRows(r)
    BY <1>3, <1>6 DEF ReadRows
<1>7. CASE Record(r)
    BY <1>2, <1>7 DEF Record, Goto
<1>8. CASE Fails(r)
    BY <1>2, <1>8 DEF Fails, Goto
<1>9. CASE Replace(r)
    BY <1>2, <1>9 DEF Replace, Goto
<1>10. CASE \E todo, upload : Begin(r, todo, upload)
    BY <1>2, <1>10 DEF Begin
<1>11. CASE Reconcile /\ r = Expirer
    BY <1>2, <1>11 DEF Reconcile, Goto
<1>12. CASE _set_real_vips /\ r = Log
    BY <1>1, <1>12 DEF _set_real_vips
<1> QED BY <1>4, <1>5, <1>6, <1>7, <1>8, <1>9, <1>10, <1>11, <1>12 DEF Move

\* Which step it is.
LEMMA NextCases ==
    ASSUME Next
    PROVE  \/ Tick \/ Lapse \/ Reconcile \/ _set_real_vips
           \/ \E r \in Processes : Move(r) \/ Fails(r)
           \/ \E r \in Requests : Replace(r)
           \/ \E r \in Requests \cup {Expirer} : \E todo, upload : Begin(r, todo, upload)
<1>1. \A r \in Requests : RequestAdd(r) \/ RequestRemove(r) \/ bulk_vip(r) \/ do_remove_all_vips(r)
          => \E todo, upload : Begin(r, todo, upload)
    BY DEF RequestAdd, RequestRemove, bulk_vip, do_remove_all_vips
<1>2. remove_expired_vips => \E todo, upload : Begin(Expirer, todo, upload)
    BY DEF remove_expired_vips
<1>3. ReadRows(Log) => Move(Log)
    BY DEF Move
<1> QED BY <1>1, <1>2, <1>3, ProcessFacts DEF Next, Service

\* A row goes with the removal of its VIP, which was done before.
LEMMA RowGoneStep ==
    ASSUME IInv, Next, NEW p \in Players, NEW q \in Processes, Busy(q),
           calls'[q] # calls[q], alone[q], rows[p] # None, rows'[p] = None
    PROVE  p \notin vips
<1>1. TypeInv /\ AloneInv
    BY DEF IInv
<1>2. CASE Tick \/ Lapse \/ _set_real_vips
    BY <1>2 DEF Tick, Lapse, _set_real_vips
<1>3. CASE Reconcile
  <2>1. PICK known : rows' = [x \in Players |-> IF x \in known THEN Indefinite ELSE rows[x]]
      BY <1>3 DEF Reconcile
  <2>2. Indefinite # None
      BY VipsAssumption DEF Indefinite, None
  <2> QED BY <2>1, <2>2
<1>4. ASSUME NEW r \in Processes, Move(r) \/ Fails(r) PROVE p \notin vips
  <2>1. Record(r)
      BY <1>4 DEF Move, Fails, Ask, ReadServer, ReadRows, ClearCache, Send, ghosts
  <2>2. q = r
      BY <1>4, OwnCalls
  <2> DEFINE c == Head(calls[q])
  <2>3. rows' = [rows EXCEPT ![c.player] = c.till] /\ at[q] = "record" /\ c.do \in {"add", "remove"}
      BY <2>1, <2>2 DEF Record, Does
  <2>4. c \in Calls
      BY <1>1, TailFacts DEF TypeInv, Busy
  <2>5. c.player \in vips <=> c.do = "add"
      BY <1>1, <2>3 DEF AloneInv
  <2> HIDE DEF c
  <2>6. p = c.player /\ c.till = None
      BY <1>1, <2>3 DEF TypeInv
  <2>7. c.do # "add"
      BY <2>4, <2>6, CallFacts
  <2> QED BY <2>5, <2>6, <2>7
<1>5. ASSUME NEW r \in Requests, Replace(r) PROVE p \notin vips
    BY <1>5 DEF Replace
<1>6. ASSUME NEW r \in Requests \cup {Expirer}, NEW todo, NEW upload, Begin(r, todo, upload)
      PROVE  p \notin vips
    BY <1>6 DEF Begin
<1> QED BY <1>2, <1>3, <1>4, <1>5, <1>6, NextCases

\* A job that nothing disturbs ends with the last row it writes, or at once when
\* there is nobody to remove and to add.
LEMMA BulkStep ==
    ASSUME IInv, Next, NEW q \in Requests, Busy(q), calls'[q] = <<>>, faults' = faults,
           target[q] # Nothing, alone[q], fresh[q]
    PROVE  vips' = DOMAIN target[q] /\ \A p \in vips' : rows'[p] = target[q][p]
<1>1. /\ TypeInv /\ ShapeInv /\ AloneInv /\ BulkInv /\ q \in Processes /\ q # Log /\ q # Expirer
      /\ calls'[q] # calls[q]
    BY ProcessFacts DEF IInv, Busy
<1>2. /\ calls[q] \in Seq(Calls) /\ calls[q] # <<>> /\ Ordered(calls[q])
      /\ Head(calls[q]) = calls[q][1] /\ 1 \in DOMAIN calls[q]
      /\ \A i \in DOMAIN calls[q] : i = 1 \/ i - 1 \in DOMAIN Tail(calls[q])
    BY <1>1, TailFacts DEF TypeInv, ShapeInv, Busy
<1>3. DOMAIN target[q] \subseteq Players /\ vips \subseteq Players
  <2>1. target[q] \in Uploads \cup {<<>>} /\ DOMAIN <<>> = {}
      BY <1>1 DEF TypeInv
  <2> QED BY <1>1, <2>1, VipsAssumption DEF TypeInv
<1>4. CASE Tick \/ Lapse
    BY <1>1, <1>4 DEF Tick, Lapse
<1>5. CASE _set_real_vips \/ Reconcile
    BY <1>1, <1>5, OwnCalls, ProcessFacts
<1>6. ASSUME NEW r \in Requests \cup {Expirer}, NEW todo, NEW upload, Begin(r, todo, upload)
      PROVE  FALSE
  <2>1. r \in Processes /\ ~Busy(r)
      BY <1>6, ProcessFacts DEF Begin
  <2> QED BY <1>1, <1>6, <2>1, OwnCalls
<1>7. ASSUME NEW r \in Processes, Fails(r) PROVE FALSE
  <2>1. faults \in Int /\ faults' = faults + 1
      BY <1>1, <1>7, VipsAssumption DEF Fails, TypeInv
  <2> QED BY <2>1
<1>8. ASSUME NEW r \in Processes, Move(r)
      PROVE  vips' = DOMAIN target[q] /\ \A p \in vips' : rows'[p] = target[q][p]
  <2>1. r = q
      BY <1>1, <1>8, OwnCalls
  <2>2. ASSUME NEW all, Got(q, all), Head(calls[q]).do = "list" PROVE FALSE
    <3>1. 1 + 1 \in DOMAIN calls[q]
        BY <1>2, <2>2 DEF Ordered, ListThenUse
    <3>2. 1 + 1 # 1
        OBVIOUS
    <3>3. (1 + 1) - 1 \in DOMAIN Tail(calls[q])
        BY <1>2, <3>1, <3>2
    <3>4. calls'[q] = Tail(calls[q])
        BY <1>1, <2>2 DEF Got, TypeInv
    <3>5. DOMAIN <<>> = {}
        OBVIOUS
    <3> QED BY <3>3, <3>4, <3>5
  <2>3. ~Ask(q) /\ ~ReadRows(q)
      BY <1>1, <2>2 DEF Ask, ReadRows, Does, Step
  <2>4. ~ReadServer(q) /\ ~ClearCache(q) /\ ~Send(q)
      BY <1>1 DEF ReadServer, ClearCache, Send, Step
  <2>5. Record(q)
      BY <1>8, <2>1, <2>3, <2>4 DEF Move
  <2>6. calls'[q] = Tail(calls[q]) /\ vips' = vips
      BY <1>1, <2>5 DEF Record, Goto, Todo, TypeInv
  <2>7. \A p \in Players : Left(<<>>, p, target[q], p \in vips', rows'[p])
      BY <1>1, <2>5, <2>6, RecordLeaves
  <2>8. \A p \in Players : (p \in vips' <=> p \in DOMAIN target[q])
                           /\ (p \in vips' => rows'[p] = target[q][p])
    <3>1. DOMAIN <<>> = {}
        OBVIOUS
    <3> QED BY <2>7, <3>1 DEF Left
  <2> QED BY <1>3, <2>6, <2>8
<1>9. ASSUME NEW r \in Requests, Replace(r)
      PROVE  vips' = DOMAIN target[q] /\ \A p \in vips' : rows'[p] = target[q][p]
  <2>1. r = q
      BY <1>1, <1>9, OwnCalls, ProcessFacts
  <2> DEFINE upload == target[q]
             order == SetToSeq(DOMAIN upload)
             removes == Each("remove", DOMAIN list[q])
             adds == [i \in DOMAIN order |-> Call("add", order[i], upload[order[i]])]
  <2>2. Head(calls[q]).do = "replace" /\ Goto(q, removes \o adds, TRUE) /\ vips' = vips
      BY <1>9, <2>1 DEF Replace, Does
  <2>3. removes \o adds = <<>>
      BY <1>1, <2>2 DEF Goto, Todo, TypeInv
  <2>4. DOMAIN list[q] = vips
    <3>1. Asking(q) => Head(calls[q]).do = "list"
        BY <1>2, FixedCalls DEF Asking
    <3>2. Working(q) => Head(calls[q]).do # "replace"
        BY <1>2 DEF Working, Adds, Removes
    <3> QED BY <1>1, <2>2, <3>1, <3>2 DEF BulkInv, Replacing
  <2>5. upload \in [DOMAIN upload -> Expirations]
    <3>1. upload \in Uploads \cup {<<>>}
        BY <1>1 DEF TypeInv
    <3>2. CASE upload \in Uploads
        BY <3>2, VipsAssumption DEF Expirations, Indefinite
    <3>3. CASE upload = <<>>
      <4>1. <<>> \in [{} -> Expirations] /\ DOMAIN <<>> = {}
          BY SMT
      <4> QED BY <3>3, <4>1
    <3> QED BY <3>1, <3>2, <3>3
  <2>6. adds \in Seq(Calls) /\ \A p \in DOMAIN upload : \E i \in DOMAIN adds : adds[i].player = p
      BY <1>3, <2>5, AddAllFacts
  <2>7. removes \in Seq(Calls) /\ \A p \in vips : \E i \in DOMAIN removes : removes[i].player = p
      BY <1>3, <2>4, EachFacts
  <2> HIDE DEF upload, order, removes, adds
  <2>8. DOMAIN removes = {} /\ DOMAIN adds = {}
    <3>1. /\ \A i \in DOMAIN removes : i \in DOMAIN (removes \o adds)
          /\ \A i \in DOMAIN adds : i + Len(removes) \in DOMAIN (removes \o adds)
        BY <2>6, <2>7, JoinFacts
    <3>2. DOMAIN <<>> = {}
        OBVIOUS
    <3> QED BY <2>3, <3>1, <3>2
  <2>9. vips' = {} /\ DOMAIN target[q] = {}
      BY <2>2, <2>6, <2>7, <2>8 DEF upload
  <2> QED BY <2>9
<1> QED BY <1>4, <1>5, <1>6, <1>7, <1>8, <1>9, NextCases

-----------------------------------------------------------------------------
\* The invariant holds, whatever requests, jobs, the service and the log loop do
\* beside each other (Rcon.do_add_vip, do_remove_vip, workers.bulk_vip,
\* remove_expired_vips).
THEOREM VipsInvariant == Spec => []IInv
<1>1. IInv /\ [Next]_vars => IInv'
    BY NextIInv
<1> QED BY <1>1, InitIInv, PTL DEF Spec

\* Every variable has its type: no call is made but with a player it is about,
\* and no list names anybody who is no player.
THEOREM VipsTypeCorrect == Spec => []TypeOK
<1>1. IInv => TypeOK
  <2> SUFFICES ASSUME IInv PROVE TypeOK
      OBVIOUS
  <2>1. TypeInv
      BY DEF IInv
  <2>2. ASSUME NEW q \in Processes, NEW i \in DOMAIN calls[q]
        PROVE  /\ calls[q][i].do \in DOMAIN Firsts
               /\ calls[q][i].do \in {"add", "remove"} <=> calls[q][i].player \in Players
    <3>1. calls[q] \in Seq(Calls)
        BY <2>1 DEF TypeInv
    <3>2. calls[q][i] \in Calls
        BY <3>1
    <3>3. calls[q][i].do \in {"add", "remove", "list", "replace", "reconcile"}
        BY <3>2, CallFacts
    <3> QED BY <3>2, <3>3, CallFacts DEF Firsts
  <2>3. /\ now \in 0 .. MaxTime /\ vips \subseteq Players /\ faults \in 0 .. MaxFaults
        /\ rows \in [Players -> Expirations \cup {None}] /\ cache \in Lists \cup {Nothing}
        /\ given \in [Players -> Expirations \cup {None}]
        /\ \A q \in Processes :
              /\ at[q] \in {"clear", "send", "record", "ask", "read", "store", "query"}
              /\ list[q] \in Lists
      BY <2>1 DEF TypeInv
  <2> QED BY <2>2, <2>3 DEF TypeOK
<1> QED BY <1>1, VipsInvariant, PTL

\* Whoever was given a VIP has it until then: neither the service nor a job that
\* begins earlier takes it away, whatever fails (Rcon.do_add_vip,
\* remove_expired_vips).
THEOREM VipLasts == Spec => []VipLastsAsGiven
<1>1. IInv => VipLastsAsGiven
    BY DEF IInv, LastInv, VipLastsAsGiven
<1> QED BY <1>1, VipsInvariant, PTL

\* A removal deletes the row of nobody who is still a VIP (Rcon.do_remove_vip).
THEOREM RowGone == Spec => RowGoneVipGone
<1>1. IInv /\ [Next]_vars =>
        [\A p \in Players, q \in Processes :
          /\ Busy(q) /\ calls'[q] # calls[q] /\ alone[q]
          /\ rows[p] # None /\ rows'[p] = None
          => p \notin vips]_vars
    BY RowGoneStep
<1> QED BY <1>1, VipsInvariant, PTL DEF Spec, RowGoneVipGone

\* A file that is uploaded replaces the VIPs, and the removal of all leaves none
\* (workers.bulk_vip, Rcon.do_remove_all_vips).
THEOREM BulkLeaves == Spec => BulkLeavesTheList
<1>1. IInv /\ [Next]_vars =>
        [\A q \in Requests :
          /\ Busy(q) /\ calls'[q] = <<>> /\ faults' = faults
          /\ target[q] # Nothing /\ alone[q] /\ fresh[q]
          => /\ vips' = DOMAIN target[q]
             /\ \A p \in vips' : rows'[p] = target[q][p]]_vars
    BY BulkStep
<1> QED BY <1>1, VipsInvariant, PTL DEF Spec, BulkLeavesTheList

===============================================================================

----------------------------- MODULE LogStream ------------------------------
(***************************************************************************)
(* The log_stream process (LogStream in rcon/game_logs.py, over the Redis  *)
(* stream of rcon/utils.py) and one client of the websocket that reads it  *)
(* (rconweb/api/log_stream.py).  The stream is filled like the history of  *)
(* LogLoop, from overlapping fetches, but what is new is told by the ID of *)
(* an entry, made from the second of the line and its place among the      *)
(* lines of that second.  The feature is enabled throughout, the client    *)
(* asks for every action.                                                  *)
(***************************************************************************)
EXTENDS GameLog, FiniteSets

CONSTANTS
    Startup,    \* startup_since_mins
    Refresh,    \* refresh_since_mins
    StreamSize, \* stream_size
    NoId        \* last_seen_id of a client that has seen nothing

ASSUME StreamAssumption ==
    /\ Startup \in Nat /\ Refresh \in Nat
    /\ StreamSize \in Nat \ {0}
ASSUME NoIdAssumption == NoId \notin Nat \X Nat

VARIABLES
    stream,     \* the entries, oldest first
    batch,      \* what is left of the last fetch
    pc,         \* where the process is
    since,      \* the window of the next fetch
    lastSeen,   \* last_seen of the consumer
    outbox,     \* entries read and not yet sent
    clientSeen, \* the last last_seen_id that the client received
    received,   \* history: the lines the client received
    fetched,    \* history: when the batch was fetched
    sure,       \* history: when the last batch that was completed was fetched
    lapsed      \* history: a line went by unseen

producer == <<stream, batch, pc, since, fetched, sure>>
consumer == <<lastSeen, outbox, clientSeen, received>>
vars == <<gameVars, producer, consumer, lapsed>>

\* IDs are ordered by second, then by index.
Greater(a, b) == a[1] > b[1] \/ (a[1] = b[1] /\ a[2] > b[2])

Ids == Nat \X Nat
Entry == [id : Ids, line : Lines]

TypeOK ==
    /\ GameTypeOK
    /\ stream \in Seq(Entry) /\ batch \in Seq(Entry) /\ outbox \in Seq(Entry)
    /\ pc \in {"start", "fetch", "add"}
    /\ since \in {Startup, Refresh}
    /\ lastSeen \in Ids \cup {NoId} /\ clientSeen \in Ids \cup {NoId}
    /\ received \in Seq(Lines)
    /\ fetched \in 0 .. now /\ sure \in 0 .. now
    /\ lapsed \in BOOLEAN

Init ==
    /\ GameInit
    /\ stream = <<>> /\ batch = <<>> /\ pc = "start" /\ since = Startup
    /\ lastSeen = NoId /\ outbox = <<>> /\ clientSeen = NoId /\ received = <<>>
    /\ fetched = 0 /\ sure = 0 /\ lapsed = FALSE

-----------------------------------------------------------------------------
(* The producer.                                                           *)

\* A variant that numbers all the lines of a batch.
IndexInBatch(i, lo) == i - lo

\* A variant that does not number the lines of a second.
NoIndex(i, lo) == 0

\* The idx of bucket_by_timestamp: i's place among the lines of its second,
\* in a batch that begins with line lo.
IndexInBucket(i, lo) == Cardinality({k \in lo .. i - 1 : game[k] = game[i]})

\* run_log_stream empties the stream before it calls LogStream.run.
Start ==
    /\ pc = "start"
    /\ stream' = <<>> /\ since' = Startup /\ pc' = "fetch"
    /\ UNCHANGED <<gameVars, batch, consumer, fetched, sure, lapsed>>

\* Where the client is: what it saw last, or what it is about to see first.
Front ==
    IF clientSeen = NoId /\ outbox # <<>> THEN Head(outbox).id ELSE clientSeen

\* The window must reach back to the last fetch; the first one, after the
\* stream was emptied, to where the client is.
Lapse ==
    \/ since = Refresh /\ now > sure + Refresh
    \/ stream = <<>> /\ Front # NoId /\ now > Front[1] + since

Fetch ==
    /\ pc = "fetch"
    /\ \E lo \in 1 .. Len(game) + 1 :
          /\ ShownFrom(lo, since)
          /\ batch' = [k \in 1 .. Len(game) - lo + 1 |->
                          [id |-> <<game[lo + k - 1], IndexInBucket(lo + k - 1, lo)>>,
                           line |-> lo + k - 1]]
    /\ since' = Refresh /\ fetched' = now /\ pc' = "add"
    /\ lapsed' = (lapsed \/ Lapse)
    /\ UNCHANGED <<gameVars, stream, consumer, sure>>

Unseen(e) == Front # NoId /\ Greater(e.id, Front)

\* Stream.add: XADD refuses an ID that is not greater than the last one
\* (StreamOlderElement), and may trim the stream down to StreamSize.
Add ==
    /\ pc = "add" /\ batch # <<>>
    /\ batch' = Tail(batch)
    /\ IF stream = <<>> \/ Greater(Head(batch).id, stream[Len(stream)].id)
       THEN \E trimmed \in {0, 1} :
               /\ trimmed = 1 => Len(stream) >= StreamSize
               /\ stream' = SubSeq(Append(stream, Head(batch)), 1 + trimmed, Len(stream) + 1)
               /\ lapsed' = (lapsed \/ (trimmed = 1 /\ Unseen(stream[1])))
       ELSE UNCHANGED <<stream, lapsed>>
    /\ UNCHANGED <<gameVars, consumer, pc, since, fetched, sure>>

EndBatch ==
    /\ pc = "add" /\ batch = <<>>
    /\ pc' = "fetch" /\ sure' = fetched
    /\ UNCHANGED <<gameVars, stream, batch, since, fetched, consumer, lapsed>>

\* Killed, or the game server or Redis failed; supervisord starts it again.
Crash ==
    /\ pc # "start"
    /\ pc' = "start" /\ batch' = <<>>
    /\ UNCHANGED <<gameVars, stream, since, fetched, sure, consumer, lapsed>>

-----------------------------------------------------------------------------
(* The consumer.                                                           *)

\* logs_since: the last entry for a new client, else what is after last_seen.
\* An empty stream makes tail() return None, which ends the connection.
Read ==
    /\ outbox = <<>> /\ stream # <<>>
    /\ IF lastSeen = NoId
       THEN outbox' = <<stream[Len(stream)]>>
       ELSE \E k \in DOMAIN stream :
               /\ \A i \in DOMAIN stream : i >= k <=> Greater(stream[i].id, lastSeen)
               /\ outbox' = SubSeq(stream, k, Len(stream))
    /\ lastSeen' = outbox'[Len(outbox')].id
    /\ UNCHANGED <<gameVars, producer, clientSeen, received, lapsed>>

\* A message with the next entries reaches the client.
Send ==
    /\ outbox # <<>>
    /\ outbox' = Tail(outbox)
    /\ clientSeen' = Head(outbox).id
    /\ received' = Append(received, Head(outbox).line)
    /\ UNCHANGED <<gameVars, producer, lastSeen, lapsed>>

\* The connection is lost; the client opens another and says what it has seen.
Reconnect ==
    /\ outbox # <<>> \/ lastSeen # clientSeen
    /\ outbox' = <<>>
    /\ lastSeen' = clientSeen
    /\ UNCHANGED <<gameVars, producer, clientSeen, received, lapsed>>

Next ==
    \/ Start \/ Fetch \/ Add \/ EndBatch \/ Crash
    \/ Read \/ Send \/ Reconnect
    \/ GameNext /\ UNCHANGED <<producer, consumer, lapsed>>

Spec == Init /\ [][Next]_vars

-----------------------------------------------------------------------------
(* Properties                                                              *)

\* A client receives no line twice and none out of order, although the
\* process empties and refills the stream when it starts and although the
\* client comes back with an ID from before that: IDs made in different
\* fetches agree.
ReceivedOnceInOrder ==
    \A a, b \in DOMAIN received : a < b => received[a] < received[b]

\* From its first line on, a client misses none, unless a fetch came too
\* late, the stream was trimmed or emptied past what it had seen.
NoneMissed ==
    ~lapsed => \A a \in 2 .. Len(received) : received[a] = received[a - 1] + 1
=============================================================================

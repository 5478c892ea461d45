---------------------------- MODULE MapRotation -----------------------------
(***************************************************************************)
(* The map rotation of the game server and its copy in Redis: the          *)
(* operations of Rcon that change it (rcon/rcon.py), VoteMap.apply_results *)
(* (rcon/vote_map.py), and the cache around get_map_rotation               *)
(* (rcon/cache_utils.py).  The log loop, the web server and the automatic  *)
(* settings call them, each in a process of its own and without a lock.    *)
(*                                                                         *)
(* An operation is a program of the Redis and RCON commands that it sends. *)
(* What it reads decides what follows, so the program grows on the way.    *)
(***************************************************************************)
EXTENDS Naturals, SequencesExt

CONSTANTS
    Procs,      \* the processes
    Maps,
    NoMap,      \* fills a field of an instruction that has no map
    Nothing,    \* the cache holds no rotation
    Kinds,      \* the operations that each process calls
    MaxLen,     \* bound: maps in the rotation
    MaxMaps     \* bound: maps named in one call

ASSUME RotationAssumption ==
    /\ Kinds \in [Procs -> SUBSET {"set", "add", "adds", "remove", "apply", "look"}]
    /\ MaxLen \in Nat \ {0} /\ MaxMaps \in Nat \ {0}

VARIABLES
    rotation,   \* the rotation on the game server
    cache,      \* the cached result of get_map_rotation in Redis
    prog,       \* what each process still has to do
    op,         \* the operation each process is in, or was in last
    phase,      \* where a process is inside get_map_rotation
    view,       \* the rotation it has read
    failed,     \* did its last operation raise
    before,     \* history: the rotation when the operation began
    alone,      \* history: no other process did anything since
    fresh,      \* history: the cache was not stale when it began
    twice       \* history: _auto_retry repeated a command that had been carried out

rotationVars == <<rotation, cache, prog, op, phase, view, failed, before, alone, fresh, twice>>

Rotations == BoundedSeq(Maps, MaxLen)
Operations == {"set", "add", "adds", "remove", "apply", "look"}

\* remove stands for do_remove_map_from_rotation and for its plural, look for
\* get_map_rotation.
Calls ==
    {call \in [kind : Operations, maps : BoundedSeq(Maps, MaxMaps)] :
        CASE call.kind = "look" -> call.maps = <<>>
          [] call.kind \in {"add", "apply"} -> Len(call.maps) = 1
          [] OTHER -> call.maps # <<>>}

-----------------------------------------------------------------------------
(* The game server.                                                        *)

Occurrences(s, m) == Cardinality({i \in DOMAIN s : s[i] = m})

\* The places of m, of which it is the nth.
Nth(s, m, n) ==
    {i \in DOMAIN s : s[i] = m /\ Occurrences(SubSeq(s, 1, i), m) = n}

\* rotadd and rotdel; {} when there is no such map.
Outcome(c, s) ==
    IF c.do = "add"
    THEN {InsertAt(s, i + 1, c.map) : i \in Nth(s, c.after, c.nth)}
    ELSE {RemoveAt(s, i) : i \in Nth(s, c.map, c.nth)}

-----------------------------------------------------------------------------
(* The programs.                                                           *)

Instr(what) == [do |-> what, map |-> NoMap, after |-> NoMap, nth |-> 0]
Add(m, after, n) == [do |-> "add", map |-> m, after |-> after, nth |-> n]
Del(m, n) == [do |-> "del", map |-> m, after |-> NoMap, nth |-> n]
AddLast(m) == [do |-> "addlast", map |-> m, after |-> NoMap, nth |-> 0]

Clear == Instr("clear")
Get == Instr("get")
Raise == Instr("raise")

\* with invalidates(Rcon.get_map_rotation): body
Invalidating(body) == <<Clear>> \o body \o <<Clear>>

\* do_add_map_to_rotation, do_remove_map_from_rotation
AddMap(m) == Invalidating(<<Get, AddLast(m)>>)
RemoveMap(m) == Invalidating(<<Del(m, 1)>>)

\* What is known when the call is made.
Program(call) ==
    CASE call.kind = "look" -> <<Get>>
      [] call.kind = "add" -> AddMap(call.maps[1])
      [] call.kind = "remove" -> Invalidating([i \in DOMAIN call.maps |-> Del(call.maps[i], 1)])
      [] call.kind = "apply" -> <<Get, Instr("plan")>>
      [] OTHER -> <<Clear, Get, Instr("plan")>>

\* A variant that names the first place of every map.
SetAddsFirst(kept, maps) ==
    [i \in DOMAIN maps |->
        IF i = 1 THEN Add(maps[1], Head(kept \o maps), 1)
        ELSE Add(maps[i], maps[i - 1], 1)]

\* The additions of set_maprotation after what is kept of the old rotation,
\* its first map.
SetAdds(kept, maps) ==
    [i \in DOMAIN maps |->
        IF i = 1
        THEN Add(maps[1], Head(kept \o maps), 1)
        ELSE Add(maps[i], maps[i - 1],
                 Occurrences(kept \o SubSeq(maps, 1, i - 1), maps[i - 1]))]

SetRotation(maps, current) ==
    IF maps = current THEN <<Clear>>
    ELSE [i \in 1 .. Len(current) - 1 |-> Del(current[i + 1], 1)]
         \o SetAdds(IF current = <<>> THEN <<>> ELSE <<current[1]>>, maps)
         \o (IF current = <<>> THEN <<Raise>> ELSE <<Del(current[1], 1), Clear, Get>>)

\* do_add_maps_to_rotation counts what was there of the last map only.
AddMaps(maps, current) ==
    IF current = <<>> THEN <<Raise>>
    ELSE [i \in DOMAIN maps |->
             LET last == IF i = 1 THEN Last(current) ELSE maps[i - 1]
                 added == Occurrences(SubSeq(maps, 1, i - 1), last)
             IN  Add(maps[i], last,
                     IF last = Last(current) THEN Occurrences(current, last) + added ELSE added)]
         \o <<Clear>>

\* A variant of apply_results that removes the old map before it adds.
ApplyRemoveFirst(m, current) ==
    IF current = <<>> THEN <<Raise>>
    ELSE FlattenSeq([i \in 1 .. Len(current) - 1 |-> RemoveMap(current[i + 1])])
         \o (IF current[1] = m THEN <<>> ELSE RemoveMap(current[1]) \o AddMap(m))
         \o <<Get, Instr("verify")>>

\* apply_results: one map is kept and replaced by the winner.
ApplyResults(m, current) ==
    IF current = <<>> THEN <<Raise>>
    ELSE FlattenSeq([i \in 1 .. Len(current) - 1 |-> RemoveMap(current[i + 1])])
         \o (IF current[1] = m THEN <<>> ELSE AddMap(m) \o RemoveMap(current[1]))
         \o <<Get, Instr("verify")>>

Plan(call, current) ==
    CASE call.kind = "set" -> SetRotation(call.maps, current)
      [] call.kind = "adds" -> AddMaps(call.maps, current)
      [] OTHER -> ApplyResults(call.maps[1], current)

-----------------------------------------------------------------------------
RotationTypeOK ==
    /\ rotation \in Rotations
    /\ cache \in Rotations \cup {Nothing}
    /\ op \in [Procs -> Calls]
    /\ phase \in [Procs -> {"ask", "read", "store"}]
    /\ view \in [Procs -> Rotations]
    /\ failed \in [Procs -> BOOLEAN]
    /\ before \in [Procs -> Rotations]
    /\ alone \in [Procs -> BOOLEAN] /\ fresh \in [Procs -> BOOLEAN]
    /\ twice \in [Procs -> BOOLEAN]

RotationInit ==
    /\ rotation \in Rotations \ {<<>>}
    /\ cache = Nothing
    /\ prog = [p \in Procs |-> <<>>]
    /\ op = [p \in Procs |-> [kind |-> "look", maps |-> <<>>]]
    /\ phase = [p \in Procs |-> "ask"]
    /\ view = [p \in Procs |-> <<>>]
    /\ failed = [p \in Procs |-> TRUE]
    /\ before = [p \in Procs |-> <<>>]
    /\ alone = [p \in Procs |-> FALSE] /\ fresh = [p \in Procs |-> FALSE]
    /\ twice = [p \in Procs |-> FALSE]

Busy(p) == prog[p] # <<>>
Doing(p, what) == Busy(p) /\ Head(prog[p]).do = what
Fresh == cache \in {Nothing, rotation}

\* A command of p has been dealt with: what follows is rest.
Proceed(p, rest) ==
    /\ prog' = [prog EXCEPT ![p] = rest]
    /\ UNCHANGED <<op, failed, before, fresh>>

Disturb(p) == alone' = [q \in Procs |-> alone[q] /\ q = p]

\* An operation is called: by a hook, a request or the automatic settings.
Start(p, call) ==
    /\ ~Busy(p)
    /\ call.kind \in Kinds[p]
    /\ prog' = [prog EXCEPT ![p] = Program(call)]
    /\ op' = [op EXCEPT ![p] = call]
    /\ failed' = [failed EXCEPT ![p] = FALSE]
    /\ before' = [before EXCEPT ![p] = rotation]
    /\ alone' = [q \in Procs |-> q = p /\ \A r \in Procs \ {p} : ~Busy(r)]
    /\ fresh' = [fresh EXCEPT ![p] = Fresh]
    /\ twice' = [twice EXCEPT ![p] = FALSE]
    /\ UNCHANGED <<rotation, cache, phase, view>>

\* The operation raises; the second half of invalidates() is not in a
\* finally clause and is skipped.
Fail(p) ==
    /\ prog' = [prog EXCEPT ![p] = <<>>]
    /\ failed' = [failed EXCEPT ![p] = TRUE]
    /\ phase' = [phase EXCEPT ![p] = "ask"]
    /\ Disturb(p)
    /\ UNCHANGED <<cache, op, view, before, fresh>>

\* clear_all
ClearCache(p) ==
    /\ Doing(p, "clear")
    /\ cache' = Nothing
    /\ Proceed(p, Tail(prog[p])) /\ Disturb(p)
    /\ UNCHANGED <<rotation, phase, view, twice>>

\* get_map_rotation returned s: the next command depends on it.
Got(p, s) ==
    LET rest == Tail(prog[p])
    IN  /\ view' = [view EXCEPT ![p] = s]
        /\ phase' = [phase EXCEPT ![p] = "ask"]
        /\ Proceed(p, IF rest # <<>> /\ Head(rest).do = "plan"
                   THEN Plan(op[p], s) ELSE rest)

\* RedisCached.__call__: ask Redis,
Ask(p) ==
    /\ Doing(p, "get") /\ phase[p] = "ask"
    /\ IF cache # Nothing
       THEN Got(p, cache)
       ELSE /\ phase' = [phase EXCEPT ![p] = "read"]
            /\ UNCHANGED <<prog, op, failed, before, fresh, view>>
    /\ Disturb(p)
    /\ UNCHANGED <<rotation, cache, twice>>

\* then the game server,
Read(p) ==
    /\ Doing(p, "get") /\ phase[p] = "read"
    /\ view' = [view EXCEPT ![p] = rotation]
    /\ phase' = [phase EXCEPT ![p] = "store"]
    /\ Disturb(p)
    /\ UNCHANGED <<rotation, cache, prog, op, failed, before, fresh, twice>>

\* and tell Redis what it said.
Store(p) ==
    /\ Doing(p, "get") /\ phase[p] = "store"
    /\ cache' = view[p]
    /\ Got(p, view[p])
    /\ Disturb(p)
    /\ UNCHANGED <<rotation, twice>>

\* Does p have a command for the game server, and which.
Sends(p) ==
    /\ Busy(p)
    /\ \/ Head(prog[p]).do \in {"add", "del"}
       \/ Head(prog[p]).do = "addlast" /\ view[p] # <<>>

Sent(p) ==
    LET c == Head(prog[p])
    IN  IF c.do = "addlast"
        THEN Add(c.map, Last(view[p]), Occurrences(view[p], Last(view[p])))
        ELSE c

\* The rotations after the command of p was carried out, and after it was
\* carried out again, because its answer was lost.
Once(p) == Outcome(Sent(p), rotation)
Again(p) == UNION {Outcome(Sent(p), s) : s \in Once(p)}

Changes(p) ==
    /\ Sends(p)
    /\ \/ rotation' \in Once(p) /\ UNCHANGED twice
       \/ rotation' \in Again(p) /\ twice' = [twice EXCEPT ![p] = TRUE]
    /\ Len(rotation') <= MaxLen

Command(p) ==
    /\ Changes(p)
    /\ Proceed(p, Tail(prog[p])) /\ Disturb(p)
    /\ UNCHANGED <<cache, phase, view>>

\* The game server refuses, or the connection breaks before or after the
\* command was carried out.
CommandFails(p) ==
    /\ \/ Changes(p)
       \/ Sends(p) /\ UNCHANGED <<rotation, twice>>
       \/ Doing(p, "get") /\ phase[p] = "read" /\ UNCHANGED <<rotation, twice>>
    /\ Fail(p)

\* current[0] of an empty list.
IndexFails(p) ==
    /\ Doing(p, "raise") \/ (Doing(p, "addlast") /\ view[p] = <<>>)
    /\ UNCHANGED <<rotation, twice>>
    /\ Fail(p)

\* A variant that does not compare.
VerifyNothing(p) ==
    /\ Doing(p, "verify")
    /\ Proceed(p, Tail(prog[p])) /\ Disturb(p)
    /\ UNCHANGED <<rotation, cache, phase, view, twice>>

\* "Check that it worked."
Verify(p) ==
    /\ Doing(p, "verify")
    /\ view[p] = op[p].maps
    /\ Proceed(p, Tail(prog[p])) /\ Disturb(p)
    /\ UNCHANGED <<rotation, cache, phase, view, twice>>

VerifyFails(p) ==
    /\ Doing(p, "verify")
    /\ view[p] # op[p].maps
    /\ UNCHANGED <<rotation, twice>>
    /\ Fail(p)

\* The entry reaches the end of its five minutes.
Lapse ==
    /\ cache # Nothing
    /\ cache' = Nothing
    /\ UNCHANGED <<rotation, prog, op, phase, view, failed, before, alone, fresh, twice>>

RotationStep(p) ==
    \/ \E call \in Calls : Start(p, call)
    \/ ClearCache(p) \/ Ask(p) \/ Read(p) \/ Store(p)
    \/ Command(p) \/ CommandFails(p) \/ IndexFails(p)
    \/ Verify(p) \/ VerifyFails(p)

RotationNext == Lapse \/ \E p \in Procs : RotationStep(p)

RotationSpec == RotationInit /\ [][RotationNext]_rotationVars

-----------------------------------------------------------------------------
(* Properties                                                              *)

\* Process p comes to the end of an operation of this kind, nothing raised.
Completes(p, kind) ==
    /\ op[p].kind = kind
    /\ prog[p] # <<>> /\ prog'[p] = <<>> /\ ~failed'[p]

\* set_maprotation turns any rotation into any other, repeated maps and
\* shared maps included, if no other process interferes and no command is
\* repeated: whatever failed before and whatever is in the cache.
SetTakesEffect ==
    [][\A p \in Procs :
          Completes(p, "set") /\ alone'[p] /\ ~twice[p] => rotation = op[p].maps]_rotationVars

\* apply_results leaves the winner as the only map, if the cache was not stale
\* when it began, although commands may have been carried out twice.
ApplyTakesEffect ==
    [][\A p \in Procs :
          Completes(p, "apply") /\ alone'[p] /\ fresh[p] => rotation = op[p].maps]_rotationVars

\* Setting or extending the rotation never leaves the game server without a map,
\* wherever the operation fails: maps are added before the last one is removed.
\* This is for a rotation that had a map, and for an operation that nobody else
\* interferes with, whose cached rotation was not stale when it began, and none
\* of whose commands was carried out twice; with another one at work, or an old
\* list, the maps it removes may be all there are.
NeverEmptied ==
    \A p \in Procs :
        alone[p] /\ fresh[p] /\ ~twice[p] /\ op[p].kind # "remove" /\ before[p] # <<>>
            => rotation # <<>>

\* do_add_maps_to_rotation appends what it is given, in that order, if those
\* are maps the rotation did not have.
NewMapsGoToTheEnd ==
    [][\A p \in Procs :
          /\ Completes(p, "adds") /\ alone'[p] /\ ~twice[p]
          /\ \A i \in DOMAIN op[p].maps : Occurrences(before[p], op[p].maps[i]) = 0
          => rotation = before[p] \o op[p].maps]_rotationVars

(* What the comments say, and the code does not do.                        *)

\* vote_map.py:808, "Check that it worked": apply_results looks at the rotation
\* once more, through the cache that it began with.
AppliedIsChecked ==
    [][\A p \in Procs :
          Completes(p, "apply") /\ alone'[p] => rotation = op[p].maps]_rotationVars

\* rcon.py:1304, "Now we can remove the first from the previous rotation": what
\* goes last is the old rotation's, whatever _auto_retry sends twice.
OnlyTheOldIsRemoved ==
    [][\A p \in Procs :
          Completes(p, "set") /\ alone'[p] =>
             \A m \in Maps : Occurrences(rotation, m) >= Occurrences(op[p].maps, m)]_rotationVars
=============================================================================

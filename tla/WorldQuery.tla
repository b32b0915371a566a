----------------------------- MODULE WorldQuery -----------------------------
(***************************************************************************)
(* get_world (src/query/world_query.cpp) and what get_status_string makes  *)
(* of its result (src/status/status_handler.cpp): a world is chosen from   *)
(* the response of the query manager, of which the end may be missing.     *)
(***************************************************************************)
EXTENDS Integers

CONSTANTS
    Names,              \* of worlds, "" among them: one that is too long is read as ""
    LowerCase,          \* per name: the name in lower case
    WorldLists,         \* what the query manager may send: worlds 1 .. n
    TimeNow

World(name, num_players, online_peak, last_startup, last_shutdown) ==
    [ name |-> name, num_players |-> num_players, online_peak |-> online_peak,
      last_startup |-> last_startup, last_shutdown |-> last_shutdown ]

WorldInfo ==
    [ name : Names, num_players : Nat, online_peak : Nat, last_startup : Nat, last_shutdown : Nat ]

NoWorld == World("", 0, 0, 0, 0)

ASSUME WorldAssumption ==
    /\ "" \in Names /\ LowerCase \in [Names -> Names]
    /\ \A n \in Names : LowerCase[n] = LowerCase[""] => n = ""
    /\ \A list \in WorldLists : \E n \in 0 .. 255 : list \in [1 .. n -> WorldInfo]
    /\ TimeNow \in Nat

VARIABLES
    pc,                 \* "query", "loop", "publish" or "done"
    world_name,         \* the configured world, "" for the busiest
    sent,               \* the worlds of the response
    worlds,             \* the worlds as they are read
    num_worlds,
    i,                  \* how many of them were looked at
    out_world,
    status              \* what is published, once there is something

worldVars == <<pc, world_name, sent, worlds, num_worlds, i, out_world, status>>

Count(list) == CHOOSE n \in 0 .. 255 : DOMAIN list = 1 .. n

\* What is read of a world of which only some arrived: fields in their order, then 0
Partial(w) ==
    { NoWorld, World(w.name, 0, 0, 0, 0), World(w.name, w.num_players, 0, 0, 0),
      World(w.name, w.num_players, w.online_peak, 0, 0),
      World(w.name, w.num_players, w.online_peak, w.last_startup, 0), w }

\* What is read if the response ends in world c: after it nothing arrives.
Arrived(list, c, part) ==
    [k \in DOMAIN list |-> IF k < c THEN list[k] ELSE IF k = c THEN part ELSE NoWorld]

NoStatus == [name |-> "", uptime |-> 0, online |-> 0, peak |-> 0]

WorldInit ==
    /\ pc = "query" /\ world_name \in Names
    /\ sent \in WorldLists
    /\ \E c \in DOMAIN sent \cup {0} :
         IF c = 0 THEN worlds = sent
         ELSE \E part \in Partial(sent[c]) : worlds = Arrived(sent, c, part)
    /\ num_worlds = Count(sent)
    /\ i = 0 /\ out_world = NoWorld /\ status = NoStatus

\* execute_query succeeds or not; a failure publishes a status without a world.
Query ==
    /\ pc = "query" /\ pc' \in {"loop", "done"}
    /\ UNCHANGED <<world_name, sent, worlds, num_worlds, i, out_world, status>>

Matches(w) == LowerCase[world_name] = LowerCase[w.name]

\* The busiest world so far; the first one in any case
Better(w) == i = 0 \/ w.num_players > out_world.num_players

\* Mutated form: the loop goes on after a match.
LookToTheEnd ==
    /\ pc = "loop" /\ i < num_worlds
    /\ LET world == worlds[i + 1]
           taken == IF world_name = "" THEN Better(world) ELSE Matches(world)
       IN  out_world' = IF taken THEN world ELSE out_world
    /\ i' = i + 1
    /\ UNCHANGED <<pc, world_name, sent, worlds, num_worlds, status>>

\* A turn of the loop; the loop is left at the first world of the name asked for.
Look ==
    /\ pc = "loop" /\ i < num_worlds
    /\ LET world == worlds[i + 1]
           taken == IF world_name = "" THEN Better(world) ELSE Matches(world)
       IN  /\ out_world' = IF taken THEN world ELSE out_world
           /\ pc' = IF taken /\ world_name # "" THEN "publish" ELSE "loop"
    /\ i' = i + 1
    /\ UNCHANGED <<world_name, sent, worlds, num_worlds, status>>

EndLoop ==
    /\ pc = "loop" /\ i = num_worlds /\ pc' = "publish"
    /\ UNCHANGED <<world_name, sent, worlds, num_worlds, i, out_world, status>>

StatusOf(w) ==
    [ name |-> w.name, online |-> w.num_players,
      peak |-> IF w.online_peak < w.num_players THEN w.num_players ELSE w.online_peak,
      uptime |-> IF w.last_startup # 0 /\ w.last_startup > w.last_shutdown
                 THEN TimeNow - w.last_startup ELSE 0 ]

Publish ==
    /\ pc = "publish" /\ pc' = "done" /\ status' = StatusOf(out_world)
    /\ UNCHANGED <<world_name, sent, worlds, num_worlds, i, out_world>>

WorldNext == Query \/ Look \/ EndLoop \/ Publish

WorldSpec == WorldInit /\ [][WorldNext]_worldVars

-----------------------------------------------------------------------------
WorldTypeOK ==
    /\ pc \in {"query", "loop", "publish", "done"} /\ world_name \in Names
    /\ num_worlds \in 0 .. 255 /\ worlds \in [1 .. num_worlds -> WorldInfo]
    /\ i \in 0 .. num_worlds /\ out_world \in WorldInfo
    /\ status.name \in Names /\ status.online \in Nat /\ status.peak \in Nat

\* With no world configured, the world shown is the first of the busiest ones of the
\* response; none only if there are none.
BusiestWorld ==
    pc = "publish" /\ world_name = "" =>
      \/ num_worlds = 0 /\ out_world = NoWorld
      \/ \E k \in 1 .. num_worlds :
           /\ out_world = worlds[k]
           /\ \A j \in 1 .. num_worlds : worlds[j].num_players <= worlds[k].num_players
           /\ \A j \in 1 .. k - 1 : worlds[j].num_players < worlds[k].num_players

\* With a world configured, it is the first of that name, in any case of its letters,
\* and no world at all if none has it: never another one.
ConfiguredWorld ==
    pc = "publish" /\ world_name # "" =>
      \/ out_world = NoWorld /\ \A j \in 1 .. num_worlds : ~Matches(worlds[j])
      \/ \E k \in 1 .. num_worlds :
           out_world = worlds[k] /\ Matches(worlds[k]) /\ \A j \in 1 .. k - 1 : ~Matches(worlds[j])

\* A response that ends too early makes no world up: the one found was sent,
\* whole or up to where the response ends, or is missing.
NoWorldMadeUp ==
    pc = "publish" =>
      out_world = NoWorld \/ \E k \in 1 .. num_worlds : out_world \in Partial(sent[k])

\* get_world gives the world that was asked for: the busiest one if no name is
\* configured, otherwise the one of that name and never another in its place; and
\* nothing of it is made up where the response ends too early.
ChosenWorld == BusiestWorld /\ ConfiguredWorld /\ NoWorldMadeUp

\* The peak published covers the players published: a server list takes a server
\* for offline otherwise (comment at status_handler.cpp:33).
PeakCoversOnline == status.peak >= status.online

=============================================================================

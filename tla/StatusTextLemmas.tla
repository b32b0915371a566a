-------------------------- MODULE StatusTextLemmas --------------------------
(***************************************************************************)
(* Proofs about the parts of StatusText: the choice of a world             *)
(* (WorldQuery), for any response; the settings (Config), for any          *)
(* environment and capacities; and what a reader of XML finds in a text of *)
(* any length (XmlBuilder).  The choice rests on what the worlds looked at *)
(* so far say.  The texts are built by loops: a recursive function of the  *)
(* number of turns is unfolded once (the lemmas ...Facts), and what it     *)
(* computes follows by induction on the turns (UpTo of DataInduction).     *)
(***************************************************************************)
EXTENDS StatusText, DataInduction

-----------------------------------------------------------------------------
(* get_world                                                               *)

Players(k) == worlds[k].num_players

\* World k is the first of the busiest ones among the first n.
FirstBusiest(k, n) ==
    /\ \A j \in 1 .. n : Players(j) <= Players(k)
    /\ \A j \in 1 .. k - 1 : Players(j) < Players(k)

NameTypes == pc \in {"query", "loop", "publish", "done"} /\ world_name \in Names

CountTypes ==
    /\ num_worlds \in 0 .. 255 /\ i \in 0 .. num_worlds
    /\ pc = "query" => i = 0

WorldTypes ==
    /\ worlds \in [1 .. num_worlds -> WorldInfo] /\ sent \in [1 .. num_worlds -> WorldInfo]
    /\ out_world \in WorldInfo

ShownTypes ==
    /\ status.name \in Names /\ status.online \in Nat /\ status.peak \in Nat
    /\ status.peak >= status.online

\* What is read of a world is a part of what was sent.
ReadInv == \A k \in 1 .. num_worlds : worlds[k] \in Partial(sent[k])

\* The worlds looked at so far, if the busiest is wanted
BusyInv ==
    world_name = "" =>
      \/ i = 0 /\ out_world = NoWorld
      \/ \E k \in 1 .. i : out_world = worlds[k] /\ FirstBusiest(k, i)

\* The same, if a name is wanted
NameInv ==
    world_name # "" =>
      \/ out_world = NoWorld /\ \A j \in 1 .. i : ~Matches(worlds[j])
      \/ /\ pc \in {"publish", "done"}
         /\ \E k \in 1 .. num_worlds :
              out_world = worlds[k] /\ Matches(worlds[k]) /\ \A j \in 1 .. k - 1 : ~Matches(worlds[j])

EndInv == pc = "publish" => i = num_worlds \/ (world_name # "" /\ out_world # NoWorld)

WorldIInv ==
    /\ NameTypes /\ CountTypes /\ WorldTypes /\ ShownTypes
    /\ ReadInv /\ BusyInv /\ NameInv /\ EndInv

-----------------------------------------------------------------------------
LEMMA NoWorldType == NoWorld \in WorldInfo /\ NoWorld.name = "" /\ NoWorld.num_players = 0
BY WorldAssumption, Zenon DEF NoWorld, World, WorldInfo

LEMMA PartialType ==
    ASSUME NEW w \in WorldInfo
    PROVE  Partial(w) \subseteq WorldInfo /\ NoWorld \in Partial(w) /\ w \in Partial(w)
<1>1. /\ w.name \in Names /\ w.num_players \in Nat /\ w.online_peak \in Nat
      /\ w.last_startup \in Nat /\ w.last_shutdown \in Nat
  BY Zenon DEF WorldInfo
<1>2. \A n \in Names, a, b, c, d \in Nat : World(n, a, b, c, d) \in WorldInfo
  BY Zenon DEF World, WorldInfo
<1>3. 0 \in Nat
  BY Zenon
<1>4. /\ World(w.name, 0, 0, 0, 0) \in WorldInfo /\ World(w.name, w.num_players, 0, 0, 0) \in WorldInfo
      /\ World(w.name, w.num_players, w.online_peak, 0, 0) \in WorldInfo
      /\ World(w.name, w.num_players, w.online_peak, w.last_startup, 0) \in WorldInfo
  BY <1>1, <1>2, <1>3, Zenon
<1>5. NoWorld \in WorldInfo
  BY NoWorldType, Zenon
<1>6. QED
  BY <1>4, <1>5, Zenon DEF Partial

LEMMA CountIsLength ==
    ASSUME NEW list \in WorldLists
    PROVE  Count(list) \in 0 .. 255 /\ list \in [1 .. Count(list) -> WorldInfo]
<1>1. PICK n \in 0 .. 255 : list \in [1 .. n -> WorldInfo]
  BY WorldAssumption, Zenon
<1>2. DOMAIN list = 1 .. n
  BY <1>1, Zenon
<1>3. Count(list) \in 0 .. 255 /\ DOMAIN list = 1 .. Count(list)
  BY <1>2, Zenon DEF Count
<1>4. QED
  BY <1>1, <1>2, <1>3, Zenon

LEMMA WorldInitially == WorldInit => WorldIInv
<1> SUFFICES ASSUME WorldInit PROVE WorldIInv
  BY Zenon
<1>1. num_worlds \in 0 .. 255 /\ sent \in [1 .. num_worlds -> WorldInfo]
  BY CountIsLength, Zenon DEF WorldInit
<1>2. /\ worlds \in [1 .. num_worlds -> WorldInfo]
      /\ \A k \in 1 .. num_worlds : worlds[k] \in Partial(sent[k])
  <2>1. CASE worlds = sent
    BY <1>1, <2>1, PartialType, ZenonT(60)
  <2>2. CASE \E c \in DOMAIN sent : \E part \in Partial(sent[c]) : worlds = Arrived(sent, c, part)
    <3> PICK c \in DOMAIN sent : \E part \in Partial(sent[c]) : worlds = Arrived(sent, c, part)
      BY <2>2, Zenon
    <3>1. PICK part \in Partial(sent[c]) : worlds = Arrived(sent, c, part)
      BY Zenon
    <3>2. DOMAIN sent = 1 .. num_worlds /\ part \in WorldInfo
      BY <1>1, <3>1, PartialType, ZenonT(60)
    <3>3. worlds = [k \in 1 .. num_worlds |-> IF k < c THEN sent[k] ELSE IF k = c THEN part ELSE NoWorld]
      BY <3>1, <3>2, Zenon DEF Arrived
    <3>4. ASSUME NEW k \in 1 .. num_worlds
          PROVE  worlds[k] \in Partial(sent[k])
      <4>1. sent[k] \in WorldInfo
        BY <1>1, Zenon
      <4>2. worlds[k] = IF k < c THEN sent[k] ELSE IF k = c THEN part ELSE NoWorld
        BY <3>3, Zenon
      <4>3. QED
        BY <3>1, <4>1, <4>2, PartialType, Zenon
    <3>5. ASSUME NEW k \in 1 .. num_worlds
          PROVE  worlds[k] \in WorldInfo
      BY <1>1, <3>4, PartialType, Zenon
    <3>6. QED
      BY <3>3, <3>4, <3>5, Zenon
  <2>3. QED
    BY <2>1, <2>2, Zenon DEF WorldInit
<1>3. NameTypes
  BY Zenon DEF WorldInit, NameTypes
<1>4. CountTypes /\ WorldTypes
  <2>1. i = 0 /\ out_world = NoWorld
    BY Zenon DEF WorldInit
  <2>2. CountTypes
    BY <1>1, <2>1 DEF CountTypes
  <2>3. QED
    BY <1>1, <1>2, <2>1, <2>2, NoWorldType, Zenon DEF WorldTypes
<1>5. ShownTypes
  <2>1. status.name = "" /\ status.online = 0 /\ status.peak = 0
    BY Zenon DEF WorldInit, NoStatus
  <2>2. status.name \in Names
    BY <2>1, WorldAssumption, Zenon
  <2>3. status.online \in Nat /\ status.peak \in Nat /\ status.peak >= status.online
    <3>1. 0 \in Nat /\ 0 >= 0
      OBVIOUS
    <3>2. QED
      BY <2>1, <3>1, Zenon
  <2>4. QED
    BY <2>2, <2>3, Zenon DEF ShownTypes
<1>6. ReadInv
  BY <1>2, Zenon DEF ReadInv
<1>7. BusyInv /\ NameInv /\ EndInv
  BY DEF WorldInit, BusyInv, NameInv, EndInv
<1>8. QED
  BY <1>3, <1>4, <1>5, <1>6, <1>7, Zenon DEF WorldIInv

\* Only the empty name matches a world without one.
LEMMA NoMatch == ASSUME WorldIInv, world_name # "" PROVE ~Matches(NoWorld)
BY WorldAssumption, NoWorldType, ZenonT(60) DEF WorldIInv, NameTypes, Matches

LEMMA QueryIInv == WorldIInv /\ Query => WorldIInv'
<1> SUFFICES ASSUME WorldIInv, Query PROVE WorldIInv'
  BY Zenon
<1>1. NameTypes' /\ CountTypes' /\ WorldTypes' /\ ShownTypes' /\ ReadInv'
  BY Zenon DEF WorldIInv, Query, NameTypes, CountTypes, WorldTypes, ShownTypes, ReadInv
<1>2. BusyInv' /\ NameInv' /\ EndInv'
  BY Zenon DEF WorldIInv, Query, BusyInv, NameInv, EndInv, Matches, FirstBusiest, Players
<1>3. QED
  BY <1>1, <1>2, Zenon DEF WorldIInv

LEMMA EndLoopIInv == WorldIInv /\ EndLoop => WorldIInv'
BY ZenonT(60) DEF WorldIInv, EndLoop, NameTypes, CountTypes, WorldTypes, ShownTypes, ReadInv, BusyInv, NameInv, EndInv,
       Matches, FirstBusiest, Players

LEMMA StatusOfTypes ==
    ASSUME NEW w \in WorldInfo
    PROVE  /\ StatusOf(w).name \in Names /\ StatusOf(w).online \in Nat /\ StatusOf(w).peak \in Nat
           /\ StatusOf(w).peak >= StatusOf(w).online
<1>1. PICK n \in Nat, peak \in Nat : n = w.num_players /\ peak = w.online_peak
  BY Zenon DEF WorldInfo
<1>2. StatusOf(w).online = n /\ StatusOf(w).peak = (IF peak < n THEN n ELSE peak)
  BY <1>1, Zenon DEF StatusOf
<1>3. StatusOf(w).name \in Names
  BY Zenon DEF StatusOf, WorldInfo
<1>4. QED
  BY <1>2, <1>3

LEMMA PublishIInv == WorldIInv /\ Publish => WorldIInv'
<1> SUFFICES ASSUME WorldIInv, Publish PROVE WorldIInv'
  BY Zenon
<1>1. ShownTypes'
  BY StatusOfTypes, Zenon DEF WorldIInv, WorldTypes, Publish, ShownTypes
<1>2. NameTypes' /\ CountTypes' /\ WorldTypes' /\ ReadInv'
  BY Zenon DEF WorldIInv, Publish, NameTypes, CountTypes, WorldTypes, ReadInv
<1>3. BusyInv' /\ NameInv' /\ EndInv'
  BY Zenon DEF WorldIInv, Publish, BusyInv, NameInv, EndInv, Matches, FirstBusiest, Players
<1>4. QED
  BY <1>1, <1>2, <1>3, Zenon DEF WorldIInv

LEMMA LookIInv == WorldIInv /\ Look => WorldIInv'
<1> SUFFICES ASSUME WorldIInv, Look PROVE WorldIInv'
  BY Zenon
<1> DEFINE world == worlds[i + 1]
<1>0. num_worlds \in Nat /\ i \in 0 .. num_worlds /\ i < num_worlds
  <2>1. num_worlds \in 0 .. 255 /\ i \in 0 .. num_worlds
    BY Zenon DEF WorldIInv, CountTypes
  <2>2. i < num_worlds
    BY Zenon DEF Look
  <2>3. QED
    BY <2>1, <2>2
<1>1. pc = "loop" /\ i + 1 \in 1 .. num_worlds /\ i \in Nat /\ i' = i + 1 /\ world \in WorldInfo
  <2>1. i + 1 \in 1 .. num_worlds /\ i \in Nat
    BY <1>0
  <2>2. QED
    BY <2>1, Zenon DEF WorldIInv, Look, WorldTypes
<1>2. UNCHANGED <<world_name, sent, worlds, num_worlds, status>>
  BY Zenon DEF Look
<1>3. /\ world_name = "" => /\ pc' = "loop"
                           /\ out_world' = IF Better(world) THEN world ELSE out_world
      /\ world_name # "" => /\ pc' = IF Matches(world) THEN "publish" ELSE "loop"
                           /\ out_world' = IF Matches(world) THEN world ELSE out_world
  BY Zenon DEF Look
<1> HIDE DEF world
<1>4. NameTypes' /\ CountTypes'
  <2>1. pc' \in {"loop", "publish"}
    BY <1>3, Zenon
  <2>2. NameTypes'
    BY <1>2, <2>1, Zenon DEF WorldIInv, NameTypes
  <2>3. CountTypes'
    BY <1>0, <1>1, <1>2, <2>1 DEF WorldIInv, CountTypes
  <2>4. QED
    BY <2>2, <2>3, Zenon
<1>5. WorldTypes'
  BY <1>1, <1>2, <1>3, Zenon DEF WorldIInv, WorldTypes
<1>6. ShownTypes' /\ ReadInv'
  BY <1>2, Zenon DEF WorldIInv, ShownTypes, ReadInv
<1>7. BusyInv'
  <2>1. SUFFICES ASSUME world_name = ""
                 PROVE  \E k \in 1 .. i + 1 : out_world' = worlds[k] /\ FirstBusiest(k, i + 1)
    BY <1>1, <1>2, Zenon DEF BusyInv, FirstBusiest, Players
  <2>2. \A k \in 1 .. num_worlds : Players(k) \in Nat
    BY Zenon DEF WorldIInv, WorldTypes, Players, WorldInfo
  <2>3. CASE i = 0
    <3>1. out_world' = worlds[1]
      <4>1. i + 1 = 1
        BY <2>3
      <4>2. out_world' = world
        BY <1>3, <2>1, <2>3, Zenon DEF Better
      <4>3. QED
        BY <4>1, <4>2, Zenon DEF world
    <3>2. Players(1) \in Nat
      BY <1>1, <2>2, <2>3
    <3>3. FirstBusiest(1, 1)
      BY <3>2 DEF FirstBusiest
    <3>4. QED
      BY <2>3, <3>1, <3>3
  <2>4. CASE i # 0
    <3>1. PICK k \in 1 .. i : out_world = worlds[k] /\ FirstBusiest(k, i)
      BY <2>1, <2>4, Zenon DEF WorldIInv, BusyInv
    <3>2. Better(world) <=> Players(i + 1) > Players(k)
      BY <2>4, <3>1, Zenon DEF Better, Players, world
    <3>3. Players(k) \in Nat /\ Players(i + 1) \in Nat /\ \A j \in 1 .. i : Players(j) \in Nat
      BY <1>1, <2>2, <3>1 DEF WorldIInv, CountTypes
    <3>4. CASE Players(i + 1) > Players(k)
      <4>1. FirstBusiest(i + 1, i + 1)
        BY <1>1, <3>1, <3>3, <3>4 DEF FirstBusiest
      <4>2. out_world' = worlds[i + 1]
        BY <1>3, <2>1, <3>2, <3>4, Zenon DEF world
      <4>3. i + 1 \in 1 .. i + 1
        BY <1>1
      <4>4. QED
        BY <4>1, <4>2, <4>3, Zenon
    <3>5. CASE ~(Players(i + 1) > Players(k))
      <4>1. FirstBusiest(k, i + 1)
        BY <1>1, <3>1, <3>3, <3>5 DEF FirstBusiest
      <4>2. out_world' = worlds[k]
        BY <1>3, <2>1, <3>1, <3>2, <3>5, Zenon
      <4>3. k \in 1 .. i + 1
        BY <1>1
      <4>4. QED
        BY <4>1, <4>2, <4>3, Zenon
    <3>6. QED
      BY <3>4, <3>5, Zenon
  <2>5. QED
    BY <2>3, <2>4, Zenon
<1>8. NameInv'
  <2>1. SUFFICES ASSUME world_name # "" PROVE NameInv'
    BY <1>2, Zenon DEF NameInv
  <2>2. out_world = NoWorld /\ \A j \in 1 .. i : ~Matches(worlds[j])
    BY <1>1, <2>1, Zenon DEF WorldIInv, NameInv
  <2>3. \A w : Matches(w)' <=> Matches(w)
    BY <1>2, Zenon DEF Matches
  <2>4. CASE Matches(world)
    <3>1. out_world' = worlds[i + 1] /\ pc' = "publish" /\ Matches(worlds[i + 1])
      BY <1>3, <2>1, <2>4, Zenon DEF world
    <3>2. \A j \in 1 .. (i + 1) - 1 : ~Matches(worlds[j])
      BY <1>1, <2>2
    <3>3. QED
      BY <1>1, <1>2, <2>3, <3>1, <3>2, Zenon DEF NameInv
  <2>5. CASE ~Matches(world)
    <3>1. out_world' = NoWorld
      BY <1>3, <2>1, <2>2, <2>5, Zenon
    <3>2. \A j \in 1 .. i + 1 : ~Matches(worlds[j])
      BY <1>1, <2>2, <2>5 DEF world
    <3>3. QED
      BY <1>1, <1>2, <2>3, <3>1, <3>2, Zenon DEF NameInv
  <2>6. QED
    BY <2>4, <2>5, Zenon
<1>9. EndInv'
  <2>1. CASE Matches(world) /\ world_name # ""
    BY <1>2, <1>3, <2>1, NoMatch, Zenon DEF EndInv
  <2>2. CASE ~(Matches(world) /\ world_name # "")
    BY <1>1, <1>3, <2>2, Zenon DEF EndInv
  <2>3. QED
    BY <2>1, <2>2, Zenon
<1>10. QED
  BY <1>4, <1>5, <1>6, <1>7, <1>8, <1>9, Zenon DEF WorldIInv

LEMMA WorldPreserved == WorldIInv /\ [WorldNext]_worldVars => WorldIInv'
<1>1. WorldIInv /\ UNCHANGED worldVars => WorldIInv'
  <2> SUFFICES ASSUME WorldIInv, UNCHANGED worldVars PROVE WorldIInv'
    BY Zenon
  <2>1. UNCHANGED <<pc, world_name, sent, worlds, num_worlds, i, out_world, status>>
    BY Zenon DEF worldVars
  <2>2. NameTypes' /\ CountTypes' /\ WorldTypes' /\ ShownTypes' /\ ReadInv'
    BY <2>1, Zenon DEF WorldIInv, NameTypes, CountTypes, WorldTypes, ShownTypes, ReadInv
  <2>3. BusyInv' /\ NameInv' /\ EndInv'
    BY <2>1, Zenon DEF WorldIInv, BusyInv, NameInv, EndInv, Matches, FirstBusiest, Players
  <2>4. QED
    BY <2>2, <2>3, Zenon DEF WorldIInv
<1>2. QED
  BY <1>1, QueryIInv, LookIInv, EndLoopIInv, PublishIInv, Zenon DEF WorldNext

LEMMA WorldIInvHolds == WorldSpec => []WorldIInv
BY WorldInitially, WorldPreserved, PTL DEF WorldSpec

\* get_world keeps its types.
THEOREM WorldTypeCorrect == WorldSpec => []WorldTypeOK
<1>1. WorldIInv => WorldTypeOK
  BY Zenon DEF WorldIInv, NameTypes, CountTypes, WorldTypes, ShownTypes, WorldTypeOK
<1>2. QED
  BY <1>1, WorldIInvHolds, PTL

LEMMA WorldChosen == WorldIInv => ChosenWorld
<1>1. WorldIInv => BusiestWorld
  <2> SUFFICES ASSUME WorldIInv, pc = "publish", world_name = "" PROVE BusiestWorld
    BY Zenon DEF BusiestWorld
  <2>1. i = num_worlds
    BY Zenon DEF WorldIInv, EndInv
  <2>2. QED
    BY <2>1, Zenon DEF WorldIInv, BusyInv, BusiestWorld, FirstBusiest, Players
<1>2. WorldIInv => ConfiguredWorld
  BY Zenon DEF WorldIInv, EndInv, NameInv, ConfiguredWorld
<1>3. WorldIInv => NoWorldMadeUp
  <2> SUFFICES ASSUME WorldIInv PROVE NoWorldMadeUp
    BY Zenon
  <2>1. \A k \in 1 .. i : k \in 1 .. num_worlds
    BY DEF WorldIInv, CountTypes
  <2>2. out_world = NoWorld \/ \E k \in 1 .. num_worlds : out_world = worlds[k]
    BY <2>1, Zenon DEF WorldIInv, BusyInv, NameInv
  <2>3. QED
    BY <2>2, Zenon DEF WorldIInv, ReadInv, NoWorldMadeUp
<1>4. QED
  BY <1>1, <1>2, <1>3, Zenon DEF ChosenWorld

\* get_world finds the world the configuration asks for, of any response: the first of
\* that name or none, and without a name the first of the busiest ones; of a response
\* cut anywhere it gives a part of one world of it, or none.
THEOREM ChosenWorldHolds == WorldSpec => []ChosenWorld
BY WorldIInvHolds, WorldChosen, PTL

\* The peak published by get_status_string is never below the players online.
THEOREM PeakCoversOnlineHolds == WorldSpec => []PeakCoversOnline
<1>1. WorldIInv => PeakCoversOnline
  BY Zenon DEF WorldIInv, ShownTypes, PeakCoversOnline
<1>2. QED
  BY <1>1, WorldIInvHolds, PTL

-----------------------------------------------------------------------------
(* Recursion                                                               *)

\* A function that goes on as the steps say, as long as it has a type, always has it.
LEMMA Recursion ==
  ASSUME NEW N \in Nat, NEW S, NEW base \in S, NEW step \in [1 .. N -> [S -> S]], NEW e,
         e = [n \in 0 .. N |-> e[n]], e[0] = base,
         \A n \in 1 .. N : e[n - 1] \in S => e[n] = step[n][e[n - 1]]
  PROVE  Iterated(e, N, S, base, step)
<1> DEFINE Typed == { n \in 0 .. N : e[n] \in S }
<1>1. 0 \in 0 .. N /\ \A n \in 1 .. N : n \in 0 .. N /\ n - 1 \in 0 .. N
  BY SMT
<1>2. 0 \in Typed
  BY <1>1, Zenon
<1>3. ASSUME NEW n \in 1 .. N, n - 1 \in Typed PROVE n \in Typed
  <2>1. e[n - 1] \in S /\ step[n] \in [S -> S]
    BY <1>3, Zenon
  <2>2. e[n] = step[n][e[n - 1]] /\ step[n][e[n - 1]] \in S
    BY <2>1, Zenon
  <2> QED
    BY <1>1, <2>2, Zenon
<1>4. \A n \in 0 .. N : n \in Typed
  <2> HIDE DEF Typed
  <2> QED
    BY <1>2, <1>3, UpTo, Zenon
<1>5. e \in [0 .. N -> S]
  BY <1>4, Zenon
<1> QED
  BY <1>1, <1>4, <1>5, Zenon DEF Iterated

-----------------------------------------------------------------------------
(* Texts that are joined                                                   *)

LEMMA Associative ==
  ASSUME NEW x \in Seq(Char), NEW y \in Seq(Char), NEW z \in Seq(Char)
  PROVE  (x \o y) \o z = x \o (y \o z)
BY ConcatAssociative

\* Joined, as its definition says
LEMMA JoinedFacts ==
  ASSUME NEW S, NEW t \in Seq(Seq(S))
  PROVE  /\ Len(t) \in Nat /\ Joined(t) \in [0 .. Len(t) -> Seq(S)] /\ Joined(t)[0] = <<>>
         /\ \A n \in 1 .. Len(t) : t[n] \in Seq(S) /\ Joined(t)[n] = Joined(t)[n - 1] \o t[n]
<1> DEFINE N == Len(t)
           step == [n \in 1 .. N |-> [s \in Seq(S) |-> s \o t[n]]]
           D(g) == g = [n \in 0 .. N |-> IF n = 0 THEN <<>> ELSE g[n - 1] \o t[n]]
           e == Joined(t)
<1>1. N \in Nat /\ <<>> \in Seq(S) /\ \A n \in 1 .. N : t[n] \in Seq(S)
  BY LenProperties, EmptySeq, ElementOfSeq, Zenon
<1>2. \A a, b \in Seq(S) : a \o b \in Seq(S)
  BY ConcatProperties, Zenon
<1>3. step \in [1 .. N -> [Seq(S) -> Seq(S)]]
  BY <1>1, <1>2, Zenon
<1>4. PICK f : Iterated(f, N, Seq(S), <<>>, step)
  <2> HIDE DEF step, N
  <2> QED
    BY <1>1, <1>3, Iteration, Zenon
<1>5. ASSUME NEW n \in 0 .. N, n # 0 PROVE n \in 1 .. N
  BY <1>1, <1>5, SMT
<1>6. 0 \in 0 .. N /\ \A n \in 1 .. N : n \in 0 .. N /\ n # 0 /\ n - 1 \in 0 .. N
  BY <1>1, SMT
<1>7. D(f)
  <2>1. f \in [0 .. N -> Seq(S)] /\ f[0] = <<>> /\ \A n \in 1 .. N : f[n] = step[n][f[n - 1]]
    BY <1>4, Zenon DEF Iterated
  <2>2. ASSUME NEW n \in 0 .. N PROVE f[n] = IF n = 0 THEN <<>> ELSE f[n - 1] \o t[n]
    BY <1>5, <1>6, <2>1, Zenon
  <2> QED
    BY <2>1, <2>2, Zenon
<1>8. D(e)
  BY <1>7, Zenon DEF Joined
<1> HIDE DEF e
<1>9. Iterated(e, N, Seq(S), <<>>, step)
  <2>1. e[0] = <<>> /\ \A n \in 1 .. N : e[n] = e[n - 1] \o t[n]
    BY <1>6, <1>8, Zenon
  <2>2. \A n \in 1 .. N : e[n - 1] \in Seq(S) => e[n] = step[n][e[n - 1]]
    BY <2>1, Zenon
  <2>3. e = [n \in 0 .. N |-> e[n]]
    BY <1>8, Zenon
  <2> HIDE DEF step, N, D
  <2> QED
    BY <1>1, <1>3, <2>1, <2>2, <2>3, Recursion, Zenon
<1>10. e \in [0 .. N -> Seq(S)] /\ e[0] = <<>> /\ \A n \in 1 .. N : e[n] = e[n - 1] \o t[n]
  BY <1>6, <1>9, Zenon DEF Iterated
<1> QED
  BY <1>1, <1>10, Zenon DEF e

\* A text within a text within a third
LEMMA OccursWithin ==
  ASSUME NEW S, NEW x \in Seq(S), NEW y \in Seq(S), NEW z \in Seq(S), NEW m \in Nat, NEW n \in Nat,
         Occurs(x, y, m), Occurs(y, z, n)
  PROVE  Occurs(x, z, n + m)
<1>1. Len(x) \in Nat /\ Len(y) \in Nat /\ Len(z) \in Nat
  BY LenProperties, Zenon
<1>2. /\ m + Len(x) <= Len(y) /\ \A k \in 1 .. Len(x) : y[m + k] = x[k]
      /\ n + Len(y) <= Len(z) /\ \A k \in 1 .. Len(y) : z[n + k] = y[k]
  BY Zenon DEF Occurs
<1>3. (n + m) + Len(x) <= Len(z)
  BY <1>1, <1>2, SMT
<1>4. ASSUME NEW k \in 1 .. Len(x) PROVE z[(n + m) + k] = x[k]
  <2>1. m + k \in 1 .. Len(y) /\ n + (m + k) = (n + m) + k
    BY <1>1, <1>2, SMT
  <2> QED
    BY <1>2, <2>1, Zenon
<1> QED
  BY <1>3, <1>4, Zenon DEF Occurs

\* What is written one after the other
LEMMA ConcatOccurs ==
  ASSUME NEW S, NEW x \in Seq(S), NEW y \in Seq(S)
  PROVE  /\ x \o y \in Seq(S) /\ Len(x) \in Nat /\ Len(y) \in Nat /\ Len(x \o y) = Len(x) + Len(y)
         /\ Occurs(x, x \o y, 0) /\ Occurs(y, x \o y, Len(x))
<1>1. Len(x) \in Nat /\ Len(y) \in Nat
  BY LenProperties, Zenon
<1>2. /\ x \o y \in Seq(S) /\ Len(x \o y) = Len(x) + Len(y)
      /\ \A k \in 1 .. Len(x) + Len(y) : (x \o y)[k] = IF k <= Len(x) THEN x[k] ELSE y[k - Len(x)]
  BY ConcatProperties, Zenon
<1>3. Occurs(x, x \o y, 0)
  <2>1. 0 + Len(x) <= Len(x) + Len(y)
    BY <1>1, SMT
  <2>2. ASSUME NEW k \in 1 .. Len(x) PROVE (x \o y)[0 + k] = x[k]
    <3>1. 0 + k = k /\ k \in 1 .. Len(x) + Len(y) /\ k <= Len(x)
      BY <1>1, SMT
    <3> QED
      BY <1>2, <3>1, Zenon
  <2> QED
    BY <1>2, <2>1, <2>2, Zenon DEF Occurs
<1>4. Occurs(y, x \o y, Len(x))
  <2>1. Len(x) + Len(y) <= Len(x) + Len(y)
    BY <1>1, SMT
  <2>2. ASSUME NEW k \in 1 .. Len(y) PROVE (x \o y)[Len(x) + k] = y[k]
    <3>1. Len(x) + k \in 1 .. Len(x) + Len(y) /\ ~(Len(x) + k <= Len(x)) /\ (Len(x) + k) - Len(x) = k
      BY <1>1, SMT
    <3> QED
      BY <1>2, <3>1, Zenon
  <2> QED
    BY <1>2, <2>1, <2>2, Zenon DEF Occurs
<1> QED
  BY <1>1, <1>2, <1>3, <1>4, Zenon

\* A text is in itself, and of its length there is no other.
LEMMA OccursAll ==
  ASSUME NEW S, NEW x \in Seq(S), NEW y \in Seq(S), Len(x) = Len(y)
  PROVE  Occurs(x, y, 0) <=> x = y
<1>1. Len(x) \in Nat /\ DOMAIN x = 1 .. Len(x) /\ DOMAIN y = 1 .. Len(x)
  BY LenProperties, Zenon
<1>2. 0 + Len(x) <= Len(x) /\ \A k \in 1 .. Len(x) : 0 + k = k
  BY <1>1, SMT
<1>3. ASSUME Occurs(x, y, 0) PROVE x = y
  <2>1. \A k \in 1 .. Len(x) : y[k] = x[k]
    BY <1>2, <1>3, Zenon DEF Occurs
  <2> QED
    BY <2>1, SeqEqual, Zenon
<1>4. ASSUME x = y PROVE Occurs(x, y, 0)
  BY <1>2, <1>4, Zenon DEF Occurs
<1> QED
  BY <1>3, <1>4, Zenon

\* A part of a text, after its first n characters
LEMMA Part ==
  ASSUME NEW S, NEW x \in Seq(S), NEW n \in 0 .. Len(x), NEW m \in n .. Len(x)
  PROVE  /\ SubSeq(x, n + 1, m) \in Seq(S) /\ Len(SubSeq(x, n + 1, m)) = m - n
         /\ Occurs(SubSeq(x, n + 1, m), x, n)
<1> DEFINE y == SubSeq(x, n + 1, m)
<1>1. Len(x) \in Nat /\ \A k \in 1 .. Len(x) : x[k] \in S
  BY LenProperties, ElementOfSeq, Zenon
<1>2. n + 1 \in Int /\ m \in Int /\ \A k \in n + 1 .. m : k \in 1 .. Len(x)
  BY <1>1, SMT
<1>7. \A k \in n + 1 .. m : x[k] \in S
  BY <1>1, <1>2, Zenon
<1>3. /\ y \in Seq(S) /\ Len(y) = IF n + 1 <= m THEN m - (n + 1) + 1 ELSE 0
      /\ \A k \in 1 .. m - (n + 1) + 1 : y[k] = x[(n + 1) + k - 1]
  <2> DEFINE a == n + 1
  <2>1. a \in Int /\ m \in Int /\ \A k \in a .. m : x[k] \in S
    BY <1>2, <1>7, Zenon
  <2> HIDE DEF a
  <2>2. /\ SubSeq(x, a, m) \in Seq(S) /\ Len(SubSeq(x, a, m)) = IF a <= m THEN m - a + 1 ELSE 0
        /\ \A k \in 1 .. m - a + 1 : SubSeq(x, a, m)[k] = x[a + k - 1]
    BY <2>1, SubSeqProperties, SMT
  <2> QED
    BY <2>2, Zenon DEF a
<1> HIDE DEF y
<1>4. Len(y) = m - n
  <2>1. (n + 1 <= m => m - (n + 1) + 1 = m - n) /\ (~(n + 1 <= m) => 0 = m - n)
    BY <1>1, SMT
  <2> QED
    BY <1>3, <2>1, Zenon
<1>5. ASSUME NEW k \in 1 .. m - n PROVE k \in 1 .. m - (n + 1) + 1 /\ (n + 1) + k - 1 = n + k
  BY <1>1, SMT
<1>6. n + (m - n) <= Len(x)
  BY <1>1, SMT
<1> QED
  BY <1>3, <1>4, <1>5, <1>6, Zenon DEF Occurs, y

\* The first parts begin what more parts make.
LEMMA JoinedPrefix ==
  ASSUME NEW S, NEW t \in Seq(Seq(S)), NEW n \in 0 .. Len(t), NEW m \in n .. Len(t)
  PROVE  /\ Joined(t)[n] \in Seq(S) /\ Joined(t)[m] \in Seq(S)
         /\ Occurs(Joined(t)[n], Joined(t)[m], 0)
<1> DEFINE N == Len(t)
           e == Joined(t)
           T == { k \in 0 .. N : n <= k => Occurs(e[n], e[k], 0) }
<1>1. N \in Nat /\ \A k \in 0 .. N : e[k] \in Seq(S)
  BY JoinedFacts, Zenon
<1>2. \A k \in 1 .. N : t[k] \in Seq(S) /\ e[k] = e[k - 1] \o t[k]
  BY JoinedFacts, Zenon
<1> HIDE DEF e, N
<1>3. n \in 0 .. N /\ m \in 0 .. N /\ 0 \in 0 .. N /\ n <= m /\ (n <= 0 => n = 0) /\ 0 + 0 = 0
  BY <1>1, SMT DEF N
<1>4. Occurs(e[n], e[n], 0)
  BY <1>1, <1>3, OccursAll, Zenon
<1>5. 0 \in T
  BY <1>3, <1>4, Zenon
<1>6. ASSUME NEW k \in 1 .. N, k - 1 \in T PROVE k \in T
  <2>1. k \in 0 .. N /\ k - 1 \in 0 .. N /\ (n <= k => n = k \/ n <= k - 1)
    BY <1>1, <1>3, SMT
  <2>2. ASSUME n <= k - 1 PROVE Occurs(e[n], e[k], 0)
    <3>1. Occurs(e[n], e[k - 1], 0)
      BY <1>6, <2>2, Zenon
    <3>2. Occurs(e[k - 1], e[k], 0)
      BY <1>1, <1>2, <2>1, ConcatOccurs, Zenon
    <3>3. 0 \in Nat
      BY SMT
    <3>4. Occurs(e[n], e[k], 0 + 0)
      BY <1>1, <1>3, <2>1, <3>1, <3>2, <3>3, OccursWithin, Zenon
    <3> QED
      BY <1>3, <3>4, Zenon
  <2> QED
    BY <1>4, <2>1, <2>2, Zenon
<1>7. \A k \in 0 .. N : k \in T
  <2> HIDE DEF T
  <2> QED
    BY <1>1, <1>5, <1>6, UpTo, Zenon
<1> QED
  BY <1>1, <1>3, <1>7, Zenon DEF e

\* Where a part is in the whole
LEMMA JoinedAt ==
  ASSUME NEW S, NEW t \in Seq(Seq(S)), NEW n \in 1 .. Len(t)
  PROVE  /\ t[n] \in Seq(S) /\ Joined(t)[n] \in Seq(S) /\ Joined(t)[n - 1] \in Seq(S) /\ All(t) \in Seq(S)
         /\ Len(t[n]) \in Nat /\ Len(Joined(t)[n - 1]) \in Nat
         /\ Len(Joined(t)[n]) = Len(Joined(t)[n - 1]) + Len(t[n])
         /\ Len(Joined(t)[n]) <= Len(All(t))
         /\ Occurs(t[n], All(t), Len(Joined(t)[n - 1]))
<1> DEFINE N == Len(t)
           e == Joined(t)
<1>1. /\ N \in Nat /\ \A k \in 0 .. N : e[k] \in Seq(S)
      /\ t[n] \in Seq(S) /\ e[n] = e[n - 1] \o t[n]
  BY JoinedFacts, Zenon
<1>2. n \in 0 .. N /\ n - 1 \in 0 .. N /\ N \in n .. N /\ N \in 0 .. N
  BY <1>1, SMT
<1>3. /\ Len(e[n]) = Len(e[n - 1]) + Len(t[n]) /\ Len(e[n - 1]) \in Nat /\ Len(t[n]) \in Nat
      /\ Occurs(t[n], e[n], Len(e[n - 1]))
  BY <1>1, <1>2, ConcatOccurs, Zenon
<1>4. Occurs(e[n], e[N], 0)
  BY <1>2, JoinedPrefix, Zenon
<1> HIDE DEF e, N
<1>5. 0 \in Nat
  BY SMT
<1>6. Occurs(t[n], e[N], 0 + Len(e[n - 1]))
  BY <1>1, <1>2, <1>3, <1>4, <1>5, OccursWithin, Zenon
<1>7. 0 + Len(e[n - 1]) = Len(e[n - 1])
  BY <1>3, SMT
<1>8. Len(e[n]) \in Nat /\ \A k \in Nat : 0 + k = k
  <2>1. \A k \in Nat : 0 + k = k
    BY SMT
  <2> QED
    BY <1>1, <1>2, <2>1, LenProperties, Zenon
<1>9. Len(e[n]) <= Len(e[N])
  BY <1>4, <1>8, Zenon DEF Occurs
<1> QED
  BY <1>1, <1>2, <1>3, <1>6, <1>7, <1>9, Zenon DEF e, N, All

-----------------------------------------------------------------------------
(* Numbers                                                                 *)

LEMMA MaxDigitsNat == MaxDigits \in Nat
BY SMT DEF MaxDigits

LEMMA Quotient ==
  /\ \A a \in Nat : a \div 10 \in Nat
  /\ \A a, b \in Nat : a <= b => a \div 10 <= b \div 10
<1>1. \A a \in Nat : a \div 10 \in Nat
  BY SMT
<1>2. \A a, b \in Nat : a <= b => a \div 10 <= b \div 10
  BY SMT
<1> QED
  BY <1>1, <1>2, Zenon

\* Left, as its definition says
LEMMA LeftFacts ==
  ASSUME NEW num \in Nat
  PROVE  /\ Left(num) \in [0 .. MaxDigits -> Nat] /\ Left(num)[0] = num
         /\ \A n \in 1 .. MaxDigits : Left(num)[n] = Left(num)[n - 1] \div 10
<1> DEFINE N == MaxDigits
           step == [n \in 1 .. N |-> [s \in Nat |-> s \div 10]]
           D(g) == g = [n \in 0 .. N |-> IF n = 0 THEN num ELSE g[n - 1] \div 10]
           e == Left(num)
<1>1. N \in Nat
  BY MaxDigitsNat, Zenon
<1>3. step \in [1 .. N -> [Nat -> Nat]]
  BY Quotient, Zenon
<1>4. PICK f : Iterated(f, N, Nat, num, step)
  <2> HIDE DEF step, N
  <2> QED
    BY <1>1, <1>3, Iteration, Zenon
<1>5. ASSUME NEW n \in 0 .. N, n # 0 PROVE n \in 1 .. N
  <2> HIDE DEF N
  <2> QED
    BY <1>1, <1>5, SMT
<1>6. 0 \in 0 .. N /\ \A n \in 1 .. N : n \in 0 .. N /\ n # 0 /\ n - 1 \in 0 .. N
  <2> HIDE DEF N
  <2> QED
    BY <1>1, SMT
<1>7. D(f)
  <2>1. f \in [0 .. N -> Nat] /\ f[0] = num /\ \A n \in 1 .. N : f[n] = step[n][f[n - 1]]
    BY <1>4, Zenon DEF Iterated
  <2>2. ASSUME NEW n \in 0 .. N PROVE f[n] = IF n = 0 THEN num ELSE f[n - 1] \div 10
    BY <1>5, <1>6, <2>1, Zenon
  <2> QED
    BY <2>1, <2>2, Zenon
<1>8. D(e)
  BY <1>7, Zenon DEF Left
<1> HIDE DEF e
<1>9. Iterated(e, N, Nat, num, step)
  <2>1. e[0] = num /\ \A n \in 1 .. N : e[n] = e[n - 1] \div 10
    BY <1>6, <1>8, Zenon
  <2>2. \A n \in 1 .. N : e[n - 1] \in Nat => e[n] = step[n][e[n - 1]]
    BY <2>1, Zenon
  <2>3. e = [n \in 0 .. N |-> e[n]]
    BY <1>8, Zenon
  <2> HIDE DEF step, N, D
  <2> QED
    BY <1>1, <1>3, <2>1, <2>2, <2>3, Recursion, Zenon
<1>10. e \in [0 .. N -> Nat] /\ e[0] = num /\ \A n \in 1 .. N : e[n] = e[n - 1] \div 10
  BY <1>6, <1>9, Zenon DEF Iterated
<1> QED
  BY <1>10, Zenon DEF e

\* A smaller number has no more digits.
LEMMA LeftMonotone ==
  ASSUME NEW a \in Nat, NEW b \in Nat, a <= b, NEW n \in 0 .. MaxDigits, Left(b)[n] = 0
  PROVE  Left(a)[n] = 0
<1> DEFINE N == MaxDigits
           T == { k \in 0 .. N : Left(a)[k] <= Left(b)[k] }
<1>1. N \in Nat /\ 0 \in 0 .. N /\ \A k \in 1 .. N : k \in 0 .. N /\ k - 1 \in 0 .. N
  <2>1. N \in Nat
    BY MaxDigitsNat, Zenon
  <2> HIDE DEF N
  <2> QED
    BY <2>1, SMT
<1>2. 0 \in T
  BY <1>1, LeftFacts, Zenon
<1>3. ASSUME NEW k \in 1 .. N, k - 1 \in T PROVE k \in T
  <2>1. Left(a)[k - 1] \in Nat /\ Left(b)[k - 1] \in Nat /\ Left(a)[k - 1] <= Left(b)[k - 1]
    BY <1>1, <1>3, LeftFacts, ZenonT(40)
  <2>2. Left(a)[k] <= Left(b)[k]
    <3>1. Left(a)[k] = Left(a)[k - 1] \div 10 /\ Left(b)[k] = Left(b)[k - 1] \div 10
      BY LeftFacts, Zenon
    <3>2. Left(a)[k - 1] \div 10 <= Left(b)[k - 1] \div 10
      BY <2>1, Quotient, Zenon
    <3> QED
      BY <3>1, <3>2, Zenon
  <2> QED
    BY <1>1, <2>2, Zenon
<1>4. \A k \in 0 .. N : k \in T
  <2> HIDE DEF T, N
  <2> QED
    BY <1>1, <1>2, <1>3, UpTo, Zenon
<1>5. Left(a)[n] \in Nat /\ Left(a)[n] <= 0
  BY <1>4, LeftFacts, Zenon
<1> QED
  BY <1>5, SMT

\* The loop that takes the digits ends when nothing is left.
LEMMA StringLen ==
  ASSUME NEW num \in Nat, num # 0, NEW n \in 0 .. MaxDigits, Left(num)[n] = 0
  PROVE  /\ string_len(num) \in 1 .. n /\ Left(num)[string_len(num)] = 0
         /\ \A k \in 0 .. string_len(num) - 1 : Left(num)[k] # 0
<1> DEFINE N == MaxDigits
           e == Left(num)
           Ends(k) == e[k] = 0 /\ \A j \in 0 .. k - 1 : e[j] # 0
           T == { k \in 0 .. N : e[k] = 0 }
           l == string_len(num)
<1>1. N \in Nat
  BY MaxDigitsNat, Zenon
<1>2. e[0] # 0
  BY LeftFacts, Zenon
<1> HIDE DEF e, N
<1>3. n \in T
  BY Zenon DEF e, N
<1>4. T \subseteq Nat
  BY <1>1, SMT
<1>5. PICK m \in T : \A k \in T : m <= k
  <2> HIDE DEF T
  <2> QED
    BY <1>3, <1>4, Least, Zenon
<1>6. Ends(m)
  <2>1. ASSUME NEW j \in 0 .. m - 1 PROVE j \in 0 .. N /\ ~(m <= j)
    BY <1>1, <1>5, SMT
  <2> QED
    BY <1>5, <2>1, Zenon
<1>7. l = CHOOSE k \in 0 .. N : Ends(k)
  BY Zenon DEF string_len, e, N
<1> HIDE DEF l
<1>8. l \in 0 .. N /\ Ends(l)
  <2> HIDE DEF Ends
  <2> QED
    BY <1>5, <1>6, <1>7, Zenon
<1>9. l # 0 /\ n \notin 0 .. l - 1 /\ n \in 0 .. N
  BY <1>2, <1>3, <1>8, Zenon
<1>10. l \in 1 .. n
  BY <1>1, <1>8, <1>9, SMT
<1> QED
  BY <1>8, <1>10, Zenon DEF l, e

IsDigit(c) == \E v \in 0 .. 9 : c = Digit[v + 1]

LEMMA DigitFacts ==
  ASSUME NEW c, IsDigit(c)
  PROVE  c \in Char /\ c \notin {"newline", "-", "&", "%"}
<1>1. PICK v \in 0 .. 9 : c = Digit[v + 1]
  BY Zenon DEF IsDigit
<1>2. v = 0 \/ v = 1 \/ v = 2 \/ v = 3 \/ v = 4 \/ v = 5 \/ v = 6 \/ v = 7 \/ v = 8 \/ v = 9
  BY SMT
<1>3. c \in {"0", "1", "2", "3", "4", "5", "6", "7", "8", "9"}
  BY <1>1, <1>2, SMT DEF Digit
<1>4. v + 1 \in 1 .. 10
  BY SMT
<1>5. c \in Char
  BY <1>1, <1>4, CharAssumption, Zenon
<1> QED
  BY <1>3, <1>5, SMT

\* What is appended for a positive number: its digits, the last of which is the rest
LEMMA DigitsFacts ==
  ASSUME NEW num \in Nat, num # 0, NEW n \in 0 .. MaxDigits, Left(num)[n] = 0
  PROVE  /\ Digits(num) \in Seq(Char) /\ Len(Digits(num)) = string_len(num)
         /\ \A k \in 1 .. string_len(num) :
              /\ Digits(num)[k] = Digit[(Left(num)[string_len(num) - k] % 10) + 1]
              /\ IsDigit(Digits(num)[k])
<1> DEFINE l == string_len(num)
<1>1. l \in 1 .. n /\ l \in Nat /\ n <= MaxDigits
  <2>1. l \in 1 .. n
    BY StringLen, Zenon
  <2> HIDE DEF l
  <2> QED
    BY <2>1, MaxDigitsNat, SMT
<1> HIDE DEF l
<1>2. ASSUME NEW k \in 1 .. l PROVE l - k \in 0 .. MaxDigits
  BY <1>1, MaxDigitsNat, SMT
<1>3. \A a \in Nat : a % 10 \in 0 .. 9
  BY SMT
<1>4. ASSUME NEW k \in 1 .. l
      PROVE  Left(num)[l - k] % 10 \in 0 .. 9 /\ IsDigit(Digit[(Left(num)[l - k] % 10) + 1])
  <2>1. Left(num)[l - k] \in Nat
    BY <1>2, LeftFacts, Zenon
  <2> QED
    BY <1>3, <2>1, Zenon DEF IsDigit
<1>5. \A k \in 1 .. l : Digit[(Left(num)[l - k] % 10) + 1] \in Char
  BY <1>4, DigitFacts, Zenon
<1>6. Digits(num) = [k \in 1 .. l |-> Digit[(Left(num)[l - k] % 10) + 1]]
  BY Zenon DEF Digits, l
<1>7. Digits(num) \in [1 .. l -> Char]
  BY <1>5, <1>6, Zenon
<1>8. Digits(num) \in Seq(Char) /\ Len(Digits(num)) = l
  BY <1>1, <1>7, FunctionSeq, Zenon
<1>9. \A k \in 1 .. l : Digits(num)[k] = Digit[(Left(num)[l - k] % 10) + 1]
  BY <1>6, Zenon
<1> QED
  BY <1>4, <1>8, <1>9, Zenon DEF l

\* A number with at most n digits
LEMMA NumberFacts ==
  ASSUME NEW num \in Nat, NEW n \in 1 .. MaxDigits, Left(num)[n] = 0
  PROVE  /\ number(num) \in Seq(Char) /\ Len(number(num)) \in 1 .. n
         /\ \A k \in 1 .. Len(number(num)) : IsDigit(number(num)[k])
<1>1. n \in 0 .. MaxDigits /\ ~(num < 0)
  BY MaxDigitsNat, SMT
<1>2. CASE num = 0
  <2>1. number(num) = <<"0">>
    BY <1>2, Zenon DEF number
  <2>2. IsDigit("0")
    BY SMT DEF IsDigit, Digit
  <2>3. "0" \in Char
    BY <2>2, DigitFacts, Zenon
  <2>4. <<"0">> \in Seq(Char) /\ Len(<<"0">>) \in 1 .. n /\ \A k \in 1 .. Len(<<"0">>) : <<"0">>[k] = "0"
    BY <2>3, SMT
  <2> QED
    BY <2>1, <2>2, <2>4, Zenon
<1>3. CASE num # 0
  <2>1. number(num) = Digits(num)
    BY <1>1, <1>3, Zenon DEF number
  <2> QED
    <3>1. Digits(num) \in Seq(Char) /\ Len(Digits(num)) = string_len(num)
      BY <1>1, <1>3, DigitsFacts, Zenon
    <3>2. \A k \in 1 .. string_len(num) : IsDigit(Digits(num)[k])
      BY <1>1, <1>3, DigitsFacts, Zenon
    <3>3. string_len(num) \in 1 .. n
      BY <1>1, <1>3, StringLen, Zenon
    <3> QED
      BY <2>1, <3>1, <3>2, <3>3, Zenon
<1> QED
  BY <1>2, <1>3, Zenon

-----------------------------------------------------------------------------
(* The functions of string_utils.cpp                                       *)

\* string_copy takes all or nothing and leaves room for the zero.
LEMMA CopyFacts ==
  ASSUME NEW capacity \in Nat \ {0}, NEW x \in Text
  PROVE  LET y == string_copy(capacity, x)
         IN  /\ y \in Text /\ Len(y) < capacity /\ y \in {x, <<>>}
             /\ y = <<>> => x = <<>> \/ Len(x) >= capacity
<1>1. Len(x) \in Nat /\ <<>> \in Text /\ Len(<<>>) = 0
  BY LenProperties, EmptySeq, Zenon DEF Text
<1>2. 0 < capacity /\ (~(Len(x) < capacity) => Len(x) >= capacity)
  BY <1>1, SMT
<1>3. CASE Len(x) < capacity
  BY <1>1, <1>2, <1>3, Zenon DEF string_copy
<1>4. CASE ~(Len(x) < capacity)
  BY <1>1, <1>2, <1>4, Zenon DEF string_copy
<1> QED
  BY <1>3, <1>4, Zenon

\* A setting that is read is a text.
LEMMA EnvFacts ==
  ASSUME env \in Environments
  PROVE  /\ \A s \in Strings : (s = "password" => env[s] # Unset) => EnvStr(s) \in Text
         /\ EnvStr("mode") \in Text /\ EnvStr("motd") \in Seq(DOMAIN CharCode)
<1>1. /\ \A name \in Strings \cup {"mode"} : env[name] \in Text \cup {Unset}
      /\ env["motd"] \in Seq(DOMAIN CharCode) \cup {Unset}
      /\ \A name \in (Strings \ {"password"}) \cup {"mode"} : Default[name] \in Text
      /\ Default["motd"] \in Seq(DOMAIN CharCode)
  BY ConfigAssumption, Zenon
<1>2. ASSUME NEW s \in Strings, s = "password" => env[s] # Unset PROVE EnvStr(s) \in Text
  BY <1>1, <1>2, Zenon DEF EnvStr
<1>3. EnvStr("mode") \in Text
  BY <1>1, Zenon DEF EnvStr
<1>4. EnvStr("motd") \in Seq(DOMAIN CharCode)
  BY <1>1, Zenon DEF EnvStr
<1> QED
  BY <1>2, <1>3, <1>4, Zenon

Messages == Seq(DOMAIN CharCode)

LEMMA MessageText ==
  ASSUME NEW x \in Messages
  PROVE  x \in Text /\ Len(x) \in Nat /\ \A k \in 1 .. Len(x) : x[k] \in DOMAIN CharCode /\ x[k] \in Char
<1>1. x \in Text
  BY ConfigAssumption, SeqMonotonic, Zenon DEF Messages, Text
<1> QED
  BY <1>1, LenProperties, ElementOfSeq, Zenon DEF Messages, Text

Hash == 0 .. HashModulus - 1

\* The hash of a message is a number of its width.
LEMMA HashFacts ==
  ASSUME NEW x \in Messages
  PROVE  string_hash(x) \in Hash
<1> DEFINE N == Len(x)
           step == [n \in 1 .. N |-> [h \in Hash |->
                      (ExclusiveOr(h, CharCode[x[n]]) * HashPrime) % HashModulus]]
           D(g) == g = [n \in 0 .. N |-> IF n = 0 THEN HashOffset ELSE
                          (ExclusiveOr(g[n - 1], CharCode[x[n]]) * HashPrime) % HashModulus]
           e == Hashes(x)
<1>1. N \in Nat /\ HashOffset \in Hash /\ \A n \in 1 .. N : x[n] \in DOMAIN CharCode
  BY ConfigAssumption, MessageText, Zenon DEF Hash
<1>2. HashModulus \in Nat /\ HashPrime \in Nat /\ HashModulus > 0
  <2>1. HashModulus \in Nat /\ HashPrime \in Nat /\ HashOffset \in 0 .. HashModulus - 1
    BY ConfigAssumption, Zenon
  <2> QED
    BY <2>1, SMT
<1>11. \A a \in Nat : (a * HashPrime) % HashModulus \in Hash
  <2>1. \A a \in Nat : a * HashPrime \in Nat
    BY <1>2, SMT
  <2>2. \A b \in Nat : b % HashModulus \in 0 .. HashModulus - 1
    BY <1>2, SMT
  <2> QED
    BY <2>1, <2>2, Zenon DEF Hash
<1>12. \A h \in Hash, c \in DOMAIN CharCode : ExclusiveOr(h, CharCode[c]) \in Nat
  BY ConfigAssumption, Zenon DEF Hash
<1>3. step \in [1 .. N -> [Hash -> Hash]]
  <2>1. \A n \in 1 .. N, h \in Hash : (ExclusiveOr(h, CharCode[x[n]]) * HashPrime) % HashModulus \in Hash
    BY <1>1, <1>11, <1>12, Zenon
  <2> QED
    BY <2>1, Zenon
<1>4. PICK f : Iterated(f, N, Hash, HashOffset, step)
  <2> HIDE DEF step, N
  <2> QED
    BY <1>1, <1>3, Iteration, Zenon
<1>5. ASSUME NEW n \in 0 .. N, n # 0 PROVE n \in 1 .. N
  BY <1>1, <1>5, SMT
<1>6. N \in 0 .. N /\ 0 \in 0 .. N /\ \A n \in 1 .. N : n \in 0 .. N /\ n # 0 /\ n - 1 \in 0 .. N
  BY <1>1, SMT
<1>7. D(f)
  <2>1. f \in [0 .. N -> Hash] /\ f[0] = HashOffset /\ \A n \in 1 .. N : f[n] = step[n][f[n - 1]]
    BY <1>4, Zenon DEF Iterated
  <2>2. ASSUME NEW n \in 0 .. N
        PROVE  f[n] = IF n = 0 THEN HashOffset ELSE
                      (ExclusiveOr(f[n - 1], CharCode[x[n]]) * HashPrime) % HashModulus
    BY <1>5, <1>6, <2>1, Zenon
  <2> QED
    BY <2>1, <2>2, Zenon
<1>8. D(e)
  BY <1>7, Zenon DEF Hashes
<1> HIDE DEF e
<1>9. Iterated(e, N, Hash, HashOffset, step)
  <2>1. e[0] = HashOffset
    BY <1>6, <1>8, Zenon
  <2>2. \A n \in 1 .. N : e[n - 1] \in Hash => e[n] = step[n][e[n - 1]]
    BY <1>6, <1>8, Zenon
  <2>3. e = [n \in 0 .. N |-> e[n]]
    BY <1>8, Zenon
  <2> HIDE DEF step, N, D
  <2> QED
    BY <1>1, <1>3, <2>1, <2>2, <2>3, Recursion, Zenon
<1> QED
  BY <1>6, <1>9, Zenon DEF Iterated, string_hash, e

\* The line with the hash: digits and the end of the line, and room for a character
\* after it
LEMMA HashLineFacts ==
  ASSUME NEW x \in Messages
  PROVE  LET h == HashLine(x)
         IN  /\ h \in Text /\ Len(h) \in Nat \ {0} /\ Len(h) + 1 < MotdCapacity /\ h[Len(h)] = Newline
             /\ \A k \in 1 .. Len(h) - 1 : h[k] # Newline
<1> DEFINE num == string_hash(x)
           d == number(num)
           h == d \o <<Newline>>
<1>1. HashModulus \in Nat /\ MotdCapacity \in Nat
  BY ConfigAssumption, Zenon
<1>2. PICK n \in 1 .. MaxDigits : Left(HashModulus - 1)[n] = 0 /\ n + 2 < MotdCapacity
  BY ConfigAssumption, Zenon
<1>3. num \in Nat /\ num <= HashModulus - 1 /\ HashModulus - 1 \in Nat
  <2>1. num \in 0 .. HashModulus - 1
    BY HashFacts, Zenon DEF Hash
  <2> HIDE DEF num
  <2> QED
    BY <1>1, <2>1, SMT
<1> HIDE DEF num
<1>4. n \in 0 .. MaxDigits /\ n \in Nat
  BY MaxDigitsNat, SMT
<1>5. Left(num)[n] = 0
  BY <1>2, <1>3, <1>4, LeftMonotone, Zenon
<1>6. d \in Seq(Char) /\ Len(d) \in 1 .. n /\ \A k \in 1 .. Len(d) : d[k] \notin {"newline", "-", "&", "%"}
  BY <1>3, <1>5, NumberFacts, DigitFacts, Zenon
<1> HIDE DEF d
<1>7. Newline \in Char
  BY CharAssumption, Zenon DEF Newline
<1>8. <<Newline>> \in Seq(Char) /\ Len(<<Newline>>) = 1 /\ <<Newline>>[1] = Newline
  BY <1>7, SMT
<1>9. /\ h \in Seq(Char) /\ Len(h) = Len(d) + 1 /\ Occurs(d, h, 0) /\ Occurs(<<Newline>>, h, Len(d))
  BY <1>6, <1>8, ConcatOccurs, Zenon
<1> HIDE DEF h
<1>10. h[Len(d) + 1] = Newline
  <2>1. 1 \in 1 .. 1
    BY SMT
  <2> QED
    BY <1>8, <1>9, <2>1, Zenon DEF Occurs
<1>11. ASSUME NEW k \in 1 .. Len(d) PROVE h[k] # Newline
  <2>1. 0 + k = k
    BY SMT
  <2> QED
    BY <1>6, <1>9, <2>1, Zenon DEF Occurs, Newline
<1>12. Len(h) \in Nat \ {0} /\ Len(h) + 1 < MotdCapacity /\ Len(h) - 1 = Len(d)
  BY <1>1, <1>2, <1>4, <1>6, <1>9, SMT
<1>13. HashLine(x) = h
  BY Zenon DEF HashLine, h, d, num
<1> QED
  BY <1>9, <1>10, <1>11, <1>12, <1>13, Zenon DEF Text

\* The end of the first line is the first end of a line.
LEMMA FirstLine ==
  ASSUME NEW x \in Text, NEW n \in 1 .. Len(x), x[n] = Newline, \A k \in 1 .. n - 1 : x[k] # Newline
  PROVE  HasLineEnd(x) /\ LineEnd(x) = n
<1> DEFINE Ends(m) == x[m] = Newline /\ \A k \in 1 .. m - 1 : x[k] # Newline
           l == LineEnd(x)
<1>1. Len(x) \in Nat
  BY LenProperties, Zenon DEF Text
<1>2. l = CHOOSE m \in 1 .. Len(x) : Ends(m)
  BY Zenon DEF LineEnd
<1> HIDE DEF l
<1>3. l \in 1 .. Len(x) /\ Ends(l)
  <2>1. Ends(n)
    BY Zenon
  <2> HIDE DEF Ends
  <2> QED
    BY <1>2, <2>1, Zenon
<1>4. n \notin 1 .. l - 1 /\ l \notin 1 .. n - 1
  BY <1>3, Zenon
<1>5. l = n
  BY <1>1, <1>3, <1>4, SMT
<1> QED
  BY <1>5, Zenon DEF HasLineEnd, l

\* What ReadMotd leaves in the array
Motd(x) == IF x = <<>> THEN <<>> ELSE parse_motd(x)

AsShown(x, s) ==
    /\ BeginsWith(x, s)
    /\ Len(HashLine(x)) + Len(x) < MotdCapacity => s = x
    /\ s = <<>> => x = <<>> \/ Len(x) >= MotdCapacity

LEMMA NoLine == AfterFirstLine(<<>>) = <<>>
<1>1. Len(<<>>) = 0 /\ 1 .. 0 = {}
  BY SMT
<1>2. ~HasLineEnd(<<>>)
  BY <1>1, Zenon DEF HasLineEnd
<1> QED
  BY <1>2, Zenon DEF AfterFirstLine

\* The message of the day goes through the array with its hash, and out of it again.
LEMMA MotdFacts ==
  ASSUME NEW x \in Messages
  PROVE  Motd(x) \in Text /\ Len(Motd(x)) < MotdCapacity /\ AsShown(x, AfterFirstLine(Motd(x)))
<1> DEFINE h == HashLine(x)
           H == Len(h)
           X == Len(x)
<1>1. h \in Text /\ H \in Nat \ {0} /\ H + 1 < MotdCapacity /\ h[H] = Newline /\ \A k \in 1 .. H - 1 : h[k] # Newline
  BY HashLineFacts, Zenon
<1>2. x \in Text /\ X \in Nat /\ MotdCapacity \in Nat /\ <<>> \in Text /\ Len(<<>>) = 0 /\ x \in Seq(Char)
  BY MessageText, ConfigAssumption, EmptySeq, Zenon DEF Text
<1>3. x # <<>> => X \in Nat \ {0}
  BY <1>2, EmptySeq, Zenon
<1> HIDE DEF h
<1>4. ASSUME x = <<>> \/ ~(X < MotdCapacity)
      PROVE  Motd(x) \in Text /\ Len(Motd(x)) < MotdCapacity /\ AsShown(x, AfterFirstLine(Motd(x)))
  <2>1. Motd(x) = <<>>
    <3>1. CASE x = <<>>
      BY <3>1, Zenon DEF Motd
    <3>2. CASE x # <<>> /\ ~(X < MotdCapacity)
      BY <3>2, Zenon DEF Motd, parse_motd, string_copy
    <3> QED
      BY <1>4, <3>1, <3>2, Zenon
  <2>2. 0 < MotdCapacity /\ 0 <= X /\ (H + X < MotdCapacity => X < MotdCapacity)
         /\ (~(X < MotdCapacity) => X >= MotdCapacity) /\ 1 .. 0 = {}
    BY <1>1, <1>2, SMT
  <2>3. BeginsWith(x, <<>>)
    BY <1>2, <2>2, Zenon DEF BeginsWith
  <2>4. AsShown(x, <<>>)
    BY <1>4, <2>2, <2>3, Zenon DEF AsShown, h
  <2> QED
    BY <1>2, <2>1, <2>2, <2>4, NoLine, Zenon
<1>5. ASSUME x # <<>>, X < MotdCapacity
      PROVE  Motd(x) \in Text /\ Len(Motd(x)) < MotdCapacity /\ AsShown(x, AfterFirstLine(Motd(x)))
  <2> DEFINE y == h \o x
             L == IF Len(y) < MotdCapacity THEN Len(y) ELSE MotdCapacity - 1
             m == SubSeq(y, 1, L)
             s == SubSeq(m, H + 1, Len(m))
  <2>1. Motd(x) = m
    BY <1>5, Zenon DEF Motd, parse_motd, string_copy, string_format, h
  <2>2. /\ y \in Seq(Char) /\ Len(y) = H + X /\ Occurs(h, y, 0) /\ Occurs(x, y, H)
    BY <1>1, <1>2, ConcatOccurs, Zenon DEF Text
  <2> HIDE DEF y
  <2>3. /\ L \in 0 .. Len(y) /\ L < MotdCapacity /\ L > H /\ 0 \in 0 .. Len(y) /\ L - 0 = L /\ 0 + 1 = 1
        /\ L - H <= X /\ L \in Nat /\ (H + X < MotdCapacity => L - H = X) /\ L = (IF H + X < MotdCapacity THEN H + X ELSE MotdCapacity - 1)
    BY <1>1, <1>2, <1>3, <1>5, <2>2, SMT
  <2> HIDE DEF L
  <2>4. SubSeq(y, 0 + 1, L) \in Seq(Char) /\ Len(SubSeq(y, 0 + 1, L)) = L - 0 /\ Occurs(SubSeq(y, 0 + 1, L), y, 0)
    BY <2>2, <2>3, Part, Zenon
  <2>5. m \in Seq(Char) /\ Len(m) = L /\ Occurs(m, y, 0)
    BY <2>3, <2>4, Zenon
  <2> HIDE DEF m
  <2>6. \A k \in 1 .. L : 0 + k = k
    BY <2>3, SMT
  <2>7. \A k \in 1 .. L : m[k] = y[k]
    BY <2>5, <2>6, Zenon DEF Occurs
  <2>8. \A k \in 1 .. H : y[k] = h[k]
    <3>1. \A k \in 1 .. H : k \in 1 .. L
      BY <1>1, <2>3, SMT
    <3> QED
      BY <2>2, <2>6, <3>1, Zenon DEF Occurs
  <2>9. HasLineEnd(m) /\ LineEnd(m) = H
    <3>1. H \in 1 .. L /\ H \in 1 .. H /\ \A k \in 1 .. H - 1 : k \in 1 .. L /\ k \in 1 .. H
      BY <1>1, <2>3, SMT
    <3>2. m[H] = Newline /\ \A k \in 1 .. H - 1 : m[k] # Newline
      BY <1>1, <2>7, <2>8, <3>1, Zenon
    <3> QED
      BY <2>5, <3>1, <3>2, FirstLine, Zenon DEF Text
  <2>10. AfterFirstLine(m) = s
    BY <2>9, Zenon DEF AfterFirstLine
  <2>11. s \in Seq(Char) /\ Len(s) = L - H /\ Occurs(s, m, H)
    <3>1. H \in 0 .. L /\ L \in H .. L
      BY <1>1, <2>3, SMT
    <3>2. H \in 0 .. Len(m) /\ Len(m) \in H .. Len(m)
      BY <2>5, <3>1, Zenon
    <3> QED
      BY <2>5, <3>2, Part, ZenonT(40)
  <2> HIDE DEF s
  <2>12. ASSUME NEW k \in 1 .. Len(s) PROVE s[k] = x[k]
    <3>1. H + k \in 1 .. L /\ k \in 1 .. X
      BY <1>1, <1>2, <2>3, <2>11, SMT
    <3>2. s[k] = m[H + k] /\ m[H + k] = y[H + k] /\ y[H + k] = x[k]
      BY <2>2, <2>7, <2>11, <3>1, Zenon DEF Occurs
    <3> QED
      BY <3>2, Zenon
  <2>13. BeginsWith(x, s)
    BY <2>3, <2>11, <2>12, Zenon DEF BeginsWith
  <2>14. ASSUME H + X < MotdCapacity PROVE s = x
    <3>1. Len(s) = X
      BY <2>3, <2>11, <2>14, Zenon
    <3> QED
      BY <1>2, <2>11, <2>12, <3>1, SeqEqual, Zenon
  <2>15. s # <<>>
    <3>1. L - H # 0
      BY <1>1, <2>3, SMT
    <3> QED
      BY <1>2, <2>11, <3>1, Zenon
  <2>16. AsShown(x, s)
    BY <2>13, <2>14, <2>15, Zenon DEF AsShown, h
  <2> QED
    BY <2>1, <2>3, <2>5, <2>10, <2>16, Zenon DEF Text
<1> QED
  BY <1>4, <1>5, Zenon

LEMMA LowerFacts ==
  /\ \A c \in Char : tolower(c) # Nul
  /\ \A c \in {"t", "c", "p", "w", "s"} : tolower(c) = c
<1>1. DOMAIN Lower = {"T", "C", "P", "W", "S"}
  BY SMT DEF Lower
<1>2. ASSUME NEW c \in Char PROVE tolower(c) # Nul
  <2>1. c # "nul"
    BY CharAssumption, Zenon DEF Nul
  <2>2. tolower(c) # "nul"
    BY <1>1, <2>1, SMT DEF tolower, Lower
  <2> QED
    BY <2>2, Zenon DEF Nul
<1>3. \A c \in {"t", "c", "p", "w", "s"} : tolower(c) = c
  BY <1>1, SMT DEF tolower
<1> QED
  BY <1>2, <1>3, Zenon

IsLower(b) == \A k \in 1 .. Len(b) : tolower(b[k]) = b[k] /\ b[k] # Nul

InLower(a) == [k \in 1 .. Len(a) |-> tolower(a[k])]

\* Two texts are equal but for the case of letters exactly if one is the other in lower
\* case; the zero at the end of the shorter one ends the comparison.
LEMMA EqualsFacts ==
  ASSUME NEW a \in Text, NEW S, NEW b \in Seq(S), IsLower(b)
  PROVE  string_equals_ignore_case(a, b) <=> InLower(a) = b
<1> DEFINE A == Len(a)
           B == Len(b)
           Stops(index) == index = A + 1 \/ CharAt(a, index) # CharAt(b, index)
           First(n) == Stops(n) /\ \A k \in 1 .. n - 1 : ~Stops(k)
           index == CHOOSE n \in 1 .. A + 1 : First(n)
           T == { n \in 1 .. A + 1 : Stops(n) }
<1>1. A \in Nat /\ B \in Nat /\ DOMAIN b = 1 .. B /\ b \in [1 .. B -> S] /\ \A k \in 1 .. A : tolower(a[k]) # Nul
  BY LenProperties, ElementOfSeq, LowerFacts, Zenon DEF Text
<1>2. string_equals_ignore_case(a, b) <=> CharAt(a, index) = CharAt(b, index)
  BY Zenon DEF string_equals_ignore_case
<1>3. A + 1 \in 1 .. A + 1 /\ ~(A + 1 <= A) /\ T \subseteq Nat
  BY <1>1, SMT
<1>4. /\ \A k \in 1 .. A : CharAt(a, k) = tolower(a[k]) /\ k \in 1 .. A + 1
      /\ \A k \in 1 .. B : CharAt(b, k) = b[k] /\ b[k] # Nul
      /\ \A k \in 1 .. A + 1 : k \notin 1 .. B => CharAt(b, k) = Nul
  <2>1. /\ \A k \in 1 .. A : k <= A /\ k \in 1 .. A + 1 
        /\ \A k \in 1 .. B : k <= B
        /\ \A k \in 1 .. A + 1 : k \notin 1 .. B => ~(k <= B)
    BY <1>1, SMT
  <2> QED
    BY <2>1, Zenon DEF CharAt, IsLower
<1>5. CharAt(a, A + 1) = Nul
  BY <1>3, Zenon DEF CharAt
<1>6. index \in 1 .. A + 1 /\ First(index)
  <2>1. A + 1 \in T
    BY <1>3, Zenon
  <2>2. PICK n \in T : \A k \in T : n <= k
    <3> HIDE DEF T
    <3> QED
      BY <1>3, <2>1, Least, Zenon
  <2>3. First(n)
    <3>1. ASSUME NEW k \in 1 .. n - 1 PROVE k \in 1 .. A + 1 /\ ~(n <= k)
      BY <1>1, <2>2, SMT
    <3> QED
      BY <2>2, <3>1, Zenon
  <2> HIDE DEF First
  <2> QED
    BY <2>2, <2>3, Zenon
<1> HIDE DEF index
<1>7. ASSUME CharAt(a, index) = CharAt(b, index) PROVE InLower(a) = b
  <2>1. index = A + 1 /\ CharAt(b, A + 1) = Nul
    BY <1>5, <1>6, <1>7, Zenon
  <2>2. A + 1 \notin 1 .. B
    BY <1>4, <2>1, Zenon
  <2>3. ASSUME NEW k \in 1 .. A PROVE k \in 1 .. B /\ tolower(a[k]) = b[k]
    <3>1. k \in 1 .. index - 1
      BY <1>1, <2>1, SMT
    <3>2. CharAt(a, k) = CharAt(b, k)
      BY <1>6, <3>1, Zenon
    <3> QED
      BY <1>1, <1>4, <3>2, Zenon
  <2>4. A = B
    <3>1. CASE A = 0
      BY <1>1, <2>2, <3>1, SMT
    <3>2. CASE A # 0
      <4>1. A \in 1 .. A
        BY <1>1, <3>2, SMT
      <4>2. A \in 1 .. B
        BY <2>3, <4>1, Zenon
      <4> QED
        BY <1>1, <2>2, <4>2, SMT
    <3> QED
      BY <3>1, <3>2, Zenon
  <2>5. b = [k \in 1 .. B |-> b[k]]
    BY <1>1, Zenon
  <2>6. InLower(a) = [k \in 1 .. B |-> b[k]]
    BY <2>3, <2>4, Zenon DEF InLower
  <2> QED
    BY <2>5, <2>6, Zenon
<1>8. ASSUME InLower(a) = b PROVE CharAt(a, index) = CharAt(b, index)
  <2>1. DOMAIN b = 1 .. A /\ \A k \in 1 .. A : b[k] = tolower(a[k])
    BY <1>8, Zenon DEF InLower
  <2>2. 1 .. A = 1 .. B
    BY <1>1, <2>1, Zenon
  <2>3. A = B
    BY <1>1, <2>2, SMT
  <2>4. \A k \in 1 .. A : CharAt(a, k) = CharAt(b, k)
    BY <1>4, <2>1, <2>3, Zenon
  <2>5. A + 1 \notin 1 .. B
    BY <1>1, <2>3, SMT
  <2>6. CharAt(b, A + 1) = Nul
    BY <1>3, <1>4, <2>5, Zenon
  <2>7. \A k \in 1 .. A + 1 : k = A + 1 \/ k \in 1 .. A
    BY <1>1, SMT
  <2> QED
    BY <1>5, <1>6, <2>4, <2>6, <2>7, Zenon
<1> QED
  BY <1>2, <1>7, <1>8, Zenon

\* The characters of a message that are escaped, and the others
LEMMA EscapeText ==
  ASSUME NEW c \in Char
  PROVE  Escape(c) \in Seq(Char)
<1>1. "\\" \in Char /\ \A d \in DOMAIN Letter : Letter[d] \in Char
  BY CharAssumption, ConfigAssumption, Zenon
<1>2. \A d \in Char : <<"\\", d>> \in Seq(Char)
  BY <1>1, SMT
<1>3. <<c>> \in Seq(Char)
  BY SMT
<1> QED
  BY <1>1, <1>2, <1>3, Zenon DEF Escape

\* The first characters of a text, if it is longer
LEMMA CutFacts ==
  ASSUME NEW capacity \in Nat, NEW x \in Seq(Char)
  PROVE  /\ Cut(capacity, x) \in Seq(Char)
         /\ Len(x) < capacity => Cut(capacity, x) = x
         /\ ~(Len(x) < capacity) => /\ Len(Cut(capacity, x)) = capacity
                                    /\ Occurs(Cut(capacity, x), x, 0)
<1>1. Len(x) \in Nat
  BY LenProperties, Zenon
<1>2. CASE Len(x) < capacity
  BY <1>2, Zenon DEF Cut
<1>3. CASE ~(Len(x) < capacity)
  <2>1. 0 \in 0 .. Len(x) /\ capacity \in 0 .. Len(x) /\ 0 + 1 = 1 /\ capacity - 0 = capacity
    BY <1>1, <1>3, SMT
  <2>2. /\ SubSeq(x, 0 + 1, capacity) \in Seq(Char) /\ Len(SubSeq(x, 0 + 1, capacity)) = capacity - 0
        /\ Occurs(SubSeq(x, 0 + 1, capacity), x, 0)
    BY <2>1, Part, Zenon
  <2>3. Cut(capacity, x) = SubSeq(x, 0 + 1, capacity)
    BY <1>3, <2>1, Zenon DEF Cut
  <2> QED
    BY <1>3, <2>1, <2>2, <2>3, Zenon
<1> QED
  BY <1>2, <1>3, Zenon

\* What is cut does not change when something is appended.
LEMMA CutConcat ==
  ASSUME NEW capacity \in Nat, NEW x \in Seq(Char), NEW y \in Seq(Char), ~(Len(x) < capacity)
  PROVE  Cut(capacity, x \o y) = Cut(capacity, x)
<1> DEFINE z == x \o y
           a == Cut(capacity, x)
           b == Cut(capacity, z)
<1>1. z \in Seq(Char) /\ Len(x) \in Nat /\ Len(y) \in Nat /\ Len(z) = Len(x) + Len(y) /\ Occurs(x, z, 0)
  BY ConcatOccurs, Zenon
<1> HIDE DEF z
<1>2. ~(Len(z) < capacity) /\ 0 \in Nat /\ 0 + 0 = 0
  BY <1>1, SMT
<1>3. /\ a \in Seq(Char) /\ Len(a) = capacity /\ Occurs(a, x, 0)
      /\ b \in Seq(Char) /\ Len(b) = capacity /\ Occurs(b, z, 0)
  BY <1>1, <1>2, CutFacts, Zenon
<1> HIDE DEF a, b
<1>4. Occurs(a, z, 0 + 0)
  BY <1>1, <1>2, <1>3, OccursWithin, Zenon
<1>5. \A k \in 1 .. Len(a) : b[k] = a[k]
  BY <1>2, <1>3, <1>4, Zenon DEF Occurs
<1>6. a = b
  BY <1>3, <1>5, SeqEqual, Zenon
<1> QED
  BY <1>6, Zenon DEF a, b, z

AllEscapes(x) == [k \in 1 .. Len(x) |-> Escape(x[k])]

LEMMA AllEscapesSeq ==
  ASSUME NEW x \in Text
  PROVE  AllEscapes(x) \in Seq(Seq(Char)) /\ Len(AllEscapes(x)) = Len(x) /\ Len(x) \in Nat
<1>1. Len(x) \in Nat /\ \A k \in 1 .. Len(x) : Escape(x[k]) \in Seq(Char)
  BY LenProperties, ElementOfSeq, EscapeText, Zenon DEF Text
<1>2. AllEscapes(x) \in [1 .. Len(x) -> Seq(Char)]
  BY <1>1, Zenon DEF AllEscapes
<1> QED
  BY <1>1, <1>2, FunctionSeq, Zenon

\* The loop of string_escape writes all the escapes, up to the capacity.
LEMMA EscapesFacts ==
  ASSUME NEW capacity \in Nat \ {0}, NEW x \in Text
  PROVE  Escapes(capacity, x)[Len(x)] = Cut(capacity, All(AllEscapes(x)))
<1> DEFINE N == Len(x)
           J == Joined(AllEscapes(x))
           Step(n, y) == IF Len(y) >= capacity THEN y ELSE Cut(capacity, y \o Escape(x[n]))
           f == [n \in 0 .. N |-> Cut(capacity, J[n])]
           D(g) == g = [n \in 0 .. N |-> IF n = 0 THEN <<>> ELSE Step(n, g[n - 1])]
           e == Escapes(capacity, x)
<1>1. N \in Nat /\ AllEscapes(x) \in Seq(Seq(Char)) /\ Len(AllEscapes(x)) = N
  BY AllEscapesSeq, Zenon
<1>2. J \in [0 .. N -> Seq(Char)] /\ J[0] = <<>>
  BY <1>1, JoinedFacts, Zenon
<1>3. ASSUME NEW n \in 1 .. N PROVE Escape(x[n]) \in Seq(Char) /\ J[n] = J[n - 1] \o Escape(x[n])
  <2>1. AllEscapes(x)[n] = Escape(x[n])
    BY Zenon DEF AllEscapes
  <2>2. n \in 1 .. Len(AllEscapes(x))
    BY <1>1, Zenon
  <2>3. AllEscapes(x)[n] \in Seq(Char) /\ J[n] = J[n - 1] \o AllEscapes(x)[n]
    BY <1>1, <2>2, JoinedFacts, Zenon
  <2> QED
    BY <2>1, <2>3, Zenon
<1>4. capacity \in Nat
  BY SMT
<1>5. ASSUME NEW n \in 0 .. N, n # 0 PROVE n \in 1 .. N /\ n - 1 \in 0 .. N
  BY <1>1, <1>5, SMT
<1>6. 0 \in 0 .. N /\ N \in 0 .. N /\ \A n \in 1 .. N : n \in 0 .. N /\ n # 0 /\ n - 1 \in 0 .. N
  BY <1>1, SMT
<1> HIDE DEF J
<1>7. f[0] = <<>>
  <2>1. Len(<<>>) < capacity
    BY SMT
  <2> QED
    BY <1>2, <1>6, <2>1, Zenon DEF Cut
<1>8. ASSUME NEW n \in 1 .. N, NEW y, y = Cut(capacity, J[n - 1])
      PROVE  Step(n, y) = Cut(capacity, J[n])
  <2>1. J[n - 1] \in Seq(Char) /\ Escape(x[n]) \in Seq(Char) /\ J[n] = J[n - 1] \o Escape(x[n])
    BY <1>2, <1>3, <1>6, Zenon
  <2>2. Len(J[n - 1]) \in Nat
    BY <2>1, LenProperties, Zenon
  <2>3. CASE Len(J[n - 1]) < capacity
    <3>1. y = J[n - 1]
      BY <1>4, <1>8, <2>1, <2>3, CutFacts, Zenon
    <3>2. ~(Len(J[n - 1]) >= capacity)
      BY <1>4, <2>2, <2>3, SMT
    <3> QED
      BY <2>1, <3>1, <3>2, Zenon
  <2>4. CASE ~(Len(J[n - 1]) < capacity)
    <3>1. Len(y) = capacity
      BY <1>4, <1>8, <2>1, <2>4, CutFacts, Zenon
    <3>2. Len(y) >= capacity
      BY <1>4, <3>1, SMT
    <3>3. Cut(capacity, J[n]) = y
      BY <1>4, <1>8, <2>1, <2>4, CutConcat, Zenon
    <3> QED
      BY <3>2, <3>3, Zenon
  <2> QED
    BY <2>3, <2>4, Zenon
<1> HIDE DEF Step
<1>9. D(f)
  <2>1. ASSUME NEW n \in 0 .. N PROVE f[n] = IF n = 0 THEN <<>> ELSE Step(n, f[n - 1])
    <3>1. CASE n = 0
      BY <1>7, <3>1, Zenon
    <3>2. CASE n # 0
      <4>1. n \in 1 .. N /\ n - 1 \in 0 .. N
        BY <1>5, <3>2, Zenon
      <4>2. f[n - 1] = Cut(capacity, J[n - 1]) /\ f[n] = Cut(capacity, J[n])
        BY <4>1, Zenon
      <4> HIDE DEF f
      <4>3. Step(n, f[n - 1]) = Cut(capacity, J[n])
        BY <1>8, <4>1, <4>2, Zenon
      <4> QED
        BY <3>2, <4>2, <4>3, Zenon
    <3> QED
      BY <3>1, <3>2, Zenon
  <2>2. f = [n \in 0 .. N |-> f[n]]
    BY Zenon
  <2> HIDE DEF f
  <2> QED
    BY <2>1, <2>2, Zenon
<1>10. e = CHOOSE g : D(g)
  BY Zenon DEF Escapes, Step
<1>11. D(e)
  <2> HIDE DEF D, e
  <2> QED
    BY <1>9, <1>10, Zenon
<1> HIDE DEF e
<1> DEFINE T == { n \in 0 .. N : e[n] = Cut(capacity, J[n]) }
<1>12. 0 \in T
  <2>1. e[0] = <<>>
    BY <1>6, <1>11, Zenon
  <2>2. f[0] = Cut(capacity, J[0])
    BY <1>6, Zenon
  <2> QED
    BY <1>6, <1>7, <2>1, <2>2, Zenon
<1>13. ASSUME NEW n \in 1 .. N, n - 1 \in T PROVE n \in T
  <2>1. e[n] = Step(n, e[n - 1])
    BY <1>6, <1>11, Zenon
  <2> QED
    BY <1>6, <1>8, <1>13, <2>1, Zenon
<1>14. \A n \in 0 .. N : n \in T
  <2> HIDE DEF T, N
  <2> QED
    BY <1>1, <1>12, <1>13, UpTo, Zenon
<1> QED
  BY <1>1, <1>6, <1>14, Zenon DEF e, J, All

AsEscaped(x, result) ==
    BeginsWith(All(AllEscapes(x)), result.text) /\ (result.whole <=> result.text = All(AllEscapes(x)))

\* string_escape writes the beginning of the escaped text, and says whether it is all.
LEMMA StringEscape ==
  ASSUME NEW capacity \in Nat \ {0}, NEW x \in Text
  PROVE  Len(string_escape(capacity, x).text) < capacity /\ AsEscaped(x, string_escape(capacity, x))
<1> DEFINE all == All(AllEscapes(x))
           dest == Cut(capacity, all)
           result == string_escape(capacity, x)
           cut == SubSeq(dest, 1, capacity - 1)
<1>1. AllEscapes(x) \in Seq(Seq(Char)) /\ Len(AllEscapes(x)) \in Nat
  BY AllEscapesSeq, Zenon
<1>2. all \in Seq(Char)
  <2>1. Len(AllEscapes(x)) \in 0 .. Len(AllEscapes(x))
    BY <1>1, SMT
  <2> QED
    <3>1. Joined(AllEscapes(x)) \in [0 .. Len(AllEscapes(x)) -> Seq(Char)]
      BY <1>1, JoinedFacts, Zenon
    <3> QED
      BY <2>1, <3>1, Zenon DEF All
<1>3. result = IF Len(dest) < capacity THEN [text |-> dest, whole |-> TRUE] ELSE [text |-> cut, whole |-> FALSE]
  BY EscapesFacts, Zenon DEF string_escape
<1> HIDE DEF all, dest, result
<1>4. capacity \in Nat /\ Len(all) \in Nat /\ Len(all) <= Len(all)
  <2>1. Len(all) \in Nat
    BY <1>2, LenProperties, Zenon
  <2> QED
    BY <2>1, SMT
<1>5. CASE Len(all) < capacity
  <2>1. dest = all
    BY <1>2, <1>4, <1>5, CutFacts, Zenon DEF dest
  <2>2. result.text = all /\ result.whole = TRUE
    BY <1>3, <1>5, <2>1, Zenon
  <2>3. BeginsWith(all, all)
    BY <1>4, Zenon DEF BeginsWith
  <2> QED
    BY <1>5, <2>2, <2>3, Zenon DEF AsEscaped, all, result
<1>6. CASE ~(Len(all) < capacity)
  <2>1. dest \in Seq(Char) /\ Len(dest) = capacity /\ Occurs(dest, all, 0)
    BY <1>2, <1>4, <1>6, CutFacts, Zenon DEF dest
  <2>2. /\ ~(Len(dest) < capacity) /\ 0 \in 0 .. Len(dest) /\ capacity - 1 \in 0 .. Len(dest)
        /\ 0 + 1 = 1 /\ (capacity - 1) - 0 = capacity - 1 /\ 0 \in Nat /\ 0 + 0 = 0
    BY <2>1, SMT
  <2>3. /\ SubSeq(dest, 0 + 1, capacity - 1) \in Seq(Char)
        /\ Len(SubSeq(dest, 0 + 1, capacity - 1)) = (capacity - 1) - 0
        /\ Occurs(SubSeq(dest, 0 + 1, capacity - 1), dest, 0)
    BY <2>1, <2>2, Part, ZenonT(40)
  <2>4. cut \in Seq(Char) /\ Len(cut) = capacity - 1 /\ Occurs(cut, dest, 0)
    BY <2>2, <2>3, Zenon
  <2>5. result.text = cut /\ result.whole = FALSE
    BY <1>3, <2>2, Zenon
  <2> HIDE DEF cut
  <2>6. Occurs(cut, all, 0 + 0)
    BY <1>2, <2>1, <2>2, <2>4, OccursWithin, Zenon
  <2>7. Len(cut) <= Len(all) /\ Len(cut) # Len(all) /\ Len(cut) < capacity /\ \A k \in 1 .. Len(cut) : 0 + k = k
    BY <1>4, <1>6, <2>4, SMT
  <2>8. BeginsWith(all, cut)
    BY <2>2, <2>6, <2>7, Zenon DEF BeginsWith, Occurs
  <2>9. cut # all
    BY <2>7, Zenon
  <2> QED
    BY <2>5, <2>7, <2>8, <2>9, Zenon DEF AsEscaped, all, result
<1> QED
  BY <1>5, <1>6, Zenon

-----------------------------------------------------------------------------
(* read_config                                                             *)

Settings == {"host", "password", "world", "motd", "transport", "preview", "status", "done", "failed"}

\* A string was taken whole, or not at all because it is too long.
Taken(s) ==
    /\ config[s] \in {EnvStr(s), <<>>}
    /\ config[s] = <<>> => EnvStr(s) = <<>> \/ Len(EnvStr(s)) >= Capacity[s]

Named(mode, m) ==
    m = IF InLower(mode) = Tcp THEN "tcp" ELSE IF InLower(mode) = WebSocket THEN "websocket" ELSE "both"

\* What has been read when main is at each setting
ConfigInv ==
    /\ setting \in Settings /\ env \in Environments
    /\ DOMAIN config = Strings /\ \A s \in Strings : Len(config[s]) < Capacity[s]
    /\ Len(motd) < MotdCapacity /\ Len(preview.text) < PreviewCapacity
    /\ transport_mode \in {"", "tcp", "websocket", "both"}
    /\ setting \in Settings \ {"host", "failed"} => Taken("host")
    /\ setting \in Settings \ {"host", "password", "failed"} => env["password"] # Unset /\ Taken("password")
    /\ setting \in Settings \ {"host", "password", "world", "failed"} => Taken("world")
    /\ setting \in {"transport", "preview", "status", "done"} => motd = Motd(EnvStr("motd"))
    /\ Read => Taken("address") /\ Named(EnvStr("mode"), transport_mode)
    /\ setting \in {"status", "done"} => AsEscaped(motd, preview)
    /\ setting = "done" => AsShown(EnvStr("motd"), shown)

LEMMA CapacityFacts ==
  /\ \A s \in Strings : Capacity[s] \in Nat \ {0} /\ Len(<<>>) < Capacity[s]
  /\ PreviewCapacity \in Nat \ {0} /\ Len(<<>>) < PreviewCapacity
  /\ MotdCapacity \in Nat /\ Len(<<>>) < MotdCapacity
<1>1. Len(<<>>) = 0 /\ \A n \in Nat \ {0} : 0 < n
  BY SMT
<1>2. Capacity \in [Strings -> Nat \ {0}] /\ PreviewCapacity \in Nat \ {0} /\ MotdCapacity \in Nat
  BY ConfigAssumption, Zenon
<1>3. PICK n \in 1 .. MaxDigits : n + 2 < MotdCapacity
  BY ConfigAssumption, Zenon
<1>4. MotdCapacity \in Nat \ {0}
  BY <1>2, <1>3, MaxDigitsNat, SMT
<1> QED
  BY <1>1, <1>2, <1>4, Zenon

LEMMA ConfigInitially == ConfigInit => ConfigInv
<1> SUFFICES ASSUME ConfigInit PROVE ConfigInv
  OBVIOUS
<1>1. setting = "host" /\ env \in Environments
  BY Zenon DEF ConfigInit
<1>2. /\ setting \in Settings /\ setting \notin {"transport", "preview", "status", "done"}
      /\ setting \notin Settings \ {"host", "failed"} /\ setting \notin Settings \ {"host", "password", "failed"}
      /\ setting \notin Settings \ {"host", "password", "world", "failed"}
      /\ ~Read /\ setting \notin {"status", "done"} /\ setting # "done"
  BY <1>1, SMT DEF Settings, Read
<1>3. DOMAIN config = Strings /\ \A s \in Strings : config[s] = <<>>
  BY Zenon DEF ConfigInit
<1>4. motd = <<>> /\ preview.text = <<>> /\ transport_mode = ""
  BY Zenon DEF ConfigInit
<1>5. \A s \in Strings : Len(config[s]) < Capacity[s]
  BY <1>3, CapacityFacts, Zenon
<1>6. transport_mode \in {"", "tcp", "websocket", "both"}
  BY <1>4, Zenon
<1> QED
  BY <1>1, <1>2, <1>3, <1>4, <1>5, <1>6, CapacityFacts, Zenon DEF ConfigInv

\* What one string_copy of read_config does
LEMMA CopyStep ==
  ASSUME ConfigInv, NEW s \in Strings, Copy(s), env' = env, s = "password" => env[s] # Unset
  PROVE  /\ DOMAIN config' = Strings /\ \A r \in Strings : Len(config'[r]) < Capacity[r]
         /\ Taken(s)' /\ \A r \in Strings : r # s /\ Taken(r) => Taken(r)'
<1> DEFINE y == string_copy(Capacity[s], EnvStr(s))
<1>1. env \in Environments /\ DOMAIN config = Strings /\ \A r \in Strings : Len(config[r]) < Capacity[r]
  BY Zenon DEF ConfigInv
<1>2. EnvStr(s) \in Text
  BY <1>1, EnvFacts, Zenon
<1>3. Len(y) < Capacity[s] /\ y \in {EnvStr(s), <<>>} /\ (y = <<>> => EnvStr(s) = <<>> \/ Len(EnvStr(s)) >= Capacity[s])
  BY <1>2, CapacityFacts, CopyFacts, Zenon
<1>4. DOMAIN config' = Strings /\ config'[s] = y /\ \A r \in Strings : r # s => config'[r] = config[r]
  BY <1>1, Zenon DEF Copy
<1>5. \A r : EnvStr(r)' = EnvStr(r)
  BY Zenon DEF EnvStr
<1> HIDE DEF y
<1>6. \A r \in Strings : Len(config'[r]) < Capacity[r]
  BY <1>1, <1>3, <1>4, Zenon
<1>7. Taken(s)'
  BY <1>3, <1>4, <1>5, Zenon DEF Taken
<1>8. \A r \in Strings : r # s /\ Taken(r) => Taken(r)'
  BY <1>4, <1>5, Zenon DEF Taken
<1> QED
  BY <1>4, <1>6, <1>7, <1>8, Zenon

\* What does not change with the settings
LEMMA Unread ==
  ASSUME env' = env
  PROVE  /\ config' = config => \A s \in Strings : Taken(s)' <=> Taken(s)
         /\ EnvStr("motd")' = EnvStr("motd") /\ EnvStr("mode")' = EnvStr("mode")
BY Zenon DEF Taken, EnvStr

LEMMA NamesLower ==
  /\ Tcp \in Seq({"t", "c", "p", "w", "s"}) /\ IsLower(Tcp)
  /\ WebSocket \in Seq({"t", "c", "p", "w", "s"}) /\ IsLower(WebSocket)
<1> DEFINE S == {"t", "c", "p", "w", "s"}
<1>1. Tcp \in Seq(S) /\ WebSocket \in Seq(S)
  BY SMT DEF Tcp, WebSocket
<1>2. \A c \in S : tolower(c) = c /\ c # Nul
  <2>1. \A c \in S : c # "nul"
    BY SMT
  <2> QED
    BY <2>1, LowerFacts, Zenon DEF Nul
<1>3. ASSUME NEW b \in Seq(S) PROVE IsLower(b)
  <2> HIDE DEF S
  <2> QED
    BY <1>2, ElementOfSeq, Zenon DEF IsLower
<1> QED
  BY <1>1, <1>3, Zenon

\* Each step of read_config, and what main makes of the message of the day, keep it.
LEMMA ConfigSteps ==
  ASSUME ConfigInv, ConfigNext
  PROVE  ConfigInv'
<1>1. env' = env /\ env \in Environments
  BY Zenon DEF ConfigInv, ConfigNext, ReadHost, ReadPassword, ReadInfo, ReadMotd, ReadTransport,
               Preview, ShowStatus
<1>2. /\ EnvStr("motd")' = EnvStr("motd") /\ EnvStr("mode")' = EnvStr("mode")
      /\ config' = config => \A s \in Strings : Taken(s)' <=> Taken(s)
  BY <1>1, Unread, Zenon
<1>3. "host" \in Strings /\ "password" \in Strings /\ "world" \in Strings /\ "address" \in Strings
  BY Zenon DEF Strings
<1>4. EnvStr("motd") \in Messages /\ EnvStr("mode") \in Text
  BY <1>1, EnvFacts, Zenon DEF Messages
<1>5. ASSUME ReadHost PROVE ConfigInv'
  <2>1. setting' = "password" /\ Copy("host")
    BY <1>5, Zenon DEF ReadHost
  <2>2. DOMAIN config' = Strings /\ (\A r \in Strings : Len(config'[r]) < Capacity[r]) /\ Taken("host")'
    BY <1>1, <1>3, <2>1, CopyStep, Zenon
  <2>3. motd' = motd /\ preview' = preview /\ transport_mode' = transport_mode
    BY <1>5, Zenon DEF ReadHost
  <2> QED
    BY <1>1, <2>1, <2>2, <2>3, Zenon DEF ConfigInv, Settings, Read
<1>6. ASSUME ReadPassword PROVE ConfigInv'
  <2>1. setting = "password"
    BY <1>6, Zenon DEF ReadPassword
  <2>2. motd' = motd /\ preview' = preview /\ transport_mode' = transport_mode
    BY <1>6, Zenon DEF ReadPassword
  <2>3. Taken("host")
    BY <2>1, Zenon DEF ConfigInv, Settings
  <2>4. CASE setting' = "failed" /\ UNCHANGED config
    BY <1>1, <2>2, <2>4, Zenon DEF ConfigInv, Settings, Read
  <2>5. CASE env["password"] # Unset /\ setting' = "world" /\ Copy("password")
    <3>1. /\ DOMAIN config' = Strings /\ \A r \in Strings : Len(config'[r]) < Capacity[r]
          /\ Taken("password")' /\ Taken("host")'
      BY <1>1, <1>3, <2>3, <2>5, CopyStep, Zenon
    <3> QED
      BY <1>1, <2>2, <2>5, <3>1, Zenon DEF ConfigInv, Settings, Read
  <2> QED
    BY <1>6, <2>4, <2>5, Zenon DEF ReadPassword
<1>7. ASSUME ReadInfo PROVE ConfigInv'
  <2>1. setting = "world" /\ setting' = "motd" /\ Copy("world")
    BY <1>7, Zenon DEF ReadInfo
  <2>2. motd' = motd /\ preview' = preview /\ transport_mode' = transport_mode
    BY <1>7, Zenon DEF ReadInfo
  <2>3. Taken("host") /\ Taken("password") /\ env["password"] # Unset
    BY <2>1, Zenon DEF ConfigInv, Settings
  <2>4. /\ DOMAIN config' = Strings /\ \A r \in Strings : Len(config'[r]) < Capacity[r]
        /\ Taken("password")' /\ Taken("host")' /\ Taken("world")'
    BY <1>1, <1>3, <2>1, <2>3, CopyStep, Zenon
  <2> QED
    BY <1>1, <2>1, <2>2, <2>3, <2>4, Zenon DEF ConfigInv, Settings, Read
<1>8. ASSUME ReadMotd PROVE ConfigInv'
  <2>1. setting = "motd" /\ setting' = "transport" /\ config' = config
    BY <1>8, Zenon DEF ReadMotd
  <2>2. preview' = preview /\ transport_mode' = transport_mode
    BY <1>8, Zenon DEF ReadMotd
  <2>3. motd' = Motd(EnvStr("motd"))
    BY <1>8, Zenon DEF ReadMotd, Motd
  <2>4. Len(motd') < MotdCapacity
    BY <1>4, <2>3, MotdFacts, Zenon
  <2>5. Taken("host") /\ Taken("password") /\ Taken("world") /\ env["password"] # Unset
    BY <2>1, Zenon DEF ConfigInv, Settings
  <2>6. Taken("host")' /\ Taken("password")' /\ Taken("world")' /\ motd' = Motd(EnvStr("motd"))'
    BY <1>2, <1>3, <2>1, <2>3, <2>5, Zenon
  <2> QED
    BY <1>1, <2>1, <2>2, <2>4, <2>5, <2>6, Zenon DEF ConfigInv, Settings, Read
<1>9. ASSUME ReadTransport PROVE ConfigInv'
  <2>1. setting = "transport" /\ setting' = "preview" /\ Copy("address")
    BY <1>9, Zenon DEF ReadTransport
  <2>2. preview' = preview /\ motd' = motd
    BY <1>9, Zenon DEF ReadTransport
  <2>3. Taken("host") /\ Taken("password") /\ Taken("world") /\ env["password"] # Unset /\ motd = Motd(EnvStr("motd"))
    BY <2>1, Zenon DEF ConfigInv, Settings
  <2>4. /\ DOMAIN config' = Strings /\ \A r \in Strings : Len(config'[r]) < Capacity[r]
        /\ Taken("password")' /\ Taken("host")' /\ Taken("world")' /\ Taken("address")'
    BY <1>1, <1>3, <2>1, <2>3, CopyStep, Zenon
  <2>5. /\ string_equals_ignore_case(EnvStr("mode"), Tcp) <=> InLower(EnvStr("mode")) = Tcp
        /\ string_equals_ignore_case(EnvStr("mode"), WebSocket) <=> InLower(EnvStr("mode")) = WebSocket
    BY <1>4, NamesLower, EqualsFacts, Zenon
  <2>6. Named(EnvStr("mode"), transport_mode')
    BY <1>9, <2>5, Zenon DEF ReadTransport, Named
  <2>7. transport_mode' \in {"", "tcp", "websocket", "both"} /\ Named(EnvStr("mode"), transport_mode)'
    BY <1>2, <2>6, Zenon DEF Named
  <2> QED
    BY <1>1, <1>2, <2>1, <2>2, <2>3, <2>4, <2>7, Zenon DEF ConfigInv, Settings, Read
<1>10. ASSUME Preview PROVE ConfigInv'
  <2>1. setting = "preview" /\ setting' = "status" /\ config' = config /\ motd' = motd
    BY <1>10, Zenon DEF Preview
  <2>2. preview' = string_escape(PreviewCapacity, motd) /\ transport_mode' = transport_mode
    BY <1>10, Zenon DEF Preview
  <2>3. /\ Taken("host") /\ Taken("password") /\ Taken("world") /\ Taken("address")
        /\ env["password"] # Unset /\ motd = Motd(EnvStr("motd")) /\ Named(EnvStr("mode"), transport_mode)
    BY <2>1, Zenon DEF ConfigInv, Settings, Read
  <2>4. Len(preview'.text) < PreviewCapacity /\ AsEscaped(motd, preview)'
    BY <1>4, <2>1, <2>2, <2>3, CapacityFacts, MotdFacts, StringEscape, Zenon
  <2>5. /\ Taken("host")' /\ Taken("password")' /\ Taken("world")' /\ Taken("address")'
        /\ motd' = Motd(EnvStr("motd"))' /\ Named(EnvStr("mode"), transport_mode)'
    BY <1>2, <1>3, <2>1, <2>2, <2>3, Zenon
  <2> QED
    BY <1>1, <2>1, <2>2, <2>3, <2>4, <2>5, Zenon DEF ConfigInv, Settings, Read
<1>11. ASSUME ShowStatus PROVE ConfigInv'
  <2>1. setting = "status" /\ setting' = "done" /\ config' = config /\ motd' = motd
    BY <1>11, Zenon DEF ShowStatus
  <2>2. shown' = AfterFirstLine(motd) /\ preview' = preview /\ transport_mode' = transport_mode
    BY <1>11, Zenon DEF ShowStatus
  <2>3. /\ Taken("host") /\ Taken("password") /\ Taken("world") /\ Taken("address") /\ AsEscaped(motd, preview)
        /\ env["password"] # Unset /\ motd = Motd(EnvStr("motd")) /\ Named(EnvStr("mode"), transport_mode)
    BY <2>1, Zenon DEF ConfigInv, Settings, Read
  <2>4. AsShown(EnvStr("motd"), shown)'
    BY <1>2, <1>4, <2>2, <2>3, MotdFacts, Zenon
  <2>5. /\ Taken("host")' /\ Taken("password")' /\ Taken("world")' /\ Taken("address")' /\ AsEscaped(motd, preview)'
        /\ motd' = Motd(EnvStr("motd"))' /\ Named(EnvStr("mode"), transport_mode)'
    BY <1>2, <1>3, <2>1, <2>2, <2>3, Zenon
  <2> QED
    BY <1>1, <2>1, <2>2, <2>3, <2>4, <2>5, Zenon DEF ConfigInv, Settings, Read
<1> QED
  BY <1>5, <1>6, <1>7, <1>8, <1>9, <1>10, <1>11, Zenon DEF ConfigNext

LEMMA ConfigSafe == ConfigInv => setting # "none" /\ SettingsTaken
<1> SUFFICES ASSUME ConfigInv PROVE setting # "none" /\ SettingsTaken
  OBVIOUS
<1>1. setting # "none" /\ ConfigTypeOK
  BY Zenon DEF ConfigInv, Settings, ConfigTypeOK
<1>2. SettingsAsSet
  <2>1. ASSUME Read
        PROVE  env["password"] # Unset /\ Taken("host") /\ Taken("password") /\ Taken("world") /\ Taken("address")
    BY <2>1, Zenon DEF ConfigInv, Settings, Read
  <2> QED
    BY <2>1, Zenon DEF SettingsAsSet, Strings, Taken
<1>3. ModeAsNamed
  BY Zenon DEF ConfigInv, ModeAsNamed, Named, InLower
<1>4. MotdAsSet
  BY Zenon DEF ConfigInv, MotdAsSet, AsShown
<1>5. PreviewTold
  BY Zenon DEF ConfigInv, PreviewTold, AsEscaped, AllEscapes
<1> QED
  BY <1>1, <1>2, <1>3, <1>4, <1>5, Zenon DEF SettingsTaken

LEMMA ConfigPreserved == ConfigInv /\ [ConfigNext]_configVars => ConfigInv'
<1>1. ASSUME ConfigInv, ConfigNext PROVE ConfigInv'
  BY <1>1, ConfigSteps, Zenon
<1>2. ASSUME ConfigInv, UNCHANGED configVars PROVE ConfigInv'
  <2>1. /\ setting' = setting /\ env' = env /\ config' = config /\ motd' = motd
        /\ transport_mode' = transport_mode /\ preview' = preview /\ shown' = shown
    BY <1>2, Zenon DEF configVars
  <2>2. /\ \A s \in Strings : Taken(s)' <=> Taken(s)
        /\ EnvStr("motd")' = EnvStr("motd") /\ EnvStr("mode")' = EnvStr("mode")
    BY <2>1, Unread, Zenon
  <2>3. Taken("host")' <=> Taken("host")
    BY <2>2, Zenon DEF Strings
  <2>4. Taken("password")' <=> Taken("password")
    BY <2>2, Zenon DEF Strings
  <2>5. Taken("world")' <=> Taken("world")
    BY <2>2, Zenon DEF Strings
  <2>6. Taken("address")' <=> Taken("address")
    BY <2>2, Zenon DEF Strings
  <2> QED
    BY <1>2, <2>1, <2>2, <2>3, <2>4, <2>5, <2>6 DEF ConfigInv, Read
<1> QED
  BY <1>1, <1>2, Zenon

\* read_config takes each string whole or not at all and a mode by its full name; the
\* status shows the message of the day from its start, all of it if it fits, and never
\* its hash; the preview in the log says whether it is all.
THEOREM SettingsTakenHolds == ConfigSpec => [](setting # "none" /\ SettingsTaken)
BY ConfigInitially, ConfigPreserved, ConfigSafe, PTL DEF ConfigSpec

-----------------------------------------------------------------------------
(* Markup                                                                  *)

\* A text is its characters one after the other.
LEMMA AllSingles ==
  ASSUME NEW S, NEW x \in Seq(S)
  PROVE  LET t == [k \in 1 .. Len(x) |-> <<x[k]>>]
         IN  t \in Seq(Seq(S)) /\ Len(t) = Len(x) /\ All(t) = x
<1> DEFINE N == Len(x)
           t == [k \in 1 .. N |-> <<x[k]>>]
           e == Joined(t)
           T == { n \in 0 .. N : Len(e[n]) = n }
<1>1. N \in Nat /\ \A k \in 1 .. N : x[k] \in S
  BY LenProperties, ElementOfSeq, Zenon
<1>2. \A c \in S : <<c>> \in Seq(S) /\ Len(<<c>>) = 1 /\ <<c>>[1] = c
  BY SMT
<1>3. t \in [1 .. N -> Seq(S)] /\ \A k \in 1 .. N : t[k] = <<x[k]>>
  BY <1>1, <1>2, Zenon
<1>12. \A n \in 1 .. N : Len(t[n]) = 1 /\ t[n][1] = x[n]
  BY <1>3, SMT
<1> HIDE DEF t
<1>4. t \in Seq(Seq(S)) /\ Len(t) = N
  BY <1>1, <1>3, FunctionSeq, Zenon
<1>5. 0 \in 0 .. N /\ N \in 0 .. N /\ \A n \in 1 .. N : n \in 0 .. N /\ n - 1 \in 0 .. N /\ (n - 1) + 1 = n
  BY <1>1, SMT
<1>6. 0 \in T
  <2>1. e[0] = <<>> /\ Len(<<>>) = 0
    BY <1>4, JoinedFacts, EmptySeq, Zenon
  <2> QED
    BY <1>5, <2>1, Zenon
<1>7. ASSUME NEW n \in 1 .. N, n - 1 \in T PROVE n \in T
  <2>1. Len(e[n]) = Len(e[n - 1]) + Len(t[n])
    BY <1>4, JoinedAt, Zenon
  <2>2. Len(t[n]) = 1 /\ Len(e[n - 1]) = n - 1
    BY <1>7, <1>12, Zenon
  <2> QED
    BY <1>5, <2>1, <2>2, Zenon
<1>8. \A n \in 0 .. N : n \in T
  <2> HIDE DEF T, N
  <2> QED
    BY <1>1, <1>6, <1>7, UpTo, Zenon
<1>9. All(t) \in Seq(S) /\ Len(All(t)) = N
  <2>1. e \in [0 .. N -> Seq(S)]
    BY <1>4, JoinedFacts, Zenon
  <2> QED
    BY <1>4, <1>5, <1>8, <2>1, Zenon DEF All
<1>10. ASSUME NEW n \in 1 .. N PROVE All(t)[n] = x[n]
  <2>1. Occurs(t[n], All(t), Len(e[n - 1])) /\ Len(e[n - 1]) = n - 1
    BY <1>4, <1>5, <1>8, JoinedAt, Zenon
  <2>2. Len(t[n]) = 1 /\ t[n][1] = x[n] /\ 1 \in 1 .. 1
    <3>1. 1 \in 1 .. 1
      BY SMT
    <3> QED
      BY <1>12, <3>1, Zenon
  <2> QED
    BY <1>5, <2>1, <2>2, Zenon DEF Occurs
<1>11. All(t) = x
  BY <1>9, <1>10, SeqEqual, Zenon
<1> QED
  BY <1>4, <1>11, Zenon DEF t

IsMarkup(c) == c \in {"<", ">", "quote", "'"}

\* Markup, as its definition says
LEMMA MarkupFacts ==
  ASSUME NEW x \in Text
  PROVE  /\ Len(x) \in Nat /\ Markup(x) \in [0 .. Len(x) -> Text] /\ Markup(x)[0] = <<>>
         /\ \A n \in 1 .. Len(x) : Markup(x)[n] = IF IsMarkup(x[n]) THEN Append(Markup(x)[n - 1], x[n])
                                                  ELSE Markup(x)[n - 1]
<1> DEFINE N == Len(x)
           Step(n, y) == IF IsMarkup(x[n]) THEN Append(y, x[n]) ELSE y
           step == [n \in 1 .. N |-> [y \in Text |-> Step(n, y)]]
           D(g) == g = [n \in 0 .. N |-> IF n = 0 THEN <<>> ELSE Step(n, g[n - 1])]
           e == Markup(x)
<1>1. N \in Nat /\ <<>> \in Text /\ \A n \in 1 .. N : x[n] \in Char
  BY LenProperties, EmptySeq, ElementOfSeq, Zenon DEF Text
<1>2. \A y \in Text, c \in Char : Append(y, c) \in Text
  BY AppendProperties, Zenon DEF Text
<1>3. step \in [1 .. N -> [Text -> Text]]
  BY <1>1, <1>2, Zenon
<1>4. PICK f : Iterated(f, N, Text, <<>>, step)
  <2> HIDE DEF step, N
  <2> QED
    BY <1>1, <1>3, Iteration, Zenon
<1>5. ASSUME NEW n \in 0 .. N, n # 0 PROVE n \in 1 .. N
  BY <1>1, <1>5, SMT
<1>6. 0 \in 0 .. N /\ \A n \in 1 .. N : n \in 0 .. N /\ n # 0 /\ n - 1 \in 0 .. N
  BY <1>1, SMT
<1>7. \A g : D(g) <=> g = [n \in 0 .. N |-> IF n = 0 THEN <<>>
                 ELSE IF x[n] \in {"<", ">", "quote", "'"} THEN Append(g[n - 1], x[n]) ELSE g[n - 1]]
  BY Zenon DEF IsMarkup
<1>10. e = CHOOSE g : D(g)
  BY Zenon DEF Markup, IsMarkup
<1> HIDE DEF Step, e
<1>8. D(f)
  <2>1. f \in [0 .. N -> Text] /\ f[0] = <<>> /\ \A n \in 1 .. N : f[n] = step[n][f[n - 1]]
    BY <1>4, Zenon DEF Iterated
  <2>2. ASSUME NEW n \in 0 .. N PROVE f[n] = IF n = 0 THEN <<>> ELSE Step(n, f[n - 1])
    BY <1>5, <1>6, <2>1, Zenon
  <2> QED
    BY <2>1, <2>2, Zenon
<1>11. D(e)
  <2> HIDE DEF D
  <2> QED
    BY <1>8, <1>10, Zenon
<1>12. e[0] = <<>> /\ \A n \in 1 .. N : e[n] = Step(n, e[n - 1])
  BY <1>6, <1>11, Zenon
<1>9. Iterated(e, N, Text, <<>>, step)
  <2>2. \A n \in 1 .. N : e[n - 1] \in Text => e[n] = step[n][e[n - 1]]
    BY <1>12, Zenon
  <2>3. e = [n \in 0 .. N |-> e[n]]
    BY <1>11, Zenon
  <2> HIDE DEF step, N, D
  <2> QED
    BY <1>1, <1>3, <1>12, <2>2, <2>3, Recursion, Zenon
<1>13. e \in [0 .. N -> Text]
  BY <1>9, Zenon DEF Iterated
<1> QED
  BY <1>1, <1>12, <1>13, Zenon DEF e, Step

\* The markup of a whole text
Kept(x) == Markup(x)[Len(x)]

\* The markup of the first characters begins that of all.
LEMMA MarkupGrows ==
  ASSUME NEW x \in Text, NEW n \in 0 .. Len(x)
  PROVE  Markup(x)[n] \in Text /\ Kept(x) \in Text /\ Occurs(Markup(x)[n], Kept(x), 0)
<1> DEFINE N == Len(x)
           e == Markup(x)
           T == { k \in 0 .. N : n <= k => Occurs(e[n], e[k], 0) }
<1>1. N \in Nat /\ \A k \in 0 .. N : e[k] \in Text
  BY MarkupFacts, Zenon
<1>2. \A k \in 1 .. N : x[k] \in Char /\ e[k] = IF IsMarkup(x[k]) THEN Append(e[k - 1], x[k]) ELSE e[k - 1]
  BY MarkupFacts, ElementOfSeq, Zenon DEF Text
<1>3. n \in 0 .. N /\ N \in 0 .. N /\ 0 \in 0 .. N /\ n <= N /\ (n <= 0 => n = 0) /\ 0 + 0 = 0 /\ 0 \in Nat
  BY <1>1, SMT
<1> HIDE DEF e, N
<1>4. Occurs(e[n], e[n], 0)
  BY <1>1, <1>3, OccursAll, Zenon DEF Text
<1>5. 0 \in T
  BY <1>3, <1>4, Zenon
<1>6. ASSUME NEW k \in 1 .. N, k - 1 \in T PROVE k \in T
  <2>1. k \in 0 .. N /\ k - 1 \in 0 .. N /\ (n <= k => n = k \/ n <= k - 1)
    BY <1>1, <1>3, SMT
  <2>2. ASSUME n <= k - 1 PROVE Occurs(e[n], e[k], 0)
    <3>1. Occurs(e[n], e[k - 1], 0)
      BY <1>6, <2>2, Zenon
    <3>2. CASE IsMarkup(x[k])
      <4>1. e[k - 1] \in Seq(Char) /\ x[k] \in Char /\ e[k] = Append(e[k - 1], x[k]) /\ e[n] \in Seq(Char) /\ e[k] \in Seq(Char)
        BY <1>1, <1>2, <1>3, <2>1, <3>2, Zenon DEF Text
      <4>2. e[k] = e[k - 1] \o <<x[k]>> /\ <<x[k]>> \in Seq(Char)
        <5>1. <<x[k]>> \in Seq(Char)
          BY <4>1, SMT
        <5> QED
          BY <4>1, <5>1, AppendIsConcat, Zenon
      <4>3. Occurs(e[k - 1], e[k], 0)
        BY <4>1, <4>2, ConcatOccurs, Zenon
      <4>4. Occurs(e[n], e[k], 0 + 0)
        BY <1>3, <3>1, <4>1, <4>3, OccursWithin, Zenon
      <4> QED
        BY <1>3, <4>4, Zenon
    <3>3. CASE ~IsMarkup(x[k])
      BY <1>2, <3>1, <3>3, Zenon
    <3> QED
      BY <3>2, <3>3, Zenon
  <2> QED
    BY <1>4, <2>1, <2>2, Zenon
<1>7. \A k \in 0 .. N : k \in T
  <2> HIDE DEF T
  <2> QED
    BY <1>1, <1>5, <1>6, UpTo, Zenon
<1> QED
  BY <1>1, <1>3, <1>7, Zenon DEF e, N, Kept

\* The markup of a beginning is that of the text up to there.
LEMMA MarkupPrefix ==
  ASSUME NEW x \in Text, NEW y \in Text, Occurs(y, x, 0)
  PROVE  Len(y) \in 0 .. Len(x) /\ \A n \in 0 .. Len(y) : Markup(y)[n] = Markup(x)[n]
<1> DEFINE N == Len(y)
           T == { n \in 0 .. N : Markup(y)[n] = Markup(x)[n] }
<1>1. N \in Nat /\ Len(x) \in Nat /\ Markup(y)[0] = <<>> /\ Markup(x)[0] = <<>>
  BY MarkupFacts, Zenon
<1>2. N \in 0 .. Len(x) /\ \A n \in 1 .. N : n \in 0 .. N /\ n - 1 \in 0 .. N /\ n \in 1 .. Len(x) /\ 0 + n = n
  <2>1. 0 + N <= Len(x)
    BY Zenon DEF Occurs
  <2> QED
    BY <1>1, <2>1, SMT
<1>3. 0 \in T
  <2>1. 0 \in 0 .. N
    BY <1>1, SMT
  <2> QED
    BY <1>1, <2>1, Zenon
<1>4. ASSUME NEW n \in 1 .. N, n - 1 \in T PROVE n \in T
  <2>1. Markup(y)[n - 1] = Markup(x)[n - 1] /\ n \in 1 .. Len(x) /\ n \in 0 .. N
    BY <1>2, <1>4, Zenon
  <2>2. x[n] = y[n]
    BY <1>2, Zenon DEF Occurs
  <2>3. Markup(y)[n] = IF IsMarkup(y[n]) THEN Append(Markup(y)[n - 1], y[n]) ELSE Markup(y)[n - 1]
    BY MarkupFacts, Zenon
  <2>4. Markup(x)[n] = IF IsMarkup(x[n]) THEN Append(Markup(x)[n - 1], x[n]) ELSE Markup(x)[n - 1]
    BY <2>1, MarkupFacts, Zenon
  <2>5. Markup(y)[n] = Markup(x)[n]
    <3>1. CASE IsMarkup(y[n])
      BY <2>1, <2>2, <2>3, <2>4, <3>1, Zenon
    <3>2. CASE ~IsMarkup(y[n])
      BY <2>1, <2>2, <2>3, <2>4, <3>2, Zenon
    <3> QED
      BY <3>1, <3>2, Zenon
  <2> QED
    BY <2>1, <2>5, Zenon
<1>5. \A n \in 0 .. N : n \in T
  <2> HIDE DEF T, N
  <2> QED
    BY <1>1, <1>3, <1>4, UpTo, Zenon
<1> QED
  BY <1>2, <1>5, Zenon

LEMMA KeptText ==
  ASSUME NEW x \in Text
  PROVE  Kept(x) \in Text
<1>1. Len(x) \in Nat
  BY LenProperties, Zenon DEF Text
<1>2. Len(x) \in 0 .. Len(x)
  BY <1>1, SMT
<1> QED
  BY <1>2, MarkupFacts, Zenon DEF Kept

\* The markup of two texts is that of the one and then that of the other.
LEMMA KeptConcat ==
  ASSUME NEW x \in Text, NEW y \in Text
  PROVE  x \o y \in Text /\ Kept(x \o y) = Kept(x) \o Kept(y)
<1> DEFINE z == x \o y
           N == Len(y)
           X == Len(x)
           T == { n \in 0 .. N : Markup(z)[X + n] = Kept(x) \o Markup(y)[n] }
<1>1. z \in Text /\ X \in Nat /\ N \in Nat /\ Len(z) = X + N /\ Occurs(x, z, 0) /\ Occurs(y, z, X)
  BY ConcatOccurs, Zenon DEF Text
<1> HIDE DEF z
<1>2. /\ X + 0 = X /\ X \in 0 .. X /\ 0 \in 0 .. N /\ N \in 0 .. N
      /\ \A n \in 1 .. N : /\ n \in 0 .. N /\ n - 1 \in 0 .. N /\ X + n \in 1 .. Len(z)
                           /\ (X + n) - 1 = X + (n - 1)
  BY <1>1, SMT
<1>3. Kept(x) \in Seq(Char) /\ Markup(y) \in [0 .. N -> Seq(Char)] /\ Markup(y)[0] = <<>>
  BY KeptText, MarkupFacts, Zenon DEF Text
<1>4. 0 \in T
  <2>1. Markup(z)[X] = Kept(x)
    BY <1>1, <1>2, MarkupPrefix, Zenon DEF Kept
  <2>2. Kept(x) \o <<>> = Kept(x)
    BY <1>3, ConcatEmptySeq, Zenon
  <2> QED
    BY <1>2, <1>3, <2>1, <2>2, Zenon
<1>5. ASSUME NEW n \in 1 .. N, n - 1 \in T PROVE n \in T
  <2>1. Markup(z)[X + (n - 1)] = Kept(x) \o Markup(y)[n - 1] /\ Markup(y)[n - 1] \in Seq(Char)
    BY <1>2, <1>3, <1>5, Zenon
  <2>2. z[X + n] = y[n] /\ y[n] \in Char
    BY <1>1, ElementOfSeq, Zenon DEF Occurs, Text
  <2>3. Markup(y)[n] = IF IsMarkup(y[n]) THEN Append(Markup(y)[n - 1], y[n]) ELSE Markup(y)[n - 1]
    BY MarkupFacts, Zenon
  <2>4. Markup(z)[X + n] = IF IsMarkup(z[X + n]) THEN Append(Markup(z)[(X + n) - 1], z[X + n])
                           ELSE Markup(z)[(X + n) - 1]
    BY <1>1, <1>2, MarkupFacts, Zenon
  <2>5. Append(Kept(x) \o Markup(y)[n - 1], y[n]) = Kept(x) \o Append(Markup(y)[n - 1], y[n])
    <3> DEFINE a == Kept(x)
               b == Markup(y)[n - 1]
               c == y[n]
    <3>1. a \in Seq(Char) /\ b \in Seq(Char) /\ c \in Char
      BY <1>3, <2>1, <2>2, Zenon
    <3> HIDE DEF a, b, c
    <3>2. <<c>> \in Seq(Char)
      BY <3>1, SMT
    <3>3. a \o b \in Seq(Char)
      BY <3>1, ConcatProperties, Zenon
    <3>4. Append(a \o b, c) = (a \o b) \o <<c>> /\ Append(b, c) = b \o <<c>>
      BY <3>1, <3>3, AppendIsConcat, Zenon
    <3>6. (a \o b) \o <<c>> = a \o (b \o <<c>>)
      <4> DEFINE d == <<c>>
      <4>1. d \in Seq(Char)
        BY <3>2, Zenon
      <4> HIDE DEF d
      <4>2. (a \o b) \o d = a \o (b \o d)
        BY <3>1, <4>1, Associative, Zenon
      <4> QED
        BY <4>2, Zenon DEF d
    <3>5. Append(a \o b, c) = a \o Append(b, c)
      BY <3>4, <3>6, Zenon
    <3> QED
      BY <3>5, Zenon DEF a, b, c
  <2>6. CASE IsMarkup(y[n])
    BY <1>2, <2>1, <2>2, <2>3, <2>4, <2>5, <2>6, Zenon
  <2>7. CASE ~IsMarkup(y[n])
    BY <1>2, <2>1, <2>2, <2>3, <2>4, <2>7, Zenon
  <2> QED
    BY <2>6, <2>7, Zenon
<1>6. \A n \in 0 .. N : n \in T
  <2> HIDE DEF T, N
  <2> QED
    BY <1>1, <1>4, <1>5, UpTo, Zenon
<1>7. Markup(z)[X + N] = Kept(x) \o Markup(y)[N]
  BY <1>2, <1>6, Zenon
<1> QED
  BY <1>1, <1>7, Zenon DEF Kept, z

\* Texts with the same markup in each part have the same markup.
LEMMA KeptJoined ==
  ASSUME NEW a \in Seq(Text), NEW b \in Seq(Text), Len(a) = Len(b),
         \A k \in 1 .. Len(a) : Kept(a[k]) = Kept(b[k])
  PROVE  Kept(All(a)) = Kept(All(b))
<1> DEFINE N == Len(a)
           T == { n \in 0 .. N : Kept(Joined(a)[n]) = Kept(Joined(b)[n]) }
<1>1. /\ N \in Nat /\ Joined(a) \in [0 .. N -> Text] /\ Joined(b) \in [0 .. N -> Text]
      /\ Joined(a)[0] = <<>> /\ Joined(b)[0] = <<>>
      /\ \A n \in 1 .. N : a[n] \in Text /\ Joined(a)[n] = Joined(a)[n - 1] \o a[n]
      /\ \A n \in 1 .. N : b[n] \in Text /\ Joined(b)[n] = Joined(b)[n - 1] \o b[n]
  BY JoinedFacts, Zenon DEF Text
<1>2. 0 \in 0 .. N /\ N \in 0 .. N /\ \A n \in 1 .. N : n \in 0 .. N /\ n - 1 \in 0 .. N
  BY <1>1, SMT
<1>3. 0 \in T
  BY <1>1, <1>2, Zenon
<1>4. ASSUME NEW n \in 1 .. N, n - 1 \in T PROVE n \in T
  <2>1. Joined(a)[n - 1] \in Text /\ Joined(b)[n - 1] \in Text /\ Kept(Joined(a)[n - 1]) = Kept(Joined(b)[n - 1])
    BY <1>1, <1>2, <1>4, Zenon
  <2>4. /\ a[n] \in Text /\ Joined(a)[n] = Joined(a)[n - 1] \o a[n]
        /\ b[n] \in Text /\ Joined(b)[n] = Joined(b)[n - 1] \o b[n]
    BY <1>1, Zenon
  <2>2. Kept(Joined(a)[n - 1] \o a[n]) = Kept(Joined(a)[n - 1]) \o Kept(a[n])
    BY <2>1, <2>4, KeptConcat, Zenon
  <2>3. Kept(Joined(b)[n - 1] \o b[n]) = Kept(Joined(b)[n - 1]) \o Kept(b[n])
    BY <2>1, <2>4, KeptConcat, Zenon
  <2> QED
    BY <1>2, <2>1, <2>2, <2>3, <2>4, Zenon
<1>5. \A n \in 0 .. N : n \in T
  <2> HIDE DEF T, N
  <2> QED
    BY <1>1, <1>3, <1>4, UpTo, Zenon
<1> QED
  BY <1>2, <1>5, Zenon DEF All

\* A text without markup
LEMMA KeptNone ==
  ASSUME NEW x \in Text, \A k \in 1 .. Len(x) : ~IsMarkup(x[k])
  PROVE  Kept(x) = <<>>
<1> DEFINE N == Len(x)
           T == { n \in 0 .. N : Markup(x)[n] = <<>> }
<1>1. N \in Nat /\ Markup(x)[0] = <<>>
  BY MarkupFacts, Zenon
<1>2. 0 \in 0 .. N /\ N \in 0 .. N /\ \A n \in 1 .. N : n \in 0 .. N
  BY <1>1, SMT
<1>3. 0 \in T
  BY <1>1, <1>2, Zenon
<1>4. ASSUME NEW n \in 1 .. N, n - 1 \in T PROVE n \in T
  BY <1>2, <1>4, MarkupFacts, Zenon
<1>5. \A n \in 0 .. N : n \in T
  <2> HIDE DEF T, N
  <2> QED
    BY <1>1, <1>3, <1>4, UpTo, Zenon
<1> QED
  BY <1>2, <1>5, Zenon DEF Kept

\* Parts without markup
LEMMA KeptAllNone ==
  ASSUME NEW a \in Seq(Text), \A k \in 1 .. Len(a) : Kept(a[k]) = <<>>
  PROVE  Kept(All(a)) = <<>>
<1> DEFINE N == Len(a)
           T == { n \in 0 .. N : Kept(Joined(a)[n]) = <<>> }
<1>1. /\ N \in Nat /\ Joined(a) \in [0 .. N -> Text] /\ Joined(a)[0] = <<>>
      /\ \A n \in 1 .. N : a[n] \in Text /\ Joined(a)[n] = Joined(a)[n - 1] \o a[n]
  BY JoinedFacts, Zenon DEF Text
<1>2. 0 \in 0 .. N /\ N \in 0 .. N /\ (\A n \in 1 .. N : n \in 0 .. N /\ n - 1 \in 0 .. N) /\ 1 .. 0 = {}
  BY <1>1, SMT
<1>3. <<>> \in Text /\ Len(<<>>) = 0
  BY EmptySeq, Zenon DEF Text
<1>4. Kept(<<>>) = <<>>
  BY <1>2, <1>3, KeptNone, Zenon
<1>5. 0 \in T
  BY <1>1, <1>2, <1>4, Zenon
<1>6. ASSUME NEW n \in 1 .. N, n - 1 \in T PROVE n \in T
  <2>1. Joined(a)[n - 1] \in Text /\ Kept(Joined(a)[n - 1]) = <<>>
    BY <1>1, <1>2, <1>6, Zenon
  <2>2. a[n] \in Text /\ Joined(a)[n] = Joined(a)[n - 1] \o a[n] /\ Kept(a[n]) = <<>>
    BY <1>1, Zenon
  <2>3. Kept(Joined(a)[n - 1] \o a[n]) = Kept(Joined(a)[n - 1]) \o Kept(a[n])
    BY <2>1, <2>2, KeptConcat, Zenon
  <2>4. <<>> \o <<>> = <<>>
    BY <1>3, ConcatEmptySeq, Zenon DEF Text
  <2> QED
    BY <1>2, <2>1, <2>2, <2>3, <2>4, Zenon
<1>7. \A n \in 0 .. N : n \in T
  <2> HIDE DEF T, N
  <2> QED
    BY <1>1, <1>5, <1>6, UpTo, Zenon
<1> QED
  BY <1>2, <1>7, Zenon DEF All

-----------------------------------------------------------------------------
(* Reading                                                                 *)

Escaped == {"tab", "newline", "quote", "&", "'", "<", ">"}

\* The words of the entities, and what tells them apart
LEMMA EntityWords ==
  /\ Entity("tab") = <<"&", "#", "9", "semi">> /\ Entity("newline") = <<"&", "#", "1", "0", "semi">>
  /\ Entity("quote") = <<"&", "q", "u", "o", "t", "semi">> /\ Entity("&") = <<"&", "a", "m", "p", "semi">>
  /\ Entity("'") = <<"&", "a", "p", "o", "s", "semi">> /\ Entity("<") = <<"&", "l", "t", "semi">>
  /\ Entity(">") = <<"&", "g", "t", "semi">>
BY SMT DEF Entity

LEMMA EntityOther ==
  ASSUME NEW c, c \notin Escaped
  PROVE  Entity(c) = <<c>>
BY SMT DEF Entity, Escaped

LEMMA EntityChars ==
  ASSUME NEW c \in Escaped
  PROVE  /\ Entity(c) \in Seq(Char) /\ Len(Entity(c)) \in 4 .. 6 /\ Entity(c)[1] = "&"
         /\ \A k \in 1 .. Len(Entity(c)) : ~IsMarkup(Entity(c)[k]) /\ Entity(c)[k] \notin Illegal
<1> DEFINE W == {"&", "#", "q", "u", "o", "t", "a", "m", "p", "s", "l", "g", "semi", "0", "1", "9"}
<1>1. W \subseteq Char
  <2>1. "0" = Digit[1] /\ "1" = Digit[2] /\ "9" = Digit[10] /\ {1, 2, 10} \subseteq 1 .. 10
    BY SMT DEF Digit
  <2> QED
    BY <2>1, CharAssumption, Zenon
<1>2. \A k \in W : ~IsMarkup(k) /\ k \notin Illegal
  BY SMT DEF IsMarkup, Illegal
<1>6. /\ "&" \in W /\ "#" \in W /\ "q" \in W /\ "u" \in W /\ "o" \in W /\ "t" \in W /\ "a" \in W
      /\ "m" \in W /\ "p" \in W /\ "s" \in W /\ "l" \in W /\ "g" \in W /\ "semi" \in W
      /\ "0" \in W /\ "1" \in W /\ "9" \in W
  BY Zenon
<1> HIDE DEF W
<1>3. Entity(c) \in Seq(W) /\ Len(Entity(c)) \in 4 .. 6 /\ Entity(c)[1] = "&"
  <2>1. CASE c = "tab"
    <3>1. Entity(c) = <<"&", "#", "9", "semi">>
      BY <2>1, EntityWords, Zenon
    <3> QED
      BY <1>6, <3>1, SMT
  <2>2. CASE c = "newline"
    <3>1. Entity(c) = <<"&", "#", "1", "0", "semi">>
      BY <2>2, EntityWords, Zenon
    <3> QED
      BY <1>6, <3>1, SMT
  <2>3. CASE c = "quote"
    <3>1. Entity(c) = <<"&", "q", "u", "o", "t", "semi">>
      BY <2>3, EntityWords, Zenon
    <3> QED
      BY <1>6, <3>1, SMT
  <2>4. CASE c = "&"
    <3>1. Entity(c) = <<"&", "a", "m", "p", "semi">>
      BY <2>4, EntityWords, Zenon
    <3> QED
      BY <1>6, <3>1, SMT
  <2>5. CASE c = "'"
    <3>1. Entity(c) = <<"&", "a", "p", "o", "s", "semi">>
      BY <2>5, EntityWords, Zenon
    <3> QED
      BY <1>6, <3>1, SMT
  <2>6. CASE c = "<"
    <3>1. Entity(c) = <<"&", "l", "t", "semi">>
      BY <2>6, EntityWords, Zenon
    <3> QED
      BY <1>6, <3>1, SMT
  <2>7. CASE c = ">"
    <3>1. Entity(c) = <<"&", "g", "t", "semi">>
      BY <2>7, EntityWords, Zenon
    <3> QED
      BY <1>6, <3>1, SMT
  <2> QED
    BY <2>1, <2>2, <2>3, <2>4, <2>5, <2>6, <2>7, Zenon DEF Escaped
<1>4. Entity(c) \in Seq(Char)
  BY <1>1, <1>3, SeqMonotonic, Zenon
<1>5. \A k \in 1 .. Len(Entity(c)) : ~IsMarkup(Entity(c)[k]) /\ Entity(c)[k] \notin Illegal
  BY <1>2, <1>3, ElementOfSeq, Zenon
<1> QED
  BY <1>3, <1>4, <1>5, Zenon

LEMMA EntitiesAre ==
  /\ \A e \in Entities : e[2] \in Escaped /\ e[1] = Entity(e[2])
  /\ \A c \in Escaped : \E e \in Entities : e[2] = c
<1>1. ASSUME NEW e \in Entities PROVE e[2] \in Escaped /\ e[1] = Entity(e[2])
  BY EntityWords, SMT DEF Entities, Escaped
<1>2. ASSUME NEW c \in Escaped PROVE \E e \in Entities : e[2] = c
  BY SMT DEF Entities, Escaped
<1> QED
  BY <1>1, <1>2, Zenon

\* The second and the third character tell the entities apart.
LEMMA EntityApart ==
  ASSUME NEW b \in Escaped, NEW c \in Escaped, Entity(b)[2] = Entity(c)[2], Entity(b)[3] = Entity(c)[3]
  PROVE  b = c
BY EntityWords, SMT DEF Escaped

\* What a reader has: the text found, and where the next thing begins
Reader == [found : Text, next : Nat]
At1(x, n) == [found |-> x, next |-> n]

LEMMA ReaderFields ==
  /\ \A x, n : At1(x, n).found = x /\ At1(x, n).next = n
  /\ \A x \in Text, n \in Nat : At1(x, n) \in Reader
  /\ \A r \in Reader : r.found \in Text /\ r.next \in Nat
BY SMT DEF At1, Reader

\* A character that begins no entity
LEMMA ReadPlain ==
  ASSUME NEW x \in Text, NEW n \in 1 .. Len(x), NEW r, ~(n < r.next), x[n] # "&"
  PROVE  ReadOn(x, n, r) = At1(Append(r.found, x[n]), n + 1)
<1>1. ASSUME NEW e \in Entities, Occurs(e[1], x, n - 1) PROVE FALSE
  <2>3. e[2] \in Escaped /\ e[1] = Entity(e[2])
    BY EntitiesAre, Zenon
  <2>1. Len(e[1]) \in 4 .. 6 /\ e[1][1] = "&"
    BY <2>3, EntityChars, Zenon
  <2>2. 1 \in 1 .. Len(e[1]) /\ (n - 1) + 1 = n
    <3>1. (\A l \in 4 .. 6 : 1 \in 1 .. l) /\ (n - 1) + 1 = n
      BY SMT
    <3> QED
      BY <2>1, <3>1, Zenon
  <2> QED
    BY <1>1, <2>1, <2>2, Zenon DEF Occurs
<1> QED
  BY <1>1, Zenon DEF ReadOn, At1

\* An entity
LEMMA ReadEntity ==
  ASSUME NEW x \in Text, NEW n \in 1 .. Len(x), NEW r, ~(n < r.next),
         NEW c \in Escaped, Occurs(Entity(c), x, n - 1)
  PROVE  ReadOn(x, n, r) = At1(Append(r.found, c), n + Len(Entity(c)))
<1> DEFINE e == CHOOSE f \in Entities : Occurs(f[1], x, n - 1)
<1>1. PICK g \in Entities : g[2] = c /\ g[1] = Entity(c)
  BY EntitiesAre, Zenon
<1>2. e \in Entities /\ Occurs(e[1], x, n - 1)
  BY <1>1, Zenon
<1>3. ReadOn(x, n, r) = At1(Append(r.found, e[2]), n + Len(e[1]))
  BY <1>1, Zenon DEF ReadOn, At1
<1> HIDE DEF e
<1>4. e[2] \in Escaped /\ e[1] = Entity(e[2]) /\ Len(e[1]) \in 4 .. 6 /\ Len(Entity(c)) \in 4 .. 6
  BY <1>2, EntitiesAre, EntityChars, Zenon
<1>5. 2 \in 1 .. Len(e[1]) /\ 3 \in 1 .. Len(e[1]) /\ 2 \in 1 .. Len(Entity(c)) /\ 3 \in 1 .. Len(Entity(c))
  <2>1. \A l \in 4 .. 6 : 2 \in 1 .. l /\ 3 \in 1 .. l
    BY SMT
  <2> QED
    BY <1>4, <2>1, Zenon
<1>6. /\ x[(n - 1) + 2] = e[1][2] /\ x[(n - 1) + 3] = e[1][3]
      /\ x[(n - 1) + 2] = Entity(c)[2] /\ x[(n - 1) + 3] = Entity(c)[3]
  BY <1>2, <1>5, Zenon DEF Occurs
<1>7. e[2] = c
  BY <1>4, <1>6, EntityApart, Zenon
<1> QED
  BY <1>3, <1>4, <1>7, Zenon

LEMMA ReadType ==
  ASSUME NEW x \in Text, NEW n \in 1 .. Len(x), NEW r \in Reader
  PROVE  ReadOn(x, n, r) \in Reader
<1>1. x[n] \in Char /\ n \in Nat /\ n + 1 \in Nat /\ \A l \in 4 .. 6 : n + l \in Nat
  <2>1. Len(x) \in Nat /\ x[n] \in Char
    BY LenProperties, ElementOfSeq, Zenon DEF Text
  <2> QED
    BY <2>1, SMT
<1>2. \A c \in Char : Append(r.found, c) \in Text
  BY ReaderFields, AppendProperties, Zenon DEF Text
<1>3. CASE n < r.next
  BY <1>3, Zenon DEF ReadOn
<1>4. CASE ~(n < r.next) /\ \E e \in Entities : Occurs(e[1], x, n - 1)
  <2>1. PICK e \in Entities : Occurs(e[1], x, n - 1)
    BY <1>4, Zenon
  <2>2. e[2] \in Escaped /\ e[1] = Entity(e[2]) /\ Len(e[1]) \in 4 .. 6
    BY EntitiesAre, EntityChars, Zenon
  <2>3. e[2] \in Char
    BY <2>2, CharAssumption, Zenon DEF Escaped
  <2>4. ReadOn(x, n, r) = At1(Append(r.found, e[2]), n + Len(e[1]))
    BY <1>4, <2>1, <2>2, ReadEntity, ZenonT(40)
  <2> QED
    BY <1>1, <1>2, <2>2, <2>3, <2>4, ReaderFields, Zenon
<1>5. CASE ~(n < r.next) /\ ~\E e \in Entities : Occurs(e[1], x, n - 1)
  <2>1. ReadOn(x, n, r) = At1(Append(r.found, x[n]), n + 1)
    BY <1>5, Zenon DEF ReadOn, At1
  <2> QED
    BY <1>1, <1>2, <2>1, ReaderFields, Zenon
<1> QED
  BY <1>3, <1>4, <1>5, Zenon

\* Reading, as its definition says
LEMMA ReadingFacts ==
  ASSUME NEW x \in Text
  PROVE  /\ Len(x) \in Nat /\ Reading(x) \in [0 .. Len(x) -> Reader] /\ Reading(x)[0] = At1(<<>>, 1)
         /\ \A n \in 1 .. Len(x) : Reading(x)[n] = ReadOn(x, n, Reading(x)[n - 1])
<1> DEFINE N == Len(x)
           base == At1(<<>>, 1)
           step == [n \in 1 .. N |-> [r \in Reader |-> ReadOn(x, n, r)]]
           D(g) == g = [n \in 0 .. N |-> IF n = 0 THEN base ELSE ReadOn(x, n, g[n - 1])]
           e == Reading(x)
<1>1. N \in Nat /\ base \in Reader
  <2>1. 1 \in Nat
    BY SMT
  <2> QED
    BY <2>1, LenProperties, EmptySeq, ReaderFields, Zenon DEF Text
<1>3. step \in [1 .. N -> [Reader -> Reader]]
  BY ReadType, Zenon
<1>10. e = CHOOSE g : D(g)
  BY Zenon DEF Reading, At1
<1> HIDE DEF base, e
<1>4. PICK f : Iterated(f, N, Reader, base, step)
  <2> HIDE DEF step, N
  <2> QED
    BY <1>1, <1>3, Iteration, Zenon
<1>5. ASSUME NEW n \in 0 .. N, n # 0 PROVE n \in 1 .. N
  BY <1>1, <1>5, SMT
<1>6. 0 \in 0 .. N /\ \A n \in 1 .. N : n \in 0 .. N /\ n # 0 /\ n - 1 \in 0 .. N
  BY <1>1, SMT
<1>7. D(f)
  <2>1. f \in [0 .. N -> Reader] /\ f[0] = base /\ \A n \in 1 .. N : f[n] = step[n][f[n - 1]]
    BY <1>4, Zenon DEF Iterated
  <2>2. ASSUME NEW n \in 0 .. N PROVE f[n] = IF n = 0 THEN base ELSE ReadOn(x, n, f[n - 1])
    BY <1>5, <1>6, <2>1, Zenon
  <2> QED
    BY <2>1, <2>2, Zenon
<1>8. D(e)
  <2> HIDE DEF D
  <2> QED
    BY <1>7, <1>10, Zenon
<1>11. e[0] = base /\ \A n \in 1 .. N : e[n] = ReadOn(x, n, e[n - 1])
  BY <1>6, <1>8, Zenon
<1>9. Iterated(e, N, Reader, base, step)
  <2>2. \A n \in 1 .. N : e[n - 1] \in Reader => e[n] = step[n][e[n - 1]]
    BY <1>11, Zenon
  <2>3. e = [n \in 0 .. N |-> e[n]]
    BY <1>8, Zenon
  <2> HIDE DEF step, N, D
  <2> QED
    BY <1>1, <1>3, <1>11, <2>2, <2>3, Recursion, Zenon
<1>12. e \in [0 .. N -> Reader]
  BY <1>9, Zenon DEF Iterated
<1> QED
  BY <1>1, <1>11, <1>12, Zenon DEF e, base

\* Wherever a reader comes upon w, it finds t in it.
ReadsAt(w, t, s, n, x) ==
    Occurs(w, s, n) /\ Reading(s)[n] = At1(x, n + 1)
      => Reading(s)[n + Len(w)] = At1(x \o t, (n + Len(w)) + 1)
Reads(w, t) == \A s \in Text, n \in Nat, x \in Text : ReadsAt(w, t, s, n, x)

LEMMA ReadsNothing == Reads(<<>>, <<>>)
<1> SUFFICES ASSUME NEW s \in Text, NEW n \in Nat, NEW x \in Text, Reading(s)[n] = At1(x, n + 1)
             PROVE  Reading(s)[n + Len(<<>>)] = At1(x \o <<>>, (n + Len(<<>>)) + 1)
  BY Zenon DEF Reads, ReadsAt
<1>1. n + Len(<<>>) = n
  BY SMT
<1>2. x \o <<>> = x
  BY ConcatEmptySeq, Zenon DEF Text
<1> QED
  BY <1>1, <1>2, Zenon

LEMMA ReadsConcat ==
  ASSUME NEW v \in Text, NEW w \in Text, NEW t \in Text, NEW u \in Text, Reads(v, t), Reads(w, u)
  PROVE  Reads(v \o w, t \o u)
<1> SUFFICES ASSUME NEW s \in Text, NEW n \in Nat, NEW x \in Text PROVE ReadsAt(v \o w, t \o u, s, n, x)
  BY Zenon DEF Reads
<1> SUFFICES ASSUME Occurs(v \o w, s, n), Reading(s)[n] = At1(x, n + 1)
             PROVE  Reading(s)[n + Len(v \o w)] = At1(x \o (t \o u), (n + Len(v \o w)) + 1)
  BY Zenon DEF ReadsAt
<1>1. /\ v \o w \in Text /\ Len(v) \in Nat /\ Len(w) \in Nat /\ Len(v \o w) = Len(v) + Len(w)
      /\ Occurs(v, v \o w, 0) /\ Occurs(w, v \o w, Len(v))
  BY ConcatOccurs, Zenon DEF Text
<1>2. 0 \in Nat /\ n + 0 = n /\ n + Len(v) \in Nat /\ (n + Len(v)) + Len(w) = n + (Len(v) + Len(w))
  BY <1>1, SMT
<1>8. Occurs(v, s, n + 0) /\ Occurs(w, s, n + Len(v))
  BY <1>1, <1>2, OccursWithin, Zenon DEF Text
<1>3. Occurs(v, s, n) /\ Occurs(w, s, n + Len(v))
  BY <1>2, <1>8, Zenon
<1>4. Reading(s)[n + Len(v)] = At1(x \o t, (n + Len(v)) + 1)
  BY <1>2, <1>3, ZenonT(40) DEF Reads, ReadsAt
<1>5. x \o t \in Text
  BY ConcatProperties, Zenon DEF Text
<1>6. Reading(s)[(n + Len(v)) + Len(w)] = At1((x \o t) \o u, ((n + Len(v)) + Len(w)) + 1)
  <2>1. ReadsAt(w, u, s, n + Len(v), x \o t)
    BY <1>2, <1>5, Zenon DEF Reads
  <2> QED
    BY <1>3, <1>4, <2>1, Zenon DEF ReadsAt
<1>7. (x \o t) \o u = x \o (t \o u)
  <2>1. x \in Seq(Char) /\ t \in Seq(Char) /\ u \in Seq(Char)
    BY Zenon DEF Text
  <2> QED
    BY <2>1, Associative, Zenon
<1> QED
  BY <1>1, <1>2, <1>6, <1>7, Zenon

LEMMA ReadsJoined ==
  ASSUME NEW a \in Seq(Text), NEW b \in Seq(Text), Len(a) = Len(b), \A k \in 1 .. Len(a) : Reads(a[k], b[k])
  PROVE  All(a) \in Text /\ All(b) \in Text /\ Reads(All(a), All(b))
<1> DEFINE N == Len(a)
           T == { n \in 0 .. N : Reads(Joined(a)[n], Joined(b)[n]) }
<1>1. /\ N \in Nat /\ Joined(a) \in [0 .. N -> Text] /\ Joined(b) \in [0 .. N -> Text]
      /\ Joined(a)[0] = <<>> /\ Joined(b)[0] = <<>>
      /\ \A n \in 1 .. N : a[n] \in Text /\ Joined(a)[n] = Joined(a)[n - 1] \o a[n]
      /\ \A n \in 1 .. N : b[n] \in Text /\ Joined(b)[n] = Joined(b)[n - 1] \o b[n]
  BY JoinedFacts, Zenon DEF Text
<1>2. 0 \in 0 .. N /\ N \in 0 .. N /\ \A n \in 1 .. N : n \in 0 .. N /\ n - 1 \in 0 .. N
  BY <1>1, SMT
<1>3. 0 \in T
  BY <1>1, <1>2, ReadsNothing, Zenon
<1>4. ASSUME NEW n \in 1 .. N, n - 1 \in T PROVE n \in T
  <2>1. Joined(a)[n - 1] \in Text /\ Joined(b)[n - 1] \in Text /\ Reads(Joined(a)[n - 1], Joined(b)[n - 1])
    BY <1>1, <1>2, <1>4, Zenon
  <2>2. /\ a[n] \in Text /\ Joined(a)[n] = Joined(a)[n - 1] \o a[n]
        /\ b[n] \in Text /\ Joined(b)[n] = Joined(b)[n - 1] \o b[n] /\ Reads(a[n], b[n])
    BY <1>1, Zenon
  <2>3. Reads(Joined(a)[n - 1] \o a[n], Joined(b)[n - 1] \o b[n])
    BY <2>1, <2>2, ReadsConcat, Zenon
  <2> QED
    BY <1>2, <2>2, <2>3, Zenon
<1>5. \A n \in 0 .. N : n \in T
  <2> HIDE DEF T, N
  <2> QED
    BY <1>1, <1>3, <1>4, UpTo, Zenon
<1> QED
  BY <1>1, <1>2, <1>5, Zenon DEF All

LEMMA Single ==
  ASSUME NEW c \in Char
  PROVE  <<c>> \in Text /\ Len(<<c>>) = 1 /\ <<c>>[1] = c
BY SMT DEF Text

LEMMA AppendSingle ==
  ASSUME NEW x \in Text, NEW c \in Char
  PROVE  Append(x, c) = x \o <<c>>
BY AppendIsConcat, Zenon DEF Text

LEMMA ReadsCharacter ==
  ASSUME NEW c \in Char, c # "&"
  PROVE  Reads(<<c>>, <<c>>)
<1> SUFFICES ASSUME NEW s \in Text, NEW n \in Nat, NEW x \in Text,
                    Occurs(<<c>>, s, n), Reading(s)[n] = At1(x, n + 1)
             PROVE  Reading(s)[n + Len(<<c>>)] = At1(x \o <<c>>, (n + Len(<<c>>)) + 1)
  BY Zenon DEF Reads, ReadsAt
<1>1. Len(<<c>>) = 1 /\ <<c>>[1] = c
  BY Single, Zenon
<1>2. n + 1 <= Len(s) /\ s[n + 1] = c
  <2>1. 1 \in 1 .. 1
    BY SMT
  <2> QED
    BY <1>1, <2>1, Zenon DEF Occurs
<1>3. n + 1 \in 1 .. Len(s) /\ (n + 1) - 1 = n /\ ~(n + 1 < n + 1)
  <2>1. Len(s) \in Nat
    BY LenProperties, Zenon DEF Text
  <2> QED
    BY <1>2, <2>1, SMT
<1>4. Reading(s)[n + 1] = ReadOn(s, n + 1, At1(x, n + 1))
  BY <1>3, ReadingFacts, Zenon
<1>5. ReadOn(s, n + 1, At1(x, n + 1)) = At1(Append(x, c), (n + 1) + 1)
  <2> DEFINE r == At1(x, n + 1)
  <2>1. r.found = x /\ r.next = n + 1
    BY ReaderFields, Zenon
  <2> HIDE DEF r
  <2>2. ~(n + 1 < r.next) /\ s[n + 1] # "&"
    BY <1>2, <1>3, <2>1, Zenon
  <2>3. ReadOn(s, n + 1, r) = At1(Append(r.found, s[n + 1]), (n + 1) + 1)
    BY <1>3, <2>2, ReadPlain, Zenon
  <2> QED
    BY <1>2, <2>1, <2>3, Zenon DEF r
<1> QED
  BY <1>1, <1>4, <1>5, AppendSingle, Zenon

LEMMA ReadsEntity ==
  ASSUME NEW c \in Escaped
  PROVE  Reads(Entity(c), <<c>>)
<1> DEFINE w == Entity(c)
           L == Len(w)
<1> SUFFICES ASSUME NEW s \in Text, NEW n \in Nat, NEW x \in Text,
                    Occurs(w, s, n), Reading(s)[n] = At1(x, n + 1)
             PROVE  Reading(s)[n + L] = At1(x \o <<c>>, (n + L) + 1)
  BY Zenon DEF Reads, ReadsAt
<1> DEFINE y == At1(Append(x, c), (n + 1) + L)
           T == { k \in 0 .. L - 1 : Reading(s)[(n + 1) + k] = y }
<1>1. L \in 4 .. 6 /\ Len(s) \in Nat /\ n + L <= Len(s) /\ c \in Char
  <2>1. c \in Char
    BY CharAssumption, Zenon DEF Escaped
  <2> QED
    BY <2>1, EntityChars, LenProperties, Zenon DEF Occurs, Text
<1> HIDE DEF w, L
<1>2. /\ n + 1 \in 1 .. Len(s) /\ (n + 1) - 1 = n /\ ~(n + 1 < n + 1) /\ (n + 1) + 0 = n + 1 /\ 0 \in 0 .. L - 1
      /\ L - 1 \in 0 .. L - 1 /\ L - 1 \in Nat /\ (n + 1) + (L - 1) = n + L /\ (n + 1) + L = (n + L) + 1
  BY <1>1, SMT
<1>3. Reading(s)[n + 1] = y
  <2>1. Reading(s)[n + 1] = ReadOn(s, n + 1, At1(x, n + 1))
    BY <1>2, ReadingFacts, Zenon
  <2>2. ReadOn(s, n + 1, At1(x, n + 1)) = At1(Append(x, c), (n + 1) + L)
    <3> DEFINE r == At1(x, n + 1)
    <3>1. r.found = x /\ r.next = n + 1
      BY ReaderFields, Zenon
    <3> HIDE DEF r
    <3>2. ~(n + 1 < r.next) /\ Occurs(Entity(c), s, (n + 1) - 1)
      BY <1>2, <3>1, Zenon DEF w
    <3>3. ReadOn(s, n + 1, r) = At1(Append(r.found, c), (n + 1) + Len(Entity(c)))
      BY <1>2, <3>2, ReadEntity, Zenon
    <3> QED
      BY <3>1, <3>3, Zenon DEF r, w, L
  <2> QED
    BY <2>1, <2>2, Zenon
<1>4. 0 \in T
  BY <1>2, <1>3, Zenon
<1>5. ASSUME NEW k \in 1 .. L - 1, k - 1 \in T PROVE k \in T
  <2>1. /\ (n + 1) + k \in 1 .. Len(s) /\ ((n + 1) + k) - 1 = (n + 1) + (k - 1)
        /\ (n + 1) + k < (n + 1) + L /\ k \in 0 .. L - 1
    BY <1>1, SMT
  <2>2. Reading(s)[(n + 1) + k] = ReadOn(s, (n + 1) + k, y)
    BY <1>5, <2>1, ReadingFacts, Zenon
  <2>3. ReadOn(s, (n + 1) + k, y) = y
    <3>1. y.next = (n + 1) + L
      BY ReaderFields, Zenon
    <3> HIDE DEF y
    <3>2. (n + 1) + k < y.next
      BY <2>1, <3>1, Zenon
    <3> QED
      BY <3>2, Zenon DEF ReadOn
  <2> QED
    BY <2>1, <2>2, <2>3, Zenon
<1>6. \A k \in 0 .. L - 1 : k \in T
  <2> HIDE DEF T
  <2> QED
    BY <1>2, <1>4, <1>5, UpTo, Zenon
<1>7. Reading(s)[(n + 1) + (L - 1)] = y
  BY <1>2, <1>6, Zenon
<1> QED
  BY <1>1, <1>2, <1>7, AppendSingle, Zenon

\* What xml_append_string_escaped appends is read as the text, and has no markup.
LEMMA ReadsEscaped ==
  ASSUME NEW x \in Text
  PROVE  string_escaped(x) \in Text /\ Reads(string_escaped(x), x) /\ Kept(string_escaped(x)) = Kept(<<>>)
<1> DEFINE N == Len(x)
           a == [k \in 1 .. N |-> Entity(x[k])]
           b == [k \in 1 .. N |-> <<x[k]>>]
<1>1. N \in Nat /\ \A k \in 1 .. N : x[k] \in Char
  BY LenProperties, ElementOfSeq, Zenon DEF Text
<1>2. b \in Seq(Text) /\ Len(b) = N /\ All(b) = x
  BY AllSingles, Zenon DEF Text
<1>9. <<>> \in Text /\ Len(<<>>) = 0 /\ 1 .. 0 = {}
  <2>1. 1 .. 0 = {}
    BY SMT
  <2> QED
    BY <2>1, EmptySeq, Zenon DEF Text
<1>10. Kept(<<>>) = <<>>
  BY <1>9, KeptNone, Zenon
<1>3. ASSUME NEW c \in Char PROVE Entity(c) \in Text /\ Reads(Entity(c), <<c>>) /\ Kept(Entity(c)) = <<>>
  <2>1. CASE c \in Escaped
    BY <2>1, EntityChars, ReadsEntity, KeptNone, Zenon DEF Text
  <2>2. CASE c \notin Escaped
    <3>1. Entity(c) = <<c>> /\ c # "&" /\ ~IsMarkup(c)
      <4>1. c # "&" /\ ~IsMarkup(c)
        BY <2>2, Zenon DEF Escaped, IsMarkup
      <4> QED
        BY <2>2, <4>1, EntityOther, Zenon
    <3>2. <<c>> \in Text /\ Len(<<c>>) = 1 /\ <<c>>[1] = c /\ \A k \in 1 .. 1 : k = 1
      <4>1. \A k \in 1 .. 1 : k = 1
        BY SMT
      <4> QED
        BY <4>1, Single, Zenon
    <3>3. Kept(<<c>>) = <<>>
      <4>1. \A k \in 1 .. Len(<<c>>) : ~IsMarkup(<<c>>[k])
        BY <3>1, <3>2, Zenon
      <4> QED
        BY <3>2, <4>1, KeptNone, Zenon
    <3>4. Reads(<<c>>, <<c>>)
      BY <3>1, ReadsCharacter, Zenon
    <3> QED
      BY <3>1, <3>2, <3>3, <3>4, Zenon
  <2> QED
    BY <2>1, <2>2, Zenon
<1>4. a \in [1 .. N -> Text]
  BY <1>1, <1>3, Zenon
<1>5. /\ \A k \in 1 .. N : Reads(a[k], b[k])
      /\ \A k \in 1 .. N : Kept(a[k]) = <<>>
  BY <1>1, <1>3, Zenon
<1>6. string_escaped(x) = All(a)
  BY Zenon DEF string_escaped
<1> HIDE DEF a, b
<1>7. a \in Seq(Text) /\ Len(a) = N
  BY <1>1, <1>4, FunctionSeq, Zenon
<1>8. All(a) \in Text /\ Reads(All(a), All(b))
  BY <1>2, <1>5, <1>7, ReadsJoined, Zenon
<1>11. Kept(All(a)) = <<>>
  BY <1>5, <1>7, KeptAllNone, Zenon
<1> QED
  BY <1>2, <1>6, <1>8, <1>10, <1>11, Zenon

\* A reader of a whole text
LEMMA ReadsAll ==
  ASSUME NEW w \in Text, NEW t \in Text, Reads(w, t)
  PROVE  AsRead(w) = Seen(t)
<1>1. Len(w) \in Nat /\ Reading(w)[0] = At1(<<>>, 1)
  BY ReadingFacts, Zenon
<1>2. 0 \in Nat /\ 0 + 1 = 1 /\ 0 + Len(w) = Len(w)
  BY <1>1, SMT
<1>3. Occurs(w, w, 0) /\ <<>> \in Text
  BY OccursAll, EmptySeq, Zenon DEF Text
<1>4. Reading(w)[0 + Len(w)] = At1(<<>> \o t, (0 + Len(w)) + 1)
  BY <1>1, <1>2, <1>3, Zenon DEF Reads, ReadsAt
<1>5. <<>> \o t = t
  BY ConcatEmptySeq, Zenon DEF Text
<1> QED
  <2> DEFINE r == Reading(w)[Len(w)]
  <2>1. r = At1(t, Len(w) + 1)
    BY <1>2, <1>4, <1>5, Zenon
  <2>2. r.found = t
    <3> HIDE DEF r
    <3> QED
      BY <2>1, ReaderFields, Zenon
  <2> QED
    BY <2>2, Zenon DEF AsRead

-----------------------------------------------------------------------------
(* Characters that XML does not allow                                      *)

LEMMA LegalConcat ==
  ASSUME NEW x \in Text, NEW y \in Text
  PROVE  Legal(x \o y) <=> Legal(x) /\ Legal(y)
<1>1. /\ Len(x) \in Nat /\ Len(y) \in Nat /\ Len(x \o y) = Len(x) + Len(y)
      /\ \A k \in 1 .. Len(x) + Len(y) : (x \o y)[k] = IF k <= Len(x) THEN x[k] ELSE y[k - Len(x)]
  BY LenProperties, ConcatProperties, Zenon DEF Text
<1> DEFINE z == x \o y
           a == Len(x)
           b == Len(y)
<1> HIDE DEF z, a, b
<1>2. /\ a \in Nat /\ b \in Nat /\ Len(z) = a + b
      /\ \A k \in 1 .. a + b : z[k] = IF k <= a THEN x[k] ELSE y[k - a]
  BY <1>1, Zenon DEF z, a, b
<1>3. ASSUME NEW k \in 1 .. a PROVE k \in 1 .. a + b /\ z[k] = x[k]
  <2>1. k \in 1 .. a + b /\ k <= a
    BY <1>2, SMT
  <2> QED
    BY <1>2, <2>1, Zenon
<1>4. ASSUME NEW k \in 1 .. b PROVE a + k \in 1 .. a + b /\ z[a + k] = y[k]
  <2>1. a + k \in 1 .. a + b /\ ~(a + k <= a) /\ (a + k) - a = k
    BY <1>2, SMT
  <2> QED
    BY <1>2, <2>1, Zenon
<1>5. ASSUME NEW k \in 1 .. a + b, ~(k <= a) PROVE k - a \in 1 .. b
  BY <1>2, <1>5, SMT
<1>6. ASSUME NEW k \in 1 .. a + b, k <= a PROVE k \in 1 .. a
  BY <1>2, <1>6, SMT
<1> QED
  BY <1>2, <1>3, <1>4, <1>5, <1>6, Zenon DEF Legal, z, a, b

\* Texts that agree in each part on whether a reader takes them agree as a whole.
LEMMA LegalJoined ==
  ASSUME NEW a \in Seq(Text), NEW b \in Seq(Text), Len(a) = Len(b),
         \A k \in 1 .. Len(a) : Legal(a[k]) <=> Legal(b[k])
  PROVE  Legal(All(a)) <=> Legal(All(b))
<1> DEFINE N == Len(a)
           T == { n \in 0 .. N : Legal(Joined(a)[n]) <=> Legal(Joined(b)[n]) }
<1>1. /\ N \in Nat /\ Joined(a) \in [0 .. N -> Text] /\ Joined(b) \in [0 .. N -> Text]
      /\ Joined(a)[0] = <<>> /\ Joined(b)[0] = <<>>
      /\ \A n \in 1 .. N : a[n] \in Text /\ Joined(a)[n] = Joined(a)[n - 1] \o a[n]
      /\ \A n \in 1 .. N : b[n] \in Text /\ Joined(b)[n] = Joined(b)[n - 1] \o b[n]
  BY JoinedFacts, Zenon DEF Text
<1>2. 0 \in 0 .. N /\ N \in 0 .. N /\ \A n \in 1 .. N : n \in 0 .. N /\ n - 1 \in 0 .. N
  BY <1>1, SMT
<1>3. 0 \in T
  BY <1>1, <1>2, Zenon
<1>4. ASSUME NEW n \in 1 .. N, n - 1 \in T PROVE n \in T
  <2>1. /\ Joined(a)[n - 1] \in Text /\ Joined(b)[n - 1] \in Text
        /\ Legal(Joined(a)[n - 1]) <=> Legal(Joined(b)[n - 1])
    BY <1>1, <1>2, <1>4, Zenon
  <2>2. /\ a[n] \in Text /\ Joined(a)[n] = Joined(a)[n - 1] \o a[n]
        /\ b[n] \in Text /\ Joined(b)[n] = Joined(b)[n - 1] \o b[n]
    BY <1>1, Zenon
  <2>3. Legal(Joined(a)[n - 1] \o a[n]) <=> Legal(Joined(a)[n - 1]) /\ Legal(a[n])
    BY <2>1, <2>2, LegalConcat, Zenon
  <2>4. Legal(Joined(b)[n - 1] \o b[n]) <=> Legal(Joined(b)[n - 1]) /\ Legal(b[n])
    BY <2>1, <2>2, LegalConcat, Zenon
  <2> QED
    <3>1. Legal(Joined(a)[n]) <=> Legal(Joined(b)[n])
      <4>1. Legal(a[n]) <=> Legal(b[n])
        BY Zenon
      <4> QED
        BY <2>1, <2>2, <2>3, <2>4, <4>1, Zenon
    <3> QED
      BY <1>2, <3>1, Zenon
<1>5. \A n \in 0 .. N : n \in T
  <2> HIDE DEF T, N
  <2> QED
    BY <1>1, <1>3, <1>4, UpTo, Zenon
<1> QED
  BY <1>2, <1>5, Zenon DEF All

\* Escaping neither adds nor takes away a character that is not allowed.
LEMMA LegalEscaped ==
  ASSUME NEW x \in Text
  PROVE  Legal(string_escaped(x)) <=> Legal(x)
<1> DEFINE N == Len(x)
           a == [k \in 1 .. N |-> Entity(x[k])]
           b == [k \in 1 .. N |-> <<x[k]>>]
<1>1. N \in Nat /\ \A k \in 1 .. N : x[k] \in Char
  BY LenProperties, ElementOfSeq, Zenon DEF Text
<1>2. b \in Seq(Text) /\ Len(b) = N /\ All(b) = x
  BY AllSingles, Zenon DEF Text
<1>3. ASSUME NEW c \in Char PROVE Entity(c) \in Text /\ (Legal(Entity(c)) <=> Legal(<<c>>))
  <2>1. CASE c \in Escaped
    <3>1. c \notin Illegal
      BY <2>1, SMT DEF Escaped, Illegal
    <3>2. Legal(Entity(c)) /\ Entity(c) \in Text
      BY <2>1, EntityChars, Zenon DEF Legal, Text
    <3>3. Len(<<c>>) = 1 /\ <<c>>[1] = c /\ \A k \in 1 .. 1 : k = 1
      <4>1. \A k \in 1 .. 1 : k = 1
        BY SMT
      <4> QED
        BY <4>1, Single, Zenon
    <3>4. Legal(<<c>>)
      BY <3>1, <3>3, Zenon DEF Legal
    <3> QED
      BY <3>2, <3>4, Zenon
  <2>2. CASE c \notin Escaped
    BY <2>2, EntityOther, Single, Zenon
  <2> QED
    BY <2>1, <2>2, Zenon
<1>4. a \in [1 .. N -> Text]
  BY <1>1, <1>3, Zenon
<1>5. \A k \in 1 .. N : Legal(a[k]) <=> Legal(b[k])
  BY <1>1, <1>3, Zenon
<1>6. string_escaped(x) = All(a)
  BY Zenon DEF string_escaped
<1> HIDE DEF a, b
<1>7. a \in Seq(Text) /\ Len(a) = N
  BY <1>1, <1>4, FunctionSeq, Zenon
<1> QED
  BY <1>2, <1>5, <1>6, <1>7, LegalJoined, Zenon

-----------------------------------------------------------------------------
(* Numbers                                                                 *)

LEMMA DigitTable ==
  /\ Digit[1] = "0" /\ \A v \in 0 .. 9 : v # 0 => Digit[v + 1] # "0"
  /\ \A v \in 0 .. 9 : Digit[v + 1] \notin {"tab", "newline", "quote", "&", "'", "<", ">"}
BY SMT DEF Digit

\* The value of a text of digits, as the recursion computes it
LEMMA ValueFacts ==
  ASSUME NEW d \in Text, \A k \in 1 .. Len(d) : \E v \in 0 .. 9 : d[k] = Digit[v + 1]
  PROVE  \E V \in [0 .. Len(d) -> Nat], w \in [1 .. Len(d) -> 0 .. 9] :
           /\ V[0] = 0 /\ V[Len(d)] = Value(d)
           /\ \A n \in 1 .. Len(d) : V[n] = 10 * V[n - 1] + w[n] /\ Digit[w[n] + 1] = d[n]
<1> DEFINE N == Len(d)
           w == [n \in 1 .. N |-> CHOOSE v \in 0 .. 9 : Digit[v + 1] = d[n]]
           step == [n \in 1 .. N |-> [a \in Nat |-> 10 * a + w[n]]]
           D(g) == g = [n \in 0 .. N |-> IF n = 0 THEN 0
                                         ELSE 10 * g[n - 1] + (CHOOSE v \in 0 .. 9 : Digit[v + 1] = d[n])]
           e == CHOOSE g : D(g)
<1>1. N \in Nat /\ 0 \in Nat
  BY LenProperties, SMT DEF Text
<1>2. w \in [1 .. N -> 0 .. 9] /\ \A n \in 1 .. N : Digit[w[n] + 1] = d[n]
  <2>1. ASSUME NEW n \in 1 .. N PROVE w[n] \in 0 .. 9 /\ Digit[w[n] + 1] = d[n]
    <3>1. PICK v \in 0 .. 9 : Digit[v + 1] = d[n]
      BY Zenon
    <3>2. w[n] = CHOOSE u \in 0 .. 9 : Digit[u + 1] = d[n]
      BY Zenon
    <3> QED
      BY <3>1, <3>2, Zenon
  <2> QED
    BY <2>1, Zenon
<1>10. Value(d) = e[N]
  BY Zenon DEF Value
<1>13. \A n \in 1 .. N : w[n] = CHOOSE v \in 0 .. 9 : Digit[v + 1] = d[n]
  BY Zenon
<1> HIDE DEF w, e
<1>3. step \in [1 .. N -> [Nat -> Nat]]
  <2>1. \A a \in Nat, v \in 0 .. 9 : 10 * a + v \in Nat
    BY SMT
  <2> QED
    BY <1>2, <2>1, Zenon
<1>4. PICK f : Iterated(f, N, Nat, 0, step)
  <2> HIDE DEF step, N
  <2> QED
    BY <1>1, <1>3, Iteration, Zenon
<1>5. ASSUME NEW n \in 0 .. N, n # 0 PROVE n \in 1 .. N
  BY <1>1, <1>5, SMT
<1>6. 0 \in 0 .. N /\ N \in 0 .. N /\ \A n \in 1 .. N : n \in 0 .. N /\ n # 0 /\ n - 1 \in 0 .. N
  BY <1>1, SMT
<1>7. D(f)
  <2>1. f \in [0 .. N -> Nat] /\ f[0] = 0 /\ \A n \in 1 .. N : f[n] = step[n][f[n - 1]]
    BY <1>4, Zenon DEF Iterated
  <2>2. ASSUME NEW n \in 1 .. N PROVE f[n] = 10 * f[n - 1] + w[n]
    BY <1>6, <2>1, Zenon
  <2>3. ASSUME NEW n \in 0 .. N
        PROVE  f[n] = IF n = 0 THEN 0 ELSE 10 * f[n - 1] + (CHOOSE v \in 0 .. 9 : Digit[v + 1] = d[n])
    <3>1. CASE n = 0
      BY <2>1, <3>1, Zenon
    <3>2. CASE n # 0
      <4>1. n \in 1 .. N
        BY <1>5, <3>2, Zenon
      <4>2. f[n] = 10 * f[n - 1] + w[n] /\ w[n] = CHOOSE v \in 0 .. 9 : Digit[v + 1] = d[n]
        BY <1>13, <2>2, <4>1, Zenon
      <4> QED
        BY <3>2, <4>2, Zenon
    <3> QED
      BY <3>1, <3>2, Zenon
  <2> QED
    BY <2>1, <2>3, Zenon
<1>8. D(e)
  <2> HIDE DEF D
  <2> QED
    BY <1>7, Zenon DEF e
<1>11. e[0] = 0 /\ \A n \in 1 .. N : e[n] = 10 * e[n - 1] + w[n]
  <2>1. \A n \in 0 .. N :
          e[n] = IF n = 0 THEN 0 ELSE 10 * e[n - 1] + (CHOOSE v \in 0 .. 9 : Digit[v + 1] = d[n])
    BY <1>8, Zenon
  <2>2. e[0] = 0
    BY <1>6, <2>1, Zenon
  <2>3. ASSUME NEW n \in 1 .. N PROVE e[n] = 10 * e[n - 1] + w[n]
    BY <1>6, <1>13, <2>1, Zenon
  <2> QED
    BY <2>2, <2>3, Zenon
<1>9. Iterated(e, N, Nat, 0, step)
  <2>2. \A n \in 1 .. N : e[n - 1] \in Nat => e[n] = step[n][e[n - 1]]
    BY <1>11, Zenon
  <2>3. e = [n \in 0 .. N |-> e[n]]
    BY <1>8, Zenon
  <2> HIDE DEF step, N, D
  <2> QED
    BY <1>1, <1>3, <1>11, <2>2, <2>3, Recursion, Zenon
<1>12. e \in [0 .. N -> Nat]
  BY <1>9, Zenon DEF Iterated
<1> QED
  BY <1>2, <1>10, <1>11, <1>12, Zenon

\* A text of digits that does not begin with a zero is what is appended for its value.
LEMMA DigitsOfValue ==
  ASSUME NEW d \in Text, Len(d) \in 1 .. MaxDigits,
         \A k \in 1 .. Len(d) : \E v \in 0 .. 9 : d[k] = Digit[v + 1], d[1] # "0"
  PROVE  Value(d) \in Nat /\ Value(d) # 0 /\ Digits(Value(d)) = d
<1> DEFINE N == Len(d)
           a == Value(d)
<1>1. PICK V \in [0 .. N -> Nat], w \in [1 .. N -> 0 .. 9] :
        /\ V[0] = 0 /\ V[N] = a
        /\ \A n \in 1 .. N : V[n] = 10 * V[n - 1] + w[n] /\ Digit[w[n] + 1] = d[n]
  BY ValueFacts, Zenon
<1>2. N \in Nat /\ N \in 1 .. MaxDigits /\ MaxDigits \in Nat
  BY LenProperties, MaxDigitsNat, Zenon DEF Text
<1> HIDE DEF N, a
<1>3. /\ 0 \in 0 .. N /\ N \in 0 .. N /\ 1 \in 1 .. N /\ 1 - 1 = 0 /\ N \in 0 .. MaxDigits /\ N - 0 = N /\ N - N = 0
      /\ 0 \in 0 .. MaxDigits
      /\ \A n \in 1 .. N : /\ n \in 0 .. N /\ n # 0 /\ n - 1 \in 0 .. N /\ n \in 1 .. MaxDigits /\ n - 1 \in Nat
                           /\ N - n \in 0 .. N /\ N - (N - n) = n /\ N - (n - 1) \in 1 .. N
                           /\ (N - (n - 1)) - 1 = N - n
  BY <1>2, SMT
<1>4. a \in Nat
  BY <1>1, <1>3, Zenon
<1>5. \A n \in 1 .. N : V[n] # 0
  <2> DEFINE T == { n \in 0 .. N : n = 0 \/ V[n] # 0 }
  <2>1. w[1] # 0
    <3>1. w[1] \in 0 .. 9 /\ Digit[w[1] + 1] = d[1]
      BY <1>1, <1>3, Zenon
    <3>2. w[1] = 0 => Digit[w[1] + 1] = "0"
      <4>1. 0 + 1 = 1
        BY SMT
      <4> QED
        BY <4>1, DigitTable, Zenon
    <3> QED
      BY <3>1, <3>2, Zenon
  <2>2. 0 \in T
    BY <1>3, Zenon
  <2>3. ASSUME NEW n \in 1 .. N, n - 1 \in T PROVE n \in T
    <3>1. /\ V[n] = 10 * V[n - 1] + w[n] /\ w[n] \in 0 .. 9 /\ V[n - 1] \in Nat /\ V[n] \in Nat
          /\ n \in 0 .. N /\ (n - 1 = 0 \/ V[n - 1] # 0)
      BY <1>1, <1>3, <2>3, Zenon
    <3>2. CASE V[n - 1] # 0
      <4>1. \A x \in Nat, y \in 0 .. 9 : x # 0 => 10 * x + y # 0
        BY SMT
      <4> QED
        BY <3>1, <3>2, <4>1, Zenon
    <3>3. CASE n - 1 = 0
      <4>1. n = 1
        BY <3>3, SMT
      <4>2. V[n] = 10 * 0 + w[1]
        BY <1>1, <3>1, <3>3, <4>1, Zenon
      <4>3. \A y \in 0 .. 9 : 10 * 0 + y = y
        BY SMT
      <4> QED
        BY <2>1, <3>1, <4>1, <4>2, <4>3, Zenon
    <3> QED
      BY <3>1, <3>2, <3>3, Zenon
  <2>4. \A n \in 0 .. N : n \in T
    <3> HIDE DEF T
    <3> QED
      BY <1>2, <2>2, <2>3, UpTo, Zenon
  <2> QED
    BY <1>3, <2>4, Zenon
<1>6. a # 0
  <2>1. N \in 1 .. N
    BY <1>2, SMT
  <2> QED
    BY <1>1, <1>5, <2>1, Zenon
<1>7. /\ Left(a) \in [0 .. MaxDigits -> Nat] /\ Left(a)[0] = a
      /\ \A n \in 1 .. MaxDigits : Left(a)[n] = Left(a)[n - 1] \div 10
  BY <1>4, LeftFacts, Zenon
<1>8. \A n \in 0 .. N : Left(a)[n] = V[N - n]
  <2> DEFINE T == { n \in 0 .. N : Left(a)[n] = V[N - n] }
  <2>1. 0 \in T
    BY <1>1, <1>3, <1>7, Zenon
  <2>2. ASSUME NEW n \in 1 .. N, n - 1 \in T PROVE n \in T
    <3> DEFINE j == N - (n - 1)
    <3>1. n \in 0 .. N /\ n \in 1 .. MaxDigits /\ j \in 1 .. N /\ j \in 0 .. N /\ j - 1 \in 0 .. N /\ j - 1 = N - n
      BY <1>2, SMT
    <3>2. Left(a)[n - 1] = V[j]
      BY <2>2, Zenon
    <3> HIDE DEF j
    <3>3. Left(a)[n] = V[j] \div 10
      BY <1>7, <3>1, <3>2, Zenon
    <3>4. V[j] = 10 * V[j - 1] + w[j] /\ w[j] \in 0 .. 9 /\ V[j - 1] \in Nat
      BY <1>1, <3>1, Zenon
    <3>5. \A x \in Nat, y \in 0 .. 9 : (10 * x + y) \div 10 = x
      BY SMT
    <3>6. (10 * V[j - 1] + w[j]) \div 10 = V[j - 1]
      BY <3>4, <3>5, Zenon
    <3> QED
      BY <3>1, <3>3, <3>4, <3>6, Zenon
  <2> HIDE DEF T
  <2>3. \A n \in 0 .. N : n \in T
    BY <1>2, <2>1, <2>2, UpTo, Zenon
  <2> QED
    BY <2>3, Zenon DEF T
<1>9. Left(a)[N] = 0
  BY <1>1, <1>3, <1>8, Zenon
<1>10. string_len(a) = N
  <2> DEFINE l == string_len(a)
  <2>1. l \in 1 .. N /\ Left(a)[l] = 0
    BY <1>3, <1>4, <1>6, <1>9, StringLen, Zenon
  <2> HIDE DEF l
  <2>2. l # N => l \in 0 .. N /\ N - l \in 1 .. N
    BY <1>2, <2>1, SMT
  <2>3. l = N
    BY <1>5, <1>8, <2>1, <2>2, Zenon
  <2> QED
    BY <2>3, Zenon DEF l
<1>11. /\ Digits(a) \in Seq(Char) /\ Len(Digits(a)) = N
       /\ \A k \in 1 .. N : Digits(a)[k] = Digit[(Left(a)[N - k] % 10) + 1]
  <2>1. N \in 0 .. MaxDigits
    BY <1>3, Zenon
  <2>2. /\ Digits(a) \in Seq(Char) /\ Len(Digits(a)) = string_len(a)
        /\ \A k \in 1 .. string_len(a) : Digits(a)[k] = Digit[(Left(a)[string_len(a) - k] % 10) + 1]
    BY <1>4, <1>6, <1>9, <2>1, DigitsFacts, Zenon
  <2> QED
    BY <1>10, <2>2, Zenon
<1>12. \A k \in 1 .. N : Digits(a)[k] = d[k]
  <2> SUFFICES ASSUME NEW k \in 1 .. N PROVE Digits(a)[k] = d[k]
    BY Zenon
  <2>1. Left(a)[N - k] = V[k]
    <3>1. N - k \in 0 .. N /\ N - (N - k) = k
      BY <1>2, SMT
    <3> QED
      BY <1>8, <3>1, Zenon
  <2>2. V[k] = 10 * V[k - 1] + w[k] /\ w[k] \in 0 .. 9 /\ V[k - 1] \in Nat /\ Digit[w[k] + 1] = d[k]
    BY <1>1, <1>3, Zenon
  <2>3. \A x \in Nat, y \in 0 .. 9 : (10 * x + y) % 10 = y
    BY SMT
  <2> QED
    <3>1. (10 * V[k - 1] + w[k]) % 10 = w[k]
      BY <2>2, <2>3, Zenon
    <3>2. Digits(a)[k] = Digit[(V[k] % 10) + 1]
      BY <1>11, <2>1, Zenon
    <3> QED
      BY <2>2, <3>1, <3>2, Zenon
<1>13. Digits(a) = d
  <2>1. d \in Seq(Char) /\ Len(d) = N
    BY Zenon DEF Text, N
  <2> QED
    BY <1>11, <1>12, <2>1, SeqEqual, Zenon
<1> QED
  BY <1>4, <1>6, <1>13, Zenon DEF a

\* The notation of a number is what xml_append_number appends, and has nothing to escape.
LEMMA DecimalIs ==
  ASSUME NEW t, NEW num \in Int, IsDecimal(t, num)
  PROVE  t \in Text /\ number(num) = t /\ \A k \in 1 .. Len(t) : t[k] \notin Escaped
<1> DEFINE d == IF num < 0 THEN Tail(t) ELSE t
<1>1. /\ t \in Text /\ t # <<>> /\ (num < 0 => t[1] = "-") /\ Len(d) \in 1 .. MaxDigits
      /\ \A k \in 1 .. Len(d) : \E v \in 0 .. 9 : d[k] = Digit[v + 1]
      /\ (num # 0 => d[1] # "0") /\ (num = 0 => Len(d) = 1)
      /\ Value(d) = IF num < 0 THEN -num ELSE num
  BY Zenon DEF IsDecimal
<1>2. d \in Text /\ Len(t) \in Nat /\ t \in Seq(Char)
      /\ (num < 0 => Len(d) = Len(t) - 1 /\ \A k \in 1 .. Len(d) : d[k] = t[k + 1])
  BY <1>1, HeadTailProperties, LenProperties, Zenon DEF Text
<1>3. ~(num < 0) => d = t
  BY Zenon
<1> HIDE DEF d
<1>4. \A k \in 1 .. Len(d) : d[k] \notin Escaped
  <2> SUFFICES ASSUME NEW k \in 1 .. Len(d) PROVE d[k] \notin Escaped
    BY Zenon
  <2>1. PICK v \in 0 .. 9 : d[k] = Digit[v + 1]
    BY <1>1, Zenon
  <2> QED
    BY <2>1, DigitTable, Zenon DEF Escaped
<1>5. CASE num = 0
  <2>1. ~(num < 0) /\ 1 .. 1 = {1} /\ 1 \in 1 .. 1 /\ 1 - 1 = 0 /\ 0 + 1 = 1 /\ \A y \in 0 .. 9 : 10 * 0 + y = y
    BY <1>5, SMT
  <2>2. d = t /\ Len(t) = 1 /\ Value(t) = 0
    BY <1>1, <1>3, <1>5, <2>1, Zenon
  <2>3. PICK V \in [0 .. Len(t) -> Nat], w \in [1 .. Len(t) -> 0 .. 9] :
          /\ V[0] = 0 /\ V[Len(t)] = Value(t)
          /\ \A n \in 1 .. Len(t) : V[n] = 10 * V[n - 1] + w[n] /\ Digit[w[n] + 1] = t[n]
    <3>1. \A k \in 1 .. Len(t) : \E v \in 0 .. 9 : t[k] = Digit[v + 1]
      BY <1>1, <2>2, Zenon
    <3> QED
      BY <1>1, <3>1, ValueFacts, Zenon
  <2>4. V[1] = 10 * V[1 - 1] + w[1] /\ Digit[w[1] + 1] = t[1] /\ w[1] \in 0 .. 9 /\ V[1] = 0
    BY <2>1, <2>2, <2>3, Zenon
  <2>5. w[1] = 0
    <3>1. V[1] = 10 * 0 + w[1] /\ 10 * 0 + w[1] = w[1]
      BY <2>1, <2>3, <2>4, Zenon
    <3> QED
      BY <2>4, <3>1, Zenon
  <2>6. t[1] = "0"
    BY <2>1, <2>4, <2>5, DigitTable, Zenon
  <2>7. t = <<"0">>
    <3> HIDE <1>1
    <3> QED
      BY <1>2, <2>2, <2>6, SMT
  <2> QED
    BY <1>1, <1>4, <1>5, <2>2, <2>7, Zenon DEF number
<1>6. CASE num # 0
  <2>1. Value(d) \in Nat /\ Value(d) # 0 /\ Digits(Value(d)) = d
    BY <1>1, <1>2, <1>6, DigitsOfValue, Zenon
  <2>2. CASE ~(num < 0)
    <3>1. number(num) = Digits(num) /\ Value(d) = num /\ d = t
      BY <1>1, <1>3, <1>6, <2>2, Zenon DEF number
    <3> QED
      BY <1>1, <1>4, <2>1, <3>1, Zenon
  <2>3. CASE num < 0
    <3> DEFINE m == <<"-">>
    <3>1. number(num) = m \o Digits(-num) /\ Value(d) = -num
      BY <1>1, <1>6, <2>3, Zenon DEF number
    <3>2. m \in Seq(Char) /\ Len(m) = 1 /\ m[1] = "-"
      BY Single, CharAssumption, Zenon DEF Text
    <3> HIDE DEF m
    <3>3. d \in Seq(Char) /\ Len(d) \in Nat /\ Len(d) = Len(t) - 1
      BY <1>2, <2>3, LenProperties, Zenon DEF Text
    <3>4. /\ m \o d \in Seq(Char) /\ Len(m \o d) = 1 + Len(d)
          /\ \A k \in 1 .. 1 + Len(d) : (m \o d)[k] = IF k <= 1 THEN m[k] ELSE d[k - 1]
      <4>1. /\ m \o d \in Seq(Char) /\ Len(m \o d) = Len(m) + Len(d)
            /\ \A k \in 1 .. Len(m) + Len(d) : (m \o d)[k] = IF k <= Len(m) THEN m[k] ELSE d[k - Len(m)]
        BY <3>2, <3>3, ConcatProperties, Zenon
      <4> QED
        BY <3>2, <4>1, Zenon
    <3>5. 1 + Len(d) = Len(t) /\ \A k \in 1 .. Len(t) : k # 1 => ~(k <= 1) /\ k - 1 \in 1 .. Len(d) /\ (k - 1) + 1 = k
      BY <1>2, <3>3, SMT
    <3>6. \A k \in 1 .. Len(t) : (m \o d)[k] = t[k] /\ t[k] \notin Escaped
      <4> SUFFICES ASSUME NEW k \in 1 .. Len(t) PROVE (m \o d)[k] = t[k] /\ t[k] \notin Escaped
        BY Zenon
      <4>1. (m \o d)[k] = IF k <= 1 THEN m[k] ELSE d[k - 1]
        BY <3>4, <3>5, Zenon
      <4>2. CASE k = 1
        <5>1. k <= 1 /\ "-" \notin Escaped
          BY <4>2, SMT DEF Escaped
        <5> QED
          BY <1>1, <2>3, <3>2, <4>1, <4>2, <5>1, Zenon
      <4>3. CASE k # 1
        <5>1. d[k - 1] = t[(k - 1) + 1] /\ d[k - 1] \notin Escaped
          BY <1>2, <1>4, <2>3, <3>5, <4>3, Zenon
        <5> QED
          BY <3>5, <4>1, <4>3, <5>1, Zenon
      <4> QED
        BY <4>2, <4>3, Zenon
    <3>7. m \o d = t
      BY <1>2, <3>4, <3>5, <3>6, SeqEqual, Zenon
    <3> QED
      BY <1>1, <2>1, <3>1, <3>6, <3>7, Zenon
  <2> QED
    BY <2>2, <2>3, Zenon
<1> QED
  BY <1>5, <1>6, Zenon

\* A text without anything to escape is appended as it is.
LEMMA NothingEscaped ==
  ASSUME NEW x \in Text, \A k \in 1 .. Len(x) : Entity(x[k]) = <<x[k]>>
  PROVE  string_escaped(x) = x
<1>1. [k \in 1 .. Len(x) |-> Entity(x[k])] = [k \in 1 .. Len(x) |-> <<x[k]>>]
  BY Zenon
<1>2. All([k \in 1 .. Len(x) |-> <<x[k]>>]) = x
  BY AllSingles, Zenon DEF Text
<1> QED
  BY <1>1, <1>2, Zenon DEF string_escaped

=============================================================================

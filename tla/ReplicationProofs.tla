-------------------------- MODULE ReplicationProofs --------------------------
(***************************************************************************)
(* What TLAPS proves of Replication for every set of clients and tags and  *)
(* every bound.                                                            *)
(***************************************************************************)
EXTENDS Replication, FiniteSetTheorems, TLAPS

----------------------------------------------------------------------------
(* Facts about bags.                                                       *)

LEMMA SumOfBags ==
    ASSUME NEW b, NEW c
    PROVE  BagToSet(b (+) c) = BagToSet(b) \cup BagToSet(c)
BY DEF BagToSet, (+)

LEMMA BagOfSet ==
    ASSUME NEW S
    PROVE  BagToSet(SetToBag(S)) = S
BY DEF BagToSet, SetToBag

LEMMA NothingInEmptyBag == BagToSet(EmptyBag) = {}
BY DEF BagToSet, EmptyBag, SetToBag

LEMMA OneMore ==
    ASSUME NEW b, NEW x
    PROVE  BagToSet(BagAdd(b, x)) = BagToSet(b) \cup {x}
BY DEF BagToSet, BagAdd

LEMMA OneLess ==
    ASSUME NEW b, NEW x
    PROVE  BagToSet(BagRemove(b, x)) \subseteq BagToSet(b)
BY DEF BagToSet, BagRemove

----------------------------------------------------------------------------
(* What a tick does, when it numbers f up to last and tells of the hits of *)
(* new besides the others.                                                 *)
Told(last, f, new) ==
    /\ world' = [n \in Alive \cup DOMAIN f |->
                   IF n \in Alive THEN Calmed(world)[n]
                   ELSE [tag |-> f[n], hit |-> FALSE]]
    /\ nextNum' = last + 1
    /\ net' = [k \in Keys |->
          IF k \in clients
          THEN net[k] (+) SetToBag(Spawns(f) \cup Deaths \cup Hits(new))
          ELSE net[k]]
    /\ announced' = [k \in Keys |->
          IF k \in clients THEN announced[k] \cup DOMAIN f
          ELSE announced[k]]
    /\ known' = DOMAIN world'

LEMMA ATick ==
    ASSUME Broadcast
    PROVE  \E last \in (nextNum - 1)..MaxNum : \E f \in Numbered(last) :
           \E new \in NewlyStruck(f) : Told(last, f, new)
BY DEF Broadcast, Told

----------------------------------------------------------------------------
(* What a newcomer is told.                                                *)

(* The clients told are in the room and past their join; every tick        *)
(* announces what it numbers to all of them.                               *)
ToldInv == /\ told \subseteq clients \ joining
           /\ joining \subseteq clients
           /\ clients \subseteq Keys
           /\ announced = [k \in Keys |-> announced[k]]
           /\ NewcomersMissNothing

LEMMA ToldInit == Init => ToldInv
BY DEF Init, ToldInv, NewcomersMissNothing, Alive

LEMMA ToldNext == ToldInv /\ [Next]_vars => ToldInv'
<1> SUFFICES ASSUME ToldInv, [Next]_vars
             PROVE  ToldInv'
    OBVIOUS
<1> USE DEF ToldInv, NewcomersMissNothing, Alive
<1>1. ASSUME NEW tag \in Tags, Appear(tag)
      PROVE  ToldInv'
    BY <1>1 DEF Appear, past
<1>2. ASSUME NEW n \in Alive, Hit(n)
      PROVE  ToldInv'
    BY <1>2 DEF Hit, past
<1>14. CASE HitEarly
    BY <1>14 DEF HitEarly, past
<1>3. CASE Perish
    BY <1>3 DEF Perish, past
<1>4. CASE NewRoom
    BY <1>4 DEF NewRoom, past
<1>5. CASE Broadcast
  <2>0. PICK last \in (nextNum - 1)..MaxNum : \E f \in Numbered(last) :
           \E new \in NewlyStruck(f) : Told(last, f, new)
      BY <1>5, ATick
  <2>f. PICK f \in Numbered(last) : \E new \in NewlyStruck(f) : Told(last, f, new)
      BY <2>0
  <2>n. PICK new \in NewlyStruck(f) : Told(last, f, new)
      BY <2>f
  <2>1. /\ world' = [n \in Alive \cup DOMAIN f |->
                       IF n \in Alive THEN Calmed(world)[n]
                       ELSE [tag |-> f[n], hit |-> FALSE]]
        /\ announced' = [k \in Keys |->
              IF k \in clients THEN announced[k] \cup DOMAIN f
              ELSE announced[k]]
      BY <2>n DEF Told
  <2>2. UNCHANGED <<clients, joining, told>>
      BY <1>5 DEF Broadcast
  <2> QED
      BY <2>1, <2>2
<1>6. ASSUME NEW k \in Keys, Join(k)
      PROVE  ToldInv'
    BY <1>6 DEF Join
<1>7. ASSUME NEW k \in Keys, SendInitialState(k)
      PROVE  ToldInv'
    BY <1>7 DEF SendInitialState, Announce
<1>8. ASSUME NEW k \in Keys, Leave(k)
      PROVE  ToldInv'
    BY <1>8 DEF Leave
<1>9. ASSUME NEW k \in Keys, ClearRegistry(k)
      PROVE  ToldInv'
    BY <1>9 DEF ClearRegistry, server
<1>10. ASSUME NEW k \in Keys, Receive(k)
       PROVE  ToldInv'
    BY <1>10 DEF Receive, HandleSpawn, HandleDestroy, HandleMove, Received, server
<1>11. ASSUME NEW k \in Keys, NEW c, FlyOff(k, c)
       PROVE  ToldInv'
    BY <1>11 DEF FlyOff, server
<1>12. CASE Udp
    BY <1>12 DEF Udp, Lose, Double, Fault, server
<1>13. CASE UNCHANGED vars
    BY <1>13 DEF vars, server, past
<1> QED
    BY <1>1, <1>2, <1>3, <1>4, <1>5, <1>6, <1>7, <1>8, <1>9, <1>10, <1>11,
       <1>12, <1>13, <1>14 DEF Next, Room, Clients

(* Whoever has had the initial state has been told of every entity with a  *)
(* number (send_initial_state against BroadcastSystem::update).            *)
THEOREM NewcomersAreTold == Spec => []NewcomersMissNothing
<1>1. ToldInv => NewcomersMissNothing
    BY DEF ToldInv
<1> QED
    BY <1>1, ToldInit, ToldNext, PTL DEF Spec

----------------------------------------------------------------------------
(* What kind of entity a client takes a number for.                        *)

(* A copy or a message that says what it must of an entity the room has.   *)
Right(n, type, sub) ==
    /\ n \in Int /\ n < nextNum
    /\ n \in Alive /\ world[n].tag # "Boss_2_Projectile_2" =>
          type = TypeOf(world[n].tag) /\ sub = SubTypeWhenSpawned(world[n].tag)

RightOnTheWay(k) == \A m \in BagToSet(net[k]) :
    m.is = "spawn" /\ m.num \notin odd[k] => Right(m.num, m.type, m.sub)

RightOnScreen(k) == \A c \in BagToSet(shown[k]) :
    c.num \notin odd[k] => Right(c.num, c.type, c.sub)

(* Numbers are given upwards, so nothing a client has can be of an entity  *)
(* that has its number later.                                              *)
KindInv == /\ nextNum \in Int
           /\ Alive \subseteq Int /\ \A n \in Alive : n < nextNum
           /\ \A n \in Alive : world[n] = [tag |-> world[n].tag, hit |-> world[n].hit]
           /\ joining \subseteq clients /\ told \subseteq clients
           /\ clients \subseteq Keys
           /\ net = [k \in Keys |-> net[k]]
           /\ shown = [k \in Keys |-> shown[k]]
           /\ odd = [k \in Keys |-> odd[k]]
           /\ \A k \in clients : RightOnTheWay(k) /\ RightOnScreen(k)

LEMMA KindInit == Init => KindInv
BY DEF Init, KindInv, Alive

(* A step that adds no entity, takes no number back and changes no tag     *)
(* leaves what was right right.                                            *)
LEMMA StaysRight ==
    ASSUME nextNum' = nextNum, Alive' \subseteq Alive,
           \A n \in Alive' : world'[n].tag = world[n].tag,
           NEW n, NEW type, NEW sub, Right(n, type, sub)
    PROVE  Right(n, type, sub)'
BY DEF Right

(* A client that gets nothing new, while the room stays as it is.          *)
LEMMA LessIsRight ==
    ASSUME UNCHANGED <<world, nextNum>>, NEW k,
           BagToSet(net'[k]) \subseteq BagToSet(net[k]),
           BagToSet(shown'[k]) \subseteq BagToSet(shown[k]),
           odd[k] \subseteq odd'[k],
           RightOnTheWay(k), RightOnScreen(k)
    PROVE  RightOnTheWay(k)' /\ RightOnScreen(k)'
<1>1. RightOnTheWay(k)'
    BY DEF RightOnTheWay, Right, Alive
<1>2. RightOnScreen(k)'
    BY DEF RightOnScreen, Right, Alive
<1> QED
    BY <1>1, <1>2

LEMMA KindNext == KindInv /\ [Next]_vars => KindInv'
<1> SUFFICES ASSUME KindInv, [Next]_vars
             PROVE  KindInv'
    OBVIOUS
<1>0. /\ nextNum \in Int
      /\ Alive \subseteq Int /\ \A n \in Alive : n < nextNum
      /\ \A n \in Alive : world[n] = [tag |-> world[n].tag, hit |-> world[n].hit]
      /\ joining \subseteq clients /\ told \subseteq clients
      /\ clients \subseteq Keys
      /\ net = [k \in Keys |-> net[k]]
      /\ shown = [k \in Keys |-> shown[k]]
      /\ odd = [k \in Keys |-> odd[k]]
      /\ \A k \in clients : RightOnTheWay(k) /\ RightOnScreen(k)
    BY DEF KindInv
<1>same. ASSUME UNCHANGED <<world, nextNum, clients, joining, net, shown, odd, told>>
         PROVE  KindInv'
  <2>1. ASSUME NEW k \in clients
        PROVE  RightOnTheWay(k)' /\ RightOnScreen(k)'
      BY <1>0, <1>same, LessIsRight
  <2> QED
      BY <1>0, <1>same, <2>1 DEF KindInv, Alive
<1>1. ASSUME NEW tag \in Tags, Appear(tag)
      PROVE  KindInv'
    BY <1>same, <1>1 DEF Appear, past, screen
<1>2. ASSUME NEW n \in Alive, Hit(n)
      PROVE  KindInv'
  <2>1. /\ Alive' = Alive
        /\ \A m \in Alive' :
              /\ world'[m].tag = world[m].tag
              /\ world'[m] = [tag |-> world'[m].tag, hit |-> world'[m].hit]
    <3>1. world' = [world EXCEPT ![n].hit = TRUE]
        BY <1>2 DEF Hit
    <3>2. Alive' = Alive
        BY <3>1 DEF Alive
    <3>3. ASSUME NEW m \in Alive
          PROVE  world'[m] = world[m] \/ world'[m] = [world[m] EXCEPT !.hit = TRUE]
        BY <3>1 DEF Alive
    <3>4. ASSUME NEW m \in Alive
          PROVE  world[m] = [tag |-> world[m].tag, hit |-> world[m].hit]
        BY <1>0
    <3> QED
        BY <3>2, <3>3, <3>4
  <2>2. UNCHANGED <<nextNum, clients, joining, net, shown, odd, told>>
      BY <1>2 DEF Hit, screen, past
  <2> QED
      BY <1>0, <2>1, <2>2, StaysRight DEF KindInv, RightOnTheWay, RightOnScreen
<1>14. CASE HitEarly
    BY <1>same, <1>14 DEF HitEarly, past, screen
<1>3. CASE Perish
  <2>1. /\ Alive' \subseteq Alive
        /\ \A m \in Alive' :
              /\ world'[m].tag = world[m].tag
              /\ world'[m] = [tag |-> world'[m].tag, hit |-> world'[m].hit]
      BY <1>0, <1>3 DEF Perish, Alive
  <2>2. UNCHANGED <<nextNum, clients, joining, net, shown, odd, told>>
      BY <1>3 DEF Perish, screen, past
  <2> QED
      BY <1>0, <2>1, <2>2, StaysRight DEF KindInv, RightOnTheWay, RightOnScreen
<1>4. CASE NewRoom
    BY <1>0, <1>4 DEF NewRoom, KindInv, Alive, screen, past
<1>5. CASE Broadcast
  <2>0. PICK last \in (nextNum - 1)..MaxNum : \E f \in Numbered(last) :
           \E new \in NewlyStruck(f) : Told(last, f, new)
      BY <1>5, ATick
  <2>f. PICK f \in Numbered(last) : \E new \in NewlyStruck(f) : Told(last, f, new)
      BY <2>0
  <2>n. PICK new \in NewlyStruck(f) : Told(last, f, new)
      BY <2>f
  <2>1. /\ world' = [n \in Alive \cup DOMAIN f |->
                       IF n \in Alive THEN Calmed(world)[n]
                       ELSE [tag |-> f[n], hit |-> FALSE]]
        /\ nextNum' = last + 1
        /\ net' = [k \in Keys |->
              IF k \in clients
              THEN net[k] (+) SetToBag(Spawns(f) \cup Deaths \cup Hits(new))
              ELSE net[k]]
      BY <2>n DEF Told
  <2>2. UNCHANGED <<clients, joining, told, shown, odd>>
      BY <1>5 DEF Broadcast, screen
  <2>3. DOMAIN f = nextNum..last
      BY DEF Numbered
  <2>4. nextNum \in Int /\ last \in Int /\ last >= nextNum - 1
      BY <1>0, ReplicationAssumption
  <2>5. /\ nextNum' \in Int /\ Alive' \subseteq Int
        /\ \A n \in Alive' : n < nextNum'
        /\ nextNum <= nextNum'
      BY <1>0, <2>1, <2>3, <2>4 DEF Alive
  <2>6. /\ Alive' = Alive \cup DOMAIN f
        /\ \A n \in Alive : world'[n] = [world[n] EXCEPT !.hit = FALSE]
        /\ \A n \in DOMAIN f : n \notin Alive /\ world'[n] = [tag |-> f[n], hit |-> FALSE]
      BY <1>0, <2>1, <2>3, <2>4 DEF Alive, Calmed
  <2>7. /\ \A n \in Alive : world'[n].tag = world[n].tag
        /\ \A n \in DOMAIN f : world'[n].tag = f[n]
        /\ \A n \in Alive' : world'[n] = [tag |-> world'[n].tag, hit |-> world'[n].hit]
    <3>1. ASSUME NEW n \in Alive
          PROVE  /\ world'[n].tag = world[n].tag
                 /\ world'[n] = [tag |-> world'[n].tag, hit |-> world'[n].hit]
        BY <1>0, <2>6
    <3>2. ASSUME NEW n \in DOMAIN f
          PROVE  /\ world'[n].tag = f[n]
                 /\ world'[n] = [tag |-> world'[n].tag, hit |-> world'[n].hit]
      <4>1. world'[n] = [tag |-> f[n], hit |-> FALSE]
          BY <2>6
      <4> QED
          BY <4>1
    <3> QED
        BY <2>6, <3>1, <3>2
  <2>8. ASSUME NEW n, NEW type, NEW sub, Right(n, type, sub)
        PROVE  Right(n, type, sub)'
      BY <1>0, <2>3, <2>4, <2>5, <2>6, <2>7, <2>8 DEF Right
  <2>9. ASSUME NEW n \in DOMAIN f
        PROVE  Right(n, TypeOf(f[n]), SubTypeWhenSpawned(f[n]))'
    <3>1. n \in Int /\ n < nextNum'
        BY <2>1, <2>3, <2>4
    <3>2. world'[n].tag = f[n]
        BY <2>7
    <3> QED
        BY <3>1, <3>2 DEF Right
  <2>10. ASSUME NEW k \in clients
         PROVE  RightOnTheWay(k)'
    <3> SUFFICES ASSUME NEW m \in BagToSet(net'[k]), m.is = "spawn", m.num \notin odd[k]
                 PROVE  Right(m.num, m.type, m.sub)'
        BY <2>2 DEF RightOnTheWay
    <3>1. m \in BagToSet(net[k]) \cup (Spawns(f) \cup Deaths \cup Hits(new))
        BY <1>0, <2>1, SumOfBags, BagOfSet
    <3>2. CASE m \in BagToSet(net[k])
        BY <1>0, <2>8, <3>2 DEF RightOnTheWay
    <3>3. CASE m \in Spawns(f)
        BY <2>9, <3>3 DEF Spawns, SpawnMsg
    <3>4. CASE m \in Deaths \cup Hits(new)
      <4>1. \A n : DestroyMsg(n).is = "destroy" /\ HitMsg(n).is = "hit"
          BY DEF DestroyMsg, HitMsg
      <4>2. m.is = "destroy" \/ m.is = "hit"
          BY <3>4, <4>1 DEF Deaths, Hits
      <4> QED
          BY <4>2
    <3> QED
        BY <3>1, <3>2, <3>3, <3>4
  <2>11. ASSUME NEW k \in clients
         PROVE  RightOnScreen(k)'
      BY <1>0, <2>2, <2>8 DEF RightOnScreen
  <2> QED
      BY <1>0, <2>1, <2>2, <2>5, <2>7, <2>10, <2>11 DEF KindInv
<1>6. ASSUME NEW k \in Keys, Join(k)
      PROVE  KindInv'
  <2>1. RightOnTheWay(k)' /\ RightOnScreen(k)'
      BY <1>0, <1>6 DEF Join, On, RightOnTheWay, RightOnScreen, screen
  <2>2. ASSUME NEW l \in clients
        PROVE  RightOnTheWay(l)' /\ RightOnScreen(l)'
      BY <1>0, <1>6 DEF Join, RightOnTheWay, RightOnScreen, screen, Right, Alive
  <2> QED
      BY <1>0, <1>6, <2>1, <2>2 DEF Join, KindInv, Alive, screen
<1>7. ASSUME NEW k \in Keys, SendInitialState(k)
      PROVE  KindInv'
  <2> DEFINE all == {SpawnMsg(n, world[n].tag, SubTypeForNewcomer(world[n].tag)) :
                       n \in Alive}
  <2>1. /\ net' = [net EXCEPT ![k] = @ (+) SetToBag(all)]
        /\ odd' = [odd EXCEPT ![k] = @ \cup (Alive \cap announced[k])]
        /\ joining' = joining \ {k} /\ told' = told \cup {k} /\ k \in joining
        /\ UNCHANGED <<world, nextNum, clients, shown>>
      BY <1>7 DEF SendInitialState, Announce, screen
  <2>2. ASSUME NEW m \in all
        PROVE  Right(m.num, m.type, m.sub)
      BY <1>0 DEF Right, SpawnMsg, SubTypeForNewcomer, SubTypeWhenSpawned
  <2>3. ASSUME NEW l \in clients
        PROVE  RightOnTheWay(l)'
    <3> SUFFICES ASSUME NEW m \in BagToSet(net'[l]), m.is = "spawn", m.num \notin odd'[l]
                 PROVE  Right(m.num, m.type, m.sub)
        BY <2>1 DEF RightOnTheWay, Right, Alive
    <3>1. odd[l] \subseteq odd'[l]
        BY <1>0, <2>1
    <3>2. m \in BagToSet(net[l]) \/ m \in all
        BY <1>0, <2>1, SumOfBags, BagOfSet
    <3> QED
        BY <1>0, <2>2, <3>1, <3>2 DEF RightOnTheWay
  <2>4. ASSUME NEW l \in clients
        PROVE  RightOnScreen(l)'
      BY <1>0, <2>1 DEF RightOnScreen, Right, Alive
  <2> QED
      BY <1>0, <2>1, <2>3, <2>4 DEF KindInv, Alive
<1>8. ASSUME NEW k \in Keys, Leave(k)
      PROVE  KindInv'
    BY <1>0, <1>8 DEF Leave, KindInv, RightOnTheWay, RightOnScreen, Right, Alive, screen
<1>9. ASSUME NEW k \in Keys, ClearRegistry(k)
      PROVE  KindInv'
  <2>1. /\ shown' = [shown EXCEPT ![k] = EmptyBag] /\ told' \subseteq told
        /\ UNCHANGED <<world, nextNum, clients, joining, net, odd>>
      BY <1>9 DEF ClearRegistry, server
  <2>2. ASSUME NEW l \in clients
        PROVE  BagToSet(shown'[l]) \subseteq BagToSet(shown[l])
      BY <1>0, <2>1, NothingInEmptyBag
  <2>3. ASSUME NEW l \in clients
        PROVE  RightOnTheWay(l)' /\ RightOnScreen(l)'
      BY <1>0, <2>1, <2>2, LessIsRight
  <2> QED
      BY <1>0, <2>1, <2>3 DEF KindInv, Alive
<1>10. ASSUME NEW k \in Keys, Receive(k)
       PROVE  KindInv'
  <2>1. PICK m \in BagToSet(net[k]) :
           HandleSpawn(k, m) \/ HandleDestroy(k, m) \/ HandleMove(k, m)
      BY <1>10 DEF Receive
  <2>2. /\ net' = [net EXCEPT ![k] = BagRemove(@, m)]
        /\ odd' = [odd EXCEPT ![k] = odd'[k]] /\ odd[k] \subseteq odd'[k]
        /\ UNCHANGED <<world, nextNum, clients, joining, told>>
      BY <1>0, <2>1 DEF HandleSpawn, HandleDestroy, HandleMove, Received, server
  <2>3. shown' = [shown EXCEPT ![k] = shown'[k]]
      BY <1>0, <2>1 DEF HandleSpawn, HandleDestroy, HandleMove
  <2>4. \A c \in BagToSet(shown'[k]) :
           c \in BagToSet(shown[k]) \/ (m.is = "spawn" /\ c = Copy(m))
    <3>1. CASE HandleSpawn(k, m)
      <4>1. shown'[k] = BagAdd(shown[k], Copy(m)) /\ m.is = "spawn"
          BY <1>0, <3>1 DEF HandleSpawn
      <4> QED
          BY <4>1, OneMore
    <3>2. CASE HandleDestroy(k, m)
      <4>1. shown'[k] = shown[k] \/ \E c : shown'[k] = BagRemove(shown[k], c)
          BY <1>0, <3>2 DEF HandleDestroy
      <4> QED
          BY <4>1, OneLess
    <3>3. CASE HandleMove(k, m)
        BY <1>0, <3>3 DEF HandleMove
    <3> QED
        BY <2>1, <3>1, <3>2, <3>3
  <2>5. ASSUME NEW l \in clients
        PROVE  RightOnTheWay(l)'
      BY <1>0, <2>2, OneLess DEF RightOnTheWay, Right, Alive
  <2>6. ASSUME NEW l \in clients
        PROVE  RightOnScreen(l)'
    <3> SUFFICES ASSUME NEW c \in BagToSet(shown'[l]), c.num \notin odd'[l]
                 PROVE  Right(c.num, c.type, c.sub)
        BY <2>2 DEF RightOnScreen, Right, Alive
    <3>1. c.num \notin odd[l]
        BY <1>0, <2>2
    <3>2. CASE c \in BagToSet(shown[l])
        BY <1>0, <3>1, <3>2 DEF RightOnScreen
    <3>3. CASE l = k /\ m.is = "spawn" /\ c = Copy(m)
        BY <1>0, <2>1, <3>1, <3>3 DEF RightOnTheWay, Copy
    <3> QED
        BY <1>0, <2>3, <2>4, <3>2, <3>3
  <2> QED
      BY <1>0, <2>2, <2>3, <2>5, <2>6 DEF KindInv, Alive
<1>11. ASSUME NEW k \in Keys, NEW c, FlyOff(k, c)
       PROVE  KindInv'
  <2>1. /\ shown' = [shown EXCEPT ![k] = BagRemove(@, c)]
        /\ odd' = [odd EXCEPT ![k] = @ \cup {c.num}]
        /\ UNCHANGED <<world, nextNum, clients, joining, net, told>>
      BY <1>11 DEF FlyOff, server
  <2>2. ASSUME NEW l \in clients
        PROVE  RightOnTheWay(l)' /\ RightOnScreen(l)'
    <3>1. /\ BagToSet(net'[l]) \subseteq BagToSet(net[l])
          /\ BagToSet(shown'[l]) \subseteq BagToSet(shown[l])
          /\ odd[l] \subseteq odd'[l]
        BY <1>0, <2>1, OneLess
    <3> QED
        BY <1>0, <2>1, <3>1, LessIsRight
  <2> QED
      BY <1>0, <2>1, <2>2 DEF KindInv, Alive
<1>12. CASE Udp
  <2>0. PICK k \in Keys : \E m \in BagToSet(net[k]) : Lose(k, m) \/ Double(k, m)
      BY <1>12 DEF Udp
  <2>1. PICK m \in BagToSet(net[k]) : Lose(k, m) \/ Double(k, m)
      BY <2>0
  <2>2. /\ net' = [net EXCEPT ![k] = net'[k]]
        /\ odd' = [odd EXCEPT ![k] = @ \cup {m.num}]
        /\ UNCHANGED <<world, nextNum, clients, joining, shown, told>>
      BY <1>0, <2>1 DEF Lose, Double, Fault, server, screen
  <2>3. BagToSet(net'[k]) \subseteq BagToSet(net[k])
      BY <1>0, <2>1, OneLess, OneMore DEF Lose, Double, Fault
  <2>4. ASSUME NEW l \in clients
        PROVE  RightOnTheWay(l)' /\ RightOnScreen(l)'
    <3>1. /\ BagToSet(net'[l]) \subseteq BagToSet(net[l])
          /\ BagToSet(shown'[l]) \subseteq BagToSet(shown[l])
          /\ odd[l] \subseteq odd'[l]
        BY <1>0, <2>2, <2>3
    <3> QED
        BY <1>0, <2>2, <3>1, LessIsRight
  <2> QED
      BY <1>0, <2>2, <2>4 DEF KindInv, Alive
<1>13. CASE UNCHANGED vars
    BY <1>same, <1>13 DEF vars, server, screen, past
<1> QED
    BY <1>1, <1>2, <1>3, <1>4, <1>5, <1>6, <1>7, <1>8, <1>9, <1>10, <1>11,
       <1>12, <1>13, <1>14 DEF Next, Room, Clients

(* A newcomer sees every kind of entity as those who were there when it    *)
(* appeared: the two tables of BroadcastSystem agree where they must, and  *)
(* nothing older than an entity can stand for it (network ids only grow).  *)
THEOREM KindsAgree == Spec => []LatecomersSeeTheSameKinds
<1>1. KindInv => LatecomersSeeTheSameKinds
    BY DEF KindInv, LatecomersSeeTheSameKinds, CopiesOf, RightOnScreen, Right
<1> QED
    BY <1>1, KindInit, KindNext, PTL DEF Spec

----------------------------------------------------------------------------
(* Types.                                                                  *)

(* A bag whose members are of a set.                                       *)
BagOf(b, S) == IsABag(b) /\ BagToSet(b) \subseteq S

LEMMA NothingIsABag == ASSUME NEW S PROVE BagOf(EmptyBag, S)
BY DEF BagOf, IsABag, BagToSet, EmptyBag, SetToBag

LEMMA BagOfMore ==
    ASSUME NEW S, NEW b, BagOf(b, S), NEW x \in S
    PROVE  BagOf(BagAdd(b, x), S)
<1>1. b \in [DOMAIN b -> {n \in Nat : n > 0}] /\ DOMAIN b \subseteq S
    BY DEF BagOf, IsABag, BagToSet
<1>2. CASE x \in DOMAIN b
    BY <1>1, <1>2 DEF BagOf, IsABag, BagToSet, BagAdd
<1>3. CASE x \notin DOMAIN b
    BY <1>1, <1>3 DEF BagOf, IsABag, BagToSet, BagAdd
<1> QED
    BY <1>2, <1>3

LEMMA BagOfLess ==
    ASSUME NEW S, NEW b, BagOf(b, S), NEW x
    PROVE  BagOf(BagRemove(b, x), S)
<1>1. b \in [DOMAIN b -> {n \in Nat : n > 0}] /\ DOMAIN b \subseteq S
    BY DEF BagOf, IsABag, BagToSet
<1>2. CASE x \in DOMAIN b /\ b[x] = 1
    BY <1>1, <1>2 DEF BagOf, IsABag, BagToSet, BagRemove
<1>3. CASE x \in DOMAIN b /\ b[x] # 1
    BY <1>1, <1>3 DEF BagOf, IsABag, BagToSet, BagRemove
<1>4. CASE x \notin DOMAIN b
    BY <1>4 DEF BagRemove
<1> QED
    BY <1>2, <1>3, <1>4

LEMMA BagOfBoth ==
    ASSUME NEW S, NEW b, BagOf(b, S), NEW T \in SUBSET S
    PROVE  BagOf(b (+) SetToBag(T), S)
<1>1. b \in [DOMAIN b -> {n \in Nat : n > 0}] /\ DOMAIN b \subseteq S
    BY DEF BagOf, IsABag, BagToSet
<1> DEFINE c == SetToBag(T)
<1>2. DOMAIN c = T /\ \A e \in T : c[e] = 1
    BY DEF SetToBag
<1> HIDE DEF c
<1>3. BagOf(b (+) c, S)
    BY <1>1, <1>2 DEF BagOf, IsABag, BagToSet, (+)
<1> QED
    BY <1>3 DEF c

LEMMA SubTypesAreNumbers == \A tag \in DOMAIN AllSubTypes : AllSubTypes[tag] \in Nat
BY DEF AllSubTypes, Obstacles, PowerUps, Enemies, Shots

Types    == {"", "ENEMY", "PROJECTILE", "OBSTACLE", "POWERUP"}
Entities == [tag : Tags, hit : BOOLEAN]
Pictures == [num : Nums, type : Types, sub : Nat]

LEMMA SpawnIsMessage ==
    ASSUME NEW n \in Nums, NEW tag \in Tags
    PROVE  /\ SpawnMsg(n, tag, SubTypeWhenSpawned(tag)) \in Messages
           /\ SpawnMsg(n, tag, SubTypeForNewcomer(tag)) \in Messages
<1>1. SubTypeWhenSpawned(tag) \in Nat /\ SubTypeForNewcomer(tag) \in Nat
    BY SubTypesAreNumbers, ReplicationAssumption DEF SubTypeWhenSpawned, SubTypeForNewcomer
<1>2. TypeOf(tag) \in Types
    BY DEF TypeOf, Types
<1> QED
    BY <1>1, <1>2 DEF SpawnMsg, Messages, Types

LEMMA OthersAreMessages ==
    ASSUME NEW n \in Nums
    PROVE  DestroyMsg(n) \in Messages /\ HitMsg(n) \in Messages
BY DEF DestroyMsg, HitMsg, Messages

LEMMA CopyIsPicture ==
    ASSUME NEW m \in Messages
    PROVE  Copy(m) \in Pictures /\ m.num \in Nums
BY DEF Copy, Messages, Pictures, Types

RoomTypes == /\ BagOf(fresh, Tags) /\ early \in Nat
             /\ Alive \subseteq Nums /\ known \subseteq Nums
             /\ nextNum \in 1..(MaxNum + 1)
             /\ \A n \in Alive : world[n] \in Entities /\ n < nextNum
WireTypes == /\ net = [k \in Keys |-> net[k]]
             /\ shown = [k \in Keys |-> shown[k]]
             /\ \A k \in Keys : BagOf(net[k], Messages) /\ BagOf(shown[k], Pictures)
             /\ flashes \in [Keys -> Nat]

TypeInv == RoomTypes /\ WireTypes

LEMMA TypesInit == Init => TypeInv
<1> SUFFICES ASSUME Init
             PROVE  TypeInv
    OBVIOUS
<1>1. RoomTypes
    BY NothingIsABag, ReplicationAssumption DEF Init, RoomTypes, Alive
<1>2. WireTypes
    BY NothingIsABag DEF Init, WireTypes
<1> QED
    BY <1>1, <1>2 DEF TypeInv

LEMMA TypeInvIsTypeOK == TypeInv /\ ToldInv => TypeOK
<1> SUFFICES ASSUME TypeInv, ToldInv
             PROVE  TypeOK
    OBVIOUS
<1>1. ASSUME NEW k \in Keys
      PROVE  On(k) \subseteq Nums
  <2>1. BagToSet(net[k]) \subseteq Messages /\ BagToSet(shown[k]) \subseteq Pictures
      BY DEF TypeInv, WireTypes, BagOf
  <2>2. \A c \in Pictures : c.num \in Nums
      BY DEF Pictures
  <2> QED
      BY <2>1, <2>2, CopyIsPicture DEF On
<1>2. joining \subseteq clients /\ told \subseteq clients /\ clients \subseteq Keys
    BY DEF ToldInv
<1>3. \A k \in Keys : IsABag(net[k]) /\ BagToSet(net[k]) \subseteq Messages /\ IsABag(shown[k])
    BY DEF TypeInv, WireTypes, BagOf
<1> QED
    BY <1>1, <1>2, <1>3 DEF TypeInv, RoomTypes, WireTypes, TypeOK, BagOf, Entities

LEMMA RoomTypesNext == TypeInv /\ [Next]_vars => RoomTypes'
<1> SUFFICES ASSUME TypeInv, [Next]_vars
             PROVE  RoomTypes'
    OBVIOUS
<1>0. /\ BagOf(fresh, Tags) /\ early \in Nat
      /\ Alive \subseteq Nums /\ known \subseteq Nums
      /\ nextNum \in 1..(MaxNum + 1)
      /\ \A n \in Alive : world[n] \in Entities /\ n < nextNum
    BY DEF TypeInv, RoomTypes
<1>1. UNCHANGED <<fresh, early, world, known, nextNum>> => RoomTypes'
    BY <1>0 DEF RoomTypes, Alive
<1>2. ASSUME NEW tag \in Tags, Appear(tag)
      PROVE  RoomTypes'
  <2>1. BagOf(fresh', Tags)
      BY <1>0, <1>2, BagOfMore DEF Appear
  <2> QED
      BY <1>0, <1>2, <2>1 DEF Appear, RoomTypes, Alive
<1>3. ASSUME NEW n \in Alive, Hit(n)
      PROVE  RoomTypes'
  <2>1. /\ world' = [world EXCEPT ![n].hit = TRUE]
        /\ UNCHANGED <<fresh, early, known, nextNum>>
      BY <1>3 DEF Hit
  <2>2. Alive' = Alive /\ \A m \in Alive : world'[m] \in Entities
      BY <1>0, <2>1 DEF Alive, Entities
  <2> QED
      BY <1>0, <2>1, <2>2 DEF RoomTypes
<1>10. CASE HitEarly
    BY <1>0, <1>10 DEF HitEarly, RoomTypes, Alive
<1>4. CASE Perish
  <2>1. BagOf(fresh', Tags)
      BY <1>0, <1>4, BagOfLess DEF Perish
  <2>2. Alive' \subseteq Alive /\ \A n \in Alive' : world'[n] = world[n]
      BY <1>4 DEF Perish, Alive
  <2> QED
      BY <1>0, <1>4, <2>1, <2>2 DEF Perish, RoomTypes
<1>5. CASE NewRoom
    BY <1>5, NothingIsABag, ReplicationAssumption DEF NewRoom, RoomTypes, Alive
<1>6. CASE Broadcast
  <2>0. PICK last \in (nextNum - 1)..MaxNum : \E f \in Numbered(last) :
           \E new \in NewlyStruck(f) : Told(last, f, new)
      BY <1>6, ATick
  <2>f. PICK f \in Numbered(last) : \E new \in NewlyStruck(f) : Told(last, f, new)
      BY <2>0
  <2>n. PICK new \in NewlyStruck(f) : Told(last, f, new)
      BY <2>f
  <2>1. /\ world' = [n \in Alive \cup DOMAIN f |->
                       IF n \in Alive THEN Calmed(world)[n]
                       ELSE [tag |-> f[n], hit |-> FALSE]]
        /\ nextNum' = last + 1
        /\ known' = DOMAIN world'
      BY <2>n DEF Told
  <2>2. DOMAIN f = nextNum..last /\ \A n \in DOMAIN f : f[n] \in Tags
      BY <1>0 DEF Numbered, BagOf
  <2>3. nextNum \in Nat /\ nextNum >= 1 /\ last \in Int /\ last >= nextNum - 1
        /\ last <= MaxNum /\ MaxNum \in Nat
      BY <1>0, ReplicationAssumption
  <2>4. DOMAIN f \subseteq Nums /\ \A n \in DOMAIN f : n < nextNum'
      BY <2>1, <2>2, <2>3 DEF Nums
  <2>5. nextNum' \in 1..(MaxNum + 1) /\ nextNum <= nextNum'
      BY <2>1, <2>3
  <2>6. Alive' = Alive \cup DOMAIN f
      BY <2>1 DEF Alive
  <2>7. ASSUME NEW n \in Alive'
        PROVE  world'[n] \in Entities
    <3>1. CASE n \in Alive
      <4>1. world'[n] = [world[n] EXCEPT !.hit = FALSE]
          BY <2>1, <3>1 DEF Calmed, Alive
      <4> QED
          BY <1>0, <3>1, <4>1 DEF Entities
    <3>2. CASE n \notin Alive
      <4>1. n \in DOMAIN f /\ world'[n] = [tag |-> f[n], hit |-> FALSE]
          BY <2>1, <2>6, <3>2
      <4> QED
          BY <2>2, <4>1 DEF Entities
    <3> QED
        BY <3>1, <3>2
  <2>8. \A n \in Alive' : n < nextNum'
    <3>1. Nums \subseteq Int
        BY DEF Nums
    <3> QED
        BY <1>0, <2>3, <2>4, <2>5, <2>6, <3>1
  <2>9. BagOf(fresh', Tags) /\ early' \in Nat
      BY <1>6, NothingIsABag DEF Broadcast
  <2>10. Alive' \subseteq Nums /\ known' = Alive'
      BY <1>0, <2>1, <2>4, <2>6 DEF Alive
  <2> QED
      BY <2>5, <2>7, <2>8, <2>9, <2>10 DEF RoomTypes
<1>7. CASE Clients
    BY <1>1, <1>7 DEF Clients, Join, SendInitialState, Leave, ClearRegistry, Receive,
       HandleSpawn, HandleDestroy, HandleMove, Received, FlyOff, server
<1>8. CASE Udp
    BY <1>1, <1>8 DEF Udp, Lose, Double, Fault, server
<1>9. CASE UNCHANGED vars
    BY <1>1, <1>9 DEF vars, server
<1> QED
    BY <1>2, <1>3, <1>4, <1>5, <1>6, <1>7, <1>8, <1>9, <1>10 DEF Next, Room

LEMMA WireTypesNext == TypeInv /\ [Next]_vars => WireTypes'
<1> SUFFICES ASSUME TypeInv, [Next]_vars
             PROVE  WireTypes'
    OBVIOUS
<1>0. /\ net = [k \in Keys |-> net[k]]
      /\ shown = [k \in Keys |-> shown[k]]
      /\ \A k \in Keys : BagOf(net[k], Messages) /\ BagOf(shown[k], Pictures)
      /\ flashes \in [Keys -> Nat]
    BY DEF TypeInv, WireTypes
<1>1. UNCHANGED <<net, shown, flashes>> => WireTypes'
    BY <1>0 DEF WireTypes
<1>2. ASSUME NEW k \in Keys, NEW b, BagOf(b, Messages), net' = [net EXCEPT ![k] = b],
             NEW s, BagOf(s, Pictures), shown' = [shown EXCEPT ![k] = s],
             flashes' \in [Keys -> Nat]
      PROVE  WireTypes'
    BY <1>0, <1>2 DEF WireTypes
<1>3. ASSUME NEW k \in Keys
      PROVE  /\ net = [net EXCEPT ![k] = net[k]]
             /\ shown = [shown EXCEPT ![k] = shown[k]]
    BY <1>0
<1>4. Alive \subseteq Nums /\ known \subseteq Nums /\ \A n \in Alive : world[n].tag \in Tags
    BY DEF TypeInv, RoomTypes, Entities
<1>5. CASE Room
  <2>1. CASE Broadcast
    <3>0. PICK last \in (nextNum - 1)..MaxNum : \E f \in Numbered(last) :
             \E new \in NewlyStruck(f) : Told(last, f, new)
        BY <2>1, ATick
    <3>f. PICK f \in Numbered(last) : \E new \in NewlyStruck(f) : Told(last, f, new)
        BY <3>0
    <3>n. PICK new \in NewlyStruck(f) : Told(last, f, new)
        BY <3>f
    <3>1. net' = [k \in Keys |->
                    IF k \in clients
                    THEN net[k] (+) SetToBag(Spawns(f) \cup Deaths \cup Hits(new))
                    ELSE net[k]]
        BY <3>n DEF Told
    <3>2. DOMAIN f \subseteq Nums /\ \A n \in DOMAIN f : f[n] \in Tags
      <4>1. nextNum \in 1..(MaxNum + 1) /\ BagToSet(fresh) \subseteq Tags
          BY DEF TypeInv, RoomTypes, BagOf
      <4>2. DOMAIN f = nextNum..last /\ \A n \in DOMAIN f : f[n] \in BagToSet(fresh)
          BY DEF Numbered
      <4> QED
          BY <4>1, <4>2, ReplicationAssumption DEF Nums
    <3>h. Struck \cup new \subseteq Nums
        BY <1>4, <3>2 DEF Struck, NewlyStruck
    <3>3. Spawns(f) \cup Deaths \cup Hits(new) \subseteq Messages
        BY <1>4, <3>2, <3>h, SpawnIsMessage, OthersAreMessages DEF Spawns, Deaths, Hits
    <3>4. \A k \in Keys : BagOf(net'[k], Messages)
        BY <1>0, <3>1, <3>3, BagOfBoth
    <3>5. UNCHANGED <<shown, flashes>>
        BY <2>1 DEF Broadcast, screen
    <3> QED
        BY <1>0, <3>1, <3>4, <3>5 DEF WireTypes
  <2>2. CASE (\E tag \in Tags : Appear(tag)) \/ (\E n \in Alive : Hit(n)) \/ HitEarly
            \/ Perish \/ NewRoom
      BY <1>1, <2>2 DEF Appear, Hit, HitEarly, Perish, NewRoom, screen
  <2> QED
      BY <1>5, <2>1, <2>2 DEF Room
<1>6. ASSUME NEW k \in Keys, Join(k) \/ Leave(k)
      PROVE  WireTypes'
    BY <1>1, <1>6 DEF Join, Leave, screen
<1>7. ASSUME NEW k \in Keys, SendInitialState(k)
      PROVE  WireTypes'
  <2> DEFINE all == {SpawnMsg(n, world[n].tag, SubTypeForNewcomer(world[n].tag)) :
                       n \in Alive}
  <2>1. /\ net' = [net EXCEPT ![k] = net[k] (+) SetToBag(all)]
        /\ UNCHANGED <<shown, flashes>>
      BY <1>7 DEF SendInitialState, screen
  <2>2. all \subseteq Messages
      BY <1>4, SpawnIsMessage
  <2> HIDE DEF all
  <2>3. BagOf(net[k] (+) SetToBag(all), Messages)
      BY <1>0, <2>2, BagOfBoth
  <2> QED
      BY <1>0, <1>2, <1>3, <2>1, <2>3
<1>8. ASSUME NEW k \in Keys, ClearRegistry(k)
      PROVE  WireTypes'
    BY <1>0, <1>2, <1>3, <1>8, NothingIsABag DEF ClearRegistry
<1>9. ASSUME NEW k \in Keys, Receive(k)
      PROVE  WireTypes'
  <2>1. PICK m \in BagToSet(net[k]) :
           HandleSpawn(k, m) \/ HandleDestroy(k, m) \/ HandleMove(k, m)
      BY <1>9 DEF Receive
  <2>2. m \in Messages
      BY <1>0, <2>1 DEF BagOf
  <2>3. /\ net' = [net EXCEPT ![k] = BagRemove(net[k], m)]
        /\ BagOf(BagRemove(net[k], m), Messages)
    <3>1. BagOf(BagRemove(net[k], m), Messages)
        BY <1>0, BagOfLess
    <3> QED
        BY <2>1, <3>1 DEF HandleSpawn, HandleDestroy, HandleMove, Received
  <2>4. CASE HandleSpawn(k, m)
    <3>1. shown' = [shown EXCEPT ![k] = BagAdd(shown[k], Copy(m))] /\ flashes' = flashes
        BY <2>4 DEF HandleSpawn
    <3>2. BagOf(BagAdd(shown[k], Copy(m)), Pictures)
        BY <1>0, <2>2, CopyIsPicture, BagOfMore
    <3> QED
        BY <1>0, <1>2, <2>3, <3>1, <3>2
  <2>5. CASE HandleDestroy(k, m)
    <3>1. /\ flashes' = flashes
          /\ shown' = shown \/ \E c : shown' = [shown EXCEPT ![k] = BagRemove(shown[k], c)]
        BY <2>5 DEF HandleDestroy
    <3>2. \A c : BagOf(BagRemove(shown[k], c), Pictures)
        BY <1>0, BagOfLess
    <3> QED
        BY <1>0, <1>2, <1>3, <2>3, <3>1, <3>2
  <2>6. CASE HandleMove(k, m)
      BY <1>0, <1>2, <1>3, <2>3, <2>6 DEF HandleMove
  <2> QED
      BY <2>1, <2>4, <2>5, <2>6
<1>10. ASSUME NEW k \in Keys, NEW c, FlyOff(k, c)
       PROVE  WireTypes'
  <2>1. /\ shown' = [shown EXCEPT ![k] = BagRemove(shown[k], c)]
        /\ UNCHANGED <<net, flashes>>
      BY <1>10 DEF FlyOff
  <2>2. BagOf(BagRemove(shown[k], c), Pictures)
      BY <1>0, BagOfLess
  <2> QED
      BY <1>0, <1>2, <1>3, <2>1, <2>2
<1>11. CASE Udp
  <2>0. PICK k \in Keys : \E m \in BagToSet(net[k]) : Lose(k, m) \/ Double(k, m)
      BY <1>11 DEF Udp
  <2>1. PICK m \in BagToSet(net[k]) : Lose(k, m) \/ Double(k, m)
      BY <2>0
  <2>2. m \in Messages
      BY <1>0, <2>1 DEF BagOf
  <2>3. BagOf(BagRemove(net[k], m), Messages) /\ BagOf(BagAdd(net[k], m), Messages)
      BY <1>0, <2>2, BagOfLess, BagOfMore
  <2>4. /\ UNCHANGED <<shown, flashes>>
        /\ \/ net' = [net EXCEPT ![k] = BagRemove(net[k], m)]
           \/ net' = [net EXCEPT ![k] = BagAdd(net[k], m)]
      BY <2>1 DEF Lose, Double, Fault, screen
  <2> QED
      BY <1>0, <1>2, <1>3, <2>3, <2>4
<1>12. CASE UNCHANGED vars
    BY <1>1, <1>12 DEF vars, screen
<1> QED
    BY <1>5, <1>6, <1>7, <1>8, <1>9, <1>10, <1>11, <1>12 DEF Next, Clients

LEMMA TypesNext == TypeInv /\ [Next]_vars => TypeInv'
BY RoomTypesNext, WireTypesNext DEF TypeInv

(* Every message and every copy on a screen has the form the source gives  *)
(* it: numbers within those given, a known type, a sub type of the tables  *)
(* (broadcast_spawns, send_initial_state); what is in the room has a       *)
(* number below next_network_id_; bags never go below one of a kind.       *)
THEOREM TypesAreKept == Spec => []TypeOK
<1> QED
    BY TypesInit, TypesNext, TypeInvIsTypeOK, ToldInit, ToldNext, PTL DEF Spec

----------------------------------------------------------------------------
(* What is in a bag, one by one.                                           *)

(* The place a further one of x takes.                                     *)
Top(b, x) == IF x \in BagToSet(b) THEN b[x] + 1 ELSE 1

LEMMA InEach ==
    ASSUME NEW b
    PROVE  /\ \A e \in BagToSet(b) : \A i \in 1..b[e] : <<e, i>> \in Each(b)
           /\ \A t \in Each(b) : \E e \in BagToSet(b) : \E i \in 1..b[e] : t = <<e, i>>
BY DEF Each

LEMMA TopIsNew ==
    ASSUME NEW b, IsABag(b), NEW x
    PROVE  <<x, Top(b, x)>> \notin Each(b)
<1> SUFFICES ASSUME NEW e \in BagToSet(b), NEW i \in 1..b[e], <<x, Top(b, x)>> = <<e, i>>
             PROVE  FALSE
    BY InEach
<1>1. x = e /\ i = b[x] + 1 /\ b[x] \in Nat
    BY DEF Top, IsABag, BagToSet
<1> QED
    BY <1>1

LEMMA EachMore ==
    ASSUME NEW b, IsABag(b), NEW x
    PROVE  Each(BagAdd(b, x)) = Each(b) \cup {<<x, Top(b, x)>>}
<1> DEFINE a == BagAdd(b, x)
<1>1. /\ BagToSet(a) = BagToSet(b) \cup {x}
      /\ a[x] = Top(b, x)
      /\ \A e \in BagToSet(b) \ {x} : a[e] = b[e]
    BY DEF BagAdd, BagToSet, Top
<1>2. \A e \in BagToSet(b) : b[e] \in Nat /\ b[e] > 0
    BY DEF IsABag, BagToSet
<1>3. Top(b, x) \in Nat /\ Top(b, x) > 0 /\ (x \in BagToSet(b) => Top(b, x) = b[x] + 1)
      /\ (x \notin BagToSet(b) => Top(b, x) = 1)
    BY <1>2 DEF Top
<1> HIDE DEF a
<1>4. ASSUME NEW t \in Each(a)
      PROVE  t \in Each(b) \cup {<<x, Top(b, x)>>}
  <2>0. PICK e \in BagToSet(a) : \E i \in 1..a[e] : t = <<e, i>>
      BY <1>4, InEach
  <2>1. PICK i \in 1..a[e] : t = <<e, i>>
      BY <2>0
  <2>2. CASE e # x
      BY <1>1, <2>1, <2>2, InEach
  <2>3. CASE e = x /\ i = Top(b, x)
      BY <2>1, <2>3
  <2>4. CASE e = x /\ i # Top(b, x)
    <3>1. x \in BagToSet(b) /\ i \in 1..b[x]
        BY <1>1, <1>2, <1>3, <2>4
    <3> QED
        BY <2>1, <2>4, <3>1, InEach
  <2> QED
      BY <2>2, <2>3, <2>4
<1>5. ASSUME NEW t \in Each(b)
      PROVE  t \in Each(a)
  <2>0. PICK e \in BagToSet(b) : \E i \in 1..b[e] : t = <<e, i>>
      BY <1>5, InEach
  <2>1. PICK i \in 1..b[e] : t = <<e, i>>
      BY <2>0
  <2>2. e \in BagToSet(a) /\ i \in 1..a[e]
      BY <1>1, <1>2, <1>3
  <2> QED
      BY <2>1, <2>2, InEach
<1>6. <<x, Top(b, x)>> \in Each(a)
  <2>1. x \in BagToSet(a) /\ Top(b, x) \in 1..a[x]
      BY <1>1, <1>3
  <2> QED
      BY <2>1, InEach
<1> QED
    BY <1>4, <1>5, <1>6 DEF a

LEMMA EachLess ==
    ASSUME NEW b, IsABag(b), NEW x \in BagToSet(b)
    PROVE  /\ Each(BagRemove(b, x)) = Each(b) \ {<<x, b[x]>>}
           /\ <<x, b[x]>> \in Each(b)
<1> DEFINE a == BagRemove(b, x)
<1>1. \A e \in BagToSet(b) : b[e] \in Nat /\ b[e] > 0
    BY DEF IsABag, BagToSet
<1>2. /\ BagToSet(a) = IF b[x] = 1 THEN BagToSet(b) \ {x} ELSE BagToSet(b)
      /\ b[x] # 1 => a[x] = b[x] - 1
      /\ \A e \in BagToSet(b) \ {x} : a[e] = b[e]
    BY DEF BagRemove, BagToSet
<1> HIDE DEF a
<1>3. ASSUME NEW t \in Each(a)
      PROVE  t \in Each(b) \ {<<x, b[x]>>}
  <2>0. PICK e \in BagToSet(a) : \E i \in 1..a[e] : t = <<e, i>>
      BY <1>3, InEach
  <2>1. PICK i \in 1..a[e] : t = <<e, i>>
      BY <2>0
  <2>2. e \in BagToSet(b) /\ i \in 1..b[e] /\ (e = x => i # b[x])
      BY <1>1, <1>2
  <2> QED
      BY <2>1, <2>2, InEach
<1>4. ASSUME NEW t \in Each(b), t # <<x, b[x]>>
      PROVE  t \in Each(a)
  <2>0. PICK e \in BagToSet(b) : \E i \in 1..b[e] : t = <<e, i>>
      BY <1>4, InEach
  <2>1. PICK i \in 1..b[e] : t = <<e, i>>
      BY <2>0
  <2>2. e = x => i # b[x]
      BY <1>4, <2>1
  <2>3. e \in BagToSet(a) /\ i \in 1..a[e]
      BY <1>1, <1>2, <2>2
  <2> QED
      BY <2>1, <2>3, InEach
<1>5. <<x, b[x]>> \in Each(b)
    BY <1>1, InEach
<1> QED
    BY <1>3, <1>4, <1>5 DEF a

LEMMA EachBoth ==
    ASSUME NEW b, IsABag(b), NEW T
    PROVE  Each(b (+) SetToBag(T)) = Each(b) \cup {<<e, Top(b, e)>> : e \in T}
<1> DEFINE a == b (+) SetToBag(T)
<1>1. \A e \in BagToSet(b) : b[e] \in Nat /\ b[e] > 0
    BY DEF IsABag, BagToSet
<1>2. /\ BagToSet(a) = BagToSet(b) \cup T
      /\ \A e \in T : a[e] = Top(b, e)
      /\ \A e \in BagToSet(b) \ T : a[e] = b[e]
  <2> DEFINE c == SetToBag(T)
  <2>1. DOMAIN c = T /\ \A e \in T : c[e] = 1
      BY DEF SetToBag
  <2> HIDE DEF c
  <2>2. a = b (+) c
      BY DEF c
  <2> HIDE DEF a
  <2>3. DOMAIN a = DOMAIN b \cup T
      BY <2>1, <2>2 DEF (+)
  <2>4. ASSUME NEW e \in DOMAIN a
        PROVE  a[e] = (IF e \in DOMAIN b THEN b[e] ELSE 0) + (IF e \in T THEN 1 ELSE 0)
      BY <2>1, <2>2, <2>3 DEF (+)
  <2> QED
      BY <1>1, <2>3, <2>4 DEF BagToSet, Top
<1>3. \A e : e \in BagToSet(b) => Top(b, e) = b[e] + 1
    BY DEF Top
<1>4. \A e : e \notin BagToSet(b) => Top(b, e) = 1
    BY DEF Top
<1> HIDE DEF a
<1>5. ASSUME NEW t \in Each(a)
      PROVE  t \in Each(b) \/ \E e \in T : t = <<e, Top(b, e)>>
  <2>0. PICK e \in BagToSet(a) : \E i \in 1..a[e] : t = <<e, i>>
      BY <1>5, InEach
  <2>1. PICK i \in 1..a[e] : t = <<e, i>>
      BY <2>0
  <2>2. \/ e \in BagToSet(b) /\ i \in 1..b[e]
        \/ e \in T /\ i = Top(b, e)
    <3>1. CASE e \in BagToSet(b)
        BY <1>1, <1>2, <1>3, <3>1
    <3>2. CASE e \notin BagToSet(b)
        BY <1>2, <1>4, <3>2
    <3> QED
        BY <3>1, <3>2
  <2> QED
      BY <2>1, <2>2, InEach
<1>6. ASSUME NEW t \in Each(b)
      PROVE  t \in Each(a)
  <2>0. PICK e \in BagToSet(b) : \E i \in 1..b[e] : t = <<e, i>>
      BY <1>6, InEach
  <2>1. PICK i \in 1..b[e] : t = <<e, i>>
      BY <2>0
  <2>2. e \in BagToSet(a) /\ i \in 1..a[e]
      BY <1>1, <1>2, <1>3
  <2> QED
      BY <2>1, <2>2, InEach
<1>7. ASSUME NEW e \in T
      PROVE  <<e, Top(b, e)>> \in Each(a)
  <2>1. e \in BagToSet(a) /\ Top(b, e) \in 1..a[e]
      BY <1>1, <1>2, <1>3, <1>4
  <2> QED
      BY <2>1, InEach
<1> QED
    BY <1>5, <1>6, <1>7 DEF a

----------------------------------------------------------------------------
(* Where the word of an entity is: at most once, and until its end.        *)

(* The spawns of an entity among the messages of a bag, its copies among   *)
(* what a screen shows, and whether its end is among the messages.         *)
SpawnsIn(b, n) == {t \in Each(b) : t[1].is = "spawn" /\ t[1].num = n}
ShownIn(c, n)  == {t \in Each(c) : t[1].num = n}
EndIn(b, n)    == \E m \in BagToSet(b) : m.is = "destroy" /\ m.num = n

IsOne(S) == \E t \in S : S = {t}

Nowhere(b, c, n) == SpawnsIn(b, n) = {} /\ ShownIn(c, n) = {}
Once(b, c, n)    == \/ IsOne(SpawnsIn(b, n)) /\ ShownIn(c, n) = {}
                    \/ SpawnsIn(b, n) = {} /\ IsOne(ShownIn(c, n))

(* An entity the server knows is on its way or on the screen of a client   *)
(* it was announced to; one it no longer knows is nowhere, or its end is   *)
(* on its way too.                                                         *)
Trace(b, c, n, there, heard) ==
    /\ there => ~EndIn(b, n) /\ IF heard THEN Once(b, c, n) ELSE Nowhere(b, c, n)
    /\ ~there => Nowhere(b, c, n) \/ (Once(b, c, n) /\ EndIn(b, n))

(* A number not yet given is not to be found.                              *)
Unused(b, c, n) == Nowhere(b, c, n) /\ ~EndIn(b, n)

Traced(k, n) == /\ Trace(net[k], shown[k], n, n \in known, n \in announced[k])
                /\ n >= nextNum => Unused(net[k], shown[k], n) /\ n \notin announced[k]

TraceInv == /\ Alive \subseteq known /\ \A n \in known : n < nextNum
            /\ odd = [k \in Keys |-> odd[k]]
            /\ \A k \in told \cup joining : \A n \in Nums \ odd[k] : Traced(k, n)

LEMMA NothingTwice ==
    ASSUME NEW b, NEW n, BagToSet(b) = {}
    PROVE  SpawnsIn(b, n) = {} /\ ShownIn(b, n) = {} /\ ~EndIn(b, n)
BY InEach DEF SpawnsIn, ShownIn, EndIn

(* What a bag says nothing of stays unsaid.                                *)
LEMMA Unmentioned ==
    ASSUME NEW b, NEW n, \A m \in BagToSet(b) : m.num # n
    PROVE  SpawnsIn(b, n) = {} /\ ShownIn(b, n) = {} /\ ~EndIn(b, n)
<1>1. \A t \in Each(b) : t[1].num # n
    BY InEach
<1> QED
    BY <1>1 DEF SpawnsIn, ShownIn, EndIn

LEMMA ReceivedOther ==
    ASSUME NEW b, IsABag(b), NEW m \in BagToSet(b), NEW n, m.is # "spawn" \/ m.num # n
    PROVE  SpawnsIn(BagRemove(b, m), n) = SpawnsIn(b, n)
<1>1. Each(BagRemove(b, m)) = Each(b) \ {<<m, b[m]>>}
    BY EachLess
<1>2. <<m, b[m]>>[1] = m
    OBVIOUS
<1> QED
    BY <1>1, <1>2 DEF SpawnsIn

LEMMA ReceivedOne ==
    ASSUME NEW b, IsABag(b), NEW m \in BagToSet(b), m.is = "spawn",
           IsOne(SpawnsIn(b, m.num))
    PROVE  SpawnsIn(BagRemove(b, m), m.num) = {}
<1>1. Each(BagRemove(b, m)) = Each(b) \ {<<m, b[m]>>} /\ <<m, b[m]>> \in Each(b)
    BY EachLess
<1>2. <<m, b[m]>> \in SpawnsIn(b, m.num)
    BY <1>1 DEF SpawnsIn
<1>3. SpawnsIn(b, m.num) = {<<m, b[m]>>}
    BY <1>2 DEF IsOne
<1> QED
    BY <1>1, <1>3 DEF SpawnsIn

LEMMA ASpawnIsThere ==
    ASSUME NEW b, IsABag(b), NEW m \in BagToSet(b), m.is = "spawn"
    PROVE  SpawnsIn(b, m.num) # {}
<1>1. <<m, b[m]>> \in Each(b)
    BY EachLess
<1> QED
    BY <1>1 DEF SpawnsIn

LEMMA SentOther ==
    ASSUME NEW b, IsABag(b), NEW T, NEW n, \A m \in T : m.is # "spawn" \/ m.num # n
    PROVE  SpawnsIn(b (+) SetToBag(T), n) = SpawnsIn(b, n)
<1>1. Each(b (+) SetToBag(T)) = Each(b) \cup {<<m, Top(b, m)>> : m \in T}
    BY EachBoth
<1>2. \A m : <<m, Top(b, m)>>[1] = m
    OBVIOUS
<1> QED
    BY <1>1, <1>2 DEF SpawnsIn

LEMMA SentOne ==
    ASSUME NEW b, IsABag(b), NEW T, NEW s \in T, s.is = "spawn",
           \A m \in T : m.is = "spawn" /\ m.num = s.num => m = s,
           SpawnsIn(b, s.num) = {}
    PROVE  IsOne(SpawnsIn(b (+) SetToBag(T), s.num))
<1> DEFINE tok == <<s, Top(b, s)>>
<1>1. Each(b (+) SetToBag(T)) = Each(b) \cup {<<m, Top(b, m)>> : m \in T}
    BY EachBoth
<1>2. \A m : <<m, Top(b, m)>>[1] = m
    OBVIOUS
<1>3. tok \in SpawnsIn(b (+) SetToBag(T), s.num)
    BY <1>1, <1>2 DEF SpawnsIn
<1>4. ASSUME NEW t \in SpawnsIn(b (+) SetToBag(T), s.num)
      PROVE  t = tok
  <2>1. t \notin Each(b)
      BY <1>4 DEF SpawnsIn
  <2>2. PICK m \in T : t = <<m, Top(b, m)>>
      BY <1>1, <1>4, <2>1 DEF SpawnsIn
  <2>3. m.is = "spawn" /\ m.num = s.num
      BY <1>2, <1>4, <2>2 DEF SpawnsIn
  <2> QED
      BY <2>2, <2>3
<1> HIDE DEF tok
<1> QED
    BY <1>3, <1>4 DEF IsOne

LEMMA EndSent ==
    ASSUME NEW b, NEW T, NEW n
    PROVE  EndIn(b (+) SetToBag(T), n) <=>
              EndIn(b, n) \/ \E m \in T : m.is = "destroy" /\ m.num = n
BY SumOfBags, BagOfSet DEF EndIn

LEMMA EndReceived ==
    ASSUME NEW b, NEW m, NEW n
    PROVE  /\ EndIn(BagRemove(b, m), n) => EndIn(b, n)
           /\ EndIn(b, n) /\ (m.is # "destroy" \/ m.num # n) => EndIn(BagRemove(b, m), n)
<1>1. BagToSet(BagRemove(b, m)) \subseteq BagToSet(b)
    BY OneLess
<1>2. \A e \in BagToSet(b) : e # m => e \in BagToSet(BagRemove(b, m))
    BY DEF BagToSet, BagRemove
<1> QED
    BY <1>1, <1>2 DEF EndIn

LEMMA ShownOther ==
    ASSUME NEW c, IsABag(c), NEW x, NEW n, x.num # n
    PROVE  /\ ShownIn(BagAdd(c, x), n) = ShownIn(c, n)
           /\ x \in BagToSet(c) => ShownIn(BagRemove(c, x), n) = ShownIn(c, n)
<1>1. Each(BagAdd(c, x)) = Each(c) \cup {<<x, Top(c, x)>>}
    BY EachMore
<1>2. x \in BagToSet(c) => Each(BagRemove(c, x)) = Each(c) \ {<<x, c[x]>>}
    BY EachLess
<1>3. <<x, Top(c, x)>>[1] = x /\ <<x, c[x]>>[1] = x
    OBVIOUS
<1>4. ShownIn(BagAdd(c, x), n) = ShownIn(c, n)
    BY <1>1, <1>3 DEF ShownIn
<1>5. x \in BagToSet(c) => ShownIn(BagRemove(c, x), n) = ShownIn(c, n)
    BY <1>2, <1>3 DEF ShownIn
<1> QED
    BY <1>4, <1>5

LEMMA ShownOne ==
    ASSUME NEW c, IsABag(c), NEW x, ShownIn(c, x.num) = {}
    PROVE  IsOne(ShownIn(BagAdd(c, x), x.num))
<1>1. Each(BagAdd(c, x)) = Each(c) \cup {<<x, Top(c, x)>>}
    BY EachMore
<1>2. ShownIn(BagAdd(c, x), x.num) = {<<x, Top(c, x)>>}
    BY <1>1 DEF ShownIn
<1> QED
    BY <1>2 DEF IsOne

LEMMA HiddenOne ==
    ASSUME NEW c, IsABag(c), NEW x \in BagToSet(c), IsOne(ShownIn(c, x.num))
    PROVE  ShownIn(BagRemove(c, x), x.num) = {}
<1>1. Each(BagRemove(c, x)) = Each(c) \ {<<x, c[x]>>} /\ <<x, c[x]>> \in Each(c)
    BY EachLess
<1>2. <<x, c[x]>> \in ShownIn(c, x.num)
    BY <1>1 DEF ShownIn
<1>3. ShownIn(c, x.num) = {<<x, c[x]>>}
    BY <1>2 DEF IsOne
<1> QED
    BY <1>1, <1>3 DEF ShownIn

LEMMA ACopyIsThere ==
    ASSUME NEW c, IsABag(c), NEW n
    PROVE  ShownIn(c, n) # {} <=> \E x \in BagToSet(c) : x.num = n
<1>1. ASSUME NEW x \in BagToSet(c), x.num = n
      PROVE  <<x, c[x]>> \in ShownIn(c, n)
    BY <1>1, EachLess DEF ShownIn
<1>2. ASSUME NEW t \in ShownIn(c, n)
      PROVE  \E x \in BagToSet(c) : x.num = n
    BY <1>2, InEach DEF ShownIn
<1> QED
    BY <1>1, <1>2

LEMMA TraceInit == Init => TraceInv
BY DEF Init, TraceInv, Alive

(* A client whose wire and screen stay as they are, while the room goes on *)
(* knowing what it knew.                                                   *)
LEMMA StillTraced ==
    ASSUME NEW k, NEW n, Traced(k, n),
           net'[k] = net[k], shown'[k] = shown[k],
           announced'[k] = announced[k], UNCHANGED <<known, nextNum>>
    PROVE  Traced(k, n)'
BY DEF Traced

LEMMA TraceNext == TraceInv /\ TypeInv /\ ToldInv /\ [Next]_vars => TraceInv'
<1> SUFFICES ASSUME TraceInv, TypeInv, ToldInv, [Next]_vars
             PROVE  TraceInv'
    OBVIOUS
<1>0. /\ Alive \subseteq known /\ \A n \in known : n < nextNum
      /\ odd = [k \in Keys |-> odd[k]]
      /\ \A k \in told \cup joining : \A n \in Nums \ odd[k] : Traced(k, n)
    BY DEF TraceInv
<1>1. /\ told \cup joining \subseteq clients /\ told \cap joining = {}
      /\ clients \subseteq Keys
      /\ announced = [k \in Keys |-> announced[k]]
    BY DEF ToldInv
<1>2. /\ net = [k \in Keys |-> net[k]] /\ shown = [k \in Keys |-> shown[k]]
      /\ \A k \in Keys : /\ IsABag(net[k]) /\ IsABag(shown[k])
                         /\ BagToSet(net[k]) \subseteq Messages
      /\ nextNum \in Nat /\ Alive \subseteq Nums /\ known \subseteq Nums /\ Nums \subseteq Nat
    BY ReplicationAssumption DEF TypeInv, RoomTypes, WireTypes, BagOf, Nums
<1>3. ASSUME UNCHANGED <<net, shown, announced, odd, known, nextNum>>, Alive' \subseteq Alive,
             (told \cup joining)' \subseteq told \cup joining
      PROVE  TraceInv'
    BY <1>0, <1>3, StillTraced DEF TraceInv
<1>4. ASSUME NEW tag \in Tags, Appear(tag)
      PROVE  TraceInv'
    BY <1>3, <1>4 DEF Appear, screen, past, Alive
<1>5. ASSUME NEW n \in Alive, Hit(n)
      PROVE  TraceInv'
  <2>1. Alive' = Alive
      BY <1>5 DEF Hit, Alive
  <2> QED
      BY <1>3, <1>5, <2>1 DEF Hit, screen, past
<1>17. CASE HitEarly
    BY <1>3, <1>17 DEF HitEarly, screen, past, Alive
<1>6. CASE Perish
  <2>1. Alive' \subseteq Alive
      BY <1>6 DEF Perish, Alive
  <2> QED
      BY <1>3, <1>6, <2>1 DEF Perish, screen, past
<1>7. CASE NewRoom
  <2>1. clients = {} /\ clients' = {} /\ told' = told /\ joining' = joining /\ odd' = odd
        /\ known' = {} /\ Alive' = {}
      BY <1>7 DEF NewRoom, past, Alive
  <2>2. told' \cup joining' = {}
      BY <1>1, <2>1
  <2> QED
      BY <1>0, <2>1, <2>2 DEF TraceInv
<1>8. CASE Broadcast
  <2>0. PICK last \in (nextNum - 1)..MaxNum : \E f \in Numbered(last) :
           \E new \in NewlyStruck(f) : Told(last, f, new)
      BY <1>8, ATick
  <2>f. PICK f \in Numbered(last) : \E new \in NewlyStruck(f) : Told(last, f, new)
      BY <2>0
  <2>n. PICK new \in NewlyStruck(f) : Told(last, f, new)
      BY <2>f
  <2>1. /\ world' = [n \in Alive \cup DOMAIN f |->
                       IF n \in Alive THEN Calmed(world)[n]
                       ELSE [tag |-> f[n], hit |-> FALSE]]
        /\ nextNum' = last + 1
        /\ net' = [k \in Keys |->
              IF k \in clients
              THEN net[k] (+) SetToBag(Spawns(f) \cup Deaths \cup Hits(new))
              ELSE net[k]]
        /\ announced' = [k \in Keys |->
              IF k \in clients THEN announced[k] \cup DOMAIN f
              ELSE announced[k]]
        /\ known' = DOMAIN world'
      BY <2>n DEF Told
  <2>2. UNCHANGED <<clients, joining, told, shown, odd>>
      BY <1>8 DEF Broadcast, screen
  <2>3. DOMAIN f = nextNum..last /\ last \in Int /\ last >= nextNum - 1
      BY <1>2, ReplicationAssumption DEF Numbered
  <2>4. Alive' = Alive \cup DOMAIN f /\ known' = Alive \cup DOMAIN f
      BY <2>1 DEF Alive
  <2>5. \A n \in known' : n < nextNum'
    <3>1. \A n \in Alive : n < nextNum /\ n \in Nat
        BY <1>0, <1>2
    <3> QED
        BY <1>2, <2>1, <2>3, <2>4, <3>1
  <2>6. ASSUME NEW k \in told \cup joining, NEW n \in Nums \ odd[k]
        PROVE  Traced(k, n)'
    <3> DEFINE T == Spawns(f) \cup Deaths \cup Hits(new)
               b == net[k]
               c == shown[k]
    <3>1. k \in clients /\ k \in Keys
        BY <1>1
    <3>2. net'[k] = b (+) SetToBag(T) /\ shown'[k] = c
        BY <2>1, <2>2, <3>1
    <3>3. announced'[k] = announced[k] \cup DOMAIN f
        BY <2>1, <3>1
    <3>4. Trace(b, c, n, n \in known, n \in announced[k])
          /\ (n >= nextNum => Unused(b, c, n) /\ n \notin announced[k])
        BY <1>0 DEF Traced
    <3>5. IsABag(b) /\ n \in Nat
        BY <1>2, <3>1
    <3>6. /\ \A m \in T : m.is = "spawn" => m \in Spawns(f)
          /\ \A m \in T : m.is = "destroy" <=> m \in Deaths
          /\ \A m \in Spawns(f) : m.is = "spawn" /\ m.num \in DOMAIN f
          /\ \A m \in Deaths : m.is = "destroy" /\ m.num \in known \ Alive
      <4>1. \A m \in Spawns(f) : m.is = "spawn" /\ m.num \in DOMAIN f
          BY DEF Spawns, SpawnMsg
      <4>2. \A m \in Deaths : m.is = "destroy" /\ m.num \in known \ Alive
        <5>1. \A i : DestroyMsg(i).is = "destroy" /\ DestroyMsg(i).num = i
            BY DEF DestroyMsg
        <5> QED
            BY <5>1 DEF Deaths
      <4>3. \A m \in Hits(new) : m.is = "hit"
        <5>1. \A i : HitMsg(i).is = "hit"
            BY DEF HitMsg
        <5> QED
            BY <5>1 DEF Hits
      <4>4. \A m \in T : m \in Spawns(f) \/ m \in Deaths \/ m \in Hits(new)
          OBVIOUS
      <4>5. \A m \in Deaths : m \in T
          OBVIOUS
      <4> HIDE DEF T
      <4> QED
          BY <4>1, <4>2, <4>3, <4>4, <4>5
    <3> HIDE DEF T, b, c
    <3>7. EndIn(net'[k], n) <=> EndIn(b, n) \/ n \in known \ Alive
      <4>1. (\E m \in T : m.is = "destroy" /\ m.num = n) <=> n \in known \ Alive
        <5>1. ASSUME n \in known \ Alive
              PROVE  DestroyMsg(n) \in T /\ DestroyMsg(n).is = "destroy" /\ DestroyMsg(n).num = n
            BY <5>1 DEF T, Deaths, DestroyMsg
        <5> QED
            BY <3>6, <5>1
      <4> QED
          BY <3>2, <4>1, EndSent
    <3>8. CASE n \in DOMAIN f
      <4>1. n >= nextNum /\ n < nextNum' /\ n \notin known /\ n \in known' /\ n \in announced'[k]
        <5>1. n >= nextNum /\ n <= last
            BY <1>2, <2>3, <3>8
        <5>2. n \notin known
            BY <1>0, <1>2, <3>5, <5>1
        <5>3. nextNum' = last + 1
            BY <2>1
        <5>4. n < nextNum'
            BY <2>3, <3>5, <5>1, <5>3
        <5> QED
            BY <2>4, <3>3, <3>8, <5>1, <5>2, <5>4
      <4>2. Unused(b, c, n)
          BY <3>4, <4>1
      <4> DEFINE s == SpawnMsg(n, f[n], SubTypeWhenSpawned(f[n]))
      <4>3. s \in T /\ s.is = "spawn" /\ s.num = n
          BY <3>8 DEF T, Spawns, SpawnMsg
      <4>4. \A m \in T : m.is = "spawn" /\ m.num = s.num => m = s
        <5> SUFFICES ASSUME NEW m \in T, m.is = "spawn", m.num = n
                     PROVE  m = s
            BY <4>3
        <5>1. PICK i \in DOMAIN f : m = SpawnMsg(i, f[i], SubTypeWhenSpawned(f[i]))
            BY <3>6 DEF Spawns
        <5>2. m.num = i
            BY <5>1 DEF SpawnMsg
        <5> QED
            BY <5>1, <5>2
      <4> HIDE DEF s
      <4>5. IsOne(SpawnsIn(net'[k], n))
          BY <3>2, <3>5, <4>2, <4>3, <4>4, SentOne DEF Unused, Nowhere
      <4>6. ShownIn(c, n) = {} /\ ~EndIn(net'[k], n)
          BY <3>7, <4>1, <4>2 DEF Unused, Nowhere
      <4>7. Trace(net'[k], c, n, n \in known', n \in announced'[k])
          BY <4>1, <4>5, <4>6 DEF Trace, Once
      <4>8. ~(n >= nextNum')
          BY <1>2, <2>1, <2>3, <3>5, <4>1
      <4> QED
          BY <3>2, <4>7, <4>8 DEF Traced
    <3>9. CASE n \notin DOMAIN f
      <4>1. SpawnsIn(net'[k], n) = SpawnsIn(b, n)
        <5>1. \A m \in T : m.is # "spawn" \/ m.num # n
            BY <3>6, <3>9
        <5> QED
            BY <3>2, <3>5, <5>1, SentOther
      <4>2. (n \in announced'[k] <=> n \in announced[k]) /\ (n \in known' <=> n \in Alive)
          BY <2>4, <3>3, <3>9
      <4>3. n >= nextNum' => n >= nextNum /\ n \notin known
          BY <1>0, <1>2, <2>1, <2>3, <3>5
      <4>4. Trace(net'[k], c, n, n \in known', n \in announced'[k])
        <5>1. CASE n \in Alive
          <6>1. n \in known /\ (EndIn(net'[k], n) <=> EndIn(b, n))
              BY <1>0, <3>7, <5>1
          <6> QED
              BY <3>4, <4>1, <4>2, <5>1, <6>1 DEF Trace, Once, Nowhere
        <5>2. CASE n \in known \ Alive
            BY <3>4, <3>7, <4>1, <4>2, <5>2 DEF Trace, Once, Nowhere
        <5>3. CASE n \notin known
          <6>1. n \notin Alive /\ (EndIn(net'[k], n) <=> EndIn(b, n))
              BY <1>0, <3>7, <5>3
          <6> QED
              BY <3>4, <4>1, <4>2, <5>3, <6>1 DEF Trace, Once, Nowhere
        <5> QED
            BY <1>0, <5>1, <5>2, <5>3
      <4>5. n >= nextNum' => Unused(net'[k], c, n) /\ n \notin announced'[k]
          BY <3>4, <3>7, <4>1, <4>2, <4>3 DEF Unused, Nowhere
      <4> QED
          BY <3>2, <4>4, <4>5 DEF Traced
    <3> QED
        BY <3>8, <3>9
  <2> QED
      BY <1>0, <2>2, <2>4, <2>5, <2>6 DEF TraceInv
<1>9. ASSUME NEW k \in Keys, Join(k)
      PROVE  TraceInv'
  <2>1. /\ k \notin clients /\ joining' = joining \cup {k}
        /\ announced' = [announced EXCEPT ![k] = {}]
        /\ odd' = [odd EXCEPT ![k] = On(k)]
        /\ UNCHANGED <<world, known, nextNum, net, shown, told>>
      BY <1>9 DEF Join, screen
  <2>2. ASSUME NEW l \in told \cup joining, NEW n \in Nums \ odd'[l]
        PROVE  Traced(l, n)'
    <3>1. l # k
        BY <1>1, <2>1
    <3>2. odd'[l] = odd[l] /\ announced'[l] = announced[l]
        BY <1>0, <1>1, <2>1, <3>1
    <3> QED
        BY <1>0, <2>1, <3>2, StillTraced
  <2>3. ASSUME NEW n \in Nums \ odd'[k]
        PROVE  Traced(k, n)'
    <3>1. n \notin On(k) /\ announced'[k] = {} /\ net' = net /\ shown' = shown
        BY <1>0, <1>1, <2>1
    <3>2. /\ \A m \in BagToSet(net[k]) : m.num # n
          /\ \A c \in BagToSet(shown[k]) : c.num # n
        BY <3>1 DEF On
    <3>3. Unused(net[k], shown[k], n)
        BY <3>2, Unmentioned DEF Unused, Nowhere
    <3> QED
        BY <3>1, <3>3 DEF Traced, Trace, Unused
  <2> QED
      BY <1>0, <1>1, <2>1, <2>2, <2>3 DEF TraceInv, Alive
<1>10. ASSUME NEW k \in Keys, SendInitialState(k)
       PROVE  TraceInv'
  <2> DEFINE all == {SpawnMsg(n, world[n].tag, SubTypeForNewcomer(world[n].tag)) :
                       n \in Alive}
             b == net[k]
             c == shown[k]
  <2>1. /\ k \in joining /\ joining' = joining \ {k} /\ told' = told \cup {k}
        /\ net' = [net EXCEPT ![k] = net[k] (+) SetToBag(all)]
        /\ announced' = [announced EXCEPT ![k] = @ \cup Alive]
        /\ odd' = [odd EXCEPT ![k] = @ \cup (Alive \cap announced[k])]
        /\ UNCHANGED <<world, known, nextNum, shown>>
      BY <1>10 DEF SendInitialState, Announce, screen
  <2>2. ASSUME NEW l \in told \cup joining, l # k, NEW n \in Nums \ odd'[l]
        PROVE  Traced(l, n)'
    <3>1. /\ odd'[l] = odd[l] /\ announced'[l] = announced[l] /\ net'[l] = net[l]
          /\ shown'[l] = shown[l]
        BY <1>0, <1>1, <1>2, <2>1, <2>2
    <3> QED
        BY <1>0, <2>1, <3>1, StillTraced
  <2>3. ASSUME NEW n \in Nums \ odd'[k]
        PROVE  Traced(k, n)'
    <3>1. /\ net'[k] = b (+) SetToBag(all) /\ shown'[k] = c
          /\ announced'[k] = announced[k] \cup Alive
          /\ n \notin odd[k] /\ (n \in Alive => n \notin announced[k])
        BY <1>0, <1>1, <1>2, <2>1
    <3>2. /\ Trace(b, c, n, n \in known, n \in announced[k])
          /\ n >= nextNum => Unused(b, c, n) /\ n \notin announced[k]
        BY <1>0, <2>1, <3>1 DEF Traced
    <3>3. IsABag(b)
        BY <1>2
    <3>4. \A m \in all : m.is = "spawn" /\ m.num \in Alive
        BY DEF SpawnMsg
    <3> HIDE DEF b, c
    <3>5. EndIn(net'[k], n) <=> EndIn(b, n)
      <4>1. ~\E m \in all : m.is = "destroy" /\ m.num = n
          BY <3>4
      <4> HIDE DEF all
      <4> QED
          BY <3>1, <4>1, EndSent
    <3>6. CASE n \in Alive
      <4> DEFINE s == SpawnMsg(n, world[n].tag, SubTypeForNewcomer(world[n].tag))
      <4>1. s \in all /\ s.is = "spawn" /\ s.num = n
          BY <3>6 DEF SpawnMsg
      <4>2. \A m \in all : m.is = "spawn" /\ m.num = s.num => m = s
          BY <4>1 DEF SpawnMsg
      <4>3. n \in known /\ n < nextNum /\ n \in announced'[k]
          BY <1>0, <3>1, <3>6
      <4>4. Nowhere(b, c, n) /\ ~EndIn(b, n)
          BY <3>1, <3>2, <3>6, <4>3 DEF Trace
      <4> HIDE DEF s, all
      <4>5. IsOne(SpawnsIn(net'[k], n))
          BY <3>1, <3>3, <4>1, <4>2, <4>4, SentOne DEF Nowhere
      <4>6. Trace(net'[k], c, n, n \in known, n \in announced'[k])
          BY <3>5, <4>3, <4>4, <4>5 DEF Trace, Once, Nowhere
      <4>7. ~(n >= nextNum)
          BY <1>2, <4>3
      <4> QED
          BY <2>1, <3>1, <4>6, <4>7 DEF Traced
    <3>7. CASE n \notin Alive
      <4>1. \A m \in all : m.is # "spawn" \/ m.num # n
          BY <3>4, <3>7
      <4> HIDE DEF all
      <4>2. SpawnsIn(net'[k], n) = SpawnsIn(b, n)
          BY <3>1, <3>3, <4>1, SentOther
      <4>3. n \in announced'[k] <=> n \in announced[k]
          BY <3>1, <3>7
      <4>4. Trace(net'[k], c, n, n \in known, n \in announced'[k])
          BY <3>2, <3>5, <4>2, <4>3 DEF Trace, Once, Nowhere
      <4>5. n >= nextNum => Unused(net'[k], c, n) /\ n \notin announced'[k]
          BY <3>2, <3>5, <4>2, <4>3 DEF Unused, Nowhere
      <4> QED
          BY <2>1, <3>1, <4>4, <4>5 DEF Traced
    <3> QED
        BY <3>6, <3>7
  <2>4. /\ odd' = [l \in Keys |-> odd'[l]] /\ Alive' = Alive
        /\ told' \cup joining' \subseteq told \cup joining
      BY <1>0, <2>1 DEF Alive
  <2> QED
      BY <1>0, <2>1, <2>2, <2>3, <2>4 DEF TraceInv
<1>11. ASSUME NEW k \in Keys, Leave(k)
       PROVE  TraceInv'
    BY <1>3, <1>11 DEF Leave, screen, Alive
<1>12. ASSUME NEW k \in Keys, ClearRegistry(k)
       PROVE  TraceInv'
  <2>1. /\ k \in told /\ told' = told \ {k}
        /\ shown' = [shown EXCEPT ![k] = EmptyBag]
        /\ UNCHANGED <<world, known, nextNum, joining, net, announced, odd>>
      BY <1>12 DEF ClearRegistry, server
  <2>2. ASSUME NEW l \in told' \cup joining', NEW n \in Nums \ odd'[l]
        PROVE  Traced(l, n)'
    <3>1. l # k /\ l \in told \cup joining /\ l \in Keys
        BY <1>1, <2>1
    <3>2. shown'[l] = shown[l]
        BY <1>2, <2>1, <3>1
    <3> QED
        BY <1>0, <2>1, <3>1, <3>2, StillTraced
  <2> QED
      BY <1>0, <2>1, <2>2 DEF TraceInv, Alive
<1>13. ASSUME NEW k \in Keys, Receive(k)
       PROVE  TraceInv'
  <2>1. PICK m \in BagToSet(net[k]) :
           HandleSpawn(k, m) \/ HandleDestroy(k, m) \/ HandleMove(k, m)
      BY <1>13 DEF Receive
  <2> DEFINE b == net[k]
             c == shown[k]
  <2>2. /\ net' = [net EXCEPT ![k] = BagRemove(b, m)]
        /\ odd' = IF Overtakes(k, m) THEN [odd EXCEPT ![k] = @ \cup {m.num}] ELSE odd
        /\ UNCHANGED <<world, known, nextNum, joining, told, announced>>
      BY <2>1 DEF HandleSpawn, HandleDestroy, HandleMove, Received, server
  <2>3. shown' = [shown EXCEPT ![k] = shown'[k]]
      BY <1>2, <2>1 DEF HandleSpawn, HandleDestroy, HandleMove
  <2>4. /\ odd' = [l \in Keys |-> odd'[l]]
        /\ \A l \in Keys : odd[l] \subseteq odd'[l]
        /\ Overtakes(k, m) => m.num \in odd'[k]
      BY <1>0, <2>2
  <2>5. ASSUME NEW l \in told \cup joining, l # k, NEW n \in Nums \ odd'[l]
        PROVE  Traced(l, n)'
    <3>1. l \in Keys /\ n \notin odd[l]
        BY <1>1, <2>4
    <3>2. net'[l] = net[l] /\ shown'[l] = shown[l]
        BY <1>2, <2>2, <2>3, <2>5, <3>1
    <3> QED
        BY <1>0, <2>2, <3>1, <3>2, StillTraced
  <2>6. ASSUME k \in told \cup joining, NEW n \in Nums \ odd'[k]
        PROVE  Traced(k, n)'
    <3>1. n \notin odd[k] /\ (n = m.num => ~Overtakes(k, m))
        BY <2>4
    <3>2. /\ Trace(b, c, n, n \in known, n \in announced[k])
          /\ n >= nextNum => Unused(b, c, n) /\ n \notin announced[k]
        BY <1>0, <2>6, <3>1 DEF Traced
    <3>3. IsABag(b) /\ IsABag(c) /\ m \in BagToSet(b)
        BY <1>2, <2>1
    <3>4. net'[k] = BagRemove(b, m)
        BY <1>2, <2>2
    <3> SUFFICES /\ Trace(net'[k], shown'[k], n, n \in known, n \in announced[k])
                 /\ n >= nextNum => Unused(net'[k], shown'[k], n)
        BY <2>2, <3>2 DEF Traced
    <3>5. CASE HandleSpawn(k, m)
      <4>1. m.is = "spawn" /\ shown'[k] = BagAdd(c, Copy(m))
          BY <1>2, <3>5 DEF HandleSpawn
      <4>2. Copy(m).num = m.num
          BY DEF Copy
      <4> HIDE DEF b, c
      <4>3. EndIn(net'[k], n) <=> EndIn(b, n)
          BY <3>4, <4>1, EndReceived
      <4>4. CASE n # m.num
        <5>1. SpawnsIn(net'[k], n) = SpawnsIn(b, n) /\ ShownIn(shown'[k], n) = ShownIn(c, n)
            BY <3>3, <3>4, <4>1, <4>2, <4>4, ReceivedOther, ShownOther
        <5> QED
            BY <3>2, <4>3, <5>1 DEF Trace, Unused, Once, Nowhere
      <4>5. CASE n = m.num
        <5>1. SpawnsIn(b, n) # {}
            BY <3>3, <4>1, <4>5, ASpawnIsThere
        <5>2. IsOne(SpawnsIn(b, n)) /\ ShownIn(c, n) = {}
            BY <3>2, <5>1 DEF Trace, Once, Nowhere
        <5>3. SpawnsIn(net'[k], n) = {}
            BY <3>3, <3>4, <4>1, <4>5, <5>2, ReceivedOne
        <5>4. IsOne(ShownIn(shown'[k], n))
            BY <3>3, <4>1, <4>2, <4>5, <5>2, ShownOne
        <5> QED
            BY <3>2, <4>3, <5>1, <5>2, <5>3, <5>4 DEF Trace, Unused, Once, Nowhere
      <4> QED
          BY <4>4, <4>5
    <3>6. CASE HandleDestroy(k, m)
      <4>1. /\ m.is = "destroy"
            /\ \/ \E x \in CopiesOf(k, m.num) : shown'[k] = BagRemove(c, x)
               \/ CopiesOf(k, m.num) = {} /\ shown'[k] = c
          BY <1>2, <3>6 DEF HandleDestroy
      <4>2. CopiesOf(k, m.num) = {x \in BagToSet(c) : x.num = m.num}
          BY DEF CopiesOf
      <4>3. SpawnsIn(net'[k], n) = SpawnsIn(b, n)
        <5> HIDE DEF b, c
        <5> QED
            BY <3>3, <3>4, <4>1, ReceivedOther
      <4>4. CASE n # m.num
        <5> HIDE DEF b, c
        <5>1. EndIn(net'[k], n) <=> EndIn(b, n)
            BY <3>4, <4>4, EndReceived
        <5>2. ShownIn(shown'[k], n) = ShownIn(c, n)
          <6>1. ASSUME NEW x \in BagToSet(c), x.num = m.num
                PROVE  ShownIn(BagRemove(c, x), n) = ShownIn(c, n)
              BY <3>3, <4>4, <6>1, ShownOther
          <6> QED
              BY <4>1, <4>2, <6>1
        <5> QED
            BY <3>2, <4>3, <5>1, <5>2 DEF Trace, Unused, Once, Nowhere
      <4>5. CASE n = m.num
        <5>1. SpawnsIn(b, n) = {}
          <6>1. ~\E s \in BagToSet(b) : s.is = "spawn" /\ s.num = n
              BY <3>1, <4>1, <4>5 DEF Overtakes
          <6> QED
              BY <6>1, InEach DEF SpawnsIn
        <5>2. EndIn(b, n)
            BY <3>3, <4>1, <4>5 DEF EndIn
        <5> HIDE DEF b, c
        <5>3. n \notin known /\ ~(n >= nextNum)
            BY <3>2, <5>2 DEF Trace, Unused
        <5>4. ShownIn(shown'[k], n) = {}
          <6>1. CASE ShownIn(c, n) = {}
            <7>1. CopiesOf(k, m.num) = {}
                BY <3>3, <4>2, <4>5, <6>1, ACopyIsThere
            <7> QED
                BY <4>1, <6>1, <7>1
          <6>2. CASE IsOne(ShownIn(c, n))
            <7>1. ShownIn(c, n) # {}
                BY <6>2 DEF IsOne
            <7>2. CopiesOf(k, m.num) # {}
                BY <3>3, <4>2, <4>5, <7>1, ACopyIsThere
            <7>3. PICK x \in BagToSet(c) : x.num = n /\ shown'[k] = BagRemove(c, x)
                BY <4>1, <4>2, <4>5, <7>2
            <7> QED
                BY <3>3, <6>2, <7>3, HiddenOne
          <6> QED
              BY <3>2, <5>1, <5>3, <6>1, <6>2 DEF Trace, Once, Nowhere
        <5> QED
            BY <4>3, <5>1, <5>3, <5>4 DEF Trace, Nowhere
      <4> QED
          BY <4>4, <4>5
    <3>7. CASE HandleMove(k, m)
      <4>1. m.is = "hit" /\ shown'[k] = c
          BY <1>2, <3>7 DEF HandleMove
      <4> HIDE DEF b, c
      <4>2. SpawnsIn(net'[k], n) = SpawnsIn(b, n) /\ (EndIn(net'[k], n) <=> EndIn(b, n))
          BY <3>3, <3>4, <4>1, ReceivedOther, EndReceived
      <4> QED
          BY <3>2, <4>1, <4>2 DEF Trace, Unused, Once, Nowhere
    <3> QED
        BY <2>1, <3>5, <3>6, <3>7
  <2> QED
      BY <1>0, <2>2, <2>4, <2>5, <2>6 DEF TraceInv, Alive
<1>14. ASSUME NEW k \in Keys, NEW x \in BagToSet(shown[k]), FlyOff(k, x)
       PROVE  TraceInv'
  <2>1. /\ shown' = [shown EXCEPT ![k] = BagRemove(shown[k], x)]
        /\ odd' = [odd EXCEPT ![k] = @ \cup {x.num}]
        /\ UNCHANGED <<world, known, nextNum, joining, net, told, announced>>
      BY <1>14 DEF FlyOff, server
  <2>2. ASSUME NEW l \in told \cup joining, NEW n \in Nums \ odd'[l]
        PROVE  Traced(l, n)'
    <3>1. l \in Keys /\ n \notin odd[l] /\ (l = k => n # x.num)
        BY <1>0, <1>1, <2>1
    <3>2. Traced(l, n)
        BY <1>0, <3>1
    <3>3. ShownIn(shown'[l], n) = ShownIn(shown[l], n)
        BY <1>2, <2>1, <3>1, ShownOther
    <3> QED
        BY <2>1, <3>2, <3>3 DEF Traced, Trace, Unused, Once, Nowhere
  <2> QED
      BY <1>0, <2>1, <2>2 DEF TraceInv, Alive
<1>15. CASE Udp
  <2>0. PICK k \in Keys : \E m \in BagToSet(net[k]) : Lose(k, m) \/ Double(k, m)
      BY <1>15 DEF Udp
  <2>1. PICK m \in BagToSet(net[k]) : Lose(k, m) \/ Double(k, m)
      BY <2>0
  <2>2. /\ odd' = [odd EXCEPT ![k] = @ \cup {m.num}]
        /\ UNCHANGED <<world, known, nextNum, joining, shown, told, announced>>
        /\ \/ net' = [net EXCEPT ![k] = BagRemove(net[k], m)]
           \/ net' = [net EXCEPT ![k] = BagAdd(net[k], m)]
      BY <2>1 DEF Lose, Double, Fault, server, screen
  <2>3. ASSUME NEW l \in told \cup joining, NEW n \in Nums \ odd'[l]
        PROVE  Traced(l, n)'
    <3>1. l \in Keys /\ n \notin odd[l] /\ (l = k => n # m.num)
        BY <1>0, <1>1, <2>2
    <3>2. Traced(l, n)
        BY <1>0, <3>1
    <3>3. SpawnsIn(net'[l], n) = SpawnsIn(net[l], n) /\ (EndIn(net'[l], n) <=> EndIn(net[l], n))
      <4>1. CASE l # k
        <5>1. net'[l] = net[l]
            BY <1>2, <2>2, <3>1, <4>1
        <5> QED
            BY <5>1
      <4>2. CASE l = k /\ net'[l] = BagRemove(net[l], m)
          BY <1>2, <2>1, <3>1, <4>2, ReceivedOther, EndReceived
      <4>3. CASE l = k /\ net'[l] = BagAdd(net[l], m)
        <5>0. m \in BagToSet(net[l])
            BY <2>1, <4>3
        <5>1. Each(net'[l]) = Each(net[l]) \cup {<<m, Top(net[l], m)>>}
            BY <1>2, <3>1, <4>3, EachMore
        <5>2. <<m, Top(net[l], m)>>[1] = m /\ m.num # n
            BY <3>1, <4>3
        <5>3. BagToSet(net'[l]) = BagToSet(net[l])
            BY <4>3, <5>0, OneMore
        <5>4. SpawnsIn(net'[l], n) = SpawnsIn(net[l], n)
            BY <5>1, <5>2 DEF SpawnsIn
        <5> QED
            BY <5>3, <5>4 DEF EndIn
      <4> QED
          BY <1>2, <2>2, <3>1, <4>1, <4>2, <4>3
    <3> QED
        BY <2>2, <3>2, <3>3 DEF Traced, Trace, Unused, Once, Nowhere
  <2> QED
      BY <1>0, <2>2, <2>3 DEF TraceInv, Alive
<1>16. CASE UNCHANGED vars
    BY <1>3, <1>16 DEF vars, server, screen, past, Alive
<1> QED
    BY <1>4, <1>5, <1>6, <1>7, <1>8, <1>9, <1>10, <1>11, <1>12, <1>13, <1>14,
       <1>15, <1>16, <1>17 DEF Next, Room, Clients

(* Once nothing is on its way to a client, its screen is right about every *)
(* entity the wire, the client's own map and its earlier stays have not    *)
(* meddled with: there once while it lives, gone when the server has       *)
(* forgotten it (BroadcastSystem against NetworkSystem, whatever clients   *)
(* join, leave, clear their registry and come back, and whichever numbers  *)
(* a new room gives again).                                                *)
THEOREM GhostsAreExplained == Spec => []GhostsHaveACause
<1>1. TraceInv /\ ToldInv => GhostsHaveACause
  <2> SUFFICES ASSUME TraceInv, ToldInv, NEW k \in told, net[k] = EmptyBag,
                      NEW n \in Nums \ odd[k]
               PROVE  /\ n \in Alive => Copies(k, n) = 1
                      /\ n \notin known => Copies(k, n) = 0
      BY DEF GhostsHaveACause
  <2>1. Trace(net[k], shown[k], n, n \in known, n \in announced[k])
      BY DEF TraceInv, Traced
  <2>2. SpawnsIn(net[k], n) = {} /\ ~EndIn(net[k], n)
      BY NothingInEmptyBag, NothingTwice
  <2>3. Copies(k, n) = Cardinality(ShownIn(shown[k], n))
      BY DEF Copies, ShownIn
  <2>4. ~IsOne({})
      BY DEF IsOne
  <2>5. ASSUME n \in Alive
        PROVE  Copies(k, n) = 1
    <3>1. n \in known /\ n \in announced[k]
        BY <2>5 DEF TraceInv, ToldInv, NewcomersMissNothing
    <3>2. IsOne(ShownIn(shown[k], n))
        BY <2>1, <2>2, <2>4, <3>1 DEF Trace, Once
    <3> QED
      <4>1. PICK t : ShownIn(shown[k], n) = {t}
          BY <3>2 DEF IsOne
      <4>2. Cardinality({t}) = 1
          BY FS_Singleton
      <4> QED
          BY <2>3, <4>1, <4>2, Zenon
  <2>6. ASSUME n \notin known
        PROVE  Copies(k, n) = 0
    <3>1. ShownIn(shown[k], n) = {}
        BY <2>1, <2>2, <2>6 DEF Trace, Nowhere
    <3> QED
        BY <2>3, <3>1, FS_EmptySet, Zenon
  <2> QED
      BY <2>5, <2>6
<1> QED
    BY <1>1, TraceInit, TraceNext, TypesInit, TypesNext, ToldInit, ToldNext, PTL DEF Spec

----------------------------------------------------------------------------
(* Hits.                                                                   *)

(* The hits a bag of messages tells of.                                    *)
HitsIn(b) == {t \in Each(b) : t[1].is = "hit"}

(* Every hit is with the room, on the way to a client, or has been shown   *)
(* there, once for every time it happened or was doubled.                  *)
HitInv == /\ hits \in Nat /\ faults \in Nat /\ early \in Nat
          /\ \A k \in Keys :
                /\ IsFiniteSet(HitsIn(net[k]))
                /\ flashes[k] + Cardinality(HitsIn(net[k])) + Cardinality(Struck) + early
                      <= hits + faults

LEMMA NumsAreFinite ==
    ASSUME NEW S \in SUBSET Nums
    PROVE  IsFiniteSet(S) /\ Cardinality(S) \in Nat
<1>1. IsFiniteSet(Nums)
    BY FS_Interval, ReplicationAssumption DEF Nums
<1> QED
    BY <1>1, FS_Subset, FS_CardinalityType

LEMMA SmallerSet ==
    ASSUME NEW S, IsFiniteSet(S), NEW T \in SUBSET S
    PROVE  /\ IsFiniteSet(T) /\ Cardinality(T) \in Nat /\ Cardinality(S) \in Nat
           /\ Cardinality(T) <= Cardinality(S)
BY FS_Subset, FS_CardinalityType

LEMMA OneMoreInSet ==
    ASSUME NEW S, IsFiniteSet(S), NEW x, NEW T \in SUBSET (S \cup {x})
    PROVE  /\ IsFiniteSet(T) /\ Cardinality(T) \in Nat /\ Cardinality(S) \in Nat
           /\ Cardinality(T) <= Cardinality(S) + 1
<1>1. /\ IsFiniteSet(S \cup {x}) /\ Cardinality(S) \in Nat
      /\ Cardinality(S \cup {x}) <= Cardinality(S) + 1
  <2>1. Cardinality(S) \in Nat
      BY FS_CardinalityType
  <2>2. /\ IsFiniteSet(S \cup {x})
        /\ Cardinality(S \cup {x}) = IF x \in S THEN Cardinality(S) ELSE Cardinality(S) + 1
      BY FS_AddElement
  <2> QED
      BY <2>1, <2>2
<1>2. /\ IsFiniteSet(T) /\ Cardinality(T) \in Nat /\ Cardinality(S \cup {x}) \in Nat
      /\ Cardinality(T) <= Cardinality(S \cup {x})
    BY <1>1, SmallerSet
<1> QED
    BY <1>1, <1>2

LEMMA HitsToldOnceMore ==
    ASSUME NEW b, IsABag(b), IsFiniteSet(HitsIn(b)),
           NEW S, IsFiniteSet(S), NEW T,
           \A m \in T : m.is = "hit" => \E n \in S : m = HitMsg(n)
    PROVE  /\ IsFiniteSet(HitsIn(b (+) SetToBag(T)))
           /\ Cardinality(HitsIn(b (+) SetToBag(T))) \in Nat
           /\ Cardinality(HitsIn(b (+) SetToBag(T))) <= Cardinality(HitsIn(b)) + Cardinality(S)
<1> DEFINE h == [n \in S |-> <<HitMsg(n), Top(b, HitMsg(n))>>]
           X == {h[n] : n \in S}
           H == HitsIn(b)
           J == HitsIn(b (+) SetToBag(T))
<1>1. h \in Surjection(S, X)
    BY DEF Surjection
<1>2. IsFiniteSet(X) /\ Cardinality(X) <= Cardinality(S)
  <2> HIDE DEF h, X
  <2> QED
      BY <1>1, FS_Surjection
<1>3. J \subseteq H \cup X
  <2> SUFFICES ASSUME NEW t \in J, t \notin H
               PROVE  t \in X
      OBVIOUS
  <2>1. t \in Each(b) \/ \E m \in T : t = <<m, Top(b, m)>>
      BY EachBoth DEF HitsIn
  <2>2. t \notin Each(b) /\ t[1].is = "hit"
      BY DEF HitsIn
  <2>3. PICK m \in T : t = <<m, Top(b, m)>>
      BY <2>1, <2>2
  <2>4. m.is = "hit"
      BY <2>2, <2>3
  <2>5. PICK n \in S : m = HitMsg(n)
      BY <2>4
  <2> QED
      BY <2>3, <2>5
<1> HIDE DEF X, H, J
<1>4. /\ IsFiniteSet(H \cup X) /\ Cardinality(H) \in Nat /\ Cardinality(X) \in Nat
      /\ Cardinality(S) \in Nat /\ Cardinality(H \cap X) \in Nat
      /\ Cardinality(H \cup X) = Cardinality(H) + Cardinality(X) - Cardinality(H \cap X)
  <2>1. IsFiniteSet(H)
      BY DEF H
  <2>2. IsFiniteSet(H \cap X)
      BY <2>1, FS_Intersection
  <2> QED
      BY <1>2, <2>1, <2>2, FS_Union, FS_CardinalityType
<1>5. IsFiniteSet(J) /\ Cardinality(J) \in Nat /\ Cardinality(J) <= Cardinality(H \cup X)
    BY <1>3, <1>4, SmallerSet
<1>6. Cardinality(J) <= Cardinality(H) + Cardinality(S)
    BY <1>2, <1>4, <1>5
<1> QED
    BY <1>5, <1>6 DEF H, J

LEMMA HitInit == Init => HitInv
<1> SUFFICES ASSUME Init
             PROVE  HitInv
    OBVIOUS
<1>1. HitsIn(EmptyBag) = {}
    BY NothingInEmptyBag, InEach DEF HitsIn
<1>2. Struck = {}
    BY DEF Init, Struck, Alive
<1>3. IsFiniteSet({}) /\ Cardinality({}) = 0
    BY FS_EmptySet
<1>4. ASSUME NEW k \in Keys
      PROVE  net[k] = EmptyBag /\ flashes[k] = 0
    BY DEF Init
<1>5. hits = 0 /\ faults = 0 /\ early = 0
    BY DEF Init
<1> QED
    BY <1>1, <1>2, <1>3, <1>4, <1>5 DEF HitInv

LEMMA HitNext == HitInv /\ TypeInv /\ ToldInv /\ [Next]_vars => HitInv'
<1> SUFFICES ASSUME HitInv, TypeInv, ToldInv, [Next]_vars
             PROVE  HitInv'
    OBVIOUS
<1>0. /\ hits \in Nat /\ faults \in Nat /\ early \in Nat
      /\ \A k \in Keys :
            /\ IsFiniteSet(HitsIn(net[k])) /\ Cardinality(HitsIn(net[k])) \in Nat
            /\ flashes[k] + Cardinality(HitsIn(net[k])) + Cardinality(Struck) + early
                  <= hits + faults
    BY FS_CardinalityType DEF HitInv
<1>1. /\ net = [k \in Keys |-> net[k]]
      /\ \A k \in Keys : IsABag(net[k])
      /\ flashes \in [Keys -> Nat]
      /\ Alive \subseteq Nums
    BY DEF TypeInv, RoomTypes, WireTypes, BagOf
<1>2. IsFiniteSet(Struck) /\ Cardinality(Struck) \in Nat
    BY <1>1, NumsAreFinite DEF Struck
<1>3. ASSUME UNCHANGED <<net, flashes, hits, faults>>, Struck' \subseteq Struck,
             early' \in Nat, early' <= early
      PROVE  HitInv'
  <2>1. Cardinality(Struck') \in Nat /\ Cardinality(Struck') <= Cardinality(Struck)
      BY <1>2, <1>3, SmallerSet
  <2>2. ASSUME NEW k \in Keys
        PROVE  flashes[k] + Cardinality(HitsIn(net[k])) + Cardinality(Struck') + early'
                  <= hits + faults
    <3>1. flashes[k] \in Nat
        BY <1>1
    <3> QED
        BY <1>0, <1>2, <1>3, <2>1, <3>1
  <2> QED
      BY <1>0, <1>3, <2>2 DEF HitInv
<1>4. UNCHANGED world => Struck' = Struck
    BY DEF Struck, Alive
<1>5. ASSUME NEW tag \in Tags, Appear(tag)
      PROVE  HitInv'
    BY <1>0, <1>3, <1>4, <1>5 DEF Appear, screen, bounds
<1>6. ASSUME NEW n \in Alive, Hit(n)
      PROVE  HitInv'
  <2>1. world' = [world EXCEPT ![n].hit = TRUE] /\ hits' = hits + 1
        /\ UNCHANGED <<early, net, flashes, faults>>
      BY <1>6 DEF Hit, screen
  <2>2. Struck' \subseteq Struck \cup {n}
      BY <2>1 DEF Struck, Alive
  <2>3. Cardinality(Struck') \in Nat /\ Cardinality(Struck') <= Cardinality(Struck) + 1
      BY <1>2, <2>2, OneMoreInSet
  <2> QED
      BY <1>0, <1>1, <1>2, <2>1, <2>3 DEF HitInv
<1>17. CASE HitEarly
  <2>1. early' = early + 1 /\ hits' = hits + 1 /\ UNCHANGED <<world, net, flashes, faults>>
      BY <1>17 DEF HitEarly, screen
  <2>2. Struck' = Struck
      BY <1>4, <2>1
  <2> QED
      BY <1>0, <1>1, <1>2, <2>1, <2>2 DEF HitInv
<1>7. CASE Perish
  <2>1. Struck' \subseteq Struck
      BY <1>7 DEF Perish, Struck, Alive
  <2> QED
      BY <1>0, <1>3, <1>7, <2>1 DEF Perish, screen, bounds
<1>8. CASE NewRoom
  <2>1. Struck' \subseteq Struck
      BY <1>8 DEF NewRoom, Struck, Alive
  <2> QED
      BY <1>0, <1>3, <1>8, <2>1 DEF NewRoom, screen, bounds
<1>9. CASE Broadcast
  <2>0. PICK last \in (nextNum - 1)..MaxNum : \E f \in Numbered(last) :
           \E new \in NewlyStruck(f) : Told(last, f, new)
      BY <1>9, ATick
  <2>f. PICK f \in Numbered(last) : \E new \in NewlyStruck(f) : Told(last, f, new)
      BY <2>0
  <2>n. PICK new \in NewlyStruck(f) : Told(last, f, new)
      BY <2>f
  <2>1. /\ world' = [n \in Alive \cup DOMAIN f |->
                       IF n \in Alive THEN Calmed(world)[n]
                       ELSE [tag |-> f[n], hit |-> FALSE]]
        /\ net' = [k \in Keys |->
              IF k \in clients
              THEN net[k] (+) SetToBag(Spawns(f) \cup Deaths \cup Hits(new))
              ELSE net[k]]
      BY <2>n DEF Told
  <2>2. early' = 0 /\ UNCHANGED <<flashes, hits, faults>>
      BY <1>9 DEF Broadcast, screen, bounds
  <2> DEFINE S == Struck \cup new
  <2>s. IsFiniteSet(S) /\ Cardinality(S) \in Nat /\ Cardinality(S) <= Cardinality(Struck) + early
    <3>1. DOMAIN f \subseteq Nums
      <4>1. nextNum \in 1..(MaxNum + 1)
          BY DEF TypeInv, RoomTypes
      <4>2. DOMAIN f = nextNum..last
          BY DEF Numbered
      <4> QED
          BY <4>1, <4>2, ReplicationAssumption DEF Nums
    <3>2. new \subseteq Nums /\ Cardinality(new) <= early
        BY <3>1 DEF NewlyStruck
    <3>3. IsFiniteSet(new) /\ Cardinality(new) \in Nat
        BY <3>2, NumsAreFinite
    <3>4. /\ IsFiniteSet(S) /\ Cardinality(Struck \cap new) \in Nat
          /\ Cardinality(S) = Cardinality(Struck) + Cardinality(new) - Cardinality(Struck \cap new)
        BY <1>2, <3>3, FS_Union, FS_Intersection, FS_CardinalityType
    <3> QED
        BY <1>0, <1>2, <3>2, <3>3, <3>4, FS_CardinalityType
  <2>3. Struck' = {}
    <3>1. ASSUME NEW n \in Alive'
          PROVE  ~world'[n].hit
      <4>1. n \in Alive \cup DOMAIN f
          BY <2>1 DEF Alive
      <4>2. CASE n \in Alive
        <5>1. world'[n] = [world[n] EXCEPT !.hit = FALSE]
            BY <2>1, <4>2 DEF Calmed, Alive
        <5>2. world[n] \in Entities
            BY <4>2 DEF TypeInv, RoomTypes
        <5> QED
            BY <5>1, <5>2 DEF Entities
      <4>3. CASE n \notin Alive
          BY <2>1, <4>1, <4>3
      <4> QED
          BY <4>2, <4>3
    <3> QED
        BY <3>1 DEF Struck
  <2>4. Cardinality({}) = 0
      BY FS_EmptySet
  <2>5. \A m \in Spawns(f) \cup Deaths \cup Hits(new) :
           m.is = "hit" => \E n \in S : m = HitMsg(n)
    <3>1. \A m \in Spawns(f) : m.is = "spawn"
        BY DEF Spawns, SpawnMsg
    <3>2. \A m \in Deaths : m.is = "destroy"
      <4>1. \A i : DestroyMsg(i).is = "destroy"
          BY DEF DestroyMsg
      <4> QED
          BY <4>1 DEF Deaths
    <3>3. \A m \in Hits(new) : \E n \in S : m = HitMsg(n)
        BY DEF Hits
    <3> QED
        BY <3>1, <3>2, <3>3
  <2> HIDE DEF S
  <2>6. ASSUME NEW k \in Keys
        PROVE  /\ IsFiniteSet(HitsIn(net'[k]))
               /\ flashes[k] + Cardinality(HitsIn(net'[k])) <= hits + faults
    <3>1. /\ IsFiniteSet(HitsIn(net'[k])) /\ Cardinality(HitsIn(net'[k])) \in Nat
          /\ Cardinality(HitsIn(net'[k])) <= Cardinality(HitsIn(net[k])) + Cardinality(S)
      <4> DEFINE T == Spawns(f) \cup Deaths \cup Hits(new)
      <4>1. net'[k] = net[k] \/ net'[k] = net[k] (+) SetToBag(T)
          BY <2>1
      <4> HIDE DEF T
      <4>2. \A m \in T : m.is = "hit" => \E n \in S : m = HitMsg(n)
          BY <2>5 DEF T
      <4>3. CASE net'[k] = net[k]
          BY <1>0, <2>s, <4>3
      <4>4. CASE net'[k] = net[k] (+) SetToBag(T)
          BY <1>0, <1>1, <2>s, <4>2, <4>4, HitsToldOnceMore
      <4> QED
          BY <4>1, <4>3, <4>4
    <3>2. flashes[k] \in Nat
        BY <1>1
    <3> QED
        BY <1>0, <1>2, <2>s, <3>1, <3>2
  <2> QED
      BY <1>0, <1>1, <2>2, <2>3, <2>4, <2>6, FS_CardinalityType DEF HitInv
<1>10. ASSUME NEW k \in Keys,
              net' = [net EXCEPT ![k] = net'[k]], flashes' = [flashes EXCEPT ![k] = flashes'[k]],
              IsFiniteSet(HitsIn(net'[k])), Cardinality(HitsIn(net'[k])) \in Nat,
              UNCHANGED <<early, world, hits>>, faults' \in Nat, faults' >= faults,
              flashes'[k] \in Nat,
              flashes'[k] + Cardinality(HitsIn(net'[k])) + faults
                 <= flashes[k] + Cardinality(HitsIn(net[k])) + faults'
       PROVE  HitInv'
  <2> SUFFICES ASSUME NEW l \in Keys
               PROVE  /\ IsFiniteSet(HitsIn(net'[l]))
                      /\ flashes'[l] + Cardinality(HitsIn(net'[l])) + Cardinality(Struck')
                            + early' <= hits' + faults'
      BY <1>0, <1>10 DEF HitInv
  <2>1. Struck' = Struck /\ hits' = hits /\ early' = early
      BY <1>4, <1>10
  <2>2. CASE l # k
    <3>1. net'[l] = net[l] /\ flashes'[l] = flashes[l] /\ flashes[l] \in Nat
        BY <1>1, <1>10, <2>2
    <3> QED
        BY <1>0, <1>2, <1>10, <2>1, <3>1
  <2>3. CASE l = k
    <3>1. flashes[k] \in Nat
        BY <1>1
    <3> QED
        BY <1>0, <1>2, <1>10, <2>1, <2>3, <3>1
  <2> QED
      BY <2>2, <2>3
<1>11. ASSUME NEW k \in Keys, Join(k) \/ Leave(k) \/ ClearRegistry(k)
       PROVE  HitInv'
    BY <1>0, <1>3, <1>4, <1>11 DEF Join, Leave, ClearRegistry, server, screen, bounds
<1>12. ASSUME NEW k \in Keys, SendInitialState(k)
       PROVE  HitInv'
  <2> DEFINE all == {SpawnMsg(n, world[n].tag, SubTypeForNewcomer(world[n].tag)) :
                       n \in Alive}
             b == net[k] (+) SetToBag(all)
  <2>1. net' = [net EXCEPT ![k] = b] /\ UNCHANGED <<early, world, hits, faults, flashes>>
      BY <1>12 DEF SendInitialState, screen, bounds
  <2>2. \A m \in all : m.is = "spawn"
      BY DEF SpawnMsg
  <2> HIDE DEF all
  <2>3. HitsIn(b) = HitsIn(net[k])
    <3>1. Each(b) = Each(net[k]) \cup {<<m, Top(net[k], m)>> : m \in all}
        BY <1>1, EachBoth
    <3>2. \A m \in all : <<m, Top(net[k], m)>>[1].is # "hit"
        BY <2>2
    <3> QED
        BY <3>1, <3>2 DEF HitsIn
  <2> HIDE DEF b
  <2> QED
      BY <1>0, <1>1, <1>4, <2>1, <2>3 DEF HitInv
<1>13. ASSUME NEW k \in Keys, Receive(k)
       PROVE  HitInv'
  <2>1. PICK m \in BagToSet(net[k]) :
           HandleSpawn(k, m) \/ HandleDestroy(k, m) \/ HandleMove(k, m)
      BY <1>13 DEF Receive
  <2> DEFINE b == BagRemove(net[k], m)
  <2>2. /\ net' = [net EXCEPT ![k] = b] /\ UNCHANGED <<early, world, hits, faults>>
        /\ \/ m.is # "hit" /\ flashes' = flashes
           \/ m.is = "hit" /\ (flashes' = flashes \/ flashes' = [flashes EXCEPT ![k] = @ + 1])
      BY <2>1 DEF HandleSpawn, HandleDestroy, HandleMove, Received, server, bounds
  <2>3. /\ Each(b) = Each(net[k]) \ {<<m, net[k][m]>>}
        /\ <<m, net[k][m]>> \in Each(net[k])
      BY <1>1, <2>1, EachLess
  <2> HIDE DEF b
  <2>5. HitsIn(b) \subseteq HitsIn(net[k])
      BY <2>3 DEF HitsIn
  <2>6. /\ IsFiniteSet(HitsIn(b)) /\ Cardinality(HitsIn(b)) \in Nat
        /\ Cardinality(HitsIn(b)) <= Cardinality(HitsIn(net[k]))
      BY <1>0, <2>5, SmallerSet
  <2>7. m.is = "hit" => Cardinality(HitsIn(b)) = Cardinality(HitsIn(net[k])) - 1
    <3> SUFFICES ASSUME m.is = "hit"
                 PROVE  Cardinality(HitsIn(b)) = Cardinality(HitsIn(net[k])) - 1
        OBVIOUS
    <3> DEFINE tok == <<m, net[k][m]>>
    <3>1. tok \in HitsIn(net[k])
        BY <2>3 DEF HitsIn
    <3>2. HitsIn(b) = HitsIn(net[k]) \ {tok}
        BY <2>3 DEF HitsIn
    <3> HIDE DEF tok
    <3>3. IsFiniteSet(HitsIn(net[k]))
        BY <1>0
    <3>4. Cardinality(HitsIn(net[k]) \ {tok}) = Cardinality(HitsIn(net[k])) - 1
        BY <3>1, <3>3, FS_RemoveElement
    <3> QED
        BY <3>2, <3>4
  <2>8. /\ flashes[k] \in Nat
        /\ net' = [net EXCEPT ![k] = net'[k]] /\ net'[k] = b
        /\ flashes' = [flashes EXCEPT ![k] = flashes'[k]]
      BY <1>1, <2>2
  <2>9. /\ flashes'[k] \in Nat
        /\ flashes'[k] + Cardinality(HitsIn(b)) <= flashes[k] + Cardinality(HitsIn(net[k]))
    <3>1. CASE flashes' = flashes
        BY <1>0, <2>6, <2>8, <3>1
    <3>2. CASE m.is = "hit" /\ flashes' = [flashes EXCEPT ![k] = flashes[k] + 1]
      <4>1. flashes'[k] = flashes[k] + 1
          BY <1>1, <3>2
      <4> QED
          BY <1>0, <2>6, <2>7, <2>8, <3>2, <4>1
    <3> QED
        BY <2>2, <3>1, <3>2
  <2>10. flashes'[k] + Cardinality(HitsIn(net'[k])) + faults
            <= flashes[k] + Cardinality(HitsIn(net[k])) + faults'
      BY <1>0, <2>2, <2>6, <2>8, <2>9
  <2>11. /\ IsFiniteSet(HitsIn(net'[k])) /\ Cardinality(HitsIn(net'[k])) \in Nat
         /\ faults' \in Nat /\ faults' >= faults
      BY <1>0, <2>2, <2>6, <2>8
  <2> QED
      BY <1>10, <2>2, <2>8, <2>9, <2>10, <2>11
<1>14. ASSUME NEW k \in Keys, NEW c, FlyOff(k, c)
       PROVE  HitInv'
    BY <1>0, <1>3, <1>4, <1>14 DEF FlyOff, server, bounds
<1>15. CASE Udp
  <2>0. PICK k \in Keys : \E m \in BagToSet(net[k]) : Lose(k, m) \/ Double(k, m)
      BY <1>15 DEF Udp
  <2>1. PICK m \in BagToSet(net[k]) : Lose(k, m) \/ Double(k, m)
      BY <2>0
  <2>2. /\ faults' = faults + 1 /\ UNCHANGED <<early, world, hits, flashes>>
        /\ \/ net' = [net EXCEPT ![k] = BagRemove(net[k], m)]
           \/ net' = [net EXCEPT ![k] = BagAdd(net[k], m)]
      BY <2>1 DEF Lose, Double, Fault, server, screen
  <2>3. Each(net'[k]) \subseteq Each(net[k]) \cup {<<m, Top(net[k], m)>>}
    <3>0. IsABag(net[k]) /\ m \in BagToSet(net[k])
        BY <1>1, <2>1
    <3>1. Each(BagRemove(net[k], m)) \subseteq Each(net[k])
        BY <3>0, EachLess
    <3>2. Each(BagAdd(net[k], m)) = Each(net[k]) \cup {<<m, Top(net[k], m)>>}
        BY <3>0, EachMore
    <3>3. net'[k] = BagRemove(net[k], m) \/ net'[k] = BagAdd(net[k], m)
        BY <1>1, <2>2
    <3> QED
        BY <3>1, <3>2, <3>3
  <2>4. /\ IsFiniteSet(HitsIn(net'[k])) /\ Cardinality(HitsIn(net'[k])) \in Nat
        /\ Cardinality(HitsIn(net'[k])) <= Cardinality(HitsIn(net[k])) + 1
    <3> DEFINE tok == <<m, Top(net[k], m)>>
    <3>1. HitsIn(net'[k]) \subseteq HitsIn(net[k]) \cup {tok}
        BY <2>3 DEF HitsIn
    <3> HIDE DEF tok
    <3> QED
        BY <1>0, <3>1, OneMoreInSet
  <2>5. /\ flashes[k] \in Nat /\ flashes'[k] = flashes[k]
        /\ flashes' = [flashes EXCEPT ![k] = flashes'[k]]
        /\ net' = [net EXCEPT ![k] = net'[k]]
      BY <1>1, <2>2
  <2>6. faults' \in Nat /\ faults' >= faults
      BY <1>0, <2>2
  <2>7. flashes'[k] + Cardinality(HitsIn(net'[k])) + faults
            <= flashes[k] + Cardinality(HitsIn(net[k])) + faults'
      BY <1>0, <2>2, <2>4, <2>5
  <2> QED
      BY <1>10, <2>2, <2>4, <2>5, <2>6, <2>7
<1>16. CASE UNCHANGED vars
    BY <1>0, <1>3, <1>4, <1>16 DEF vars, server, screen, bounds
<1> QED
    BY <1>5, <1>6, <1>7, <1>8, <1>9, <1>11, <1>12, <1>13, <1>14, <1>15, <1>16,
       <1>17 DEF Next, Room, Clients

(* No client flashes more often than something was hit, what UDP doubled   *)
(* aside: broadcast_moves tells of a hit in one tick only, and no path     *)
(* through the queue, a rejoin or a newcomer's initial state repeats it.   *)
THEOREM FlashesAreHits == Spec => []HitsAreToldOnce
<1>1. HitInv /\ TypeInv => HitsAreToldOnce
  <2> SUFFICES ASSUME HitInv, TypeInv, NEW k \in Keys
               PROVE  flashes[k] + HitsOnTheWay(k) <= hits + faults
      BY DEF HitsAreToldOnce
  <2>1. HitsOnTheWay(k) = Cardinality(HitsIn(net[k]))
      BY DEF HitsOnTheWay, HitsIn
  <2>2. /\ IsFiniteSet(HitsIn(net[k]))
        /\ flashes[k] + Cardinality(HitsIn(net[k])) + Cardinality(Struck) + early
              <= hits + faults
        /\ hits \in Nat /\ faults \in Nat /\ early \in Nat
      BY DEF HitInv
  <2>3. Cardinality(HitsIn(net[k])) \in Nat /\ flashes[k] \in Nat
      BY <2>2, FS_CardinalityType DEF TypeInv, WireTypes
  <2>4. Cardinality(Struck) \in Nat
      BY NumsAreFinite DEF TypeInv, RoomTypes, Struck
  <2> QED
      BY <2>1, <2>2, <2>3, <2>4
<1> QED
    BY <1>1, HitInit, HitNext, TypesInit, TypesNext, ToldInit, ToldNext, PTL DEF Spec
=============================================================================

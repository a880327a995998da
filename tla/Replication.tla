----------------------------- MODULE Replication -----------------------------
(***************************************************************************)
(* How the entities of a room reach the screens: BroadcastSystem of the    *)
(* server, UDP, NetworkSystem of the client.                               *)
(*                                                                         *)
(* The server announces an entity once, to who is in the room, gives a     *)
(* newcomer the entities there are, and announces as gone what it no       *)
(* longer finds.  Nothing is acknowledged or sent again; UDP may lose,     *)
(* double and reorder.  packet_queue_ of the client is the end of the      *)
(* wire.  Positions are left out; a move counts when it tells of a hit.    *)
(* Players are not announced here.                                         *)
(***************************************************************************)
EXTENDS Integers, FiniteSets, Bags
INSTANCE BagsExt

CONSTANTS
    Keys,       \* addresses of the clients
    Tags,       \* tags of the entities that appear
    MaxNum,     \* bound on the numbers a room gives
    MaxJoins,   \* bound on joins
    MaxFaults,  \* bound on messages lost or doubled
    MaxHits     \* bound on hits

VARIABLES
    fresh,     \* bag of tags: entities without a NetworkId
    early,     \* hits of them since the last tick
    world,     \* number -> [tag, hit], the entities that have one
    known,     \* last_known_entities_
    nextNum,   \* next_network_id_, counted from 1 instead of 20000
    clients,   \* clients_
    joining,   \* those whose handle_player_join has not got to send_initial_state
    net,       \* client -> bag of messages on their way
    shown,     \* client -> bag of entities in its registry
    flashes,   \* client -> hits it has shown
    joins, faults, hits,   \* counters of the bounds
    told,      \* history: clients that have had the initial state since
    announced, \* history: client -> numbers announced to it since it joined
    odd        \* history: client -> numbers UDP, a rejoin or the edge of the
               \* client's map has meddled with

server == <<fresh, early, world, known, nextNum, clients, joining>>
screen == <<shown, flashes>>
bounds == <<joins, faults, hits>>
past   == <<told, announced, odd>>
vars   == <<server, net, screen, bounds, past>>

Nums == 1..MaxNum

----------------------------------------------------------------------------
(* What a tag becomes on the wire and on the screen.                       *)

Obstacles == {"Obstacle", "Obstacle_Floor", "Obstacle_Train_3", "Obstacle_Train_4"}
PowerUps  == {"ForcePodItem", "ForcePod"}
Enemies   == {"Monster_0_Top", "Monster_0_Bot", "Monster_0_Left",
              "Monster_0_Right", "Monster_Wave_2_Left", "Monster_Wave_2_Right",
              "Boss_1", "Boss_2"}
Shots     == {"shot", "Monster_0_Ball", "shot_death-charge1", "shot_death-charge2",
              "shot_death-charge3", "shot_death-charge4", "Boss_1_Bayblade",
              "Boss_1_Attack", "Boss_2_Projectile", "Boss_2_Projectile_2",
              "PodProjectile", "PodProjectileRed", "Laser"}

TypeOf(tag) == CASE tag \in Obstacles -> "OBSTACLE"
                 [] tag \in PowerUps  -> "POWERUP"
                 [] tag \in Enemies   -> "ENEMY"
                 [] OTHER             -> "PROJECTILE"

AllSubTypes == [tag \in Obstacles \cup PowerUps \cup Enemies \cup Shots |->
    CASE tag = "Monster_0_Top" -> 1 [] tag = "Monster_0_Bot" -> 2
      [] tag = "Monster_0_Left" -> 3 [] tag = "Monster_0_Right" -> 4
      [] tag = "Monster_Wave_2_Left" -> 5 [] tag = "Monster_Wave_2_Right" -> 6
      [] tag = "Boss_1" -> 100 [] tag = "Boss_2" -> 101 [] tag = "Obstacle" -> 0
      [] tag = "Obstacle_Floor" -> 1 [] tag = "Obstacle_Train_3" -> 2
      [] tag = "Obstacle_Train_4" -> 3 [] tag = "ForcePodItem" -> 1
      [] tag = "ForcePod" -> 2 [] tag = "shot" -> 0 [] tag = "Monster_0_Ball" -> 1
      [] tag = "shot_death-charge1" -> 10 [] tag = "shot_death-charge2" -> 11
      [] tag = "shot_death-charge3" -> 12 [] tag = "shot_death-charge4" -> 13
      [] tag = "Boss_1_Bayblade" -> 20 [] tag = "Boss_1_Attack" -> 21
      [] tag = "Boss_2_Projectile" -> 22 [] tag = "Boss_2_Projectile_2" -> 23
      [] tag = "PodProjectile" -> 30 [] tag = "PodProjectileRed" -> 31
      [] tag = "Laser" -> 40]

ASSUME ReplicationAssumption ==
    /\ Tags \subseteq DOMAIN AllSubTypes
    /\ MaxNum \in Nat /\ MaxJoins \in Nat /\ MaxFaults \in Nat /\ MaxHits \in Nat

(* broadcast_spawns, and the other table, in send_initial_state, which has *)
(* no line for Boss_2_Projectile_2.                                        *)
SubTypeWhenSpawned(tag) == AllSubTypes[tag]

\* mutant: the newcomers' table lacks Boss_1 too
MutSubTypeForNewcomer(tag) ==
    IF tag \in {"Boss_2_Projectile_2", "Boss_1"} THEN 0 ELSE AllSubTypes[tag]
SubTypeForNewcomer(tag) ==
    IF tag = "Boss_2_Projectile_2" THEN 0 ELSE AllSubTypes[tag]

SpawnMsg(n, tag, sub) == [is |-> "spawn", num |-> n, type |-> TypeOf(tag), sub |-> sub]
DestroyMsg(n)         == [is |-> "destroy", num |-> n, type |-> "", sub |-> 0]
HitMsg(n)             == [is |-> "hit", num |-> n, type |-> "", sub |-> 0]

Copy(m) == [num |-> m.num, type |-> m.type, sub |-> m.sub]

----------------------------------------------------------------------------

Init ==
    /\ fresh = EmptyBag /\ early = 0 /\ world = [n \in {} |-> 0] /\ known = {} /\ nextNum = 1
    /\ clients = {} /\ joining = {}
    /\ net = [k \in Keys |-> EmptyBag] /\ shown = [k \in Keys |-> EmptyBag]
    /\ flashes = [k \in Keys |-> 0]
    /\ joins = 0 /\ faults = 0 /\ hits = 0
    /\ told = {} /\ announced = [k \in Keys |-> {}] /\ odd = [k \in Keys |-> {}]

Alive == DOMAIN world

----------------------------------------------------------------------------
(* The room: what the systems of the game do to entities.                  *)

Appear(tag) ==
    /\ nextNum + BagCardinality(fresh) <= MaxNum                     \* bound
    /\ fresh' = BagAdd(fresh, tag)
    /\ UNCHANGED <<early, world, known, nextNum, clients, joining, net, screen, bounds, past>>

(* An entity may be gone before it had a number.                           *)
Perish ==
    /\ \/ \E tag \in BagToSet(fresh) : fresh' = BagRemove(fresh, tag) /\ UNCHANGED world
       \/ \E n \in Alive : /\ world' = [m \in Alive \ {n} |-> world[m]]
                           /\ UNCHANGED fresh
    /\ UNCHANGED <<early, known, nextNum, clients, joining, net, screen, bounds, past>>

(* CollisionSystem: HitFlash of an enemy, with a number or before it has   *)
(* one; which ones of the latter, and whether they are still there, is     *)
(* left open until they are numbered.                                      *)
Hit(n) ==
    /\ hits < MaxHits                                                \* bound
    /\ TypeOf(world[n].tag) = "ENEMY"
    /\ world' = [world EXCEPT ![n].hit = TRUE]
    /\ hits' = hits + 1
    /\ UNCHANGED <<fresh, early, known, nextNum, clients, joining, net, screen, joins,
                   faults, past>>

HitEarly ==
    /\ hits < MaxHits                                                \* bound
    /\ \E tag \in BagToSet(fresh) : TypeOf(tag) = "ENEMY"
    /\ early' = early + 1 /\ hits' = hits + 1
    /\ UNCHANGED <<fresh, world, known, nextNum, clients, joining, net, screen, joins,
                   faults, past>>

(* The session of an empty room ends, and the next one counts from the     *)
(* start.                                                                  *)
NewRoom ==
    /\ clients = {} /\ nextNum > 1
    /\ fresh' = EmptyBag /\ early' = 0 /\ world' = [n \in {} |-> 0] /\ known' = {} /\ nextNum' = 1
    /\ UNCHANGED <<clients, joining, net, screen, bounds, past>>

----------------------------------------------------------------------------
(* GameSession: who is in the room.                                        *)

On(k) == {m.num : m \in BagToSet(net[k])} \cup {c.num : c \in BagToSet(shown[k])}

Join(k) ==
    /\ k \notin clients
    /\ joins < MaxJoins /\ joins' = joins + 1                        \* bound
    /\ clients' = clients \cup {k} /\ joining' = joining \cup {k}
    /\ announced' = [announced EXCEPT ![k] = {}]
    /\ odd' = [odd EXCEPT ![k] = On(k)]
    /\ UNCHANGED <<fresh, early, world, known, nextNum, net, screen, faults, hits, told>>

\* mutant: a client is dropped in the middle of its join
MutLeave(k) ==
    /\ k \in clients
    /\ clients' = clients \ {k} /\ told' = told \ {k}
    /\ UNCHANGED <<fresh, early, world, known, nextNum, joining, net, screen, bounds,
                   announced, odd>>
(* PlayerLeave or timeout, on the server.                                  *)
Leave(k) ==
    /\ k \in clients \ joining
    /\ clients' = clients \ {k} /\ told' = told \ {k}
    /\ UNCHANGED <<fresh, early, world, known, nextNum, joining, net, screen, bounds,
                   announced, odd>>

(* Client::leave_room: the registry is cleared, what is on its way or      *)
(* queued is not.                                                          *)
ClearRegistry(k) ==
    /\ k \in told /\ told' = told \ {k}
    /\ shown' = [shown EXCEPT ![k] = EmptyBag]
    /\ UNCHANGED <<server, net, flashes, bounds, announced, odd>>

----------------------------------------------------------------------------
(* BroadcastSystem.                                                        *)

Announce(k, nums) ==
    /\ announced' = [announced EXCEPT ![k] = @ \cup nums]
    /\ odd' = [odd EXCEPT ![k] = @ \cup (nums \cap announced[k])]

\* mutant: who comes first has nothing to catch up with
MutSendInitialState(k) ==
    LET all == {SpawnMsg(n, world[n].tag, SubTypeForNewcomer(world[n].tag)) :
                  n \in Alive}
        late == clients # {k}
    IN  /\ k \in joining
        /\ joining' = joining \ {k} /\ told' = told \cup {k}
        /\ net' = [net EXCEPT ![k] = IF late THEN @ (+) SetToBag(all) ELSE @]
        /\ Announce(k, IF late THEN Alive ELSE {})
        /\ UNCHANGED <<fresh, early, world, known, nextNum, clients, screen, bounds>>
(* send_initial_state, later in the same join than the place in clients_.  *)
SendInitialState(k) ==
    LET all == {SpawnMsg(n, world[n].tag, SubTypeForNewcomer(world[n].tag)) :
                  n \in Alive}
    IN  /\ k \in joining
        /\ joining' = joining \ {k} /\ told' = told \cup {k}
        /\ net' = [net EXCEPT ![k] = @ (+) SetToBag(all)]
        /\ Announce(k, Alive)
        /\ UNCHANGED <<fresh, early, world, known, nextNum, clients, screen, bounds>>

(* broadcast_spawns: a number up to last for every fresh entity, in some   *)
(* order.                                                                  *)
Numbered(last) ==
    {f \in [nextNum..last -> BagToSet(fresh)] :
       \A tag \in BagToSet(fresh) :
          Cardinality({n \in nextNum..last : f[n] = tag}) = fresh[tag]}

Spawns(f) == {SpawnMsg(n, f[n], SubTypeWhenSpawned(f[n])) : n \in DOMAIN f}

\* mutant: last_known_entities_ is refreshed before the deaths are looked for
MutDeaths == {}
(* broadcast_deaths: known a tick ago and not found now.                   *)
Deaths == {DestroyMsg(n) : n \in known \ Alive}

(* broadcast_moves: a hit is told once.  Struck are the numbered entities  *)
(* that were hit; the new ones among those hit come on top.                *)
Struck == {n \in Alive : world[n].hit}
NewlyStruck(f) == {new \in SUBSET {n \in DOMAIN f : TypeOf(f[n]) = "ENEMY"} :
                      Cardinality(new) <= early}
Hits(new) == {HitMsg(n) : n \in Struck \cup new}

\* mutant: the flash is not reset after sending
MutCalmed(w) == w
Calmed(w) == [n \in DOMAIN w |-> [w[n] EXCEPT !.hit = FALSE]]

(* BroadcastSystem::update: nothing at all while nobody is in the room.    *)
Broadcast ==
    /\ clients # {}
    /\ \E last \in (nextNum - 1)..MaxNum : \E f \in Numbered(last) :
       \E new \in NewlyStruck(f) :
          LET all == SetToBag(Spawns(f) \cup Deaths \cup Hits(new))
          IN  /\ world' = [n \in Alive \cup DOMAIN f |->
                             IF n \in Alive THEN Calmed(world)[n]
                             ELSE [tag |-> f[n], hit |-> FALSE]]
              /\ nextNum' = last + 1
              /\ net' = [k \in Keys |-> IF k \in clients THEN net[k] (+) all
                                        ELSE net[k]]
              /\ announced' = [k \in Keys |->
                    IF k \in clients THEN announced[k] \cup DOMAIN f
                    ELSE announced[k]]
              /\ known' = DOMAIN world'
    /\ fresh' = EmptyBag /\ early' = 0
    /\ UNCHANGED <<clients, joining, screen, bounds, told, odd>>

----------------------------------------------------------------------------
(* UDP.                                                                    *)

Fault(k, m, bag) ==
    /\ faults < MaxFaults /\ faults' = faults + 1                    \* bound
    /\ net' = [net EXCEPT ![k] = bag]
    /\ odd' = [odd EXCEPT ![k] = @ \cup {m.num}]
    /\ UNCHANGED <<server, screen, joins, hits, told, announced>>

Lose(k, m)   == Fault(k, m, BagRemove(net[k], m))
Double(k, m) == Fault(k, m, BagAdd(net[k], m))

----------------------------------------------------------------------------
(* NetworkSystem: any message that is there, the queue's lock aside.       *)

(* A destroy or a hit that comes before the spawn it followed.             *)
Overtakes(k, m) == /\ m.is # "spawn"
                   /\ \E s \in BagToSet(net[k]) : s.is = "spawn" /\ s.num = m.num

Received(k, m) ==
    /\ net' = [net EXCEPT ![k] = BagRemove(@, m)]
    /\ odd' = IF Overtakes(k, m) THEN [odd EXCEPT ![k] = @ \cup {m.num}] ELSE odd
    /\ UNCHANGED <<server, bounds, told, announced>>

(* An entity for every EntitySpawn, whether there is one or not.           *)
HandleSpawn(k, m) ==
    /\ m.is = "spawn"
    /\ shown' = [shown EXCEPT ![k] = BagAdd(@, Copy(m))]
    /\ UNCHANGED flashes /\ Received(k, m)

CopiesOf(k, n) == {c \in BagToSet(shown[k]) : c.num = n}

(* The first entity found with the number goes, in a set without order.    *)
HandleDestroy(k, m) ==
    /\ m.is = "destroy"
    /\ \/ \E c \in CopiesOf(k, m.num) :
             shown' = [shown EXCEPT ![k] = BagRemove(@, c)]
       \/ CopiesOf(k, m.num) = {} /\ UNCHANGED shown
    /\ UNCHANGED flashes /\ Received(k, m)

HandleMove(k, m) ==
    /\ m.is = "hit"
    /\ flashes' = IF CopiesOf(k, m.num) = {} THEN flashes
                  ELSE [flashes EXCEPT ![k] = @ + 1]
    /\ UNCHANGED shown /\ Received(k, m)

Receive(k) == \E m \in BagToSet(net[k]) :
                 HandleSpawn(k, m) \/ HandleDestroy(k, m) \/ HandleMove(k, m)

(* Client::update: what leaves the client's map goes, though the server's  *)
(* map ends elsewhere: it may come back there, never here.                 *)
FlyOff(k, c) ==
    /\ shown' = [shown EXCEPT ![k] = BagRemove(@, c)]
    /\ odd' = [odd EXCEPT ![k] = @ \cup {c.num}]
    /\ UNCHANGED <<server, net, flashes, bounds, told, announced>>

----------------------------------------------------------------------------

Room == \/ \E tag \in Tags : Appear(tag)
        \/ \E n \in Alive : Hit(n)
        \/ HitEarly \/ Perish \/ NewRoom \/ Broadcast

Clients == \E k \in Keys : \/ Join(k) \/ SendInitialState(k) \/ Leave(k)
                           \/ ClearRegistry(k) \/ Receive(k)
                           \/ \E c \in BagToSet(shown[k]) : FlyOff(k, c)

Udp == \E k \in Keys : \E m \in BagToSet(net[k]) : Lose(k, m) \/ Double(k, m)

Next == Room \/ Clients \/ Udp

(* The room's loop ticks, and what UDP does not lose arrives and is        *)
(* handled by the frame loop of the client.  A room whose two threads      *)
(* deadlock (GameSession.tla) ticks no more, and its screens stay as they  *)
(* are: rooms here are the ones that go on.                                *)
Fairness == /\ WF_vars(Broadcast)
            /\ \A k \in Keys : WF_vars(SendInitialState(k)) /\ WF_vars(Receive(k))

Spec == Init /\ [][Next]_vars /\ Fairness

----------------------------------------------------------------------------
(* Properties.                                                             *)

Messages == [is : {"spawn", "destroy", "hit"}, num : Nums,
             type : {"", "ENEMY", "PROJECTILE", "OBSTACLE", "POWERUP"}, sub : Nat]

TypeOK ==
    /\ IsABag(fresh) /\ BagToSet(fresh) \subseteq Tags /\ early \in Nat
    /\ Alive \subseteq Nums /\ known \subseteq Nums /\ nextNum \in 1..(MaxNum + 1)
    /\ \A n \in Alive : world[n] \in [tag : Tags, hit : BOOLEAN] /\ n < nextNum
    /\ joining \subseteq clients /\ told \subseteq clients /\ clients \subseteq Keys
    /\ \A k \in Keys : /\ IsABag(net[k]) /\ BagToSet(net[k]) \subseteq Messages
                       /\ IsABag(shown[k]) /\ On(k) \subseteq Nums
    /\ flashes \in [Keys -> Nat]

(* What is in a bag, each as often as it is there.                         *)
Each(bag) == UNION {{e} \X (1..bag[e]) : e \in BagToSet(bag)}

Copies(k, n) == Cardinality({t \in Each(shown[k]) : t[1].num = n})

(* Whoever has had the initial state has been told of every entity with a  *)
(* number, however the join fell between two ticks.                        *)
NewcomersMissNothing == \A k \in told : Alive \subseteq announced[k]

(* Once everything sent to a client has arrived, its screen is wrong about *)
(* an entity only if UDP lost, doubled or reordered a message about it, it *)
(* was announced twice, flew off the client's own map, or was left over    *)
(* from before the client's join: else what lives is there once, and what  *)
(* is gone for a tick is not.                                              *)
GhostsHaveACause ==
    \A k \in told : net[k] = EmptyBag =>
       \A n \in Nums \ odd[k] : /\ n \in Alive => Copies(k, n) = 1
                                /\ n \notin known => Copies(k, n) = 0

(* A newcomer sees every kind of entity as those who were there when it    *)
(* appeared, the big shots of Boss_2 excepted.                             *)
LatecomersSeeTheSameKinds ==
    \A k \in told : \A n \in Alive \ odd[k] :
       world[n].tag # "Boss_2_Projectile_2" =>
          \A c \in CopiesOf(k, n) :
             /\ c.type = TypeOf(world[n].tag)
             /\ c.sub = SubTypeWhenSpawned(world[n].tag)

(* A client flashes at most once for a hit, UDP's doubles aside: no tick   *)
(* tells of a hit again.                                                   *)
HitsOnTheWay(k) == Cardinality({t \in Each(net[k]) : t[1].is = "hit"})
HitsAreToldOnce ==
    \A k \in Keys : flashes[k] + HitsOnTheWay(k) <= hits + faults

(* What is gone leaves every screen whose wire has been kind to it: it is  *)
(* announced before the entity it was is forgotten.  (In a room that goes  *)
(* on: after the deadlock of GameSession.tla nothing is announced.)        *)
GhostsVanish ==
    \A k \in Keys : \A n \in Nums :
       (k \in told /\ n \notin Alive /\ n < nextNum)
          ~> (k \notin told \/ n \in odd[k] \/ n \in Alive \/ Copies(k, n) = 0)

(* The protocol document's word on duplicates: no entity is there twice.   *)
NoEntityIsShownTwice == \A k \in Keys : \A n \in Nums : Copies(k, n) <= 1
=============================================================================

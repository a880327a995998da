---------------------------- MODULE ServerProofs ----------------------------
(***************************************************************************)
(* What TLAPS proves of Server for every finite set of addresses and every *)
(* bound on players and rooms.                                             *)
(***************************************************************************)
EXTENDS Server, FiniteSetTheorems, TLAPS

(* Every set of natural numbers that is not empty has a least element; the *)
(* intervals below its elements are finite sets, which strict inclusion    *)
(* orders well.                                                            *)
LEMMA LeastElement ==
    ASSUME NEW S \in SUBSET Nat, S # {}
    PROVE  \E s \in S : \A r \in S : s <= r
<1>. DEFINE Below == {0..(s - 1) : s \in S}
            Order == StrictSubsetOrdering(Nat)
<1>1. Below \subseteq FiniteSubsetsOf(Nat)
  <2>. SUFFICES ASSUME NEW s \in S PROVE 0..(s - 1) \in FiniteSubsetsOf(Nat)
    OBVIOUS
  <2>1. IsFiniteSet(0..(s - 1))
    BY FS_Interval
  <2>. QED
    BY <2>1 DEF FiniteSubsetsOf
<1>2. Below # {}
  OBVIOUS
<1>3. IsWellFoundedOn(Order, FiniteSubsetsOf(Nat))
  BY FS_StrictSubsetOrderingWellFounded
<1>4. PICK X \in Below : \A Y \in Below : ~ (<<Y, X>> \in Order)
  <2>. HIDE DEF Below, Order
  <2>. QED
    BY <1>1, <1>2, <1>3, WFMin
<1>5. PICK s \in S : X = 0..(s - 1)
  OBVIOUS
<1>6. ASSUME NEW r \in S, r < s PROVE FALSE
  <2>1. 0..(r - 1) \subseteq 0..(s - 1) /\ r \in 0..(s - 1) /\ r \notin 0..(r - 1)
    BY <1>6
  <2>2. <<0..(r - 1), X>> \in Order
    BY <1>5, <2>1 DEF StrictSubsetOrdering
  <2>. QED
    BY <1>4, <2>2
<1>. QED
  BY <1>6

(* allocate_session_id finds an id: sessions_ cannot hold them all.        *)
LEMMA AllocatedIsFree ==
    ASSUME RoomsOK
    PROVE  /\ Allocated \in nextRoom..(MaxRoom + 1)
           /\ Allocated \notin sessions
<1>. DEFINE Free == {s \in nextRoom..(MaxRoom + 1) : s \notin sessions}
<1>1. Free \subseteq Nat /\ MaxRoom + 1 \in Free
  BY ServerAssumption DEF RoomsOK, Rooms
<1>2. PICK s \in Free : \A r \in Free : s <= r
  <2>. HIDE DEF Free
  <2>. QED
    BY <1>1, LeastElement
<1>3. nextRoom..(s - 1) \subseteq sessions
  BY <1>2, ServerAssumption DEF RoomsOK
<1>. QED
  BY <1>3 DEF Allocated

-----------------------------------------------------------------------------
(* Types.                                                                  *)

(* A handler that is under way has a sender and a room.                    *)
NetInv  == net.step # "idle" => net.key \in Keys /\ net.room \in Rooms
TypeInv == TypeOK /\ NetInv

LEMMA TypeInvInit == Init => TypeInv
<1>. SUFFICES ASSUME Init PROVE TypeInv
  OBVIOUS
<1>. USE ServerAssumption DEF Init, Idle, Rooms, NoRoom, NoKey
<1>1. RoomsOK
  BY DEF RoomsOK, FirstRoom
<1>2. ClientsOK
  BY DEF ClientsOK
<1>3. ThreadsOK /\ NetInv
  BY DEF ThreadsOK, NetSteps, GameSteps, NetInv
<1>. QED
  BY <1>1, <1>2, <1>3 DEF TypeInv, TypeOK

LEMMA TypeInvNext == TypeInv /\ [Next]_vars => TypeInv'
<1>. SUFFICES ASSUME TypeInv, [Next]_vars PROVE TypeInv'
  OBVIOUS
<1>. USE ServerAssumption DEF TypeInv, TypeOK, Rooms, NoRoom
<1>1. CASE Accept
  <2>1. RoomsOK'
    BY <1>1 DEF Accept, RoomsOK, rooms
  <2>2. ClientsOK'
    <3>1. route' = route /\ members' = members /\ stale' = stale /\ quiet' = quiet
      <4>. HIDE DEF TypeInv
      <4>. QED
        BY <1>1 DEF Accept, clients, clock
    <3>2. home' = home \/ home' = [home EXCEPT ![net.key] = net.room]
      BY <1>1 DEF Accept, clock
    <3>3. net.room \in Rooms
      BY <1>1 DEF Accept, NetGoes, NetEnds, NetInv
    <3>. QED
      BY <3>1, <3>2, <3>3 DEF ClientsOK
  <2>3. ThreadsOK' /\ NetInv'
    BY <1>1 DEF Accept, RoomsOK, ClientsOK, ThreadsOK, NetInv, threads, NetGoes,
       NetEnds, GameGoes, Idle, NoKey, NetSteps, GameSteps
  <2>. QED
    BY <2>1, <2>2, <2>3
<1>2. CASE Insert
  <2>1. RoomsOK'
    BY <1>2 DEF Insert, RoomsOK, rooms
  <2>2. ClientsOK'
    BY <1>2 DEF Insert, NetGoes, RoomsOK, ClientsOK, ThreadsOK, NetInv, clients, clock
  <2>3. ThreadsOK' /\ NetInv'
    BY <1>2 DEF Insert, RoomsOK, ClientsOK, ThreadsOK, NetInv, threads, NetGoes,
       NetEnds, GameGoes, Idle, NoKey, NetSteps, GameSteps
  <2>. QED
    BY <2>1, <2>2, <2>3
<1>3. CASE Map
  <2>1. RoomsOK'
    BY <1>3 DEF Map, RoomsOK, rooms
  <2>2. ClientsOK'
    BY <1>3 DEF Map, RoomsOK, ClientsOK, ThreadsOK, NetInv, clients, clock
  <2>3. ThreadsOK' /\ NetInv'
    BY <1>3 DEF Map, RoomsOK, ClientsOK, ThreadsOK, NetInv, threads, NetGoes,
       NetEnds, GameGoes, Idle, NoKey, NetSteps, GameSteps
  <2>. QED
    BY <2>1, <2>2, <2>3
<1>4. CASE FindSession
  <2>1. RoomsOK'
    BY <1>4 DEF FindSession, RoomsOK, rooms
  <2>2. ClientsOK'
    BY <1>4 DEF FindSession, RoomsOK, ClientsOK, ThreadsOK, NetInv, clients, clock
  <2>3. ThreadsOK' /\ NetInv'
    BY <1>4 DEF FindSession, RoomsOK, ClientsOK, ThreadsOK, NetInv, threads,
       NetGoes, NetEnds, GameGoes, Idle, NoKey, NetSteps, GameSteps
  <2>. QED
    BY <2>1, <2>2, <2>3
<1>5. CASE Deliver
  <2>1. RoomsOK'
    BY <1>5 DEF Deliver, RoomsOK, rooms
  <2>2. ClientsOK'
    <3>1. UNCHANGED <<route, members, quiet, home>>
      BY <1>5 DEF Deliver, clock
    <3>2. stale' = [stale EXCEPT ![net.room] = @ \ {net.key}]
      BY <1>5 DEF Deliver
    <3>. QED
      BY <3>1, <3>2 DEF ClientsOK
  <2>3. ThreadsOK' /\ NetInv'
    BY <1>5 DEF Deliver, RoomsOK, ClientsOK, ThreadsOK, NetInv, threads,
       NetGoes, NetEnds, GameGoes, Idle, NoKey, NetSteps, GameSteps
  <2>. QED
    BY <2>1, <2>2, <2>3
<1>6. CASE EraseLeaver
  <2>1. RoomsOK'
    BY <1>6 DEF EraseLeaver, RoomsOK, rooms
  <2>2. ClientsOK'
    <3>1. UNCHANGED <<route, quiet, home>>
      BY <1>6 DEF EraseLeaver, clock
    <3>2. /\ members' = [members EXCEPT ![net.room] = @ \ {net.key}]
          /\ stale' = [stale EXCEPT ![net.room] = @ \ {net.key}]
      BY <1>6 DEF EraseLeaver
    <3>. QED
      BY <3>1, <3>2 DEF ClientsOK
  <2>3. ThreadsOK' /\ NetInv'
    BY <1>6 DEF EraseLeaver, RoomsOK, ClientsOK, ThreadsOK, NetInv, threads,
       NetGoes, NetEnds, GameGoes, Idle, NoKey, NetSteps, GameSteps
  <2>. QED
    BY <2>1, <2>2, <2>3
<1>7. CASE UnmapLeaver
  <2>1. RoomsOK'
    BY <1>7 DEF UnmapLeaver, RoomsOK, rooms
  <2>2. ClientsOK'
    BY <1>7 DEF UnmapLeaver, RoomsOK, ClientsOK, ThreadsOK, NetInv, clients, clock
  <2>3. ThreadsOK' /\ NetInv'
    BY <1>7 DEF UnmapLeaver, RoomsOK, ClientsOK, ThreadsOK, NetInv, threads,
       NetGoes, NetEnds, GameGoes, Idle, NoKey, NetSteps, GameSteps
  <2>. QED
    BY <2>1, <2>2, <2>3
<1>8. ASSUME NEW s \in Rooms, CheckTimeouts(s) PROVE TypeInv'
  <2>1. RoomsOK'
    BY <1>8 DEF CheckTimeouts, TimedOut, RoomsOK, rooms
  <2>2. ClientsOK'
    BY <1>8 DEF CheckTimeouts, TimedOut, RoomsOK, ClientsOK, ThreadsOK, NetInv,
       clients, clock
  <2>3. ThreadsOK' /\ NetInv'
    BY <1>8 DEF CheckTimeouts, TimedOut, RoomsOK, ClientsOK, ThreadsOK, NetInv,
       threads, NetGoes, NetEnds, GameGoes, Idle, NoKey, NetSteps, GameSteps
  <2>. QED
    BY <2>1, <2>2, <2>3
<1>9. ASSUME NEW s \in Rooms, Drop(s) PROVE TypeInv'
  <2>1. RoomsOK'
    BY <1>9 DEF Drop, RoomsOK, rooms
  <2>2. ClientsOK'
    <3>1. UNCHANGED <<route, quiet, home>>
      BY <1>9 DEF Drop, clock
    <3>2. CASE UNCHANGED <<members, stale>>
      BY <3>1, <3>2 DEF ClientsOK
    <3>3. CASE \E k \in todo[s] : /\ members' = [members EXCEPT ![s] = @ \ {k}]
                                  /\ stale' = [stale EXCEPT ![s] = @ \ {k}]
      BY <3>1, <3>3 DEF ClientsOK
    <3>. QED
      BY <1>9, <3>2, <3>3 DEF Drop, clients
  <2>3. game' \in [Rooms -> GameSteps]
    BY <1>9 DEF Drop, GameGoes, ThreadsOK, GameSteps
  <2>4. todo' \in [Rooms -> SUBSET Keys]
    BY <1>9 DEF Drop, ThreadsOK
  <2>5. dropping' \in [Rooms -> Keys \cup {NoKey}]
    BY <1>9 DEF Drop, ThreadsOK
  <2>6. net' = net
    BY <1>9 DEF Drop
  <2>. QED
    BY <2>1, <2>2, <2>3, <2>4, <2>5, <2>6 DEF ThreadsOK, NetInv
<1>10. ASSUME NEW s \in Rooms, UnmapDropped(s) PROVE TypeInv'
  <2>1. RoomsOK'
    BY <1>10 DEF UnmapDropped, RoomsOK, rooms
  <2>2. ClientsOK'
    BY <1>10 DEF UnmapDropped, RoomsOK, ClientsOK, ThreadsOK, NetInv, clients, clock
  <2>3. ThreadsOK' /\ NetInv'
    BY <1>10 DEF UnmapDropped, RoomsOK, ClientsOK, ThreadsOK, NetInv, threads,
       NetGoes, NetEnds, GameGoes, Idle, NoKey, NetSteps, GameSteps
  <2>. QED
    BY <2>1, <2>2, <2>3
<1>11. ASSUME NEW s \in Rooms, StopEmpty(s) PROVE TypeInv'
  <2>1. RoomsOK'
    BY <1>11 DEF StopEmpty, RoomsOK, rooms
  <2>2. ClientsOK'
    BY <1>11 DEF StopEmpty, RoomsOK, ClientsOK, ThreadsOK, NetInv, clients, clock
  <2>3. ThreadsOK' /\ NetInv'
    BY <1>11 DEF StopEmpty, RoomsOK, ClientsOK, ThreadsOK, NetInv, threads,
       NetGoes, NetEnds, GameGoes, Idle, NoKey, NetSteps, GameSteps
  <2>. QED
    BY <2>1, <2>2, <2>3
<1>12. ASSUME NEW s \in Rooms, PostRemoval(s) PROVE TypeInv'
  <2>1. RoomsOK'
    BY <1>12 DEF PostRemoval, RoomsOK, rooms
  <2>2. ClientsOK'
    BY <1>12 DEF PostRemoval, RoomsOK, ClientsOK, ThreadsOK, NetInv, clients, clock
  <2>3. ThreadsOK' /\ NetInv'
    BY <1>12 DEF PostRemoval, RoomsOK, ClientsOK, ThreadsOK, NetInv, threads,
       NetGoes, NetEnds, GameGoes, Idle, NoKey, NetSteps, GameSteps
  <2>. QED
    BY <2>1, <2>2, <2>3
<1>13. ASSUME NEW s \in Rooms, RemoveSession(s) PROVE TypeInv'
  <2>1. RoomsOK'
    BY <1>13 DEF RemoveSession, Swept, RoomsOK, rooms
  <2>2. ClientsOK'
    BY <1>13 DEF RemoveSession, Swept, RoomsOK, ClientsOK, ThreadsOK, NetInv,
       clients, clock
  <2>3. ThreadsOK' /\ NetInv'
    BY <1>13 DEF RemoveSession, Swept, RoomsOK, ClientsOK, ThreadsOK, NetInv,
       threads, NetGoes, NetEnds, GameGoes, Idle, NoKey, NetSteps, GameSteps
  <2>. QED
    BY <2>1, <2>2, <2>3
<1>14. CASE CreateRoom
  <2>1. RoomsOK'
    <3>1. /\ Allocated \in Rooms
          /\ nextRoom' = Allocated + 1
          /\ ruled' = ruled \cup {Allocated}
          /\ created' = [created EXCEPT ![Allocated] = @ + 1]
          /\ UNCHANGED <<sessions, custom, running, posts>>
      BY <1>14 DEF CreateRoom, AfterAllocated
    <3>2. created' \in [Rooms -> Nat]
      <4>. HIDE DEF Rooms
      <4>. QED
        BY <3>1 DEF RoomsOK
    <3>3. nextRoom' \in 1..(MaxRoom + 1)
      BY <3>1
    <3>. QED
      BY <3>1, <3>2, <3>3 DEF RoomsOK
  <2>2. ClientsOK'
    BY <1>14, AllocatedIsFree DEF CreateRoom, AfterAllocated, RoomsOK,
       ClientsOK, ThreadsOK, NetInv, clients, clock
  <2>3. ThreadsOK' /\ NetInv'
    BY <1>14, AllocatedIsFree DEF CreateRoom, AfterAllocated, RoomsOK,
       ClientsOK, ThreadsOK, NetInv, threads, NetGoes, NetEnds, GameGoes, Idle,
       NoKey, NetSteps, GameSteps
  <2>. QED
    BY <2>1, <2>2, <2>3
<1>15. ASSUME NEW k \in Keys, RecvJoin(k) PROVE TypeInv'
  <2>1. PICK asked \in {NoRoom} \cup Rooms : RecvJoin(k)!(asked)
    BY <1>15 DEF RecvJoin
  <2>. DEFINE s == IF asked = NoRoom THEN Allocated ELSE asked
  <2>2. s \in Rooms /\ net' = [step |-> "accept", key |-> k, room |-> s]
    BY <2>1
  <2>3. nextRoom' \in 1..(MaxRoom + 1)
    <3>1. CASE asked = NoRoom
      <4>1. Allocated \in 1..MaxRoom /\ nextRoom' = Allocated + 1
        BY <2>1, <3>1 DEF AfterAllocated
      <4>. QED
        BY <4>1
    <3>2. CASE asked # NoRoom
      BY <2>1, <3>2 DEF RoomsOK
    <3>. QED
      BY <3>1, <3>2
  <2>4. RoomsOK'
    BY <2>1, <2>2, <2>3 DEF RoomsOK
  <2>5. ClientsOK'
    BY <2>1, <2>2 DEF ClientsOK, clients
  <2>6. ThreadsOK' /\ NetInv'
    BY <2>1, <2>2 DEF ThreadsOK, NetInv, NetSteps, GameSteps
  <2>. QED
    BY <2>4, <2>5, <2>6
<1>16. ASSUME NEW k \in Keys, RecvPacket(k) PROVE TypeInv'
  <2>1. RoomsOK'
    BY <1>16 DEF RecvPacket, RoomsOK, rooms
  <2>2. ClientsOK'
    BY <1>16 DEF RecvPacket, RoomsOK, ClientsOK, ThreadsOK, NetInv, clients, clock
  <2>3. ThreadsOK' /\ NetInv'
    BY <1>16 DEF RecvPacket, RoomsOK, ClientsOK, ThreadsOK, NetInv, threads,
       NetGoes, NetEnds, GameGoes, Idle, NoKey, NetSteps, GameSteps
  <2>. QED
    BY <2>1, <2>2, <2>3
<1>17. ASSUME NEW k \in Keys, GoQuiet(k) PROVE TypeInv'
  <2>1. RoomsOK'
    BY <1>17 DEF GoQuiet, RoomsOK, rooms
  <2>2. ClientsOK'
    BY <1>17 DEF GoQuiet, RoomsOK, ClientsOK, ThreadsOK, NetInv, clients, clock
  <2>3. ThreadsOK' /\ NetInv'
    BY <1>17 DEF GoQuiet, RoomsOK, ClientsOK, ThreadsOK, NetInv, threads,
       NetGoes, NetEnds, GameGoes, Idle, NoKey, NetSteps, GameSteps
  <2>. QED
    BY <2>1, <2>2, <2>3
<1>18. ASSUME NEW s \in Rooms, NEW k \in Keys, SilenceElapses(s, k) PROVE TypeInv'
  <2>1. RoomsOK'
    BY <1>18 DEF SilenceElapses, RoomsOK, rooms
  <2>2. ClientsOK'
    BY <1>18 DEF SilenceElapses, RoomsOK, ClientsOK, ThreadsOK, NetInv, clients, clock
  <2>3. ThreadsOK' /\ NetInv'
    BY <1>18 DEF SilenceElapses, RoomsOK, ClientsOK, ThreadsOK, NetInv, threads,
       NetGoes, NetEnds, GameGoes, Idle, NoKey, NetSteps, GameSteps
  <2>. QED
    BY <2>1, <2>2, <2>3
<1>19. CASE UNCHANGED vars
  <2>1. RoomsOK'
    BY <1>19 DEF vars, RoomsOK, rooms
  <2>2. ClientsOK'
    BY <1>19 DEF vars, RoomsOK, ClientsOK, ThreadsOK, NetInv, clients, clock
  <2>3. ThreadsOK' /\ NetInv'
    BY <1>19 DEF vars, RoomsOK, ClientsOK, ThreadsOK, NetInv, threads, NetGoes,
       NetEnds, GameGoes, Idle, NoKey, NetSteps, GameSteps
  <2>. QED
    BY <2>1, <2>2, <2>3
<1>. QED
  BY <1>1, <1>2, <1>3, <1>4, <1>5, <1>6, <1>7, <1>8, <1>9, <1>10, <1>11, <1>12,
     <1>13, <1>14, <1>15, <1>16, <1>17, <1>18, <1>19
     DEF Next, NetStep, GameStep, Environment

(* Every variable keeps its type; in particular the ids that have rules,   *)
(* routes and threads are ids of rooms, and a client is silent in a room   *)
(* only as its member.                                                     *)
THEOREM TypeCorrect == Spec => []TypeOK
<1>1. TypeInv => TypeOK
  BY DEF TypeInv
<1>. QED
  BY <1>1, TypeInvInit, TypeInvNext, PTL DEF Spec

-----------------------------------------------------------------------------
(* Which sessions exist.  Sessions are removed between two handlers, by    *)
(* calls that an ended thread has posted; an id is taken again only after  *)
(* its removal, so a posted call, a route and a handler still mean the     *)
(* session they meant when they were set up.                               *)

ThreadInv == \A s \in Rooms :
    /\ game[s] # "none" => s \in sessions
    /\ game[s] = "exit" => s \notin running

SessionInv ==
    /\ ThreadInv
    /\ HandlersSessionLives
    /\ RoutesLeadToSessions
    /\ RemovalHitsTheEnded

LEMMA SessionInvInit == Init => SessionInv
BY DEF Init, SessionInv, ThreadInv, HandlersSessionLives, RoutesLeadToSessions,
       RemovalHitsTheEnded, Idle

LEMMA SessionInvNext == TypeInv /\ SessionInv /\ [Next]_vars => SessionInv'
<1>. SUFFICES ASSUME TypeInv, SessionInv, [Next]_vars PROVE SessionInv'
  OBVIOUS
<1>. USE DEF TypeInv, TypeOK, RoomsOK, ClientsOK, ThreadsOK, NetInv, SessionInv
<1>1. CASE Accept
  <2>1. ThreadInv'
    BY <1>1 DEF Accept, ThreadInv, threads, rooms, GameGoes
  <2>2. HandlersSessionLives'
    BY <1>1 DEF Accept, HandlersSessionLives, rooms, NetGoes, NetEnds, Idle
  <2>3. RoutesLeadToSessions'
    BY <1>1 DEF Accept, RoutesLeadToSessions, rooms, NetGoes, NetEnds,
       HandlersSessionLives, NoRoom
  <2>4. RemovalHitsTheEnded'
    BY <1>1 DEF Accept, RemovalHitsTheEnded, rooms, threads, GameGoes, ThreadInv
  <2>. QED
    BY <2>1, <2>2, <2>3, <2>4
<1>2. CASE Insert
  <2>1. ThreadInv'
    BY <1>2 DEF Insert, ThreadInv, threads, rooms, GameGoes
  <2>2. HandlersSessionLives'
    BY <1>2 DEF Insert, HandlersSessionLives, rooms, NetGoes, NetEnds, Idle
  <2>3. RoutesLeadToSessions'
    BY <1>2 DEF Insert, RoutesLeadToSessions, rooms, NetGoes, NetEnds,
       HandlersSessionLives, NoRoom
  <2>4. RemovalHitsTheEnded'
    BY <1>2 DEF Insert, RemovalHitsTheEnded, rooms, threads, GameGoes, ThreadInv
  <2>. QED
    BY <2>1, <2>2, <2>3, <2>4
<1>3. CASE Map
  <2>1. ThreadInv'
    BY <1>3 DEF Map, ThreadInv, threads, rooms, GameGoes
  <2>2. HandlersSessionLives'
    BY <1>3 DEF Map, HandlersSessionLives, rooms, NetGoes, NetEnds, Idle
  <2>3. RoutesLeadToSessions'
    BY <1>3 DEF Map, RoutesLeadToSessions, rooms, NetGoes, NetEnds,
       HandlersSessionLives, NoRoom
  <2>4. RemovalHitsTheEnded'
    BY <1>3 DEF Map, RemovalHitsTheEnded, rooms, threads, GameGoes, ThreadInv
  <2>. QED
    BY <2>1, <2>2, <2>3, <2>4
<1>4. CASE FindSession
  <2>1. ThreadInv'
    BY <1>4 DEF FindSession, ThreadInv, threads, rooms, GameGoes
  <2>2. HandlersSessionLives'
    BY <1>4 DEF FindSession, HandlersSessionLives, rooms, NetGoes, NetEnds, Idle
  <2>3. RoutesLeadToSessions'
    BY <1>4 DEF FindSession, RoutesLeadToSessions, rooms, NetGoes, NetEnds,
       HandlersSessionLives, NoRoom
  <2>4. RemovalHitsTheEnded'
    BY <1>4 DEF FindSession, RemovalHitsTheEnded, rooms, threads, GameGoes, ThreadInv
  <2>. QED
    BY <2>1, <2>2, <2>3, <2>4
<1>5. CASE Deliver
  <2>1. ThreadInv'
    BY <1>5 DEF Deliver, ThreadInv, threads, rooms, GameGoes
  <2>2. HandlersSessionLives'
    BY <1>5 DEF Deliver, HandlersSessionLives, rooms, NetGoes, NetEnds, Idle
  <2>3. RoutesLeadToSessions'
    BY <1>5 DEF Deliver, RoutesLeadToSessions, rooms, NetGoes, NetEnds,
       HandlersSessionLives, NoRoom
  <2>4. RemovalHitsTheEnded'
    BY <1>5 DEF Deliver, RemovalHitsTheEnded, rooms, threads, GameGoes, ThreadInv
  <2>. QED
    BY <2>1, <2>2, <2>3, <2>4
<1>6. CASE EraseLeaver
  <2>1. ThreadInv'
    BY <1>6 DEF EraseLeaver, ThreadInv, threads, rooms, GameGoes
  <2>2. HandlersSessionLives'
    BY <1>6 DEF EraseLeaver, HandlersSessionLives, rooms, NetGoes, NetEnds, Idle
  <2>3. RoutesLeadToSessions'
    BY <1>6 DEF EraseLeaver, RoutesLeadToSessions, rooms, NetGoes, NetEnds,
       HandlersSessionLives, NoRoom
  <2>4. RemovalHitsTheEnded'
    BY <1>6 DEF EraseLeaver, RemovalHitsTheEnded, rooms, threads, GameGoes, ThreadInv
  <2>. QED
    BY <2>1, <2>2, <2>3, <2>4
<1>7. CASE UnmapLeaver
  <2>1. ThreadInv'
    BY <1>7 DEF UnmapLeaver, ThreadInv, threads, rooms, GameGoes
  <2>2. HandlersSessionLives'
    BY <1>7 DEF UnmapLeaver, HandlersSessionLives, rooms, NetGoes, NetEnds, Idle
  <2>3. RoutesLeadToSessions'
    BY <1>7 DEF UnmapLeaver, RoutesLeadToSessions, rooms, NetGoes, NetEnds,
       HandlersSessionLives, NoRoom
  <2>4. RemovalHitsTheEnded'
    BY <1>7 DEF UnmapLeaver, RemovalHitsTheEnded, rooms, threads, GameGoes, ThreadInv
  <2>. QED
    BY <2>1, <2>2, <2>3, <2>4
<1>8. ASSUME NEW s \in Rooms, CheckTimeouts(s) PROVE SessionInv'
  <2>1. ThreadInv'
    BY <1>8 DEF CheckTimeouts, TimedOut, ThreadInv, threads, rooms, GameGoes
  <2>2. HandlersSessionLives'
    BY <1>8 DEF CheckTimeouts, TimedOut, HandlersSessionLives, rooms, NetGoes,
       NetEnds, Idle
  <2>3. RoutesLeadToSessions'
    BY <1>8 DEF CheckTimeouts, TimedOut, RoutesLeadToSessions, rooms, NetGoes,
       NetEnds, HandlersSessionLives, NoRoom
  <2>4. RemovalHitsTheEnded'
    BY <1>8 DEF CheckTimeouts, TimedOut, RemovalHitsTheEnded, rooms, threads,
       GameGoes, ThreadInv
  <2>. QED
    BY <2>1, <2>2, <2>3, <2>4
<1>9. ASSUME NEW s \in Rooms, Drop(s) PROVE SessionInv'
  <2>1. ThreadInv'
    BY <1>9 DEF Drop, ThreadInv, threads, rooms, GameGoes
  <2>2. HandlersSessionLives'
    BY <1>9 DEF Drop, HandlersSessionLives, rooms, NetGoes, NetEnds, Idle
  <2>3. RoutesLeadToSessions'
    BY <1>9 DEF Drop, RoutesLeadToSessions, rooms, NetGoes, NetEnds,
       HandlersSessionLives, NoRoom
  <2>4. RemovalHitsTheEnded'
    BY <1>9 DEF Drop, RemovalHitsTheEnded, rooms, threads, GameGoes, ThreadInv
  <2>. QED
    BY <2>1, <2>2, <2>3, <2>4
<1>10. ASSUME NEW s \in Rooms, UnmapDropped(s) PROVE SessionInv'
  <2>1. ThreadInv'
    BY <1>10 DEF UnmapDropped, ThreadInv, threads, rooms, GameGoes
  <2>2. HandlersSessionLives'
    BY <1>10 DEF UnmapDropped, HandlersSessionLives, rooms, NetGoes, NetEnds, Idle
  <2>3. RoutesLeadToSessions'
    BY <1>10 DEF UnmapDropped, RoutesLeadToSessions, rooms, NetGoes, NetEnds,
       HandlersSessionLives, NoRoom
  <2>4. RemovalHitsTheEnded'
    BY <1>10 DEF UnmapDropped, RemovalHitsTheEnded, rooms, threads, GameGoes, ThreadInv
  <2>. QED
    BY <2>1, <2>2, <2>3, <2>4
<1>11. ASSUME NEW s \in Rooms, StopEmpty(s) PROVE SessionInv'
  <2>1. ThreadInv'
    BY <1>11 DEF StopEmpty, ThreadInv, threads, rooms, GameGoes
  <2>2. HandlersSessionLives'
    BY <1>11 DEF StopEmpty, HandlersSessionLives, rooms, NetGoes, NetEnds, Idle
  <2>3. RoutesLeadToSessions'
    BY <1>11 DEF StopEmpty, RoutesLeadToSessions, rooms, NetGoes, NetEnds,
       HandlersSessionLives, NoRoom
  <2>4. RemovalHitsTheEnded'
    BY <1>11 DEF StopEmpty, RemovalHitsTheEnded, rooms, threads, GameGoes, ThreadInv
  <2>. QED
    BY <2>1, <2>2, <2>3, <2>4
<1>12. ASSUME NEW s \in Rooms, PostRemoval(s) PROVE SessionInv'
  <2>1. ThreadInv'
    BY <1>12 DEF PostRemoval, ThreadInv, threads, rooms, GameGoes
  <2>2. HandlersSessionLives'
    BY <1>12 DEF PostRemoval, HandlersSessionLives, rooms, NetGoes, NetEnds, Idle
  <2>3. RoutesLeadToSessions'
    BY <1>12 DEF PostRemoval, RoutesLeadToSessions, rooms, NetGoes, NetEnds,
       HandlersSessionLives, NoRoom
  <2>4. RemovalHitsTheEnded'
    BY <1>12 DEF PostRemoval, RemovalHitsTheEnded, rooms, threads, GameGoes, ThreadInv
  <2>. QED
    BY <2>1, <2>2, <2>3, <2>4
<1>13. ASSUME NEW s \in Rooms, RemoveSession(s) PROVE SessionInv'
  <2>1. ThreadInv'
    BY <1>13 DEF RemoveSession, Swept, HandlerDone, ThreadInv, threads, rooms, GameGoes
  <2>2. HandlersSessionLives'
    BY <1>13 DEF RemoveSession, Swept, HandlerDone, HandlersSessionLives, rooms,
       NetGoes, NetEnds, Idle
  <2>3. RoutesLeadToSessions'
    BY <1>13 DEF RemoveSession, Swept, HandlerDone, RoutesLeadToSessions, rooms,
       NetGoes, NetEnds, HandlersSessionLives, NoRoom
  <2>4. RemovalHitsTheEnded'
    BY <1>13 DEF RemoveSession, Swept, HandlerDone, RemovalHitsTheEnded, rooms,
       threads, GameGoes, ThreadInv
  <2>. QED
    BY <2>1, <2>2, <2>3, <2>4
<1>14. CASE CreateRoom
  <2>1. ThreadInv'
    BY <1>14 DEF CreateRoom, ThreadInv, threads, rooms, GameGoes
  <2>2. HandlersSessionLives'
    BY <1>14 DEF CreateRoom, HandlersSessionLives, rooms, NetGoes, NetEnds, Idle
  <2>3. RoutesLeadToSessions'
    BY <1>14 DEF CreateRoom, RoutesLeadToSessions, rooms, NetGoes, NetEnds,
       HandlersSessionLives, NoRoom
  <2>4. RemovalHitsTheEnded'
    BY <1>14 DEF CreateRoom, RemovalHitsTheEnded, rooms, threads, GameGoes, ThreadInv
  <2>. QED
    BY <2>1, <2>2, <2>3, <2>4
<1>15. ASSUME NEW k \in Keys, RecvJoin(k) PROVE SessionInv'
  <2>1. PICK asked \in {NoRoom} \cup Rooms : RecvJoin(k)!(asked)
    BY <1>15 DEF RecvJoin
  <2>. DEFINE s == IF asked = NoRoom THEN Allocated ELSE asked
  <2>2. s \in Rooms /\ net' = [step |-> "accept", key |-> k, room |-> s]
    BY <2>1
  <2>3. CASE NeedsSession(s)
    <3>1. sessions' = sessions \cup {s} /\ running' = running \cup {s}
          /\ game' = [game EXCEPT ![s] = "loop"]
      BY <2>1, <2>3
    <3>2. s \notin posts
      BY <2>3 DEF NeedsSession, RemovalHitsTheEnded
    <3>. QED
      BY <2>1, <2>2, <3>1, <3>2 DEF ThreadInv, HandlersSessionLives,
         RoutesLeadToSessions,
         RemovalHitsTheEnded
  <2>4. CASE ~NeedsSession(s)
    BY <2>1, <2>2, <2>4 DEF NeedsSession, ThreadInv, HandlersSessionLives,
       RoutesLeadToSessions, RemovalHitsTheEnded
  <2>. QED
    BY <2>3, <2>4
<1>16. ASSUME NEW k \in Keys, RecvPacket(k) PROVE SessionInv'
  <2>1. ThreadInv'
    BY <1>16 DEF RecvPacket, ThreadInv, threads, rooms, GameGoes
  <2>2. HandlersSessionLives'
    BY <1>16 DEF RecvPacket, HandlersSessionLives, rooms, NetGoes, NetEnds, Idle
  <2>3. RoutesLeadToSessions'
    BY <1>16 DEF RecvPacket, RoutesLeadToSessions, rooms, NetGoes, NetEnds,
       HandlersSessionLives, NoRoom
  <2>4. RemovalHitsTheEnded'
    BY <1>16 DEF RecvPacket, RemovalHitsTheEnded, rooms, threads, GameGoes, ThreadInv
  <2>. QED
    BY <2>1, <2>2, <2>3, <2>4
<1>17. ASSUME NEW k \in Keys, GoQuiet(k) PROVE SessionInv'
  <2>1. ThreadInv'
    BY <1>17 DEF GoQuiet, ThreadInv, threads, rooms, GameGoes
  <2>2. HandlersSessionLives'
    BY <1>17 DEF GoQuiet, HandlersSessionLives, rooms, NetGoes, NetEnds, Idle
  <2>3. RoutesLeadToSessions'
    BY <1>17 DEF GoQuiet, RoutesLeadToSessions, rooms, NetGoes, NetEnds,
       HandlersSessionLives, NoRoom
  <2>4. RemovalHitsTheEnded'
    BY <1>17 DEF GoQuiet, RemovalHitsTheEnded, rooms, threads, GameGoes, ThreadInv
  <2>. QED
    BY <2>1, <2>2, <2>3, <2>4
<1>18. ASSUME NEW s \in Rooms, NEW k \in Keys, SilenceElapses(s, k) PROVE SessionInv'
  <2>1. ThreadInv'
    BY <1>18 DEF SilenceElapses, ThreadInv, threads, rooms, GameGoes
  <2>2. HandlersSessionLives'
    BY <1>18 DEF SilenceElapses, HandlersSessionLives, rooms, NetGoes, NetEnds, Idle
  <2>3. RoutesLeadToSessions'
    BY <1>18 DEF SilenceElapses, RoutesLeadToSessions, rooms, NetGoes, NetEnds,
       HandlersSessionLives, NoRoom
  <2>4. RemovalHitsTheEnded'
    BY <1>18 DEF SilenceElapses, RemovalHitsTheEnded, rooms, threads, GameGoes,
       ThreadInv
  <2>. QED
    BY <2>1, <2>2, <2>3, <2>4
<1>19. CASE UNCHANGED vars
  <2>1. ThreadInv'
    BY <1>19 DEF vars, ThreadInv, threads, rooms, GameGoes
  <2>2. HandlersSessionLives'
    BY <1>19 DEF vars, HandlersSessionLives, rooms, NetGoes, NetEnds, Idle
  <2>3. RoutesLeadToSessions'
    BY <1>19 DEF vars, RoutesLeadToSessions, rooms, NetGoes, NetEnds,
       HandlersSessionLives, NoRoom
  <2>4. RemovalHitsTheEnded'
    BY <1>19 DEF vars, RemovalHitsTheEnded, rooms, threads, GameGoes, ThreadInv
  <2>. QED
    BY <2>1, <2>2, <2>3, <2>4
<1>. QED
  BY <1>1, <1>2, <1>3, <1>4, <1>5, <1>6, <1>7, <1>8, <1>9, <1>10, <1>11, <1>12,
     <1>13, <1>14, <1>15, <1>16, <1>17, <1>18, <1>19
     DEF Next, NetStep, GameStep, Environment

THEOREM SessionInvariant == Spec => [](TypeInv /\ SessionInv)
BY TypeInvInit, TypeInvNext, SessionInvInit, SessionInvNext, PTL DEF Spec

(* The raw session pointer a handler works with stays valid until the      *)
(* handler returns.                                                        *)
THEOREM HandlersAreSafe == Spec => []HandlersSessionLives
<1>1. SessionInv => HandlersSessionLives
  BY DEF SessionInv
<1>. QED
  BY <1>1, SessionInvariant, PTL

(* client_session_map_ never names a session that is gone.                 *)
THEOREM RoutesAreLive == Spec => []RoutesLeadToSessions
<1>1. SessionInv => RoutesLeadToSessions
  BY DEF SessionInv
<1>. QED
  BY <1>1, SessionInvariant, PTL

(* A posted remove_session removes the session that posted it.             *)
THEOREM RemovalIsExact == Spec => []RemovalHitsTheEnded
<1>1. SessionInv => RemovalHitsTheEnded
  BY DEF SessionInv
<1>. QED
  BY <1>1, SessionInvariant, PTL

-----------------------------------------------------------------------------
(* Which ids are given out.  The counter is past every created room, and   *)
(* rules are on record from the moment the room is created.                *)

CreatedInv ==
    /\ \A s \in Rooms : created[s] > 0 => s < nextRoom /\ s \in ruled
    /\ NoRoomCreatedTwice
    /\ CreatedRoomsHaveTheirRules

LEMMA CreatedInvInit == Init => CreatedInv
BY DEF Init, CreatedInv, NoRoomCreatedTwice, CreatedRoomsHaveTheirRules

LEMMA CreatedInvNext == TypeInv /\ CreatedInv /\ [Next]_vars => CreatedInv'
<1>. SUFFICES ASSUME TypeInv, CreatedInv, [Next]_vars PROVE CreatedInv'
  OBVIOUS
<1>. USE DEF TypeInv, TypeOK, RoomsOK, CreatedInv, NoRoomCreatedTwice, CreatedRoomsHaveTheirRules
<1>1. Allocated \in nextRoom..(MaxRoom + 1) /\ Allocated \notin sessions
  BY AllocatedIsFree
<1>2. CASE CreateRoom
  <2>1. created[Allocated] = 0
    BY <1>1, <1>2, ServerAssumption DEF CreateRoom, Rooms
  <2>. QED
    BY <1>1, <1>2, <2>1, ServerAssumption DEF CreateRoom, AfterAllocated, Rooms
<1>3. ASSUME NEW k \in Keys, RecvJoin(k) PROVE CreatedInv'
  <2>1. PICK asked \in {NoRoom} \cup Rooms : RecvJoin(k)!(asked)
    BY <1>3 DEF RecvJoin
  <2>2. nextRoom' \in Nat /\ nextRoom <= nextRoom'
    BY <1>1, <2>1, ServerAssumption DEF AfterAllocated
  <2>. DEFINE s == IF asked = NoRoom THEN Allocated ELSE asked
  <2>3. ruled' = ruled /\ created' = created
    BY <2>1
  <2>4. \A r \in Rooms : created'[r] > 0 => r < nextRoom' /\ r \in ruled'
    BY <2>2, <2>3, ServerAssumption DEF Rooms
  <2>5. CASE NeedsSession(s)
    <3>1. sessions' = sessions \cup {s}
          /\ custom' = IF s \in ruled THEN custom \cup {s} ELSE custom \ {s}
      BY <2>1, <2>5
    <3>2. s \in Rooms
      BY <2>1
    <3>3. CreatedRoomsHaveTheirRules'
      <4>. HIDE DEF s
      <4>. QED
        BY <2>3, <3>1, <3>2
    <3>. QED
      BY <2>3, <2>4, <3>3
  <2>6. CASE ~NeedsSession(s)
    <3>1. sessions' = sessions /\ custom' = custom
      BY <2>1, <2>6
    <3>. QED
      BY <2>3, <2>4, <3>1
  <2>. QED
    BY <2>5, <2>6
<1>4. ASSUME NEW s \in Rooms, RemoveSession(s) PROVE CreatedInv'
  BY <1>4 DEF RemoveSession
<1>5. CASE UNCHANGED rooms
  BY <1>5 DEF rooms
<1>6. NetStep \/ (\E s \in Rooms : GameStep(s)) \/ UNCHANGED vars => UNCHANGED rooms
  BY DEF NetStep, Accept, Insert, Map, FindSession, Deliver, EraseLeaver, UnmapLeaver,
         GameStep, CheckTimeouts, Drop, UnmapDropped, StopEmpty, PostRemoval, vars
<1>7. \A k \in Keys, s \in Rooms :
         RecvPacket(k) \/ GoQuiet(k) \/ SilenceElapses(s, k) => UNCHANGED rooms
  BY DEF RecvPacket, GoQuiet, SilenceElapses
<1>8. Rooms # {}
  BY ServerAssumption DEF Rooms
<1>. QED
  BY <1>2, <1>3, <1>4, <1>5, <1>6, <1>7, <1>8 DEF Next, Environment

LEMMA CreationIsSound == Spec => [](NoRoomCreatedTwice /\ CreatedRoomsHaveTheirRules)
<1>1. CreatedInv => NoRoomCreatedTwice /\ CreatedRoomsHaveTheirRules
  BY DEF CreatedInv
<1>. QED
  BY <1>1, TypeInvInit, TypeInvNext, CreatedInvInit, CreatedInvNext, PTL DEF Spec

(* No two CreateRoom requests are answered with the same room: the number  *)
(* that allocate_session_id returns is past every room created so far.     *)
THEOREM RoomsAreCreatedOnce == Spec => []NoRoomCreatedTwice
  BY CreationIsSound, PTL

(* The session of a created room gets the rules it was created with, which *)
(* session_rules_ keeps, whichever rooms are joined by number in between.  *)
THEOREM RulesAreKept == Spec => []CreatedRoomsHaveTheirRules
  BY CreationIsSound, PTL
=============================================================================

------------------------- MODULE GameSessionProofs -------------------------
(***************************************************************************)
(* What TLAPS proves of GameSession for every set of addresses, every      *)
(* MAX_PLAYERS, every number of lives and every bound on player ids.       *)
(***************************************************************************)
EXTENDS GameSession, FiniteSetTheorems, TLAPS

(* Where the threads stand says what their local data is.  The network     *)
(* thread alone hands out ids, so the test a join passed on entry still    *)
(* holds when it inserts.                                                  *)
ControlInv ==
    /\ pc["net"] \in {"joinCheck", "joinRegistry", "joinInsert"} => nextId <= MaxId
    /\ pc["net"] # "idle" => job["net"] \in Jobs
    /\ pc["net"] \in {"joinAnnounce", "joinPeers", "joinLobby"} => job["net"].id \in Ids
    /\ pc["game"] \in LeaveSteps => job["game"] \in Jobs

TypeInv == TypeOK /\ ControlInv

LEMMA ConnectedFinite ==
    IsFiniteSet(Connected) /\ Cardinality(Connected) \in Nat
<1>1. Connected \subseteq Keys
  BY DEF Connected
<1>. QED
  BY <1>1, ConstantsAssumption, FS_Subset, FS_CardinalityType

USE DEF NoPlayer, Free, Threads, Mutexes, Ids, IsFree

LEMMA TypeInvInit == Init => TypeInv
<1>. SUFFICES ASSUME Init PROVE TypeInv
  OBVIOUS
<1>1. SessionOK
  BY DEF Init, SessionOK
<1>2. RosterOK
  BY ConstantsAssumption DEF Init, RosterOK
<1>3. WorldOK
  BY DEF Init, WorldOK
<1>4. SentOK
  BY DEF Init, SentOK
<1>5. ControlOK /\ ControlInv
  BY DEF Init, ControlOK, ControlInv, NetSteps, GameSteps, LeaveSteps
<1>. QED
  BY <1>1, <1>2, <1>3, <1>4, <1>5 DEF TypeInv, TypeOK

LEMMA TypeInvNext == TypeInv /\ [Next]_vars => TypeInv'
<1>. SUFFICES ASSUME TypeInv, [Next]_vars PROVE TypeInv'
  OBVIOUS
<1>. USE DEF TypeInv, TypeOK, Goes
<1>1. CASE JoinCheck
  <2>1. SessionOK' /\ RosterOK' /\ WorldOK' /\ SentOK'
    BY <1>1 DEF JoinCheck, SessionOK, RosterOK, WorldOK, SentOK, session,
       roster, world, sent, Connected
  <2>2. ControlOK'
    BY <1>1 DEF JoinCheck, RosterOK, ControlOK, ControlInv, Jobs, NoJob,
       NetSteps, GameSteps, JoinSteps, LeaveSteps, Connected
  <2>3. ControlInv'
    BY <1>1 DEF JoinCheck, RosterOK, ControlOK, ControlInv, Jobs, NoJob,
       JoinSteps, LeaveSteps, roster, Connected
  <2>. QED
    BY <2>1, <2>2, <2>3
<1>2. CASE JoinLockRegistry
  <2>1. SessionOK' /\ RosterOK' /\ WorldOK' /\ SentOK'
    BY <1>2 DEF JoinLockRegistry, SessionOK, RosterOK, WorldOK, SentOK, session,
       roster, world, sent, Connected
  <2>2. ControlOK'
    BY <1>2 DEF JoinLockRegistry, RosterOK, ControlOK, ControlInv, Jobs, NoJob,
       NetSteps, GameSteps, JoinSteps, LeaveSteps, Connected
  <2>3. ControlInv'
    BY <1>2 DEF JoinLockRegistry, RosterOK, ControlOK, ControlInv, Jobs, NoJob,
       JoinSteps, LeaveSteps, roster, Connected
  <2>. QED
    BY <2>1, <2>2, <2>3
<1>3. CASE JoinInsert
  <2>1. SessionOK' /\ SentOK'
    BY <1>3 DEF JoinInsert, NewPlayerId, SessionOK, SentOK, session, roster,
       world, sent, Connected
  <2>2. RosterOK'
    BY <1>3, ConnectedFinite, ConstantsAssumption
       DEF JoinInsert, NewPlayerId, RosterOK, RosterOK, ControlOK, ControlInv,
       Jobs, NoJob, roster, Connected, ConnectedIds, JoinSteps, LeaveSteps
  <2>3. WorldOK'
    BY <1>3, ConnectedFinite, ConstantsAssumption
       DEF JoinInsert, NewPlayerId, RosterOK, WorldOK, ControlOK, ControlInv,
       Jobs, NoJob, world, Connected, ConnectedIds, JoinSteps, LeaveSteps
  <2>4. ControlOK'
    BY <1>3 DEF JoinInsert, NewPlayerId, RosterOK, ControlOK, ControlInv, Jobs,
       NoJob, NetSteps, GameSteps, JoinSteps, LeaveSteps, Connected
  <2>5. ControlInv'
    BY <1>3 DEF JoinInsert, NewPlayerId, RosterOK, ControlOK, ControlInv, Jobs,
       NoJob, JoinSteps, LeaveSteps, roster, Connected
  <2>. QED
    BY <2>1, <2>2, <2>3, <2>4, <2>5
<1>4. CASE JoinAnnounce
  <2>1. SessionOK' /\ RosterOK' /\ WorldOK'
    BY <1>4 DEF JoinAnnounce, SessionOK, RosterOK, WorldOK, session, roster,
       world, sent, Connected
  <2>2. SentOK'
    BY <1>4, ConnectedFinite, ConstantsAssumption
       DEF JoinAnnounce, RosterOK, SentOK, ControlOK, ControlInv, Jobs, NoJob,
       sent, Connected, ConnectedIds, JoinSteps, LeaveSteps
  <2>3. ControlOK'
    BY <1>4 DEF JoinAnnounce, RosterOK, ControlOK, ControlInv, Jobs, NoJob,
       NetSteps, GameSteps, JoinSteps, LeaveSteps, Connected
  <2>4. ControlInv'
    BY <1>4 DEF JoinAnnounce, RosterOK, ControlOK, ControlInv, Jobs, NoJob,
       JoinSteps, LeaveSteps, roster, Connected
  <2>. QED
    BY <2>1, <2>2, <2>3, <2>4
<1>5. CASE JoinPeers
  <2>1. SessionOK' /\ RosterOK' /\ WorldOK'
    BY <1>5 DEF JoinPeers, SessionOK, RosterOK, WorldOK, session, roster, world,
       sent, Connected
  <2>2. SentOK'
    BY <1>5, ConnectedFinite, ConstantsAssumption
       DEF JoinPeers, RosterOK, SentOK, ControlOK, ControlInv, Jobs, NoJob,
       sent, Connected, ConnectedIds, JoinSteps, LeaveSteps
  <2>3. ControlOK'
    BY <1>5 DEF JoinPeers, RosterOK, ControlOK, ControlInv, Jobs, NoJob,
       NetSteps, GameSteps, JoinSteps, LeaveSteps, Connected
  <2>4. ControlInv'
    BY <1>5 DEF JoinPeers, RosterOK, ControlOK, ControlInv, Jobs, NoJob,
       JoinSteps, LeaveSteps, roster, Connected
  <2>. QED
    BY <2>1, <2>2, <2>3, <2>4
<1>6. CASE JoinLobby
  <2>1. SessionOK' /\ RosterOK' /\ WorldOK'
    BY <1>6 DEF JoinLobby, SendLobby, SessionOK, RosterOK, WorldOK, session,
       roster, world, sent, Connected
  <2>2. SentOK'
    BY <1>6, ConnectedFinite, ConstantsAssumption
       DEF JoinLobby, SendLobby, RosterOK, SentOK, ControlOK, ControlInv, Jobs,
       NoJob, sent, Connected, ConnectedIds, JoinSteps, LeaveSteps
  <2>3. ControlOK'
    BY <1>6 DEF JoinLobby, SendLobby, RosterOK, ControlOK, ControlInv, Jobs,
       NoJob, NetSteps, GameSteps, JoinSteps, LeaveSteps, Connected
  <2>4. ControlInv'
    BY <1>6 DEF JoinLobby, SendLobby, RosterOK, ControlOK, ControlInv, Jobs,
       NoJob, JoinSteps, LeaveSteps, roster, Connected
  <2>. QED
    BY <2>1, <2>2, <2>3, <2>4
<1>7. CASE JoinMap
  <2>1. SessionOK' /\ WorldOK' /\ SentOK'
    BY <1>7 DEF JoinMap, SessionOK, WorldOK, SentOK, session, roster, world,
       sent, Connected
  <2>2. RosterOK'
    BY <1>7, ConnectedFinite, ConstantsAssumption
       DEF JoinMap, RosterOK, RosterOK, ControlOK, ControlInv, Jobs, NoJob,
       roster, Connected, ConnectedIds, JoinSteps, LeaveSteps
  <2>3. ControlOK'
    BY <1>7 DEF JoinMap, RosterOK, ControlOK, ControlInv, Jobs, NoJob, NetSteps,
       GameSteps, JoinSteps, LeaveSteps, Connected
  <2>4. ControlInv'
    BY <1>7 DEF JoinMap, RosterOK, ControlOK, ControlInv, Jobs, NoJob,
       JoinSteps, LeaveSteps, roster, Connected
  <2>. QED
    BY <2>1, <2>2, <2>3, <2>4
<1>8. CASE GameStart
  <2>1. RosterOK' /\ WorldOK' /\ SentOK'
    BY <1>8 DEF GameStart, RosterOK, WorldOK, SentOK, session, roster, world,
       sent, Connected
  <2>2. SessionOK'
    BY <1>8 DEF GameStart, SessionOK, session
  <2>3. ControlOK'
    BY <1>8 DEF GameStart, RosterOK, ControlOK, ControlInv, Jobs, NoJob,
       NetSteps, GameSteps, JoinSteps, LeaveSteps, Connected
  <2>4. ControlInv'
    BY <1>8 DEF GameStart, RosterOK, ControlOK, ControlInv, Jobs, NoJob,
       JoinSteps, LeaveSteps, roster, Connected
  <2>. QED
    BY <2>1, <2>2, <2>3, <2>4
<1>9. CASE LeaveFind
  <2>1. SessionOK' /\ RosterOK' /\ WorldOK' /\ SentOK'
    BY <1>9 DEF LeaveFind, SessionOK, RosterOK, WorldOK, SentOK, session,
       roster, world, sent, Connected
  <2>2. ControlOK'
    BY <1>9 DEF LeaveFind, RosterOK, ControlOK, ControlInv, Jobs, NoJob,
       NetSteps, GameSteps, JoinSteps, LeaveSteps, Connected
  <2>3. ControlInv'
    BY <1>9 DEF LeaveFind, RosterOK, ControlOK, ControlInv, Jobs, NoJob,
       JoinSteps, LeaveSteps, roster, Connected
  <2>. QED
    BY <2>1, <2>2, <2>3
<1>10. ASSUME NEW t \in Threads, Disconnect(t) PROVE TypeInv'
  <2>1. CASE DisconnectDestroy(t)
    <3>1. SessionOK' /\ RosterOK' /\ SentOK'
      BY <1>10, <2>1 DEF DisconnectDestroy, SessionOK, RosterOK, SentOK,
         session, roster, world, sent, Connected
    <3>2. WorldOK'
      <4>1. avatars' \subseteq Ids /\ hostiles' \in BOOLEAN
        BY <1>10, <2>1 DEF DisconnectDestroy, WorldOK
      <4>2. lives' \in [Ids -> Int]
        BY <1>10, <2>1 DEF DisconnectDestroy, WorldOK
      <4>. QED
        BY <4>1, <4>2 DEF WorldOK
    <3>3. ControlOK'
      BY <1>10, <2>1 DEF DisconnectDestroy, RosterOK, ControlOK, ControlInv,
         Jobs, NoJob, NetSteps, GameSteps, JoinSteps, LeaveSteps, Connected
    <3>4. ControlInv'
      BY <1>10, <2>1 DEF DisconnectDestroy, RosterOK, ControlOK, ControlInv,
         Jobs, NoJob, JoinSteps, LeaveSteps, roster, Connected
    <3>. QED
      BY <3>1, <3>2, <3>3, <3>4
  <2>2. CASE DisconnectAnnounce(t)
    <3>1. SessionOK' /\ RosterOK' /\ WorldOK'
      BY <1>10, <2>2 DEF DisconnectAnnounce, SessionOK, RosterOK, WorldOK,
         session, roster, world, sent, Connected
    <3>2. SentOK'
      BY <1>10, <2>2, ConnectedFinite, ConstantsAssumption
         DEF DisconnectAnnounce, RosterOK, SentOK, ControlOK, ControlInv, Jobs,
         NoJob, sent, Connected, ConnectedIds, JoinSteps, LeaveSteps
    <3>3. ControlOK'
      BY <1>10, <2>2 DEF DisconnectAnnounce, RosterOK, ControlOK, ControlInv,
         Jobs, NoJob, NetSteps, GameSteps, JoinSteps, LeaveSteps, Connected
    <3>4. ControlInv'
      BY <1>10, <2>2 DEF DisconnectAnnounce, RosterOK, ControlOK, ControlInv,
         Jobs, NoJob, JoinSteps, LeaveSteps, roster, Connected
    <3>. QED
      BY <3>1, <3>2, <3>3, <3>4
  <2>3. CASE DisconnectErase(t)
    <3>1. SessionOK' /\ WorldOK'
      BY <1>10, <2>3 DEF DisconnectErase, SessionOK, WorldOK, session, roster,
         world, sent, Connected
    <3>2. RosterOK'
      <4>1. job[t].key \in Keys /\ clients[job[t].key] \in 0..MaxId
        BY <1>10, <2>3 DEF DisconnectErase, RosterOK, ControlOK, ControlInv,
           Jobs, LeaveSteps
      <4>2. clients' \in [Keys -> 0..MaxId] /\ nextId' \in 1..(MaxId + 1) /\ mapped' \subseteq Keys
        BY <2>3, <4>1, ConstantsAssumption DEF DisconnectErase, RosterOK
      <4>3. silent' \subseteq Connected'
        BY <2>3, <4>1 DEF DisconnectErase, RosterOK, Connected
      <4>4. mixedUp' \subseteq Ids
        <5>1. {clients[job[t].key]} \ {NoPlayer, job[t].id} \subseteq Ids
          BY <4>1, ConstantsAssumption
        <5>2. mixedUp' = mixedUp \cup ({clients[job[t].key]} \ {NoPlayer, job[t].id})
          BY <2>3 DEF DisconnectErase
        <5>. QED
          BY <5>1, <5>2 DEF RosterOK
      <4>. QED
        BY <4>2, <4>3, <4>4 DEF RosterOK
    <3>3. SentOK'
      BY <1>10, <2>3, ConnectedFinite, ConstantsAssumption
         DEF DisconnectErase, RosterOK, SentOK, ControlOK, ControlInv, Jobs,
         NoJob, sent, Connected, ConnectedIds, JoinSteps, LeaveSteps
    <3>4. ControlOK'
      BY <1>10, <2>3 DEF DisconnectErase, RosterOK, ControlOK, ControlInv, Jobs,
         NoJob, NetSteps, GameSteps, JoinSteps, LeaveSteps, Connected
    <3>5. ControlInv'
      BY <1>10, <2>3 DEF DisconnectErase, RosterOK, ControlOK, ControlInv, Jobs,
         NoJob, JoinSteps, LeaveSteps, roster, Connected
    <3>. QED
      BY <3>1, <3>2, <3>3, <3>4, <3>5
  <2>4. CASE DisconnectLobby(t)
    <3>1. SessionOK' /\ RosterOK' /\ WorldOK'
      BY <1>10, <2>4 DEF DisconnectLobby, SendLobby, SessionOK, RosterOK,
         WorldOK, session, roster, world, sent, Connected
    <3>2. SentOK'
      BY <1>10, <2>4, ConnectedFinite, ConstantsAssumption
         DEF DisconnectLobby, SendLobby, RosterOK, SentOK, ControlOK,
         ControlInv, Jobs, NoJob, sent, Connected, ConnectedIds, JoinSteps,
         LeaveSteps
    <3>3. ControlOK'
      BY <1>10, <2>4 DEF DisconnectLobby, SendLobby, RosterOK, ControlOK,
         ControlInv, Jobs, NoJob, NetSteps, GameSteps, JoinSteps, LeaveSteps,
         Connected
    <3>4. ControlInv'
      BY <1>10, <2>4 DEF DisconnectLobby, SendLobby, RosterOK, ControlOK,
         ControlInv, Jobs, NoJob, JoinSteps, LeaveSteps, roster, Connected
    <3>. QED
      BY <3>1, <3>2, <3>3, <3>4
  <2>5. CASE DisconnectUnmap(t)
    <3>1. SessionOK' /\ WorldOK' /\ SentOK'
      BY <1>10, <2>5 DEF DisconnectUnmap, AfterDisconnect, SessionOK, WorldOK,
         SentOK, session, roster, world, sent, Connected
    <3>2. RosterOK'
      BY <1>10, <2>5, ConnectedFinite, ConstantsAssumption
         DEF DisconnectUnmap, AfterDisconnect, RosterOK, RosterOK, ControlOK,
         ControlInv, Jobs, NoJob, roster, Connected, ConnectedIds, JoinSteps,
         LeaveSteps
    <3>3. ControlOK'
      BY <1>10, <2>5 DEF DisconnectUnmap, AfterDisconnect, RosterOK, ControlOK,
         ControlInv, Jobs, NoJob, NetSteps, GameSteps, JoinSteps, LeaveSteps,
         Connected
    <3>4. ControlInv'
      BY <1>10, <2>5 DEF DisconnectUnmap, AfterDisconnect, RosterOK, ControlOK,
         ControlInv, Jobs, NoJob, JoinSteps, LeaveSteps, roster, Connected
    <3>. QED
      BY <3>1, <3>2, <3>3, <3>4
  <2>. QED
    BY <1>10, <2>1, <2>2, <2>3, <2>4, <2>5 DEF Disconnect
<1>11. CASE LoopTop
  <2>1. SessionOK' /\ RosterOK' /\ WorldOK' /\ SentOK'
    BY <1>11 DEF LoopTop, SessionOK, RosterOK, WorldOK, SentOK, session, roster,
       world, sent, Connected
  <2>2. ControlOK'
    BY <1>11 DEF LoopTop, RosterOK, ControlOK, ControlInv, Jobs, NoJob,
       NetSteps, GameSteps, JoinSteps, LeaveSteps, Connected
  <2>3. ControlInv'
    BY <1>11 DEF LoopTop, RosterOK, ControlOK, ControlInv, Jobs, NoJob,
       JoinSteps, LeaveSteps, roster, Connected
  <2>. QED
    BY <2>1, <2>2, <2>3
<1>12. CASE CheckTimeouts
  <2>1. SessionOK' /\ RosterOK' /\ WorldOK' /\ SentOK'
    BY <1>12 DEF CheckTimeouts, TimedOut, SessionOK, RosterOK, WorldOK, SentOK,
       session, roster, world, sent, Connected
  <2>2. ControlOK'
    BY <1>12 DEF CheckTimeouts, TimedOut, RosterOK, ControlOK, ControlInv, Jobs,
       NoJob, NetSteps, GameSteps, JoinSteps, LeaveSteps, Connected
  <2>3. ControlInv'
    BY <1>12 DEF CheckTimeouts, TimedOut, RosterOK, ControlOK, ControlInv, Jobs,
       NoJob, JoinSteps, LeaveSteps, roster, Connected
  <2>. QED
    BY <2>1, <2>2, <2>3
<1>13. CASE NextTimeout
  <2>1. SessionOK' /\ RosterOK' /\ WorldOK' /\ SentOK'
    BY <1>13 DEF NextTimeout, SessionOK, RosterOK, WorldOK, SentOK, session,
       roster, world, sent, Connected
  <2>2. ControlOK'
    BY <1>13 DEF NextTimeout, RosterOK, ControlOK, ControlInv, Jobs, NoJob,
       NetSteps, GameSteps, JoinSteps, LeaveSteps, Connected
  <2>3. ControlInv'
    BY <1>13 DEF NextTimeout, RosterOK, ControlOK, ControlInv, Jobs, NoJob,
       JoinSteps, LeaveSteps, roster, Connected
  <2>. QED
    BY <2>1, <2>2, <2>3
<1>14. CASE CheckEmpty
  <2>1. RosterOK' /\ WorldOK' /\ SentOK'
    BY <1>14 DEF CheckEmpty, StillEmpty, RosterOK, WorldOK, SentOK, session,
       roster, world, sent, Connected
  <2>2. SessionOK'
    BY <1>14 DEF CheckEmpty, StillEmpty, SessionOK, session
  <2>3. ControlOK'
    BY <1>14 DEF CheckEmpty, StillEmpty, RosterOK, ControlOK, ControlInv, Jobs,
       NoJob, NetSteps, GameSteps, JoinSteps, LeaveSteps, Connected
  <2>4. ControlInv'
    BY <1>14 DEF CheckEmpty, StillEmpty, RosterOK, ControlOK, ControlInv, Jobs,
       NoJob, JoinSteps, LeaveSteps, roster, Connected
  <2>. QED
    BY <2>1, <2>2, <2>3, <2>4
<1>15. CASE Tick
  <2>1. SessionOK' /\ RosterOK' /\ WorldOK' /\ SentOK'
    BY <1>15 DEF Tick, SessionOK, RosterOK, WorldOK, SentOK, session, roster,
       world, sent, Connected
  <2>2. ControlOK'
    BY <1>15 DEF Tick, RosterOK, ControlOK, ControlInv, Jobs, NoJob, NetSteps,
       GameSteps, JoinSteps, LeaveSteps, Connected
  <2>3. ControlInv'
    BY <1>15 DEF Tick, RosterOK, ControlOK, ControlInv, Jobs, NoJob, JoinSteps,
       LeaveSteps, roster, Connected
  <2>. QED
    BY <2>1, <2>2, <2>3
<1>16. CASE LockSurvey
  <2>1. SessionOK' /\ RosterOK' /\ WorldOK' /\ SentOK'
    BY <1>16 DEF LockSurvey, SessionOK, RosterOK, WorldOK, SentOK, session,
       roster, world, sent, Connected
  <2>2. ControlOK'
    BY <1>16 DEF LockSurvey, RosterOK, ControlOK, ControlInv, Jobs, NoJob,
       NetSteps, GameSteps, JoinSteps, LeaveSteps, Connected
  <2>3. ControlInv'
    BY <1>16 DEF LockSurvey, RosterOK, ControlOK, ControlInv, Jobs, NoJob,
       JoinSteps, LeaveSteps, roster, Connected
  <2>. QED
    BY <2>1, <2>2, <2>3
<1>17. CASE Judge
  <2>1. SessionOK' /\ RosterOK' /\ WorldOK' /\ SentOK'
    BY <1>17 DEF Judge, SessionOK, RosterOK, WorldOK, SentOK, session, roster,
       world, sent, Connected
  <2>2. ControlOK'
    BY <1>17 DEF Judge, RosterOK, ControlOK, ControlInv, Jobs, NoJob, NetSteps,
       GameSteps, JoinSteps, LeaveSteps, Connected
  <2>3. ControlInv'
    BY <1>17 DEF Judge, RosterOK, ControlOK, ControlInv, Jobs, NoJob, JoinSteps,
       LeaveSteps, roster, Connected
  <2>. QED
    BY <2>1, <2>2, <2>3
<1>18. CASE DeclareOver
  <2>1. RosterOK' /\ WorldOK' /\ SentOK'
    BY <1>18 DEF DeclareOver, RosterOK, WorldOK, SentOK, session, roster, world,
       sent, Connected
  <2>2. SessionOK'
    BY <1>18 DEF DeclareOver, SessionOK, session
  <2>3. ControlOK'
    BY <1>18 DEF DeclareOver, RosterOK, ControlOK, ControlInv, Jobs, NoJob,
       NetSteps, GameSteps, JoinSteps, LeaveSteps, Connected
  <2>4. ControlInv'
    BY <1>18 DEF DeclareOver, RosterOK, ControlOK, ControlInv, Jobs, NoJob,
       JoinSteps, LeaveSteps, roster, Connected
  <2>. QED
    BY <2>1, <2>2, <2>3, <2>4
<1>19. CASE CleanUp
  <2>1. SessionOK' /\ RosterOK' /\ SentOK'
    BY <1>19 DEF CleanUp, SessionOK, RosterOK, SentOK, session, roster, world,
       sent, Connected
  <2>2. WorldOK'
    BY <1>19, ConnectedFinite, ConstantsAssumption
       DEF CleanUp, RosterOK, WorldOK, ControlOK, ControlInv, Jobs, NoJob,
       world, Connected, ConnectedIds, JoinSteps, LeaveSteps
  <2>3. ControlOK'
    BY <1>19 DEF CleanUp, RosterOK, ControlOK, ControlInv, Jobs, NoJob,
       NetSteps, GameSteps, JoinSteps, LeaveSteps, Connected
  <2>4. ControlInv'
    BY <1>19 DEF CleanUp, RosterOK, ControlOK, ControlInv, Jobs, NoJob,
       JoinSteps, LeaveSteps, roster, Connected
  <2>. QED
    BY <2>1, <2>2, <2>3, <2>4
<1>20. CASE UpdateWorld
  <2>1. SessionOK' /\ RosterOK' /\ SentOK'
    BY <1>20 DEF UpdateWorld, SessionOK, RosterOK, SentOK, session, roster,
       world, sent, Connected
  <2>2. WorldOK'
    <3>1. avatars' \subseteq Ids /\ hostiles' \in BOOLEAN
      BY <1>20 DEF UpdateWorld, WorldOK
    <3>2. lives' \in [Ids -> Int]
      BY <1>20 DEF UpdateWorld, WorldOK
    <3>. QED
      BY <3>1, <3>2 DEF WorldOK
  <2>3. ControlOK'
    BY <1>20 DEF UpdateWorld, RosterOK, ControlOK, ControlInv, Jobs, NoJob,
       NetSteps, GameSteps, JoinSteps, LeaveSteps, Connected
  <2>4. ControlInv'
    BY <1>20 DEF UpdateWorld, RosterOK, ControlOK, ControlInv, Jobs, NoJob,
       JoinSteps, LeaveSteps, roster, Connected
  <2>. QED
    BY <2>1, <2>2, <2>3, <2>4
<1>21. CASE LockBroadcast
  <2>1. SessionOK' /\ RosterOK' /\ WorldOK' /\ SentOK'
    BY <1>21 DEF LockBroadcast, SessionOK, RosterOK, WorldOK, SentOK, session,
       roster, world, sent, Connected
  <2>2. ControlOK'
    BY <1>21 DEF LockBroadcast, RosterOK, ControlOK, ControlInv, Jobs, NoJob,
       NetSteps, GameSteps, JoinSteps, LeaveSteps, Connected
  <2>3. ControlInv'
    BY <1>21 DEF LockBroadcast, RosterOK, ControlOK, ControlInv, Jobs, NoJob,
       JoinSteps, LeaveSteps, roster, Connected
  <2>. QED
    BY <2>1, <2>2, <2>3
<1>22. CASE SendWorld
  <2>1. SessionOK' /\ RosterOK' /\ WorldOK' /\ SentOK'
    BY <1>22 DEF SendWorld, SessionOK, RosterOK, WorldOK, SentOK, session,
       roster, world, sent, Connected
  <2>2. ControlOK'
    BY <1>22 DEF SendWorld, RosterOK, ControlOK, ControlInv, Jobs, NoJob,
       NetSteps, GameSteps, JoinSteps, LeaveSteps, Connected
  <2>3. ControlInv'
    BY <1>22 DEF SendWorld, RosterOK, ControlOK, ControlInv, Jobs, NoJob,
       JoinSteps, LeaveSteps, roster, Connected
  <2>. QED
    BY <2>1, <2>2, <2>3
<1>23. CASE LoopExit
  <2>1. SessionOK' /\ RosterOK' /\ WorldOK' /\ SentOK'
    BY <1>23 DEF LoopExit, SessionOK, RosterOK, WorldOK, SentOK, session,
       roster, world, sent, Connected
  <2>2. ControlOK'
    BY <1>23 DEF LoopExit, RosterOK, ControlOK, ControlInv, Jobs, NoJob,
       NetSteps, GameSteps, JoinSteps, LeaveSteps, Connected
  <2>3. ControlInv'
    BY <1>23 DEF LoopExit, RosterOK, ControlOK, ControlInv, Jobs, NoJob,
       JoinSteps, LeaveSteps, roster, Connected
  <2>. QED
    BY <2>1, <2>2, <2>3
<1>24. CASE RemoveSession
  <2>1. SessionOK' /\ WorldOK' /\ SentOK'
    BY <1>24 DEF RemoveSession, SessionOK, WorldOK, SentOK, session, roster,
       world, sent, Connected
  <2>2. RosterOK'
    BY <1>24, ConnectedFinite, ConstantsAssumption
       DEF RemoveSession, RosterOK, RosterOK, ControlOK, ControlInv, Jobs,
       NoJob, roster, Connected, ConnectedIds, JoinSteps, LeaveSteps
  <2>3. ControlOK'
    BY <1>24 DEF RemoveSession, RosterOK, ControlOK, ControlInv, Jobs, NoJob,
       NetSteps, GameSteps, JoinSteps, LeaveSteps, Connected
  <2>4. ControlInv'
    BY <1>24 DEF RemoveSession, RosterOK, ControlOK, ControlInv, Jobs, NoJob,
       JoinSteps, LeaveSteps, roster, Connected
  <2>. QED
    BY <2>1, <2>2, <2>3, <2>4
<1>25. ASSUME NEW k \in Keys, RecvJoin(k) PROVE TypeInv'
  <2>1. SessionOK' /\ RosterOK' /\ WorldOK' /\ SentOK'
    BY <1>25 DEF RecvJoin, JoinTaken, SessionOK, RosterOK, WorldOK, SentOK,
       session, roster, world, sent, Connected
  <2>2. ControlOK'
    BY <1>25, ConstantsAssumption DEF RecvJoin, JoinTaken, RosterOK, ControlOK,
       ControlInv, Jobs, NoJob, NetSteps, GameSteps, JoinSteps, LeaveSteps,
       Connected, control, session, roster, world, sent
  <2>3. ControlInv'
    BY <1>25, ConstantsAssumption DEF RecvJoin, JoinTaken, RosterOK, ControlOK,
       ControlInv, Jobs, NoJob, JoinSteps, LeaveSteps, roster, Connected,
       control, session, roster, world, sent
  <2>. QED
    BY <2>1, <2>2, <2>3
<1>26. ASSUME NEW k \in Keys, RecvPacket(k) PROVE TypeInv'
  <2>1. SessionOK' /\ WorldOK' /\ SentOK'
    BY <1>26 DEF RecvPacket, SessionOK, WorldOK, SentOK, session, roster, world,
       sent, Connected
  <2>2. RosterOK'
    BY <1>26, ConnectedFinite, ConstantsAssumption
       DEF RecvPacket, RosterOK, RosterOK, ControlOK, ControlInv, Jobs, NoJob,
       roster, Connected, ConnectedIds, JoinSteps, LeaveSteps
  <2>3. ControlOK'
    BY <1>26, ConstantsAssumption DEF RecvPacket, RosterOK, ControlOK,
       ControlInv, Jobs, NoJob, NetSteps, GameSteps, JoinSteps, LeaveSteps,
       Connected, control, session, roster, world, sent
  <2>4. ControlInv'
    BY <1>26, ConstantsAssumption DEF RecvPacket, RosterOK, ControlOK,
       ControlInv, Jobs, NoJob, JoinSteps, LeaveSteps, roster, Connected,
       control, session, roster, world, sent
  <2>. QED
    BY <2>1, <2>2, <2>3, <2>4
<1>27. ASSUME NEW k \in Keys, SilenceElapses(k) PROVE TypeInv'
  <2>1. SessionOK' /\ WorldOK' /\ SentOK'
    BY <1>27 DEF SilenceElapses, SessionOK, WorldOK, SentOK, session, roster,
       world, sent, Connected
  <2>2. RosterOK'
    BY <1>27, ConnectedFinite, ConstantsAssumption
       DEF SilenceElapses, RosterOK, RosterOK, ControlOK, ControlInv, Jobs,
       NoJob, roster, Connected, ConnectedIds, JoinSteps, LeaveSteps
  <2>3. ControlOK'
    BY <1>27, ConstantsAssumption DEF SilenceElapses, RosterOK, ControlOK,
       ControlInv, Jobs, NoJob, NetSteps, GameSteps, JoinSteps, LeaveSteps,
       Connected, control, session, roster, world, sent
  <2>4. ControlInv'
    BY <1>27, ConstantsAssumption DEF SilenceElapses, RosterOK, ControlOK,
       ControlInv, Jobs, NoJob, JoinSteps, LeaveSteps, roster, Connected,
       control, session, roster, world, sent
  <2>. QED
    BY <2>1, <2>2, <2>3, <2>4
<1>28. CASE EmptyTimeElapses
  <2>1. RosterOK' /\ WorldOK' /\ SentOK'
    BY <1>28 DEF EmptyTimeElapses, RosterOK, WorldOK, SentOK, session, roster,
       world, sent, Connected
  <2>2. SessionOK'
    BY <1>28 DEF EmptyTimeElapses, SessionOK, session
  <2>3. ControlOK'
    BY <1>28, ConstantsAssumption DEF EmptyTimeElapses, RosterOK, ControlOK,
       ControlInv, Jobs, NoJob, NetSteps, GameSteps, JoinSteps, LeaveSteps,
       Connected, control, session, roster, world, sent
  <2>4. ControlInv'
    BY <1>28, ConstantsAssumption DEF EmptyTimeElapses, RosterOK, ControlOK,
       ControlInv, Jobs, NoJob, JoinSteps, LeaveSteps, roster, Connected,
       control, session, roster, world, sent
  <2>. QED
    BY <2>1, <2>2, <2>3, <2>4
<1>29. CASE UNCHANGED vars
  BY <1>29 DEF vars, session, roster, world, sent, control, SessionOK, RosterOK,
     WorldOK, SentOK, ControlOK, ControlInv, Connected
<1>. QED
  BY <1>1, <1>2, <1>3, <1>4, <1>5, <1>6, <1>7, <1>8, <1>9, <1>10, <1>11, <1>12,
     <1>13, <1>14, <1>15, <1>16, <1>17, <1>18, <1>19, <1>20, <1>21, <1>22,
     <1>23, <1>24, <1>25, <1>26, <1>27, <1>28, <1>29
     DEF Next, NetStep, GameStep, Environment

(* Type correctness: every variable of the session keeps its type, for any *)
(* constants.                                                              *)
THEOREM TypeCorrect == Spec => []TypeOK
<1>1. TypeInv => TypeOK
  BY DEF TypeInv
<1>. QED
  BY <1>1, TypeInvInit, TypeInvNext, PTL DEF Spec

LEMMA TypeInvAlways == Spec => []TypeInv
BY TypeInvInit, TypeInvNext, PTL DEF Spec

----------------------------------------------------------------------------
(* Which steps touch clients_, next_player_id_ and running_.               *)

LEMMA RosterFrame ==
    ASSUME [Next]_vars
    PROVE  \/ UNCHANGED <<clients, nextId>>
           \/ JoinInsert
           \/ \E t \in Threads : DisconnectErase(t)
<1>. USE DEF roster
<1>1. CASE NetStep
  BY <1>1 DEF NetStep, JoinCheck, JoinLockRegistry, JoinAnnounce, JoinPeers,
     JoinLobby, JoinMap, GameStart, LeaveFind, Disconnect, DisconnectDestroy,
     DisconnectAnnounce, DisconnectLobby, DisconnectUnmap
<1>2. CASE GameStep
  BY <1>2 DEF GameStep, LoopTop, CheckTimeouts, NextTimeout, CheckEmpty, Tick,
     LockSurvey, Judge, DeclareOver, CleanUp, UpdateWorld, LockBroadcast,
     SendWorld, LoopExit, Disconnect, DisconnectDestroy, DisconnectAnnounce,
     DisconnectLobby, DisconnectUnmap
<1>3. CASE RemoveSession \/ Environment \/ UNCHANGED vars
  BY <1>3 DEF RemoveSession, Environment, RecvJoin, RecvPacket, SilenceElapses,
     EmptyTimeElapses, vars
<1>. QED
  BY <1>1, <1>2, <1>3 DEF Next

(* Two connected addresses never share a player id.                        *)
THEOREM IdsAreUnique == Spec => []UniqueIds
<1>. USE DEF TypeInv, TypeOK, RosterOK
<1>1. Init => UniqueIds
  BY DEF Init, UniqueIds, Connected
<1>2. TypeInv /\ UniqueIds /\ [Next]_vars => UniqueIds'
  <2>. SUFFICES ASSUME TypeInv, UniqueIds, [Next]_vars PROVE UniqueIds'
    OBVIOUS
  <2>1. CASE UNCHANGED <<clients, nextId>>
    BY <2>1 DEF UniqueIds, Connected
  <2>2. CASE JoinInsert
    <3>1. nextId' = nextId + 1
      BY <2>2 DEF JoinInsert
    <3>2. \A k \in Keys : clients'[k] = clients[k] \/ (clients'[k] = nextId /\ k = job["net"].key)
      BY <2>2 DEF JoinInsert, NewPlayerId
    <3>. QED
      BY <3>1, <3>2 DEF UniqueIds, Connected
  <2>3. ASSUME NEW t \in Threads, DisconnectErase(t) PROVE UniqueIds'
    <3>1. nextId' = nextId
      BY <2>3 DEF DisconnectErase
    <3>2. \A k \in Keys : clients'[k] \in {clients[k], NoPlayer}
      BY <2>3 DEF DisconnectErase
    <3>. QED
      BY <3>1, <3>2 DEF UniqueIds, Connected
  <2>. QED
    BY <2>1, <2>2, <2>3, RosterFrame
<1>. QED
  BY <1>1, <1>2, TypeInvAlways, PTL DEF Spec

----------------------------------------------------------------------------
(* Capacity.  The count is taken in JoinCheck and used in JoinInsert; in   *)
(* between only the network thread could add a client, so the room found   *)
(* by the check is still there.                                            *)

CapacityInv ==
    /\ AtMostMaxPlayers
    /\ pc["net"] \in {"joinRegistry", "joinInsert"} =>
          Cardinality(Connected) < MaxPlayers

LEMMA CheckedJoinFrame ==
    ASSUME TypeInv, [Next]_vars, pc'["net"] \in {"joinRegistry", "joinInsert"}
    PROVE  \/ /\ pc["net"] \in {"joinRegistry", "joinInsert"}
              /\ job'["net"] = job["net"]
           \/ /\ JoinCheck /\ ~RoomIsFull /\ UNCHANGED <<job, clients>>
              /\ job["net"].key \notin Connected
<1>. USE DEF Goes, TypeInv, TypeOK, ControlOK
<1>1. CASE NetStep /\ ~JoinCheck
  BY <1>1 DEF NetStep, JoinLockRegistry, JoinInsert, JoinAnnounce, JoinPeers,
     JoinLobby, JoinMap, GameStart, LeaveFind, Disconnect, DisconnectDestroy,
     DisconnectAnnounce, DisconnectErase, DisconnectLobby, DisconnectUnmap,
     AfterDisconnect
<1>2. CASE JoinCheck
  BY <1>2 DEF JoinCheck, roster
<1>3. CASE GameStep
  <2>1. pc'["net"] = pc["net"] /\ job'["net"] = job["net"]
    BY <1>3 DEF GameStep, LoopTop, CheckTimeouts, NextTimeout, CheckEmpty, Tick,
       LockSurvey, Judge, DeclareOver, CleanUp, UpdateWorld, LockBroadcast,
       SendWorld, LoopExit, Disconnect, DisconnectDestroy, DisconnectAnnounce,
       DisconnectErase, DisconnectLobby, DisconnectUnmap
  <2>. QED
    BY <2>1
<1>4. CASE RemoveSession \/ Environment \/ UNCHANGED vars
  BY <1>4 DEF RemoveSession, Environment, RecvJoin, RecvPacket, SilenceElapses,
     EmptyTimeElapses, vars, control
<1>. QED
  BY <1>1, <1>2, <1>3, <1>4 DEF Next

(* The address a join is about to insert is still unknown when it does.    *)
FreshKey ==
    pc["net"] \in {"joinRegistry", "joinInsert"} => job["net"].key \notin Connected

LEMMA FreshKeyAlways == Spec => []FreshKey
<1>1. Init => FreshKey
  BY DEF Init, FreshKey
<1>2. TypeInv /\ FreshKey /\ [Next]_vars => FreshKey'
  <2>. SUFFICES ASSUME TypeInv, FreshKey, [Next]_vars,
                       pc'["net"] \in {"joinRegistry", "joinInsert"}
                PROVE  job'["net"].key \notin Connected'
    BY DEF FreshKey
  <2>. USE CheckedJoinFrame DEF FreshKey, Connected
  <2>1. CASE UNCHANGED <<clients, nextId>>
    BY <2>1
  <2>2. CASE JoinInsert
    BY <2>2 DEF JoinInsert, Goes, TypeInv, TypeOK, ControlOK
  <2>3. ASSUME NEW t \in Threads, DisconnectErase(t)
        PROVE  job'["net"].key \notin Connected'
    <3>1. \A k \in Keys : clients'[k] \in {clients[k], NoPlayer}
      BY <2>3 DEF DisconnectErase, TypeInv, TypeOK, RosterOK
    <3>. QED
      BY <3>1
  <2>. QED
    BY <2>1, <2>2, <2>3, RosterFrame
<1>. QED
  BY <1>1, <1>2, TypeInvAlways, PTL DEF Spec

LEMMA InsertAddsOne ==
    ASSUME TypeInv, JoinInsert
    PROVE  Cardinality(Connected)' <= Cardinality(Connected) + 1
<1>1. Connected' \subseteq Connected \cup {job["net"].key}
  BY DEF JoinInsert, Connected, TypeInv, TypeOK, RosterOK
<1>2. IsFiniteSet(Connected \cup {job["net"].key})
  BY ConnectedFinite, FS_AddElement
<1>3. Cardinality(Connected') <= Cardinality(Connected \cup {job["net"].key})
  BY <1>1, <1>2, FS_Subset
<1>4. Cardinality(Connected \cup {job["net"].key}) <= Cardinality(Connected) + 1
  BY ConnectedFinite, FS_AddElement
<1>5. Cardinality(Connected') \in Nat /\ Cardinality(Connected \cup {job["net"].key}) \in Nat
  BY <1>1, <1>2, FS_Subset, FS_CardinalityType
<1>. QED
  BY <1>3, <1>4, <1>5, ConnectedFinite

LEMMA EraseAddsNone ==
    ASSUME NEW t \in Threads, TypeInv, DisconnectErase(t)
    PROVE  Connected' \subseteq Connected /\ Cardinality(Connected)' <= Cardinality(Connected)
<1>1. Connected' \subseteq Connected
  BY DEF DisconnectErase, Connected, TypeInv, TypeOK, RosterOK
<1>. QED
  BY <1>1, ConnectedFinite, FS_Subset

LEMMA CapacityAlways == Spec => []CapacityInv
<1>1. Init => CapacityInv
  <2>. SUFFICES ASSUME Init PROVE CapacityInv
    OBVIOUS
  <2>1. Connected = {}
    BY DEF Init, Connected
  <2>2. Cardinality(Connected) = 0
    BY <2>1, FS_EmptySet
  <2>. QED
    BY <2>2, ConstantsAssumption DEF Init, CapacityInv, AtMostMaxPlayers
<1>2. TypeInv /\ CapacityInv /\ [Next]_vars => CapacityInv'
  <2>. SUFFICES ASSUME TypeInv, CapacityInv, [Next]_vars PROVE CapacityInv'
    OBVIOUS
  <2>. USE ConstantsAssumption, ConnectedFinite
  <2>1. CASE UNCHANGED <<clients, nextId>>
    <3>1. Cardinality(Connected)' = Cardinality(Connected)
      BY <2>1 DEF Connected
    <3>. QED
      BY <3>1, CheckedJoinFrame DEF CapacityInv, AtMostMaxPlayers, RoomIsFull
  <2>2. CASE JoinInsert
    <3>1. pc["net"] = "joinInsert" /\ pc'["net"] = "joinAnnounce"
      BY <2>2 DEF JoinInsert, Goes, TypeInv, TypeOK, ControlOK
    <3>2. Cardinality(Connected)' \in Nat
      BY <2>2, TypeInvNext, ConnectedFinite, FS_Subset, FS_CardinalityType DEF Connected
    <3>. QED
      BY <3>1, <3>2, <2>2, InsertAddsOne DEF CapacityInv, AtMostMaxPlayers
  <2>3. ASSUME NEW t \in Threads, DisconnectErase(t) PROVE CapacityInv'
    <3>1. Cardinality(Connected)' <= Cardinality(Connected)
      BY <2>3, EraseAddsNone
    <3>2. Cardinality(Connected)' \in Nat
      BY <2>3, EraseAddsNone, FS_Subset, FS_CardinalityType
    <3>3. pc'["net"] \in {"joinRegistry", "joinInsert"} => pc["net"] \in {"joinRegistry", "joinInsert"}
      BY <2>3 DEF DisconnectErase, Goes, TypeInv, TypeOK, ControlOK
    <3>. QED
      BY <3>1, <3>2, <3>3 DEF CapacityInv, AtMostMaxPlayers
  <2>. QED
    BY <2>1, <2>2, <2>3, RosterFrame
<1>. QED
  BY <1>1, <1>2, TypeInvAlways, PTL DEF Spec

(* The room never holds more than MAX_PLAYERS clients.                     *)
THEOREM CapacityHolds == Spec => []AtMostMaxPlayers
<1>1. CapacityInv => AtMostMaxPlayers
  BY DEF CapacityInv
<1>. QED
  BY <1>1, CapacityAlways, PTL

----------------------------------------------------------------------------
(* Player entities.  disconnect_client destroys the entity before it       *)
(* erases the entry, and ids are never handed out twice, so the entry it   *)
(* erases either has no entity any more or belongs to another id.          *)

OwnershipInv ==
    /\ AvatarsAreOwned
    /\ \A p \in avatars : p < nextId
    /\ \A t \in Threads : job[t].id < nextId
    /\ \A t \in Threads : Leaving(t) => job[t].id \notin avatars
    /\ \A j \in todo : j.id < nextId

(* What most steps do: players, ids and entities stay, and no disconnect   *)
(* gets past the destruction of its entity.                                *)
Quiet ==
    /\ UNCHANGED <<clients, nextId, avatars, mixedUp, todo>>
    /\ \A t \in Threads : /\ job'[t].id \in {job[t].id, NoPlayer}
                          /\ Leaving(t)' => Leaving(t) /\ job'[t] = job[t]

LEMMA QuietSteps ==
    ASSUME TypeInv, [Next]_vars
    PROVE  \/ Quiet \/ JoinInsert \/ UpdateWorld \/ LeaveFind
           \/ CheckTimeouts \/ NextTimeout
           \/ \E t \in Threads : DisconnectDestroy(t) \/ DisconnectErase(t)
<1>. USE DEF Goes, TypeInv, TypeOK, ControlOK, Quiet, Leaving, LeaveSteps,
     NoJob, Jobs, roster, world
<1>1. CASE JoinCheck \/ JoinLockRegistry \/ JoinAnnounce \/ JoinPeers
           \/ JoinLobby
  BY <1>1 DEF JoinCheck, JoinLockRegistry, JoinAnnounce, JoinPeers, JoinLobby
<1>2. CASE JoinMap \/ GameStart
  BY <1>2 DEF JoinMap, GameStart
<1>3. ASSUME NEW t \in Threads,
             DisconnectAnnounce(t) \/ DisconnectLobby(t) \/ DisconnectUnmap(t)
      PROVE  Quiet
  BY <1>3 DEF DisconnectAnnounce, DisconnectLobby, DisconnectUnmap, AfterDisconnect
<1>4. CASE LoopTop \/ CheckEmpty \/ Tick \/ LockSurvey \/ Judge
  BY <1>4 DEF LoopTop, CheckEmpty, Tick, LockSurvey, Judge
<1>5. CASE DeclareOver \/ CleanUp \/ LockBroadcast \/ SendWorld \/ LoopExit
  BY <1>5 DEF DeclareOver, CleanUp, LockBroadcast, SendWorld, LoopExit
<1>6. CASE RemoveSession \/ EmptyTimeElapses \/ UNCHANGED vars
  BY <1>6 DEF RemoveSession, EmptyTimeElapses, vars, control
<1>7. ASSUME NEW k \in Keys, RecvJoin(k) \/ RecvPacket(k) \/ SilenceElapses(k)
      PROVE  Quiet
  BY <1>7 DEF RecvJoin, RecvPacket, SilenceElapses, control
<1>. QED
  BY <1>1, <1>2, <1>3, <1>4, <1>5, <1>6, <1>7
     DEF Next, NetStep, GameStep, Environment, Disconnect

LEMMA OwnershipNext ==
    TypeInv /\ UniqueIds /\ FreshKey /\ OwnershipInv /\ [Next]_vars => OwnershipInv'
<1>. SUFFICES ASSUME TypeInv, UniqueIds, FreshKey, OwnershipInv, [Next]_vars
              PROVE  OwnershipInv'
  OBVIOUS
<1>. USE DEF OwnershipInv, AvatarsAreOwned, ConnectedIds, Connected
<1>1. CASE Quiet
  BY <1>1 DEF Quiet, TypeInv, TypeOK, RosterOK
<1>2. CASE JoinInsert
  <2>1. /\ nextId' = nextId + 1 /\ avatars' = avatars \cup {nextId}
        /\ mixedUp' = mixedUp /\ todo' = todo /\ nextId \in Nat \ {0}
        /\ job["net"].key \in Keys \ Connected
        /\ clients' = [clients EXCEPT ![job["net"].key] = nextId]
    BY <1>2, ConstantsAssumption
       DEF JoinInsert, NewPlayerId, Goes, TypeInv, TypeOK, RosterOK, ControlInv,
           Jobs, FreshKey
  <2>2. AvatarsAreOwned'
    <3>1. \A k \in Connected : k \in Connected' /\ clients'[k] = clients[k]
      BY <2>1 DEF TypeInv, TypeOK, RosterOK
    <3>2. nextId \in ConnectedIds'
      BY <2>1 DEF TypeInv, TypeOK, RosterOK
    <3>. QED
      BY <2>1, <3>1, <3>2
  <2>3. \A t \in Threads : job'[t].id \in {job[t].id, nextId}
    BY <1>2 DEF JoinInsert, NewPlayerId, TypeInv, TypeOK, ControlOK
  <2>4. \A t \in Threads : Leaving(t)' => Leaving(t) /\ job'[t].id = job[t].id
    BY <1>2 DEF JoinInsert, NewPlayerId, TypeInv, TypeOK, ControlOK, Leaving,
       Goes, LeaveSteps
  <2>5. avatars \subseteq Nat /\ \A t \in Threads : job[t].id \in Nat
    BY ConstantsAssumption DEF TypeInv, TypeOK, WorldOK, ControlOK, Jobs, NoJob
  <2>6. \A j \in todo : j.id \in Nat
    BY ConstantsAssumption DEF TypeInv, TypeOK, ControlOK, Jobs
  <2>7. (\A p \in avatars : p < nextId)'
    BY <2>1, <2>5
  <2>8. (\A t \in Threads : job[t].id < nextId)'
    BY <2>1, <2>3, <2>5
  <2>9. (\A t \in Threads : Leaving(t) => job[t].id \notin avatars)'
    <3>. SUFFICES ASSUME NEW t \in Threads, Leaving(t)'
                  PROVE  job'[t].id \notin avatars'
      OBVIOUS
    <3>1. job'[t].id = job[t].id /\ job[t].id \notin avatars /\ job[t].id < nextId
      BY <2>4
    <3>. QED
      BY <3>1, <2>1, <2>5
  <2>10. (\A j \in todo : j.id < nextId)'
    BY <2>1, <2>6
  <2>. QED
    BY <2>2, <2>7, <2>8, <2>9, <2>10
<1>3. CASE UpdateWorld
  <2>1. avatars' \subseteq avatars /\ UNCHANGED <<clients, nextId, mixedUp, todo, job>>
    BY <1>3 DEF UpdateWorld, roster
  <2>2. \A t \in Threads : Leaving(t)' => Leaving(t)
    BY <1>3 DEF UpdateWorld, Leaving, Goes, TypeInv, TypeOK, ControlOK, LeaveSteps
  <2>. QED
    BY <2>1, <2>2
<1>4. CASE LeaveFind \/ CheckTimeouts \/ NextTimeout
  <2>1. UNCHANGED <<clients, nextId, avatars, mixedUp>>
    BY <1>4 DEF LeaveFind, CheckTimeouts, NextTimeout, roster, world
  <2>2. \A t \in Threads : Leaving(t)' => Leaving(t) /\ job'[t] = job[t]
    BY <1>4 DEF LeaveFind, CheckTimeouts, NextTimeout, Goes, Leaving, TypeInv,
       TypeOK, ControlOK, LeaveSteps
  <2>3. \A k \in Connected : clients[k] < nextId
    BY DEF UniqueIds
  <2>4. 0 < nextId
    BY ConstantsAssumption DEF TypeInv, TypeOK, RosterOK
  <2>5. \A t \in Threads : job'[t].id < nextId
    BY <1>4, <2>3, <2>4 DEF LeaveFind, CheckTimeouts, NextTimeout, TypeInv,
       TypeOK, ControlOK, NoJob
  <2>6. \A j \in todo' : j.id < nextId
    BY <1>4, <2>3 DEF LeaveFind, CheckTimeouts, NextTimeout, TimedOut, TypeInv,
       TypeOK, RosterOK
  <2>. QED
    BY <2>1, <2>2, <2>5, <2>6
<1>5. ASSUME NEW t \in Threads, DisconnectDestroy(t) PROVE OwnershipInv'
  <2>1. /\ avatars' = avatars \ {job[t].id}
        /\ UNCHANGED <<clients, nextId, mixedUp, todo, job>>
    BY <1>5 DEF DisconnectDestroy, roster
  <2>2. \A u \in Threads : Leaving(u)' => Leaving(u) \/ u = t
    BY <1>5 DEF DisconnectDestroy, Leaving, Goes, TypeInv, TypeOK, ControlOK
  <2>. QED
    BY <2>1, <2>2
<1>6. ASSUME NEW t \in Threads, DisconnectErase(t) PROVE OwnershipInv'
  <2>1. /\ clients' = [clients EXCEPT ![job[t].key] = NoPlayer]
        /\ mixedUp' = mixedUp \cup ({clients[job[t].key]} \ {NoPlayer, job[t].id})
        /\ UNCHANGED <<nextId, avatars, todo, job>>
        /\ pc[t] = "erase"
    BY <1>6 DEF DisconnectErase, world, Goes
  <2>2. \A u \in Threads : Leaving(u)' => Leaving(u)
    BY <1>6 DEF DisconnectErase, Leaving, Goes, TypeInv, TypeOK, ControlOK, LeaveSteps
  <2>3. job[t].id \notin avatars
    BY <2>1 DEF Leaving, LeaveSteps
  <2>4. AvatarsAreOwned'
    <3>. SUFFICES ASSUME NEW p \in avatars, p \notin mixedUp'
                  PROVE  p \in ConnectedIds'
      BY <2>1
    <3>1. PICK k \in Connected : clients[k] = p
      BY <2>1
    <3>2. k # job[t].key
      BY <2>1, <2>3, <3>1
    <3>. QED
      BY <2>1, <3>1, <3>2 DEF TypeInv, TypeOK, RosterOK
  <2>. QED
    BY <2>1, <2>2, <2>4
<1>7. QED
  BY <1>1, <1>2, <1>3, <1>4, <1>5, <1>6, QuietSteps

LEMMA OwnershipAlways == Spec => []OwnershipInv
<1>1. Init => OwnershipInv
  BY DEF Init, OwnershipInv, AvatarsAreOwned, Leaving, LeaveSteps, NoJob
<1>. QED
  BY <1>1, OwnershipNext, TypeInvAlways, IdsAreUnique, FreshKeyAlways, PTL DEF Spec

(* A player entity whose id no client holds was lost in one way only: a    *)
(* disconnect of another id erased its client's address.                   *)
THEOREM AvatarsOwned == Spec => []AvatarsAreOwned
<1>1. OwnershipInv => AvatarsAreOwned
  BY DEF OwnershipInv
<1>. QED
  BY <1>1, OwnershipAlways, PTL

----------------------------------------------------------------------------
(* After the room has stopped.                                             *)

StrandedInv ==
    ~running => /\ Cardinality(Connected) <= 1
                /\ pc["net"] \in {"joinCheck", "joinRegistry", "joinInsert"} =>
                      Connected = {}

(* running_ only falls, in an empty room, and no join begins without it.   *)
LEMMA StoppedFrame ==
    ASSUME TypeInv, [Next]_vars, ~running'
    PROVE  \/ running /\ Connected = {} /\ UNCHANGED clients
           \/ /\ ~running
              /\ pc'["net"] \in {"joinCheck", "joinRegistry", "joinInsert"} =>
                    pc["net"] \in {"joinCheck", "joinRegistry", "joinInsert"}
<1>. USE DEF Goes, TypeInv, TypeOK, ControlOK, session
<1>1. CASE NetStep
  BY <1>1 DEF NetStep, JoinCheck, JoinLockRegistry, JoinInsert, JoinAnnounce,
     JoinPeers, JoinLobby, JoinMap, GameStart, LeaveFind, Disconnect,
     DisconnectDestroy, DisconnectAnnounce, DisconnectErase, DisconnectLobby,
     DisconnectUnmap, AfterDisconnect
<1>2. CASE CheckEmpty
  BY <1>2 DEF CheckEmpty, StillEmpty, roster
<1>3. CASE GameStep /\ ~CheckEmpty
  <2>1. pc'["net"] = pc["net"] /\ running' = running
    BY <1>3 DEF GameStep, LoopTop, CheckTimeouts, NextTimeout, Tick,
       LockSurvey, Judge, DeclareOver, CleanUp, UpdateWorld, LockBroadcast,
       SendWorld, LoopExit, Disconnect, DisconnectDestroy, DisconnectAnnounce,
       DisconnectErase, DisconnectLobby, DisconnectUnmap
  <2>. QED
    BY <2>1
<1>4. CASE RemoveSession \/ Environment \/ UNCHANGED vars
  BY <1>4 DEF RemoveSession, Environment, RecvJoin, JoinTaken, RecvPacket,
     SilenceElapses, EmptyTimeElapses, vars, control
<1>. QED
  BY <1>1, <1>2, <1>3, <1>4 DEF Next

(* A stopped room keeps at most one client.                                *)
THEOREM OneStrandedAtMost == Spec => []AtMostOneStranded
<1>1. Init => StrandedInv
  BY DEF Init, StrandedInv
<1>2. TypeInv /\ StrandedInv /\ [Next]_vars => StrandedInv'
  <2>. SUFFICES ASSUME TypeInv, StrandedInv, [Next]_vars, ~running'
                PROVE  /\ Cardinality(Connected)' <= 1
                       /\ pc'["net"] \in {"joinCheck", "joinRegistry", "joinInsert"} =>
                             Connected' = {}
    BY DEF StrandedInv
  <2>1. CASE running
    <3>1. Connected = {} /\ Connected' = {}
      BY <2>1, StoppedFrame DEF Connected
    <3>2. Cardinality({}) = 0
      BY FS_EmptySet
    <3>. QED
      BY <3>1, <3>2
  <2>2. CASE ~running /\ UNCHANGED <<clients, nextId>>
    <3>1. Connected' = Connected
      BY <2>2 DEF Connected
    <3>. QED
      BY <2>2, <3>1, StoppedFrame DEF StrandedInv
  <2>3. CASE ~running /\ JoinInsert
    <3>1. pc["net"] = "joinInsert" /\ pc'["net"] = "joinAnnounce"
      BY <2>3 DEF JoinInsert, Goes, TypeInv, TypeOK, ControlOK
    <3>2. Cardinality(Connected) = 0
      BY <2>3, <3>1, FS_EmptySet DEF StrandedInv
    <3>. QED
      BY <2>3, <3>1, <3>2, InsertAddsOne
  <2>4. ASSUME NEW t \in Threads, DisconnectErase(t), ~running
        PROVE  /\ Cardinality(Connected)' <= 1
               /\ pc'["net"] \in {"joinCheck", "joinRegistry", "joinInsert"} =>
                     Connected' = {}
    <3>1. Connected' \subseteq Connected
      BY <2>4, EraseAddsNone
    <3>2. Cardinality(Connected)' <= Cardinality(Connected)
      BY <2>4, EraseAddsNone
    <3>3. Cardinality(Connected)' \in Nat
      BY <3>1, ConnectedFinite, FS_Subset, FS_CardinalityType
    <3>4. Cardinality(Connected)' <= 1
      BY <2>4, <3>2, <3>3, ConnectedFinite DEF StrandedInv
    <3>. QED
      BY <2>4, <3>1, <3>4, StoppedFrame DEF StrandedInv
  <2>. QED
    BY <2>1, <2>2, <2>3, <2>4, RosterFrame
<1>3. StrandedInv => AtMostOneStranded
  BY DEF StrandedInv, AtMostOneStranded
<1>. QED
  BY <1>1, <1>2, <1>3, TypeInvAlways, PTL DEF Spec

----------------------------------------------------------------------------
(* Game over.  Only the game thread raises the flag, on the branch on      *)
(* which it does not run the systems.                                      *)

OverInv == over => pc["game"] \notin {"survey", "judge", "declare", "update"}

LEMMA OverInvAlways == Spec => []OverInv
<1>1. Init => OverInv
  BY DEF Init, OverInv
<1>2. TypeInv /\ OverInv /\ [Next]_vars => OverInv'
  <2>. SUFFICES ASSUME TypeInv, OverInv, [Next]_vars PROVE OverInv'
    OBVIOUS
  <2>. USE DEF OverInv, Goes, TypeInv, TypeOK, ControlOK, session
  <2>1. CASE NetStep
    BY <2>1 DEF NetStep, JoinCheck, JoinLockRegistry, JoinInsert, JoinAnnounce,
       JoinPeers, JoinLobby, JoinMap, GameStart, LeaveFind, Disconnect,
       DisconnectDestroy, DisconnectAnnounce, DisconnectErase, DisconnectLobby,
       DisconnectUnmap
  <2>2. CASE LoopTop \/ CheckTimeouts \/ NextTimeout \/ CheckEmpty \/ Tick
    BY <2>2 DEF LoopTop, CheckTimeouts, NextTimeout, CheckEmpty, Tick, Playing
  <2>3. CASE LockSurvey \/ Judge \/ DeclareOver \/ CleanUp \/ UpdateWorld
    BY <2>3 DEF LockSurvey, Judge, DeclareOver, CleanUp, UpdateWorld
  <2>4. CASE LockBroadcast \/ SendWorld \/ LoopExit \/ Disconnect("game")
    BY <2>4 DEF LockBroadcast, SendWorld, LoopExit, Disconnect,
       DisconnectDestroy, DisconnectAnnounce, DisconnectErase, DisconnectLobby,
       DisconnectUnmap, AfterDisconnect
  <2>5. CASE RemoveSession \/ Environment \/ UNCHANGED vars
    BY <2>5 DEF RemoveSession, Environment, RecvJoin, RecvPacket,
       SilenceElapses, EmptyTimeElapses, vars, control
  <2>. QED
    BY <2>1, <2>2, <2>3, <2>4, <2>5 DEF Next, GameStep
<1>. QED
  BY <1>1, <1>2, TypeInvAlways, PTL DEF Spec

LEMMA WorldFrame ==
    ASSUME [Next]_vars
    PROVE  \/ UNCHANGED <<over, hostiles, lives>>
           \/ DeclareOver \/ CleanUp \/ UpdateWorld \/ JoinInsert
           \/ \E t \in Threads : DisconnectDestroy(t)
<1>. USE DEF session, world
<1>1. CASE NetStep
  BY <1>1 DEF NetStep, JoinCheck, JoinLockRegistry, JoinAnnounce, JoinPeers,
     JoinLobby, JoinMap, GameStart, LeaveFind, Disconnect, DisconnectAnnounce,
     DisconnectErase, DisconnectLobby, DisconnectUnmap
<1>2. CASE GameStep
  BY <1>2 DEF GameStep, LoopTop, CheckTimeouts, NextTimeout, CheckEmpty, Tick,
     LockSurvey, Judge, LockBroadcast, SendWorld, LoopExit, Disconnect,
     DisconnectAnnounce, DisconnectErase, DisconnectLobby, DisconnectUnmap
<1>3. CASE RemoveSession \/ Environment \/ UNCHANGED vars
  BY <1>3 DEF RemoveSession, Environment, RecvJoin, RecvPacket, SilenceElapses,
     EmptyTimeElapses, vars
<1>. QED
  BY <1>1, <1>2, <1>3 DEF Next

(* Once the game is over nothing spawns and no player loses a life.        *)
THEOREM OverStays == Spec => OverIsFinal
<1>1. TypeInv /\ OverInv /\ OwnershipInv /\ [Next]_vars => [OverStep]_vars
  <2>. SUFFICES ASSUME TypeInv, OverInv, OwnershipInv, [Next]_vars, over
                PROVE  /\ over'
                       /\ ~hostiles => ~hostiles'
                       /\ \A p \in avatars : lives'[p] = lives[p] \/ p \in LeavingIds'
    BY DEF OverStep
  <2>1. CASE UNCHANGED <<over, hostiles, lives>>
    BY <2>1
  <2>2. CASE DeclareOver \/ UpdateWorld
    BY <2>2 DEF OverInv, DeclareOver, UpdateWorld, Goes
  <2>3. CASE CleanUp
    BY <2>3 DEF CleanUp, session
  <2>4. CASE JoinInsert
    <3>1. \A p \in avatars : p < nextId /\ p \in Ids
      BY DEF OwnershipInv, TypeInv, TypeOK, WorldOK
    <3>2. \A p \in avatars : p # nextId
      BY <3>1, ConstantsAssumption DEF TypeInv, TypeOK, RosterOK
    <3>. QED
      BY <2>4, <3>1, <3>2 DEF JoinInsert, NewPlayerId, session, TypeInv, TypeOK, WorldOK
  <2>5. ASSUME NEW t \in Threads, DisconnectDestroy(t)
        PROVE  /\ over'
               /\ ~hostiles => ~hostiles'
               /\ \A p \in avatars : lives'[p] = lives[p] \/ p \in LeavingIds'
    <3>1. over' = over /\ hostiles' = hostiles
      BY <2>5 DEF DisconnectDestroy, session
    <3>2. Leaving(t)' /\ job'[t].id = job[t].id
      BY <2>5 DEF DisconnectDestroy, Leaving, Goes, TypeInv, TypeOK, ControlOK,
         LeaveSteps
    <3>3. job[t].id \in LeavingIds'
      BY <3>2 DEF LeavingIds
    <3>4. \A p \in avatars : lives'[p] = lives[p] \/ p = job[t].id
      BY <2>5 DEF DisconnectDestroy, TypeInv, TypeOK, WorldOK
    <3>. QED
      BY <3>1, <3>3, <3>4
  <2>. QED
    BY <2>1, <2>2, <2>3, <2>4, <2>5, WorldFrame
<1>. QED
  BY <1>1, TypeInvAlways, OverInvAlways, OwnershipAlways, PTL DEF Spec, OverIsFinal

----------------------------------------------------------------------------
(* The lobby count.  A join and a disconnect change the number of clients  *)
(* in one section and tell it in a later one; whichever thread sends last  *)
(* sends to everybody, and counts under the mutex it sends under.          *)

CountIsDue == \/ pc["net"] \in {"joinAnnounce", "joinPeers", "joinLobby", "lobby"}
              \/ pc["game"] = "lobby"

LobbyInv == CountIsDue \/ \A p \in ConnectedIds : lobby[p] = Cardinality(Connected)

LEMMA LobbyFrame ==
    ASSUME TypeInv, [Next]_vars
    PROVE  \/ UNCHANGED <<clients, lobby>> /\ (CountIsDue => CountIsDue')
           \/ UNCHANGED clients /\ SendLobby
           \/ JoinInsert
           \/ \E t \in Threads : DisconnectErase(t)
<1>. USE DEF roster, sent, Goes, CountIsDue, TypeInv, TypeOK, ControlOK
<1>1. CASE JoinCheck \/ JoinLockRegistry \/ JoinAnnounce \/ JoinPeers
  BY <1>1 DEF JoinCheck, JoinLockRegistry, JoinAnnounce, JoinPeers
<1>2. CASE JoinLobby \/ JoinMap \/ GameStart \/ LeaveFind
  BY <1>2 DEF JoinLobby, JoinMap, GameStart, LeaveFind
<1>3. ASSUME NEW t \in Threads, Disconnect(t), ~DisconnectErase(t), ~DisconnectLobby(t)
      PROVE  UNCHANGED <<clients, lobby>> /\ (CountIsDue => CountIsDue')
  BY <1>3 DEF Disconnect, DisconnectDestroy, DisconnectAnnounce,
     DisconnectUnmap, AfterDisconnect
<1>4. ASSUME NEW t \in Threads, DisconnectLobby(t)
      PROVE  UNCHANGED clients /\ SendLobby
  BY <1>4 DEF DisconnectLobby
<1>5. CASE LoopTop \/ CheckTimeouts \/ NextTimeout \/ CheckEmpty \/ Tick
  BY <1>5 DEF LoopTop, CheckTimeouts, NextTimeout, CheckEmpty, Tick
<1>6. CASE LockSurvey \/ Judge \/ DeclareOver \/ CleanUp \/ UpdateWorld
  BY <1>6 DEF LockSurvey, Judge, DeclareOver, CleanUp, UpdateWorld
<1>7. CASE LockBroadcast \/ SendWorld \/ LoopExit
  BY <1>7 DEF LockBroadcast, SendWorld, LoopExit
<1>8. CASE RemoveSession \/ Environment \/ UNCHANGED vars
  BY <1>8 DEF RemoveSession, Environment, RecvJoin, RecvPacket, SilenceElapses,
     EmptyTimeElapses, vars, control
<1>. QED
  BY <1>1, <1>2, <1>3, <1>4, <1>5, <1>6, <1>7, <1>8 DEF Next, NetStep, GameStep

(* Once the joins and disconnects under way are done, every client was     *)
(* last told the true number of players, whatever the order in which the   *)
(* two threads counted and sent (broadcast_lobby_status).                  *)
THEOREM LobbyIsTold == Spec => []LobbyCountSettles
<1>1. Init => LobbyInv
  BY DEF Init, LobbyInv, Connected, ConnectedIds
<1>2. TypeInv /\ LobbyInv /\ [Next]_vars => LobbyInv'
  <2>. SUFFICES ASSUME TypeInv, LobbyInv, [Next]_vars PROVE LobbyInv'
    OBVIOUS
  <2>1. CASE UNCHANGED <<clients, lobby>> /\ (CountIsDue => CountIsDue')
    <3>1. Connected' = Connected /\ ConnectedIds' = ConnectedIds
      BY <2>1 DEF Connected, ConnectedIds
    <3>. QED
      BY <2>1, <3>1 DEF LobbyInv
  <2>2. CASE UNCHANGED clients /\ SendLobby
    <3>1. Connected' = Connected /\ ConnectedIds' = ConnectedIds
      BY <2>2 DEF Connected, ConnectedIds
    <3>2. ConnectedIds \subseteq Ids
      BY DEF ConnectedIds, Connected, TypeInv, TypeOK, RosterOK
    <3>. QED
      BY <2>2, <3>1, <3>2 DEF LobbyInv, SendLobby
  <2>3. CASE JoinInsert
    BY <2>3 DEF JoinInsert, Goes, LobbyInv, CountIsDue, TypeInv, TypeOK, ControlOK
  <2>4. ASSUME NEW t \in Threads, DisconnectErase(t) PROVE LobbyInv'
    BY <2>4 DEF DisconnectErase, Goes, LobbyInv, CountIsDue, TypeInv, TypeOK, ControlOK
  <2>. QED
    BY <2>1, <2>2, <2>3, <2>4, LobbyFrame
<1>3. LobbyInv => LobbyCountSettles
  BY DEF LobbyInv, LobbyCountSettles, CountIsDue, Settled, Leaving, LeaveSteps
<1>. QED
  BY <1>1, <1>2, <1>3, TypeInvAlways, PTL DEF Spec

----------------------------------------------------------------------------
(* Who has been told of whom.                                              *)

(* An id in use sits at the address its disconnect was called for; behind  *)
(* the erasure nobody has it; a newcomer being announced holds its address *)
(* alone.                                                                  *)
HomeInv ==
    /\ \A t \in Threads : \A k \in Connected :
          clients[k] = job[t].id => k = job[t].key
    /\ \A j \in todo : \A k \in Connected : clients[k] = j.id => k = j.key
    /\ \A t \in Threads : pc[t] \in {"lobby", "unmap"} => job[t].id \notin ConnectedIds
    /\ pc["net"] \in {"joinAnnounce", "joinPeers"} =>
          clients[job["net"].key] \in {NoPlayer, job["net"].id}

(* The news about q is still on its way to p.                              *)
WillHear(p, q) == \/ pc["net"] = "joinAnnounce" /\ job["net"].id \in {p, q}
                  \/ pc["net"] = "joinPeers" /\ job["net"].id = p

RosterInv ==
    \A p \in ConnectedIds : \A q \in ConnectedIds \ LeavingIds :
       p # q => q \in told[p] \/ WillHear(p, q)

(* What most steps do to the places, the news and the work under way.      *)
Still ==
    /\ UNCHANGED <<clients, nextId, todo, told>>
    /\ \A t \in Threads : job'[t] = job[t] \/ job'[t].id = NoPlayer
    /\ \A t \in Threads : Leaving(t) => Leaving(t)' /\ job'[t] = job[t]
    /\ \A t \in Threads : pc'[t] \in {"lobby", "unmap"} =>
          pc[t] \in {"lobby", "unmap"} /\ job'[t] = job[t]
    /\ pc["net"] \in {"joinAnnounce", "joinPeers"} =>
          pc'["net"] = pc["net"] /\ job'["net"] = job["net"]
    /\ pc'["net"] \in {"joinAnnounce", "joinPeers"} =>
          pc["net"] = pc'["net"] /\ job'["net"] = job["net"]

LEMMA StillSteps ==
    ASSUME TypeInv, [Next]_vars
    PROVE  \/ Still \/ JoinInsert \/ JoinAnnounce \/ JoinPeers \/ LeaveFind
           \/ CheckTimeouts \/ NextTimeout
           \/ \E t \in Threads : \/ DisconnectAnnounce(t) \/ DisconnectErase(t)
                                 \/ DisconnectUnmap(t)
<1>. USE DEF Goes, TypeInv, TypeOK, ControlOK, Still, Leaving, LeaveSteps,
     NoJob, Jobs, roster, sent
<1>1. CASE JoinCheck \/ JoinLockRegistry \/ JoinLobby
  BY <1>1 DEF JoinCheck, JoinLockRegistry, JoinLobby
<1>2. CASE JoinMap \/ GameStart
  BY <1>2 DEF JoinMap, GameStart
<1>3. ASSUME NEW t \in Threads, DisconnectDestroy(t) \/ DisconnectLobby(t)
      PROVE  Still
  BY <1>3 DEF DisconnectDestroy, DisconnectLobby
<1>4. CASE LoopTop \/ CheckEmpty \/ Tick \/ LockSurvey \/ Judge
  BY <1>4 DEF LoopTop, CheckEmpty, Tick, LockSurvey, Judge
<1>5. CASE DeclareOver \/ CleanUp \/ UpdateWorld
  BY <1>5 DEF DeclareOver, CleanUp, UpdateWorld
<1>6. CASE LockBroadcast \/ SendWorld \/ LoopExit
  BY <1>6 DEF LockBroadcast, SendWorld, LoopExit
<1>7. CASE RemoveSession \/ EmptyTimeElapses \/ UNCHANGED vars
  BY <1>7 DEF RemoveSession, EmptyTimeElapses, vars, control
<1>8. ASSUME NEW k \in Keys, RecvJoin(k) \/ RecvPacket(k) \/ SilenceElapses(k)
      PROVE  Still
  BY <1>8 DEF RecvJoin, RecvPacket, SilenceElapses, control
<1>. QED
  BY <1>1, <1>2, <1>3, <1>4, <1>5, <1>6, <1>7, <1>8
     DEF Next, NetStep, GameStep, Environment, Disconnect

LEMMA HomeNext ==
    TypeInv /\ UniqueIds /\ FreshKey /\ OwnershipInv /\ HomeInv /\ [Next]_vars
       => HomeInv'
<1>. SUFFICES ASSUME TypeInv, UniqueIds, FreshKey, OwnershipInv, HomeInv, [Next]_vars
              PROVE  HomeInv'
  OBVIOUS
<1>0. /\ clients \in [Keys -> 0..MaxId] /\ nextId \in 1..(MaxId + 1)
      /\ pc = [t \in Threads |-> pc[t]] /\ job = [t \in Threads |-> job[t]]
  BY DEF TypeInv, TypeOK, RosterOK, ControlOK
<1>. USE <1>0 DEF HomeInv, ConnectedIds, Connected
<1>1. CASE Still
  BY <1>1 DEF Still
<1>2. CASE JoinInsert
  <2>1. /\ nextId' = nextId + 1 /\ todo' = todo
        /\ job["net"].key \in Keys \ Connected
        /\ clients' = [clients EXCEPT ![job["net"].key] = nextId]
        /\ job' = [job EXCEPT !["net"].id = nextId]
        /\ pc' = [pc EXCEPT !["net"] = "joinAnnounce"] /\ job["net"] \in Jobs
    BY <1>2 DEF JoinInsert, NewPlayerId, Goes, TypeInv, TypeOK, ControlInv, Jobs, FreshKey
  <2>2. /\ job'["net"].key = job["net"].key /\ job'["net"].id = nextId
        /\ job'["game"] = job["game"]
    BY <2>1 DEF Jobs
  <2>3. /\ \A k \in Connected : clients[k] < nextId
        /\ \A t \in Threads : job[t].id < nextId
        /\ \A j \in todo : j.id < nextId
    BY DEF OwnershipInv, UniqueIds
  <2>4. \A k \in Keys : clients'[k] = IF k = job["net"].key THEN nextId ELSE clients[k]
    BY <2>1
  <2>5. ASSUME NEW t \in Threads, NEW k \in Connected', clients'[k] = job'[t].id
        PROVE  k = job'[t].key
    BY <2>1, <2>2, <2>3, <2>4, <2>5
  <2>6. ASSUME NEW j \in todo, NEW k \in Connected', clients'[k] = j.id
        PROVE  k = j.key
    BY <2>1, <2>3, <2>4, <2>6
  <2>7. ASSUME NEW t \in Threads, pc'[t] \in {"lobby", "unmap"}, NEW k \in Connected'
        PROVE  clients'[k] # job'[t].id
    BY <2>1, <2>2, <2>3, <2>4, <2>7
  <2>. QED
    BY <2>1, <2>2, <2>4, <2>5, <2>6, <2>7
<1>3. CASE JoinAnnounce
  BY <1>3 DEF JoinAnnounce, Goes, roster
<1>4. CASE JoinPeers
  BY <1>4 DEF JoinPeers, Goes, roster
<1>5. CASE LeaveFind
  <2>1. UNCHANGED <<clients, todo>> /\ job'["game"] = job["game"] /\ pc'["game"] = pc["game"]
    BY <1>5 DEF LeaveFind, roster
  <2>2. pc'["net"] \in {"destroy", "idle"}
    BY <1>5 DEF LeaveFind
  <2>3. \/ job'["net"].id = NoPlayer
        \/ job'["net"].key \in Connected /\ job'["net"].id = clients[job'["net"].key]
    BY <1>5 DEF LeaveFind, NoJob
  <2>. QED
    BY <2>1, <2>2, <2>3 DEF UniqueIds
<1>6. CASE CheckTimeouts
  <2>1. UNCHANGED <<clients, job>> /\ pc' = [pc EXCEPT !["game"] = "next"]
    BY <1>6 DEF CheckTimeouts, Goes, roster
  <2>2. \A j \in todo' : j.key \in Connected /\ j.id = clients[j.key]
    BY <1>6 DEF CheckTimeouts, TimedOut, TypeInv, TypeOK, RosterOK
  <2>. QED
    BY <2>1, <2>2 DEF UniqueIds
<1>7. CASE NextTimeout
  <2>1. /\ clients' = clients /\ todo' \subseteq todo /\ pc'["net"] = pc["net"]
        /\ pc'["game"] \in {"empty", "destroy"}
        /\ job'["net"] = job["net"]
        /\ job'["game"] = job["game"] \/ job'["game"] \in todo
    BY <1>7 DEF NextTimeout, Goes, roster
  <2>. QED
    BY <2>1
<1>8. ASSUME NEW t \in Threads, DisconnectAnnounce(t) PROVE HomeInv'
  BY <1>8 DEF DisconnectAnnounce, Goes, roster
<1>9. ASSUME NEW t \in Threads, DisconnectErase(t) PROVE HomeInv'
  <2>1. /\ clients' = [clients EXCEPT ![job[t].key] = NoPlayer]
        /\ UNCHANGED <<todo, job>> /\ pc' = [pc EXCEPT ![t] = "lobby"]
        /\ job[t].key \in Keys
    BY <1>9 DEF DisconnectErase, Goes, TypeInv, ControlInv, Jobs, LeaveSteps
  <2>2. \A k \in Keys : clients'[k] \in {clients[k], NoPlayer}
    BY <2>1
  <2>3. job[t].id \notin ConnectedIds'
    BY <2>1, <2>2
  <2>4. Connected' \subseteq Connected /\ ConnectedIds' \subseteq ConnectedIds
    BY <2>2
  <2>5. \A u \in Threads : pc'[u] \in {"lobby", "unmap"} => job[u].id \notin ConnectedIds'
    BY <2>1, <2>3, <2>4
  <2>6. pc'["net"] \in {"joinAnnounce", "joinPeers"} =>
           pc'["net"] = pc["net"] /\ job["net"].key \in Keys
    BY <2>1 DEF TypeInv, ControlInv, Jobs
  <2>7. \A k \in Connected' : k \in Connected /\ clients'[k] = clients[k]
    BY <2>2
  <2>8. \A u \in Threads : \A k \in Connected' : clients'[k] = job'[u].id => k = job'[u].key
    BY <2>1, <2>7
  <2>9. \A j \in todo' : \A k \in Connected' : clients'[k] = j.id => k = j.key
    BY <2>1, <2>7
  <2>. QED
    BY <2>1, <2>2, <2>5, <2>6, <2>8, <2>9
<1>10. ASSUME NEW t \in Threads, DisconnectUnmap(t) PROVE HomeInv'
  <2>1. /\ UNCHANGED <<clients, todo>> /\ job' = [job EXCEPT ![t] = NoJob]
        /\ pc' = [pc EXCEPT ![t] = AfterDisconnect(t)]
        /\ AfterDisconnect(t) \notin {"lobby", "unmap", "joinAnnounce", "joinPeers"}
    BY <1>10 DEF DisconnectUnmap, AfterDisconnect, Goes
  <2>2. \A u \in Threads : IF u = t THEN job'[u].id = NoPlayer ELSE job'[u] = job[u]
    BY <2>1 DEF NoJob
  <2>3. \A u \in Threads : pc'[u] \in {"lobby", "unmap"} => pc[u] \in {"lobby", "unmap"} /\ u # t
    BY <2>1
  <2>4. pc'["net"] \in {"joinAnnounce", "joinPeers"} => pc'["net"] = pc["net"] /\ t # "net"
    BY <2>1
  <2>5. ASSUME NEW u \in Threads, NEW k \in Connected', clients'[k] = job'[u].id
        PROVE  k = job'[u].key
    BY <2>1, <2>2, <2>5
  <2>6. ASSUME NEW u \in Threads, pc'[u] \in {"lobby", "unmap"}
        PROVE  job'[u].id \notin ConnectedIds'
    BY <2>1, <2>2, <2>3, <2>6
  <2>. QED
    BY <2>1, <2>2, <2>4, <2>5, <2>6
<1>. QED
  BY <1>1, <1>2, <1>3, <1>4, <1>5, <1>6, <1>7, <1>8, <1>9, <1>10, StillSteps

LEMMA HomeAlways == Spec => []HomeInv
<1>1. Init => HomeInv
  BY DEF Init, HomeInv, ConnectedIds, Connected
<1>. QED
  BY <1>1, HomeNext, TypeInvAlways, IdsAreUnique, FreshKeyAlways,
     OwnershipAlways, PTL DEF Spec

LEMMA RosterNext ==
    TypeInv /\ UniqueIds /\ FreshKey /\ OwnershipInv /\ HomeInv /\ RosterInv
       /\ [Next]_vars => RosterInv'
<1>. SUFFICES ASSUME TypeInv, UniqueIds, FreshKey, OwnershipInv, HomeInv,
                     RosterInv, [Next]_vars
              PROVE  RosterInv'
  OBVIOUS
<1>0. /\ clients \in [Keys -> 0..MaxId] /\ nextId \in 1..(MaxId + 1)
      /\ told \in [Ids -> SUBSET Ids] /\ ConnectedIds \subseteq Ids
      /\ pc = [t \in Threads |-> pc[t]] /\ job = [t \in Threads |-> job[t]]
  BY DEF TypeInv, TypeOK, RosterOK, SentOK, ControlOK, ConnectedIds, Connected
<1>. USE <1>0
<1>1. CASE Still
  <2>1. ConnectedIds' = ConnectedIds
    BY <1>1 DEF Still, ConnectedIds, Connected
  <2>2. LeavingIds \subseteq LeavingIds'
    BY <1>1 DEF Still, LeavingIds
  <2>3. \A p, q : WillHear(p, q) => WillHear(p, q)'
    BY <1>1 DEF Still, WillHear
  <2>. QED
    BY <1>1, <2>1, <2>2, <2>3 DEF RosterInv, Still
<1>2. CASE JoinInsert
  <2>1. /\ told' = told
        /\ clients' = [clients EXCEPT ![job["net"].key] = nextId]
        /\ job' = [job EXCEPT !["net"].id = nextId]
        /\ pc' = [pc EXCEPT !["net"] = "joinAnnounce"] /\ pc["net"] = "joinInsert"
        /\ job["net"] \in Jobs
    BY <1>2 DEF JoinInsert, NewPlayerId, Goes, sent, TypeInv, ControlInv
  <2>2. ConnectedIds' \subseteq ConnectedIds \cup {nextId}
    BY <2>1 DEF ConnectedIds, Connected
  <2>3. LeavingIds' = LeavingIds
    BY <2>1 DEF LeavingIds, Leaving, LeaveSteps
  <2>4. \A p, q : nextId \in {p, q} => WillHear(p, q)'
    BY <2>1 DEF WillHear, Jobs
  <2>5. \A p, q : ~WillHear(p, q)
    BY <2>1 DEF WillHear
  <2>. QED
    BY <2>1, <2>2, <2>3, <2>4, <2>5 DEF RosterInv
<1>3. CASE JoinAnnounce
  <2>. DEFINE id == job["net"].id
  <2>1. /\ UNCHANGED <<clients, job>>
        /\ pc' = [pc EXCEPT !["net"] = "joinPeers"] /\ pc["net"] = "joinAnnounce"
        /\ told' = [p \in Ids |->
                      IF \E k \in Connected \ {job["net"].key} : clients[k] = p
                      THEN told[p] \cup {id} ELSE told[p]]
    BY <1>3 DEF JoinAnnounce, Goes, roster
  <2>2. ConnectedIds' = ConnectedIds /\ LeavingIds' = LeavingIds
    BY <2>1 DEF ConnectedIds, Connected, LeavingIds, Leaving, LeaveSteps
  <2>3. ASSUME NEW p \in ConnectedIds, p # id
        PROVE  id \in told'[p]
    <3>1. PICK k \in Connected : clients[k] = p
      BY DEF ConnectedIds
    <3>2. k # job["net"].key
      BY <2>1, <2>3, <3>1 DEF HomeInv, Connected
    <3>. QED
      BY <2>1, <3>1, <3>2
  <2>4. \A p \in ConnectedIds : told[p] \subseteq told'[p]
    BY <2>1
  <2>5. \A p, q : WillHear(p, q) => id \in {p, q}
    BY <2>1 DEF WillHear
  <2>6. \A p, q : p = id => WillHear(p, q)'
    BY <2>1 DEF WillHear
  <2>. QED
    <3>1. ASSUME NEW p \in ConnectedIds, NEW q \in ConnectedIds \ LeavingIds,
                 p # q, p # id
          PROVE  q \in told'[p]
      <4>1. q \in told[p] \/ q = id
        BY <2>5, <3>1 DEF RosterInv
      <4>. QED
        BY <2>3, <2>4, <3>1, <4>1
    <3>. HIDE DEF id
    <3>. QED
      BY <2>2, <2>6, <3>1 DEF RosterInv
<1>4. CASE JoinPeers
  <2>. DEFINE id == job["net"].id
  <2>1. /\ UNCHANGED <<clients, job>>
        /\ pc' = [pc EXCEPT !["net"] = "joinLobby"] /\ pc["net"] = "joinPeers"
        /\ told' = [p \in Ids |-> IF p = id /\ p \in ConnectedIds
                                   THEN told[p] \cup (ConnectedIds \ {p}) ELSE told[p]]
    BY <1>4 DEF JoinPeers, Goes, roster
  <2>2. ConnectedIds' = ConnectedIds /\ LeavingIds' = LeavingIds
    BY <2>1 DEF ConnectedIds, Connected, LeavingIds, Leaving, LeaveSteps
  <2>3. \A p, q : WillHear(p, q) => p = id
    BY <2>1 DEF WillHear
  <2>. QED
    BY <2>1, <2>2, <2>3 DEF RosterInv
<1>5. ASSUME LeaveFind \/ CheckTimeouts \/ NextTimeout
      PROVE  RosterInv'
  <2>1. UNCHANGED <<clients, told>>
    BY <1>5 DEF LeaveFind, CheckTimeouts, NextTimeout, roster, sent
  <2>2. \A t \in Threads : Leaving(t) => Leaving(t)' /\ job'[t] = job[t]
    BY <1>5 DEF LeaveFind, CheckTimeouts, NextTimeout, Goes, Leaving, LeaveSteps
  <2>3. pc["net"] \in {"joinAnnounce", "joinPeers"} =>
           pc'["net"] = pc["net"] /\ job'["net"] = job["net"]
    BY <1>5 DEF LeaveFind, CheckTimeouts, NextTimeout, Goes
  <2>4. ConnectedIds' = ConnectedIds /\ LeavingIds \subseteq LeavingIds'
    BY <2>1, <2>2 DEF ConnectedIds, Connected, LeavingIds
  <2>5. \A p, q : WillHear(p, q) => WillHear(p, q)'
    BY <2>3 DEF WillHear
  <2>. QED
    BY <2>1, <2>4, <2>5 DEF RosterInv
<1>6. ASSUME NEW t \in Threads, DisconnectAnnounce(t) PROVE RosterInv'
  <2>1. /\ UNCHANGED <<clients, job>>
        /\ \A u \in Threads \ {t} : pc'[u] = pc[u]
        /\ pc[t] \in {"leave1", "leave2", "leave3"}
        /\ pc'[t] \in {"leave2", "leave3", "erase"}
        /\ \A p \in Ids : told[p] \ {job[t].id} \subseteq told'[p]
    BY <1>6 DEF DisconnectAnnounce, Goes, roster
  <2>2. ConnectedIds' = ConnectedIds
    BY <2>1 DEF ConnectedIds, Connected
  <2>3. LeavingIds' = LeavingIds /\ job[t].id \in LeavingIds
    <3>1. \A u \in Threads : Leaving(u)' = Leaving(u)
      BY <2>1 DEF Leaving, LeaveSteps
    <3>2. Leaving(t)
      BY <2>1 DEF Leaving, LeaveSteps
    <3>. QED
      BY <2>1, <3>1, <3>2 DEF LeavingIds
  <2>4. \A p, q : WillHear(p, q) => WillHear(p, q)'
    BY <2>1 DEF WillHear
  <2>. QED
    BY <2>1, <2>2, <2>3, <2>4 DEF RosterInv
<1>7. ASSUME NEW t \in Threads, DisconnectErase(t) PROVE RosterInv'
  <2>. DEFINE erased == clients[job[t].key]
  <2>1. /\ clients' = [clients EXCEPT ![job[t].key] = NoPlayer] /\ job' = job
        /\ pc' = [pc EXCEPT ![t] = "lobby"] /\ pc[t] = "erase"
        /\ told' = [p \in Ids |-> IF p = erased THEN {} ELSE told[p]]
        /\ job[t].key \in Keys
    BY <1>7 DEF DisconnectErase, Goes, TypeInv, ControlInv, Jobs, LeaveSteps
  <2>2. ConnectedIds' \subseteq ConnectedIds \ {erased}
    BY <2>1 DEF ConnectedIds, Connected, UniqueIds
  <2>3. LeavingIds' = LeavingIds
    BY <2>1 DEF LeavingIds, Leaving, LeaveSteps
  <2>4. \A p, q : WillHear(p, q) => WillHear(p, q)'
    BY <2>1 DEF WillHear
  <2>. QED
    BY <2>1, <2>2, <2>3, <2>4 DEF RosterInv
<1>8. ASSUME NEW t \in Threads, DisconnectUnmap(t) PROVE RosterInv'
  <2>1. /\ UNCHANGED <<clients, told>> /\ pc[t] = "unmap"
        /\ \A u \in Threads \ {t} : pc'[u] = pc[u] /\ job'[u] = job[u]
    BY <1>8 DEF DisconnectUnmap, Goes, sent
  <2>2. ConnectedIds' = ConnectedIds
    BY <2>1 DEF ConnectedIds, Connected
  <2>3. LeavingIds \subseteq LeavingIds' \cup {job[t].id}
    <3>1. \A u \in Threads \ {t} : Leaving(u) => Leaving(u)' /\ job'[u] = job[u]
      BY <2>1 DEF Leaving
    <3>. QED
      BY <3>1 DEF LeavingIds
  <2>4. job[t].id \notin ConnectedIds
    BY <2>1 DEF HomeInv
  <2>5. \A p, q : WillHear(p, q) => WillHear(p, q)'
    BY <2>1 DEF WillHear
  <2>. QED
    BY <2>1, <2>2, <2>3, <2>4, <2>5 DEF RosterInv
<1>. QED
  BY <1>1, <1>2, <1>3, <1>4, <1>5, <1>6, <1>7, <1>8, StillSteps

(* Between two joins every client knows of every other one that is not     *)
(* leaving: the announcement to the others and the roster for the newcomer *)
(* are sections of their own, and a disconnect on the other thread may     *)
(* fall between them (handle_player_join, disconnect_client).              *)
THEOREM RosterIsTold == Spec => []RosterIsComplete
<1>1. Init => RosterInv
  BY DEF Init, RosterInv, ConnectedIds, Connected
<1>2. RosterInv => RosterIsComplete
  BY DEF RosterInv, RosterIsComplete, WillHear
<1>. QED
  BY <1>1, <1>2, RosterNext, TypeInvAlways, IdsAreUnique, FreshKeyAlways,
     OwnershipAlways, HomeAlways, PTL DEF Spec

----------------------------------------------------------------------------
(* Refinement: the session is a Room.  What the join tested in one section *)
(* still holds in the section that inserts, so the insertion is the        *)
(* atomic Enter; the two sections of a disconnect are Vanish and           *)
(* GiveUpPlace.                                                            *)

LEMMA PlacesFrame ==
    ASSUME TypeInv, [Next]_vars
    PROVE  \/ UNCHANGED <<clients, nextId, avatars, lives>>
           \/ JoinInsert \/ UpdateWorld
           \/ \E t \in Threads : DisconnectDestroy(t) \/ DisconnectErase(t)
<1>. USE DEF roster, world
<1>1. CASE NetStep
  BY <1>1 DEF NetStep, JoinCheck, JoinLockRegistry, JoinAnnounce, JoinPeers,
     JoinLobby, JoinMap, GameStart, LeaveFind, Disconnect, DisconnectAnnounce,
     DisconnectLobby, DisconnectUnmap
<1>2. CASE GameStep
  BY <1>2 DEF GameStep, LoopTop, CheckTimeouts, NextTimeout, CheckEmpty, Tick,
     LockSurvey, Judge, DeclareOver, CleanUp, LockBroadcast, SendWorld,
     LoopExit, Disconnect, DisconnectAnnounce, DisconnectLobby, DisconnectUnmap
<1>3. CASE RemoveSession \/ Environment \/ UNCHANGED vars
  BY <1>3 DEF RemoveSession, Environment, RecvJoin, RecvPacket, SilenceElapses,
     EmptyTimeElapses, vars
<1>. QED
  BY <1>1, <1>2, <1>3 DEF Next

(* Every behaviour of the two threads is one of the abstract room.         *)
THEOREM ImplementsRoom == Spec => RoomSpec
<1>1. Init => R!Init
  BY DEF Init, R!Init, R!Ids
<1>2. TypeInv /\ FreshKey /\ CapacityInv /\ [Next]_vars => [R!Next]_(R!room)
  <2>. SUFFICES ASSUME TypeInv, FreshKey, CapacityInv, [Next]_vars
                PROVE  R!Next \/ UNCHANGED R!room
    OBVIOUS
  <2>. USE DEF R!room
  <2>1. CASE UNCHANGED <<clients, nextId, avatars, lives>>
    BY <2>1
  <2>2. CASE JoinInsert
    <3>. DEFINE k == job["net"].key
    <3>1. /\ nextId' = nextId + 1 /\ avatars' = avatars \cup {nextId}
          /\ clients' = [clients EXCEPT ![k] = nextId]
          /\ lives' = [lives EXCEPT ![nextId] = InitialLives]
          /\ pc["net"] = "joinInsert"
      BY <2>2 DEF JoinInsert, NewPlayerId, Goes
    <3>2. k \in Keys /\ clients[k] = 0 /\ nextId <= MaxId /\ nextId \in Nat
      BY <3>1, ConstantsAssumption
         DEF FreshKey, Connected, TypeInv, TypeOK, RosterOK, ControlInv, Jobs
    <3>3. R!Cardinality(R!Seated) < MaxPlayers
      <4>1. R!Seated = Connected
        BY DEF R!Seated, Connected
      <4>2. R!Cardinality(Connected) = Cardinality(Connected)
        BY DEF R!Cardinality, Cardinality, R!IsFiniteSet, IsFiniteSet
      <4>. QED
        BY <3>1, <4>1, <4>2 DEF CapacityInv
    <3>4. nextId' - 1 = nextId /\ nextId - 1 < MaxId /\ nextId' - 1 = (nextId - 1) + 1
      BY <3>1, <3>2, ConstantsAssumption
    <3>5. /\ clients' = [clients EXCEPT ![k] = nextId' - 1]
          /\ avatars' = avatars \cup {nextId' - 1}
          /\ lives' = [lives EXCEPT ![nextId' - 1] = InitialLives]
      BY <3>1, <3>4
    <3>. HIDE DEF k
    <3>6. R!Enter(k)
      BY <3>2, <3>3, <3>4, <3>5, Zenon DEF R!Enter
    <3>. QED
      BY <3>2, <3>6 DEF R!Next
  <2>3. CASE UpdateWorld
    <3>1. \E hit \in SUBSET avatars : R!Hurt(hit)
      BY <2>3 DEF UpdateWorld, R!Hurt, R!Ids, roster
    <3>. QED
      BY <3>1 DEF R!Next
  <2>4. ASSUME NEW t \in Threads, DisconnectDestroy(t)
        PROVE  R!Next \/ UNCHANGED R!room
    <3>. DEFINE p == job[t].id
    <3>1. /\ avatars' = avatars \ {p}
          /\ lives' = [q \in Ids |-> IF q = p THEN 0 ELSE lives[q]]
          /\ UNCHANGED <<clients, nextId>>
      BY <2>4 DEF DisconnectDestroy, roster
    <3>2. lives \in [Ids -> Int] /\ avatars \subseteq Ids
      BY DEF TypeInv, TypeOK, WorldOK
    <3>3. CASE p \in Ids
      <4>1. R!Vanish(p)
        BY <3>1, <3>2, <3>3 DEF R!Vanish
      <4>. QED
        BY <3>3, <4>1 DEF R!Next, R!Ids
    <3>4. CASE p \notin Ids
      <4>1. avatars' = avatars
        BY <3>1, <3>2, <3>4
      <4>2. lives' = lives
        BY <3>1, <3>2, <3>4
      <4>. QED
        BY <3>1, <4>1, <4>2
    <3>. QED
      BY <3>3, <3>4
  <2>5. ASSUME NEW t \in Threads, DisconnectErase(t)
        PROVE  R!Next
    <3>0. pc[t] = "erase"
      BY <2>5 DEF DisconnectErase, Goes
    <3>1. job[t].key \in Keys
      BY <3>0 DEF TypeInv, ControlInv, Jobs, LeaveSteps
    <3>2. R!GiveUpPlace(job[t].key)
      BY <2>5 DEF DisconnectErase, R!GiveUpPlace, world
    <3>. QED
      BY <3>1, <3>2 DEF R!Next
  <2>. QED
    BY <2>1, <2>2, <2>3, <2>4, <2>5, PlacesFrame
<1>. QED
  BY <1>1, <1>2, TypeInvAlways, FreshKeyAlways, CapacityAlways, PTL
     DEF Spec, RoomSpec, R!Spec
=============================================================================

---------------------------- MODULE GameSession ----------------------------
(***************************************************************************)
(* One room of the server: server/src/GameSession.cpp, with the part of    *)
(* server/src/Server.cpp that routes packets to it.                        *)
(*                                                                         *)
(* Two threads share the session.  The network thread runs the io_context: *)
(* it takes one datagram at a time and runs its handler to the end.  The   *)
(* game thread runs game_loop().  They meet in two mutexes, clients_mutex_ *)
(* and registry_mutex_.                                                    *)
(*                                                                         *)
(* A critical section under ONE mutex is one step, guarded by the mutex    *)
(* being free.  A section under BOTH is two steps, the first of which      *)
(* keeps the first mutex: that is where a thread can wait while it holds   *)
(* something.  An atomic flag is read or written in a step of its own.     *)
(*                                                                         *)
(* A player's entity is created together with its id in one section and    *)
(* entity numbers are never reused, so a player id also names its entity.  *)
(* Positions, scores and payloads are left out: they decide nothing here.  *)
(***************************************************************************)
EXTENDS Integers, FiniteSets

CONSTANTS
    Keys,          \* client addresses, the "ip:port" keys of clients_
    MaxPlayers,    \* rtype::constants::MAX_PLAYERS
    InitialLives,  \* GameRules::initial_lives of the room
    MaxId          \* bound on the player ids a behaviour hands out

ASSUME ConstantsAssumption ==
    /\ IsFiniteSet(Keys)
    /\ MaxPlayers \in Nat \ {0}
    /\ InitialLives \in Nat
    /\ MaxId \in Nat

VARIABLES
    running,    \* running_
    started,    \* game_started_
    over,       \* game_over_
    nextId,     \* next_player_id_
    clients,    \* clients_: address -> player id, NoPlayer where absent
    silent,     \* clients whose last_seen is CLIENT_TIMEOUT_DURATION old
    emptyLong,  \* empty_since_ is EMPTY_TIMEOUT_DURATION old
    avatars,    \* ids of the valid player entities of registry_
    lives,      \* Lives::remaining of each valid player entity, else 0
    hostiles,   \* registry_ may hold networked entities besides players
    mapped,     \* addresses Server::client_session_map_ sends to this room
    told,       \* player id -> the other players its client was told of
    lobby,      \* player id -> count in the last LobbyUpdate sent to it
    held,       \* mutex -> the thread that keeps it between two steps
    pc,         \* thread -> the section it runs next
    job,        \* thread -> the (key, id) its handler or disconnect is about
    todo,       \* timed_out of check_client_timeouts: pairs still to do
    mixedUp     \* history: ids erased by a disconnect of another id

session == <<running, started, over, emptyLong>>
roster  == <<clients, nextId, silent, mapped, mixedUp>>
world   == <<avatars, lives, hostiles>>
sent    == <<told, lobby>>
control == <<held, pc, job, todo>>
vars    == <<session, roster, world, sent, control>>

NoPlayer == 0    \* PlayerJoinData carries id 0 for "session full"
Free     == "none"
Threads  == {"net", "game"}
Mutexes  == {"clients", "registry"}
Ids      == 1..MaxId
Jobs     == [key : Keys, id : 0..MaxId]
NoJob    == [key |-> "none", id |-> NoPlayer]

JoinSteps  == {"joinCheck", "joinRegistry", "joinInsert", "joinAnnounce",
               "joinPeers", "joinLobby", "joinMap"}
LeaveSteps == {"destroy", "leave1", "leave2", "leave3", "erase", "lobby",
               "unmap"}
NetSteps   == {"idle", "start", "leave"} \cup JoinSteps \cup LeaveSteps
GameSteps  == {"top", "timeouts", "next", "empty", "tick", "survey", "judge",
               "declare", "cleanup", "update", "broadcast", "send", "exit",
               "done", "gone"} \cup LeaveSteps

Connected    == {k \in Keys : clients[k] # NoPlayer}
ConnectedIds == {clients[k] : k \in Connected}

(* The thread's next section; `to' is where it goes after this one. *)
Goes(t, from, to) == pc[t] = from /\ pc' = [pc EXCEPT ![t] = to]
IsFree(m)         == held[m] = Free

----------------------------------------------------------------------------
(* Init is the state in which start() leaves the session: the world is     *)
(* loaded (map obstacles are networked entities) and the game thread runs. *)

Init ==
    /\ running = TRUE /\ started = FALSE /\ over = FALSE
    /\ nextId = 1
    /\ clients = [k \in Keys |-> NoPlayer]
    /\ silent = {} /\ emptyLong = FALSE
    /\ avatars = {} /\ lives = [p \in Ids |-> 0] /\ hostiles = TRUE
    /\ mapped = {}
    /\ told = [p \in Ids |-> {}] /\ lobby = [p \in Ids |-> 0]
    /\ held = [m \in Mutexes |-> Free]
    /\ pc = [t \in Threads |-> IF t = "net" THEN "idle" ELSE "top"]
    /\ job = [t \in Threads |-> NoJob]
    /\ todo = {} /\ mixedUp = {}

----------------------------------------------------------------------------
(* The environment: time passing.                                          *)

(* A connected client has not been heard of for CLIENT_TIMEOUT_DURATION.   *)
SilenceElapses(k) ==
    /\ k \in Connected \ silent
    /\ silent' = silent \cup {k}
    /\ UNCHANGED <<session, clients, nextId, mapped, mixedUp, world, sent,
                   control>>

(* The room has been empty for EMPTY_TIMEOUT_DURATION.  The loop resets    *)
(* empty_since_ many times a second while anyone is there.                 *)
EmptyTimeElapses ==
    /\ Connected = {} /\ ~emptyLong
    /\ emptyLong' = TRUE
    /\ UNCHANGED <<running, started, over, roster, world, sent, control>>

----------------------------------------------------------------------------
(* The network thread: PlayerJoin.  Server::handle_client_message finds    *)
(* the session and calls handle_player_join, which refuses when the        *)
(* session no longer runs (the step is then a stutter).                    *)

\* mutant: a session that has stopped still takes players
MutJoinTaken == TRUE
JoinTaken == running

RecvJoin(k) ==
    /\ pc["game"] # "gone" /\ JoinTaken
    /\ nextId <= MaxId                                 \* bound
    /\ Goes("net", "idle", "joinCheck")
    /\ job' = [job EXCEPT !["net"] = [key |-> k, id |-> NoPlayer]]
    /\ UNCHANGED <<session, roster, world, sent, held, todo>>

\* mutant: off by one
MutRoomIsFull == Cardinality(Connected) > MaxPlayers
RoomIsFull == Cardinality(Connected) >= MaxPlayers

(* A known address gets its old id again and counts as accepted; a full    *)
(* room answers id 0.                                                      *)
JoinCheck ==
    /\ IsFree("clients")
    /\ \/ /\ job["net"].key \in Connected
          /\ Goes("net", "joinCheck", "joinMap")
          /\ UNCHANGED job
       \/ /\ job["net"].key \notin Connected /\ RoomIsFull
          /\ Goes("net", "joinCheck", "idle")
          /\ job' = [job EXCEPT !["net"] = NoJob]
       \/ /\ job["net"].key \notin Connected /\ ~RoomIsFull
          /\ Goes("net", "joinCheck", "joinRegistry")
          /\ UNCHANGED job
    /\ UNCHANGED <<session, roster, world, sent, held, todo>>

(* registry_mutex_ first, then clients_mutex_.                             *)
JoinLockRegistry ==
    /\ IsFree("registry")
    /\ Goes("net", "joinRegistry", "joinInsert")
    /\ held' = [held EXCEPT !["registry"] = "net"]
    /\ UNCHANGED <<session, roster, world, sent, job, todo>>

\* mutant: the id is the count of players, not a counter
MutNewPlayerId == Cardinality(Connected) + 1
NewPlayerId == nextId

JoinInsert ==
    /\ IsFree("clients")
    /\ Goes("net", "joinInsert", "joinAnnounce")
    /\ clients' = [clients EXCEPT ![job["net"].key] = NewPlayerId]
    /\ silent' = silent \ {job["net"].key}
    /\ nextId' = nextId + 1
    /\ avatars' = avatars \cup {NewPlayerId}
    /\ lives' = [lives EXCEPT ![NewPlayerId] = InitialLives]
    /\ job' = [job EXCEPT !["net"].id = NewPlayerId]
    /\ held' = [held EXCEPT !["registry"] = Free]
    /\ UNCHANGED <<session, mapped, mixedUp, hostiles, sent, todo>>

(* The reply to the newcomer, and the same packet to everyone else.        *)
JoinAnnounce ==
    /\ IsFree("clients")
    /\ Goes("net", "joinAnnounce", "joinPeers")
    /\ told' = [p \in Ids |->
                   IF \E k \in Connected \ {job["net"].key} : clients[k] = p
                   THEN told[p] \cup {job["net"].id} ELSE told[p]]
    /\ UNCHANGED <<session, roster, world, lobby, held, job, todo>>

\* mutant: the newcomer is not told of the players already there
MutJoinPeers ==
    /\ IsFree("clients") /\ Goes("net", "joinPeers", "joinLobby")
    /\ UNCHANGED <<session, roster, world, sent, held, job, todo>>

(* The other players, to the newcomer.  The initial state of the world     *)
(* that follows under registry_mutex_ changes nothing kept here.           *)
JoinPeers ==
    /\ IsFree("clients")
    /\ Goes("net", "joinPeers", "joinLobby")
    /\ told' = [p \in Ids |->
                   IF p = job["net"].id /\ p \in ConnectedIds
                   THEN told[p] \cup (ConnectedIds \ {p}) ELSE told[p]]
    /\ UNCHANGED <<session, roster, world, lobby, held, job, todo>>

(* LobbyUpdate: the present count, to every connected client.              *)
SendLobby == lobby' = [p \in Ids |-> IF p \in ConnectedIds
                                     THEN Cardinality(Connected)
                                     ELSE lobby[p]]

JoinLobby ==
    /\ IsFree("clients")
    /\ Goes("net", "joinLobby", "joinMap")
    /\ SendLobby
    /\ UNCHANGED <<session, roster, world, told, held, job, todo>>

(* Back in Server: the accepted address is mapped to the session.          *)
JoinMap ==
    /\ Goes("net", "joinMap", "idle")
    /\ mapped' = mapped \cup {job["net"].key}
    /\ job' = [job EXCEPT !["net"] = NoJob]
    /\ UNCHANGED <<session, clients, nextId, silent, mixedUp, world, sent,
                   held, todo>>

----------------------------------------------------------------------------
(* The network thread: any other packet of a mapped address.  handle_packet *)
(* refreshes last_seen, then runs the handler of the message: PlayerLeave, *)
(* GameStart, or one that changes nothing kept here (input, name, chat,    *)
(* ping, map size).                                                        *)

RecvPacket(k) ==
    /\ k \in mapped /\ IsFree("clients")
    /\ \E handler \in {"idle", "start", "leave"} :
          /\ Goes("net", "idle", handler)
          /\ job' = [job EXCEPT !["net"] = IF handler = "idle" THEN NoJob
                               ELSE [key |-> k, id |-> NoPlayer]]
    /\ silent' = silent \ {k}
    /\ UNCHANGED <<session, clients, nextId, mapped, mixedUp, world, sent,
                   held, todo>>

(* handle_game_start: the first one raises the flag.                       *)
GameStart ==
    /\ Goes("net", "start", "idle")
    /\ started' = TRUE
    /\ job' = [job EXCEPT !["net"] = NoJob]
    /\ UNCHANGED <<running, over, emptyLong, roster, world, sent, held, todo>>

(* PlayerLeave: copy the ClientInfo, if there still is one.                *)
LeaveFind ==
    /\ pc["net"] = "leave" /\ IsFree("clients")
    /\ LET k == job["net"].key
       IN  /\ pc' = [pc EXCEPT !["net"] = IF k \in Connected THEN "destroy"
                                          ELSE "idle"]
           /\ job' = [job EXCEPT !["net"] =
                        IF k \in Connected THEN [key |-> k, id |-> clients[k]]
                        ELSE NoJob]
    /\ UNCHANGED <<session, roster, world, sent, held, todo>>

(* remove_session, posted by the game thread as it ends.                   *)
RemoveSession ==
    /\ pc["net"] = "idle"
    /\ Goes("game", "done", "gone")
    /\ mapped' = {}
    /\ UNCHANGED <<session, clients, nextId, silent, mixedUp, world, sent,
                   held, job, todo>>

----------------------------------------------------------------------------
(* disconnect_client, on the network thread after a PlayerLeave and on the *)
(* game thread after a timeout.  job[t] is the copy of the client it was   *)
(* called with; every section after that may find clients_ changed.        *)

\* mutant: a disconnect leaves the player's entity in the world
MutDisconnectDestroy(t) ==
    /\ Goes(t, "destroy", "leave1")
    /\ UNCHANGED <<session, roster, world, sent, held, job, todo>>

DisconnectDestroy(t) ==
    /\ IsFree("registry")
    /\ Goes(t, "destroy", "leave1")
    /\ avatars' = avatars \ {job[t].id}
    /\ lives' = [p \in Ids |-> IF p = job[t].id THEN 0 ELSE lives[p]]
    /\ UNCHANGED <<session, roster, hostiles, sent, held, job, todo>>

(* PlayerLeave to the others, three times.                                 *)
DisconnectAnnounce(t) ==
    /\ IsFree("clients")
    /\ \/ Goes(t, "leave1", "leave2")
       \/ Goes(t, "leave2", "leave3")
       \/ Goes(t, "leave3", "erase")
    /\ told' = [p \in Ids |->
                   IF \E k \in Connected \ {job[t].key} : clients[k] = p
                   THEN told[p] \ {job[t].id} ELSE told[p]]
    /\ UNCHANGED <<session, roster, world, lobby, held, job, todo>>

(* clients_.erase(client_key): by address, whoever it belongs to by now.   *)
(* What the erased client was told ends with its entry.                    *)
DisconnectErase(t) ==
    /\ IsFree("clients")
    /\ Goes(t, "erase", "lobby")
    /\ clients' = [clients EXCEPT ![job[t].key] = NoPlayer]
    /\ silent' = silent \ {job[t].key}
    /\ LET erased == clients[job[t].key]
       IN  /\ mixedUp' = mixedUp \cup ({erased} \ {NoPlayer, job[t].id})
           /\ told' = [p \in Ids |-> IF p = erased THEN {} ELSE told[p]]
           /\ lobby' = [p \in Ids |-> IF p = erased THEN 0 ELSE lobby[p]]
    /\ UNCHANGED <<session, nextId, mapped, world, held, job, todo>>

\* mutant: the lobby is not told of a departure
MutDisconnectLobby(t) ==
    /\ Goes(t, "lobby", "unmap")
    /\ UNCHANGED <<session, roster, world, sent, held, job, todo>>

DisconnectLobby(t) ==
    /\ IsFree("clients")
    /\ Goes(t, "lobby", "unmap")
    /\ SendLobby
    /\ UNCHANGED <<session, roster, world, told, held, job, todo>>

\* mutant: a leave goes on with the timeouts of the game thread
MutAfterDisconnect(t) == "next"
AfterDisconnect(t) == IF t = "net" THEN "idle" ELSE "next"

(* The unmap callback, Server::unmap_client.                               *)
DisconnectUnmap(t) ==
    /\ Goes(t, "unmap", AfterDisconnect(t))
    /\ mapped' = mapped \ {job[t].key}
    /\ job' = [job EXCEPT ![t] = NoJob]
    /\ UNCHANGED <<session, clients, nextId, silent, mixedUp, world, sent,
                   held, todo>>

Disconnect(t) == \/ DisconnectDestroy(t) \/ DisconnectAnnounce(t)
                 \/ DisconnectErase(t) \/ DisconnectLobby(t)
                 \/ DisconnectUnmap(t)

----------------------------------------------------------------------------
(* The game thread: game_loop().                                           *)

(* The top of the loop.  The timeout check runs when a second has passed   *)
(* since the last one, which is left to the clock.                         *)
LoopTop ==
    /\ running
    /\ \E next \in {"timeouts", "empty"} : Goes("game", "top", next)
    /\ UNCHANGED <<session, roster, world, sent, held, job, todo>>

\* mutant: timeouts are looked for in the lobby only
MutTimedOut == IF started THEN {} ELSE silent
TimedOut == silent

(* check_client_timeouts: the expired clients are copied under the mutex   *)
(* and disconnected one by one after it is released.                       *)
CheckTimeouts ==
    /\ IsFree("clients")
    /\ Goes("game", "timeouts", "next")
    /\ todo' = {[key |-> k, id |-> clients[k]] : k \in TimedOut}
    /\ UNCHANGED <<session, roster, world, sent, held, job>>

NextTimeout ==
    /\ \/ /\ todo = {}
          /\ Goes("game", "next", "empty")
          /\ UNCHANGED <<job, todo>>
       \/ /\ Goes("game", "next", "destroy")
          /\ \E j \in todo :
               job' = [job EXCEPT !["game"] = j] /\ todo' = todo \ {j}
    /\ UNCHANGED <<session, roster, world, sent, held>>

\* mutant: the empty room is never noticed
MutStillEmpty == FALSE
StillEmpty == Connected = {}

(* The empty-room check; then a tick if TICK_DURATION has passed, a nap    *)
(* of one millisecond otherwise.                                           *)
CheckEmpty ==
    /\ IsFree("clients")
    /\ \/ /\ StillEmpty /\ emptyLong
          /\ Goes("game", "empty", "exit")
          /\ running' = FALSE /\ UNCHANGED emptyLong
       \/ /\ ~(StillEmpty /\ emptyLong)
          /\ \E next \in {"tick", "top"} : Goes("game", "empty", next)
          /\ emptyLong' = (emptyLong /\ StillEmpty)
          /\ UNCHANGED running
    /\ UNCHANGED <<started, over, roster, world, sent, held, job, todo>>

\* mutant: the game goes on after it is over
MutPlaying == started
Playing == started /\ ~over

Tick ==
    /\ Goes("game", "tick", IF Playing THEN "survey" ELSE "broadcast")
    /\ UNCHANGED <<session, roster, world, sent, held, job, todo>>

(* The all-players-dead check: clients_mutex_ first, then registry_mutex_. *)
LockSurvey ==
    /\ IsFree("clients")
    /\ Goes("game", "survey", "judge")
    /\ held' = [held EXCEPT !["clients"] = "game"]
    /\ UNCHANGED <<session, roster, world, sent, job, todo>>

AllPlayersDead ==
    \A k \in Connected : clients[k] \in avatars => lives[clients[k]] <= 0

Judge ==
    /\ IsFree("registry")
    /\ Goes("game", "judge", IF Connected # {} /\ AllPlayersDead
                             THEN "declare" ELSE "update")
    /\ held' = [held EXCEPT !["clients"] = Free]
    /\ UNCHANGED <<session, roster, world, sent, job, todo>>

DeclareOver ==
    /\ Goes("game", "declare", "cleanup")
    /\ over' = TRUE
    /\ UNCHANGED <<running, started, emptyLong, roster, world, sent, held,
                   job, todo>>

(* Every networked entity but the players and the map goes.                *)
CleanUp ==
    /\ IsFree("registry")
    /\ Goes("game", "cleanup", "broadcast")
    /\ hostiles' = FALSE
    /\ UNCHANGED <<session, roster, avatars, lives, sent, held, job, todo>>

\* mutant: the last life lost leaves the entity
MutUpdateWorld ==
    /\ IsFree("registry")
    /\ Goes("game", "update", "broadcast")
    /\ \E hit \in SUBSET avatars :
          lives' = [p \in Ids |-> IF p \in hit THEN lives[p] - 1 ELSE lives[p]]
    /\ hostiles' = TRUE
    /\ UNCHANGED <<session, roster, avatars, sent, held, job, todo>>

(* system_manager_.update: SpawnSystem may add entities, and LivesSystem   *)
(* takes a life from every player at 0 hp and destroys it on its last.     *)
UpdateWorld ==
    /\ IsFree("registry")
    /\ Goes("game", "update", "broadcast")
    /\ \E hit \in SUBSET avatars :
          /\ avatars' = {p \in avatars : p \in hit => lives[p] - 1 > 0}
          /\ lives' = [p \in Ids |-> IF p \notin avatars' THEN 0
                                     ELSE IF p \in hit THEN lives[p] - 1
                                     ELSE lives[p]]
    /\ hostiles' = TRUE
    /\ UNCHANGED <<session, roster, sent, held, job, todo>>

(* The two sections that send the world and the game state: both take      *)
(* registry_mutex_ first, then clients_mutex_, and only read.              *)
LockBroadcast ==
    /\ IsFree("registry")
    /\ Goes("game", "broadcast", "send")
    /\ held' = [held EXCEPT !["registry"] = "game"]
    /\ UNCHANGED <<session, roster, world, sent, job, todo>>

SendWorld ==
    /\ IsFree("clients")
    /\ Goes("game", "send", "top")
    /\ held' = [held EXCEPT !["registry"] = Free]
    /\ UNCHANGED <<session, roster, world, sent, job, todo>>

(* on_session_empty_ posts remove_session to the network thread.           *)
LoopExit ==
    /\ Goes("game", "exit", "done")
    /\ UNCHANGED <<session, roster, world, sent, held, job, todo>>

----------------------------------------------------------------------------

NetStep ==
    \/ JoinCheck \/ JoinLockRegistry \/ JoinInsert \/ JoinAnnounce
    \/ JoinPeers \/ JoinLobby \/ JoinMap
    \/ GameStart \/ LeaveFind \/ Disconnect("net")

GameStep ==
    \/ LoopTop \/ CheckTimeouts \/ NextTimeout \/ CheckEmpty \/ Tick
    \/ LockSurvey \/ Judge \/ DeclareOver \/ CleanUp \/ UpdateWorld
    \/ LockBroadcast \/ SendWorld \/ LoopExit \/ Disconnect("game")

Environment ==
    \/ \E k \in Keys : RecvJoin(k) \/ RecvPacket(k) \/ SilenceElapses(k)
    \/ EmptyTimeElapses

Next == NetStep \/ GameStep \/ RemoveSession \/ Environment

(* Both threads are scheduled, time passes, and the second between two     *)
(* timeout checks elapses again and again.  Clients owe nothing.           *)
Fairness ==
    /\ WF_vars(NetStep)
    /\ WF_vars(GameStep)
    /\ SF_vars(LoopTop /\ pc'["game"] = "timeouts")
    /\ SF_vars(RemoveSession)
    /\ WF_vars(EmptyTimeElapses)

Spec     == Init /\ [][Next]_vars
FairSpec == Spec /\ Fairness

----------------------------------------------------------------------------
(* Properties.                                                             *)

SessionOK == /\ running \in BOOLEAN /\ started \in BOOLEAN
             /\ over \in BOOLEAN /\ emptyLong \in BOOLEAN
RosterOK  == /\ nextId \in 1..(MaxId + 1) /\ clients \in [Keys -> 0..MaxId]
             /\ silent \subseteq Connected /\ mapped \subseteq Keys
             /\ mixedUp \subseteq Ids
WorldOK   == /\ avatars \subseteq Ids /\ lives \in [Ids -> Int]
             /\ hostiles \in BOOLEAN
SentOK    == told \in [Ids -> SUBSET Ids] /\ lobby \in [Ids -> Nat]
ControlOK == /\ held \in [Mutexes -> Threads \cup {Free}]
             /\ pc \in [Threads -> NetSteps \cup GameSteps]
             /\ pc["net"] \in NetSteps /\ pc["game"] \in GameSteps
             /\ job \in [Threads -> Jobs \cup {NoJob}] /\ todo \subseteq Jobs

TypeOK == SessionOK /\ RosterOK /\ WorldOK /\ SentOK /\ ControlOK

(* A disconnect that has begun: the client's entity is gone, its entry in  *)
(* clients_ may still be there.                                            *)
Leaving(t)  == pc[t] \in LeaveSteps \ {"destroy"}
LeavingIds  == {job[t].id : t \in {u \in Threads : Leaving(u)}}
Settled     == pc["net"] = "idle" /\ ~Leaving("game")

(* The session never holds more than MAX_PLAYERS clients, though           *)
(* handle_player_join counts them in one section and inserts in another.   *)
AtMostMaxPlayers == Cardinality(Connected) <= MaxPlayers

(* Two connected addresses never share a player id, and no id in use is    *)
(* about to be handed out again.                                           *)
UniqueIds ==
    \A k \in Connected :
       /\ clients[k] < nextId
       /\ \A j \in Connected : clients[k] = clients[j] => k = j

(* A player entity without a client is what disconnect_client leaves when  *)
(* it erases by address the entry of ANOTHER id; nothing else in join,     *)
(* leave, timeout or game over leaks one.                                  *)
AvatarsAreOwned == avatars \subseteq ConnectedIds \cup mixedUp

(* Whenever no join or disconnect is under way, the last LobbyUpdate sent  *)
(* to each connected client carries the true count, though two threads     *)
(* count and send in sections of their own.                                *)
LobbyCountSettles ==
    Settled => \A p \in ConnectedIds : lobby[p] = Cardinality(Connected)

(* Whenever no join is under way, every connected client was told of every *)
(* other one whose disconnect has not begun.                               *)
RosterIsComplete ==
    pc["net"] = "idle" =>
       \A p \in ConnectedIds : \A q \in ConnectedIds \ LeavingIds :
          p # q => q \in told[p]

(* Game over is final: from then on nothing is spawned and no life is lost, *)
(* although the flag is read, and raised, outside the registry's mutex.    *)
OverStep ==
    over => /\ over'
            /\ ~hostiles => ~hostiles'
            /\ \A p \in avatars : lives'[p] = lives[p] \/ p \in LeavingIds'
OverIsFinal == [][OverStep]_vars

(* Each thread waits for the mutex the other one holds: a join that has    *)
(* registry_mutex_, the all-players-dead check that has clients_mutex_.    *)
Deadlocked == pc["net"] = "joinInsert" /\ pc["game"] = "judge"

(* A session that has stopped for being empty has at most one client: the  *)
(* one whose join was past its test of running_ at that moment.            *)
AtMostOneStranded == ~running => Cardinality(Connected) <= 1

(* A client that stays silent is dropped, unless the room ends first or    *)
(* the two threads have locked each other out.                             *)
SilentClientsLeave ==
    \A k \in Keys :
       k \in silent ~> (k \notin silent \/ pc["game"] = "gone" \/ Deadlocked)

(* A room that stays empty is removed from the server.                     *)
EmptyRoomsEnd == <>[](Connected = {}) => <>(pc["game"] = "gone" \/ Deadlocked)

(* The game loop comes round again and again while the session runs: the   *)
(* 60 Hz loop of the developer documentation.                              *)
LoopKeepsTurning == running ~> (pc["game"] = "top" \/ ~running)

(* Under every interleaving of the two threads the session keeps the        *)
(* promise of a room: places, numbers, avatars and lives change only as    *)
(* Room says.                                                              *)
R == INSTANCE Room WITH members <- clients, last <- nextId - 1
RoomSpec == R!Spec

(* Timeouts leave no "zombie" player in the game.                          *)
NoZombiePlayers == avatars \subseteq ConnectedIds
=============================================================================

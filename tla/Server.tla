------------------------------- MODULE Server -------------------------------
(***************************************************************************)
(* The rooms of a server and who is routed where: server/src/Server.cpp,   *)
(* with as much of each GameSession as the server depends on.              *)
(*                                                                         *)
(* One network thread runs the handlers of all rooms, one after the other, *)
(* and every room has a game thread of its own.  They meet in              *)
(* sessions_mutex_ (rooms and routes) and in the clients_mutex_ of a room  *)
(* (its members); nothing here holds one while it changes the other, so a  *)
(* critical section is one step.  The network thread alone adds and        *)
(* removes rooms, so CreateRoom is one step too.                           *)
(*                                                                         *)
(* What happens inside a room (players, entities, lobby messages, the      *)
(* second mutex) is GameSession's subject.  ListRooms only reads.          *)
(***************************************************************************)
EXTENDS Integers, FiniteSets

CONSTANTS
    Keys,        \* client addresses
    MaxPlayers,  \* rtype::constants::MAX_PLAYERS
    MaxRoom      \* bound on the session ids a behaviour uses

ASSUME ServerAssumption ==
    /\ IsFiniteSet(Keys)
    /\ MaxPlayers \in Nat \ {0}
    /\ MaxRoom \in Nat \ {0}

VARIABLES
    nextRoom,  \* next_session_id_
    sessions,  \* the ids in sessions_
    ruled,     \* the ids with entries in session_names_ and session_rules_
    custom,    \* the sessions that were given rules when they started
    created,   \* history: id -> how many CreateRoom replies carried it
    route,     \* client_session_map_: address -> id, NoRoom where absent
    members,   \* id -> the addresses in the session's clients_
    stale,     \* id -> its members whose last_seen is too old
    running,   \* the sessions whose running_ is true
    posts,     \* the remove_session calls posted to the io_context
    quiet,     \* addresses nothing has come from for CLIENT_TIMEOUT_DURATION
    home,      \* history: address -> the room it last got into
    game,      \* id -> what the session's thread does next
    todo,      \* id -> what is left of the list of timed-out clients
    dropping,  \* id -> the address the session's thread is dropping
    net        \* what the network thread does next, for whom, in which room

rooms   == <<nextRoom, sessions, ruled, custom, created>>
clients == <<members, stale>>
clock   == <<quiet, home>>
threads == <<game, todo, dropping>>
vars    == <<rooms, route, clients, running, posts, clock, threads, net>>

NoRoom == 0
NoKey  == "none"
Rooms  == 1..MaxRoom
Idle   == [step |-> "idle", key |-> NoKey, room |-> NoRoom]

NetSteps  == {"idle", "accept", "insert", "map", "find", "deliver", "erase", "unmap"}
GameSteps == {"none", "loop", "drop", "unmap", "exit"}

(* The network thread goes from one section to the next, or back to its    *)
(* socket.                                                                 *)
NetGoes(from, to) == net.step = from /\ net' = [net EXCEPT !.step = to]
NetEnds(from)     == net.step = from /\ net' = Idle
GameGoes(s, from, to) == game[s] = from /\ game' = [game EXCEPT ![s] = to]

----------------------------------------------------------------------------

\* mutant: rooms are numbered from 0, the number that asks for a new room
MutFirstRoom == 0
FirstRoom    == 1

Init ==
    /\ nextRoom = FirstRoom /\ sessions = {} /\ ruled = {} /\ custom = {}
    /\ created = [s \in Rooms |-> 0]
    /\ route = [k \in Keys |-> NoRoom]
    /\ members = [s \in Rooms |-> {}] /\ stale = [s \in Rooms |-> {}]
    /\ running = {} /\ posts = {}
    /\ quiet = {} /\ home = [k \in Keys |-> NoRoom]
    /\ game = [s \in Rooms |-> "none"]
    /\ todo = [s \in Rooms |-> {}] /\ dropping = [s \in Rooms |-> NoKey]
    /\ net = Idle

----------------------------------------------------------------------------
(* Time.  A client that keeps sending is heard by the room it is routed    *)
(* to, and by no other.  A handler takes far less than the seconds it      *)
(* takes to grow silent.                                                   *)

GoQuiet(k) ==
    /\ k \notin quiet /\ net.key # k
    /\ quiet' = quiet \cup {k}
    /\ UNCHANGED <<rooms, route, clients, running, posts, home, threads, net>>

SilenceElapses(s, k) ==
    /\ k \in members[s] \ stale[s]
    /\ net.key # k /\ (k \in quiet \/ route[k] # s)
    /\ stale' = [stale EXCEPT ![s] = @ \cup {k}]
    /\ UNCHANGED <<rooms, route, members, running, posts, clock, threads, net>>

----------------------------------------------------------------------------
(* The network thread: CreateRoom.  An id and its rules are set down, the  *)
(* session itself is started by the first join.                            *)

\* mutant: ids of rooms that were joined by number are not passed over
MutAllocated == nextRoom
(* allocate_session_id: the first id from the counter on with no session.  *)
Allocated == CHOOSE s \in nextRoom..(MaxRoom + 1) :
                /\ s \notin sessions
                /\ nextRoom..(s - 1) \subseteq sessions

\* mutant: the counter stays on the id it has just handed out
MutAfterAllocated == Allocated
AfterAllocated == Allocated + 1

CreateRoom ==
    /\ net.step = "idle"
    /\ Allocated \in Rooms                              \* bound
    /\ nextRoom' = AfterAllocated
    /\ ruled' = ruled \cup {Allocated}
    /\ created' = [created EXCEPT ![Allocated] = @ + 1]
    /\ UNCHANGED <<sessions, custom, route, clients, running, posts, clock,
                   threads, net>>

----------------------------------------------------------------------------
(* The network thread: PlayerJoin, with a room's number or with 0 for a    *)
(* room of its own.  get_or_create_session finds the session, or starts    *)
(* one with the rules on record for its id.                                *)

\* mutant: a session that has stopped is replaced before it is removed
MutNeedsSession(s) == s \notin running
NeedsSession(s) == s \notin sessions

RecvJoin(k) ==
    \E asked \in {NoRoom} \cup Rooms :
       LET s == IF asked = NoRoom THEN Allocated ELSE asked
       IN  /\ s \in Rooms                               \* bound
           /\ net.step = "idle"
           /\ net' = [step |-> "accept", key |-> k, room |-> s]
           /\ nextRoom' = IF asked = NoRoom THEN AfterAllocated ELSE nextRoom
           /\ IF NeedsSession(s)
              THEN /\ sessions' = sessions \cup {s}
                   /\ custom' = IF s \in ruled THEN custom \cup {s}
                                ELSE custom \ {s}
                   /\ running' = running \cup {s}
                   /\ members' = [members EXCEPT ![s] = {}]
                   /\ stale' = [stale EXCEPT ![s] = {}]
                   /\ game' = [game EXCEPT ![s] = "loop"]
              ELSE UNCHANGED <<sessions, custom, running, clients, game>>
           /\ quiet' = quiet \ {k}
           /\ UNCHANGED <<ruled, created, route, posts, home, todo, dropping>>

(* handle_player_join: a session that has stopped or is full refuses, a    *)
(* known address is accepted as it is.                                     *)
Refused(s, k) ==
    \/ s \notin running
    \/ k \notin members[s] /\ Cardinality(members[s]) >= MaxPlayers

Accept ==
    LET s == net.room  k == net.key
    IN  \/ /\ NetEnds("accept")
           /\ Refused(s, k)
           /\ UNCHANGED <<rooms, route, clients, running, posts, clock, threads>>
        \/ /\ NetGoes("accept", IF k \in members[s] THEN "map" ELSE "insert")
           /\ ~Refused(s, k)
           /\ home' = [home EXCEPT ![k] = s]
           /\ UNCHANGED <<rooms, route, clients, running, posts, quiet, threads>>

(* The session may have decided to stop since.                             *)
Insert ==
    /\ NetGoes("insert", "map")
    /\ members' = [members EXCEPT ![net.room] = @ \cup {net.key}]
    /\ UNCHANGED <<rooms, route, stale, running, posts, clock, threads>>

(* The accepted address is routed to the session.                          *)
Map ==
    /\ NetEnds("map")
    /\ route' = [route EXCEPT ![net.key] = net.room]
    /\ UNCHANGED <<rooms, clients, running, posts, clock, threads>>

----------------------------------------------------------------------------
(* The network thread: every other message goes to the session its sender  *)
(* is routed to, and is dropped without one.                               *)

RecvPacket(k) ==
    /\ net.step = "idle"
    /\ net' = IF route[k] = NoRoom THEN Idle
              ELSE [step |-> "find", key |-> k, room |-> route[k]]
    /\ quiet' = quiet \ {k}
    /\ UNCHANGED <<rooms, route, clients, running, posts, home, threads>>

(* The session is looked up in a second section.                           *)
FindSession ==
    /\ NetGoes("find", IF net.room \in sessions THEN "deliver" ELSE "unmap")
    /\ UNCHANGED <<rooms, route, clients, running, posts, clock, threads>>

(* handle_packet refreshes last_seen and runs the message's handler, which *)
(* for a PlayerLeave of a member goes on to disconnect_client.             *)
Deliver ==
    LET s == net.room  k == net.key
    IN  /\ \/ NetEnds("deliver")
           \/ NetGoes("deliver", "erase") /\ k \in members[s]
        /\ stale' = [stale EXCEPT ![s] = @ \ {k}]
        /\ UNCHANGED <<rooms, route, members, running, posts, clock, threads>>

EraseLeaver ==
    /\ NetGoes("erase", "unmap")
    /\ members' = [members EXCEPT ![net.room] = @ \ {net.key}]
    /\ stale' = [stale EXCEPT ![net.room] = @ \ {net.key}]
    /\ UNCHANGED <<rooms, route, running, posts, clock, threads>>

(* unmap_client: by address, whatever room it is routed to by now.         *)
UnmapLeaver ==
    /\ NetEnds("unmap")
    /\ route' = [route EXCEPT ![net.key] = NoRoom]
    /\ UNCHANGED <<rooms, clients, running, posts, clock, threads>>

\* mutant: routes to the removed session stay
MutSwept(s) == route
Swept(s) == [k \in Keys |-> IF route[k] = s THEN NoRoom ELSE route[k]]

\* mutant: the removal runs where it was posted from, on the room's thread
MutHandlerDone == TRUE
HandlerDone    == net.step = "idle"

(* remove_session, when the network thread comes to a posted call.  The    *)
(* session is joined and destroyed, and no address is routed to it.        *)
RemoveSession(s) ==
    /\ HandlerDone /\ s \in posts
    /\ posts' = posts \ {s}
    /\ sessions' = sessions \ {s}
    /\ running' = running \ {s}
    /\ custom' = custom \ {s}
    /\ members' = [members EXCEPT ![s] = {}]
    /\ stale' = [stale EXCEPT ![s] = {}]
    /\ game' = [game EXCEPT ![s] = "none"]
    /\ route' = Swept(s)
    /\ UNCHANGED <<nextRoom, ruled, created, clock, todo, dropping, net>>

----------------------------------------------------------------------------
(* The thread of session s: check_client_timeouts copies the silent        *)
(* clients and drops them one by one; an empty session stops.              *)

\* mutant: only clients that are routed here are looked at
MutTimedOut(s) == {k \in stale[s] : route[k] = s}
TimedOut(s) == stale[s]

CheckTimeouts(s) ==
    /\ TimedOut(s) # {}
    /\ GameGoes(s, "loop", "drop")
    /\ todo' = [todo EXCEPT ![s] = TimedOut(s)]
    /\ UNCHANGED <<rooms, route, clients, running, posts, clock, dropping, net>>

Drop(s) ==
    \/ /\ todo[s] = {}
       /\ GameGoes(s, "drop", "loop")
       /\ UNCHANGED <<rooms, route, clients, running, posts, clock, todo,
                      dropping, net>>
    \/ /\ GameGoes(s, "drop", "unmap")
       /\ \E k \in todo[s] :
             /\ todo' = [todo EXCEPT ![s] = @ \ {k}]
             /\ dropping' = [dropping EXCEPT ![s] = k]
             /\ members' = [members EXCEPT ![s] = @ \ {k}]
             /\ stale' = [stale EXCEPT ![s] = @ \ {k}]
       /\ UNCHANGED <<rooms, route, running, posts, clock, net>>

UnmapDropped(s) ==
    /\ GameGoes(s, "unmap", "drop")
    /\ route' = [route EXCEPT ![dropping[s]] = NoRoom]
    /\ dropping' = [dropping EXCEPT ![s] = NoKey]
    /\ UNCHANGED <<rooms, clients, running, posts, clock, todo, net>>

(* EMPTY_TIMEOUT_DURATION is left to the clock.                            *)
StopEmpty(s) ==
    /\ members[s] = {}
    /\ GameGoes(s, "loop", "exit")
    /\ running' = running \ {s}
    /\ UNCHANGED <<rooms, route, clients, posts, clock, todo, dropping, net>>

(* on_session_empty_ posts remove_session; the thread is at its end.       *)
PostRemoval(s) ==
    /\ GameGoes(s, "exit", "none")
    /\ posts' = posts \cup {s}
    /\ UNCHANGED <<rooms, route, clients, running, clock, todo, dropping, net>>

----------------------------------------------------------------------------

NetStep ==
    \/ Accept \/ Insert \/ Map
    \/ FindSession \/ Deliver \/ EraseLeaver \/ UnmapLeaver

GameStep(s) ==
    \/ CheckTimeouts(s) \/ Drop(s) \/ UnmapDropped(s) \/ StopEmpty(s)
    \/ PostRemoval(s)

Environment ==
    \/ CreateRoom
    \/ \E k \in Keys : RecvJoin(k) \/ RecvPacket(k) \/ GoQuiet(k)
    \/ \E s \in Rooms, k \in Keys : SilenceElapses(s, k)

Next ==
    \/ NetStep
    \/ \E s \in Rooms : GameStep(s) \/ RemoveSession(s)
    \/ Environment

(* The network thread and every session's thread are scheduled; what is    *)
(* posted is run; a room that no packet of a member reaches sees that      *)
(* member's last_seen grow old.  Clients owe nothing.  A room whose game   *)
(* thread and join wait for each other's mutex (GameSession.tla) stops     *)
(* both threads for ever: that deadlock is not in this module, so what is  *)
(* promised here is promised of rooms that go on.                          *)
Fairness ==
    /\ WF_vars(NetStep)
    /\ \A s \in Rooms : WF_vars(GameStep(s)) /\ SF_vars(RemoveSession(s))
    /\ \A s \in Rooms, k \in Keys : SF_vars(SilenceElapses(s, k))

Spec     == Init /\ [][Next]_vars
FairSpec == Spec /\ Fairness

----------------------------------------------------------------------------
(* Properties.                                                             *)

RoomsOK   == /\ nextRoom \in 1..(MaxRoom + 1) /\ sessions \subseteq Rooms
             /\ ruled \subseteq Rooms /\ custom \subseteq sessions
             /\ created \in [Rooms -> Nat]
             /\ running \subseteq sessions /\ posts \subseteq Rooms
ClientsOK == /\ route \in [Keys -> {NoRoom} \cup Rooms]
             /\ members \in [Rooms -> SUBSET Keys]
             /\ stale \in [Rooms -> SUBSET Keys]
             /\ \A s \in Rooms : stale[s] \subseteq members[s]
             /\ quiet \subseteq Keys /\ home \in [Keys -> {NoRoom} \cup Rooms]
ThreadsOK == /\ game \in [Rooms -> GameSteps] /\ todo \in [Rooms -> SUBSET Keys]
             /\ dropping \in [Rooms -> Keys \cup {NoKey}]
             /\ net \in [step : NetSteps, key : Keys \cup {NoKey},
                         room : {NoRoom} \cup Rooms]
TypeOK    == RoomsOK /\ ClientsOK /\ ThreadsOK

(* The session a handler was given a bare pointer to is not destroyed      *)
(* under it: sessions are removed by calls posted to the handler's thread. *)
HandlersSessionLives ==
    net.step \in {"accept", "insert", "map", "deliver", "erase"} => net.room \in sessions

(* An address is never routed to a session that is gone, though routes and *)
(* sessions are changed in sections of their own by several threads.       *)
RoutesLeadToSessions == \A k \in Keys : route[k] # NoRoom => route[k] \in sessions

(* A posted removal finds the session that posted it, with its thread at   *)
(* the end of its loop, never a successor under the same id.               *)
RemovalHitsTheEnded ==
    \A s \in posts : s \in sessions /\ s \notin running /\ game[s] = "none"

(* No two CreateRoom requests are given the same room.                     *)
NoRoomCreatedTwice == \A s \in Rooms : created[s] <= 1

(* The session of a created room plays by the rules it was created with:   *)
(* allocate_session_id passes over the rooms that were joined by number.   *)
CreatedRoomsHaveTheirRules ==
    \A s \in sessions : created[s] > 0 => s \in custom

(* A member no packet of whom reaches its room any more, because it joined *)
(* another one or was unmapped, is dropped there or routed there again     *)
(* (while no room is deadlocked: see Fairness).                            *)
UnreachedMembersLeave ==
    \A s \in Rooms, k \in Keys :
       (k \in members[s] /\ route[k] # s) ~> (k \notin members[s] \/ route[k] = s)

(* In the room a client last joined, its last_seen grows old only if       *)
(* nothing comes from the client: silence is what the protocol takes for a *)
(* disconnection.                                                          *)
LastSeenIsTrue ==
    [][\A k \in Keys :
          LET s == home[k]
          IN  s # NoRoom /\ k \in stale'[s] \ stale[s] => k \in quiet]_vars
=============================================================================

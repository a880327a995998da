---------------------------- MODULE ClientSession ----------------------------
(***************************************************************************)
(* One client and its place in a room: Client.cpp (what its network thread *)
(* makes of the server's messages, and the calls of its frame loop), with  *)
(* the rooms of the server around it.                                      *)
(*                                                                         *)
(* The wire keeps its order unless UDP loses, doubles or reorders, which   *)
(* is counted.  The network thread handles a message in one step, under    *)
(* its lock on the registry, but for PlayerLeave, which takes the lock     *)
(* twice; the frame loop's create_room and leave_room take two steps too.  *)
(* Of the registry only the copies of players are here; the players' moves *)
(* of one tick are one message.                                            *)
(*                                                                         *)
(* blur is history: why client and server may see things differently.      *)
(***************************************************************************)
EXTENDS Registry, FiniteSets, SequencesExt

CONSTANTS
    Rooms,       \* session ids
    Names,       \* names of rooms
    MaxPlayers,  \* constants::MAX_PLAYERS
    MaxId,       \* bound on the ids a room gives
    MaxOthers,   \* bound on the ids each room gives while others join
    Ending,      \* bound: rooms whose session may stop or deadlock
    MaxCopies,   \* bound on the entities created between two clears
    MaxAsks,     \* bound on what the user asks of the server, and on the
                 \* messages UDP loses, doubles or reorders, together
    MaxWire      \* bound on messages on their way up

ASSUME ClientAssumption ==
    /\ Rooms \subseteq Nat \ {0} /\ IsFiniteSet(Rooms) /\ "" \notin Names
    /\ MaxPlayers \in Nat \ {0} /\ MaxId \in Nat /\ MaxOthers \in [Rooms -> 0..MaxId] /\ MaxCopies \in Nat
    /\ Ending \subseteq Rooms /\ MaxAsks \in Nat /\ MaxWire \in Nat

VARIABLES
    \* the server
    rooms,      \* room -> [name, seats, last, me]: its players, the last id it
                \* gave, and this client's id in it, 0 if it has none
    live,       \* room -> its session: "none", "on", "off" (stopping: running_
                \* is false), "jammed" (deadlocked with the network thread)
    route,      \* client_session_map_ of this client, 0 if it has none
    seating,    \* room whose handle_player_join has not answered yet, or 0
    \* the wire
    up, down,   \* messages on their way, oldest first
    \* the client
    connected,  \* connected_
    me,         \* player_id_
    session,    \* session_id_
    waiting,    \* pending_create_room_name_, "" if empty
    reg,        \* registry_
    parting,    \* entity a PlayerLeave has found and not yet destroyed, -1 if none
    main,       \* frame loop: "idle", "created" in create_room, "left" in leave_room
    name,       \* the name create_room is busy with
    \* bounds and history
    asks,
    asked,      \* a join was asked for, and no room left since
    ignored,    \* the join was dropped by a stopping session
    left,       \* seats the client has left, as <<room, id>>
    creations, autoJoins,   \* rooms asked for, joins sent on a RoomInfo
    blur

server  == <<rooms, live, route, seating>>
wire    == <<up, down>>
ident   == <<connected, me, session>>
ents    == <<reg, parting>>
loop    == <<main, name>>
past    == <<asked, ignored, left, creations, autoJoins>>
vars    == <<server, wire, ident, waiting, ents, loop, asks, past, blur>>

Ids     == 1..MaxId
NoRoom  == [name |-> "", seats |-> {}, last |-> 0, me |-> 0]

Opened  == {r \in Rooms : rooms[r].name # ""}
Listed  == {r \in Rooms : live[r] # "none"}
Jammed  == \E r \in Rooms : live[r] = "jammed"
Free    == seating = 0 /\ ~Jammed      \* the network thread, for a message
Pending == asked /\ ~ignored

Up(is, room, n) == [is |-> is, room |-> room, name |-> n]
Down(is, room, id, ids) ==
    [is |-> is, room |-> room, id |-> id, ids |-> ids,
     name |-> rooms[room].name, to |-> rooms[room].me]

Init ==
    /\ rooms = [r \in Rooms |-> NoRoom] /\ live = [r \in Rooms |-> "none"]
    /\ route = 0 /\ seating = 0
    /\ up = <<>> /\ down = <<>>
    /\ connected = FALSE /\ me = 0 /\ session = 1
    /\ waiting = "" /\ reg = Cleared /\ parting = -1 /\ main = "idle" /\ name = ""
    /\ asks = 0 /\ asked = FALSE /\ ignored = FALSE /\ left = {}
    /\ creations = 0 /\ autoJoins = 0 /\ blur = {}

----------------------------------------------------------------------------
(* The frame loop.                                                         *)

Ask(m) == /\ asks < MaxAsks /\ asks' = asks + 1                      \* bound
          /\ Len(up) < MaxWire                                       \* bound
          /\ up' = Append(up, m)

(* A second join before the first room is left: nothing in the client      *)
(* keeps the two apart.                                                    *)
Joining ==
    /\ asked' = TRUE /\ ignored' = FALSE
    /\ blur' = blur \cup (IF Pending THEN {"kept"} ELSE {})

JoinRoom(r) ==
    /\ main = "idle" /\ r \in Opened
    /\ session' = r
    /\ Ask(Up("join", r, "")) /\ Joining
    /\ UNCHANGED <<server, down, connected, me, waiting, ents, loop,
                   left, creations, autoJoins>>

RequestRoomList ==
    /\ main = "idle"
    /\ Ask(Up("list", 0, ""))
    /\ UNCHANGED <<server, down, ident, waiting, ents, loop, past, blur>>

(* The request goes out before the name is remembered.                     *)
CreateRoom(n) ==
    /\ main = "idle" /\ main' = "created" /\ name' = n
    /\ Ask(Up("create", 0, n))
    /\ creations < Cardinality(Rooms) /\ creations' = creations + 1  \* bound
    /\ UNCHANGED <<server, down, ident, waiting, ents, asked, ignored,
                   left, autoJoins, blur>>

RememberName ==
    /\ main = "created" /\ main' = "idle" /\ waiting' = name /\ name' = ""
    /\ UNCHANGED <<server, wire, ident, ents, asks, past, blur>>

(* leave_room: one PlayerLeave, then the ids are reset, then the registry. *)
LeaveRoom ==
    /\ main = "idle" /\ connected
    /\ Ask(Up("leave", 0, ""))
    /\ left' = left \cup {<<r, rooms[r].me>> : r \in {q \in Rooms : rooms[q].me # 0}}
    /\ session' = 0 /\ me' = 0 /\ connected' = FALSE
    /\ asked' = FALSE /\ ignored' = FALSE
    /\ main' = "left"
    /\ UNCHANGED <<server, down, waiting, ents, name, creations,
                   autoJoins, blur>>

\* mutant: leave_room leaves the entities where they are.
MutDropEntities ==
    /\ main = "left" /\ main' = "idle"
    /\ blur' = blur \cup (IF connected THEN {"wiped"} ELSE {})
    /\ UNCHANGED <<server, wire, ident, waiting, ents, name, asks, past>>

DropEntities ==
    /\ main = "left" /\ main' = "idle" /\ reg' = Cleared
    /\ blur' = blur \cup (IF connected THEN {"wiped"} ELSE {})
    /\ UNCHANGED <<server, wire, ident, waiting, parting, name, asks, past>>

----------------------------------------------------------------------------
(* The server, as its clients see it: Server.tla and GameSession.tla have  *)
(* its threads.                                                            *)

Sent(ms) == down' = down \o ms

InfoOf(r) == Down("info", r, 0, {})

Served == up' = Tail(up)

(* CreateRoom and ListRooms.                                               *)
ServeCreate(r) ==
    /\ Free /\ up # <<>> /\ Head(up).is = "create" /\ r \notin Opened
    /\ Served
    /\ rooms' = [rooms EXCEPT ![r].name = Head(up).name]
    /\ Sent(<<[InfoOf(r) EXCEPT !.name = Head(up).name]>>)
    /\ UNCHANGED <<live, route, seating, ident, waiting, ents, loop, asks, past, blur>>

ServeList ==
    /\ Free /\ up # <<>> /\ Head(up).is = "list"
    /\ Served
    /\ \E order \in SetToAllKPermutations(Listed) :
          /\ Len(order) = Cardinality(Listed)
          /\ Sent([i \in DOMAIN order |-> InfoOf(order[i])])
    /\ UNCHANGED <<server, ident, waiting, ents, loop, asks, past, blur>>

\* mutant: a full room refuses without a word.
MutServeJoin ==
    /\ Free /\ up # <<>> /\ Head(up).is = "join"
    /\ Served
    /\ LET r == Head(up).room room == rooms[r] n == room.last + 1 IN
       \/ /\ live[r] = "off" /\ ignored' = asked
          /\ UNCHANGED <<server, down, blur>>
       \/ /\ live[r] # "off" /\ room.me # 0
          /\ Sent(<<Down("join", r, room.me, {})>>)
          /\ route' = r /\ UNCHANGED <<rooms, live, seating, ignored, blur>>
       \/ /\ live[r] # "off" /\ room.me = 0 /\ Cardinality(room.seats) >= MaxPlayers
          /\ UNCHANGED <<server, down, ignored, blur>>
       \/ /\ live[r] # "off" /\ room.me = 0 /\ Cardinality(room.seats) < MaxPlayers
          /\ room.last < MaxId                                       \* bound
          /\ live' = [live EXCEPT ![r] = "on"]
          /\ rooms' = [rooms EXCEPT ![r].last = n, ![r].me = n, ![r].seats = @ \cup {n}]
          /\ blur' = blur \cup (IF <<r, n>> \in left THEN {"again"} ELSE {})
          /\ seating' = r /\ UNCHANGED <<route, down, ignored>>
    /\ UNCHANGED <<ident, waiting, ents, loop, asks, asked, left, creations, autoJoins>>

(* handle_player_join: nothing at all from a stopping session, the place   *)
(* again for an address that has one, "no" for a full room as a player 0,  *)
(* or a place first and the answer later.  A room without a session gets   *)
(* one, and counts its players from 1, again if it had a session before.   *)
ServeJoin ==
    /\ Free /\ up # <<>> /\ Head(up).is = "join"
    /\ Served
    /\ LET r == Head(up).room room == rooms[r] n == room.last + 1 IN
       \/ /\ live[r] = "off" /\ ignored' = asked
          /\ UNCHANGED <<server, down, blur>>
       \/ /\ live[r] # "off" /\ room.me # 0
          /\ Sent(<<Down("join", r, room.me, {})>>)
          /\ route' = r /\ UNCHANGED <<rooms, live, seating, ignored, blur>>
       \/ /\ live[r] # "off" /\ room.me = 0 /\ Cardinality(room.seats) >= MaxPlayers
          /\ Sent(<<Down("join", r, 0, {})>>) /\ UNCHANGED <<server, ignored, blur>>
       \/ /\ live[r] # "off" /\ room.me = 0 /\ Cardinality(room.seats) < MaxPlayers
          /\ room.last < MaxId                                       \* bound
          /\ live' = [live EXCEPT ![r] = "on"]
          /\ rooms' = [rooms EXCEPT ![r].last = n, ![r].me = n, ![r].seats = @ \cup {n}]
          /\ blur' = blur \cup (IF <<r, n>> \in left THEN {"again"} ELSE {})
          /\ seating' = r /\ UNCHANGED <<route, down, ignored>>
    /\ UNCHANGED <<ident, waiting, ents, loop, asks, asked, left, creations, autoJoins>>

Roster(r) == SetToSeq(rooms[r].seats \ {rooms[r].me})

AnswerJoin ==
    /\ seating # 0
    /\ LET r == seating IN
          /\ Sent(<<Down("join", r, rooms[r].me, {})>>
                  \o [i \in DOMAIN Roster(r) |-> Down("join", r, Roster(r)[i], {})])
          /\ route' = r
    /\ seating' = 0
    /\ UNCHANGED <<rooms, live, up, ident, waiting, ents, loop, asks, past, blur>>

\* mutant: the seat is freed, the client keeps its id in the room.
MutVacated(r) == [rooms EXCEPT ![r].seats = @ \ {rooms[r].me}]

Vacated(r) == [rooms EXCEPT ![r].seats = @ \ {rooms[r].me}, ![r].me = 0]

ServeLeave ==
    /\ Free /\ up # <<>> /\ Head(up).is = "leave"
    /\ Served
    /\ rooms' = IF route = 0 THEN rooms ELSE Vacated(route)
    /\ route' = 0
    /\ UNCHANGED <<live, seating, down, ident, waiting, ents, loop, asks, past, blur>>

(* check_client_timeouts: only the room a client is routed to hears of it, *)
(* and a client that is not connected sends no heartbeat.  The route is    *)
(* erased by address, whatever room it names.                              *)
TimesOut(r) ==
    /\ live[r] = "on" /\ rooms[r].me # 0 /\ seating # r
    /\ route # r \/ (~connected /\ down = <<>>)
    /\ rooms' = Vacated(r) /\ route' = 0
    /\ UNCHANGED <<live, seating, wire, ident, waiting, ents, loop, asks, past, blur>>

(* game_loop of an empty room: it stops.  A join that found it running may *)
(* have been given its place since, and gets its answer all the same.      *)
Stops(r) ==
    /\ live[r] = "on" /\ r \in Ending                                \* bound
    /\ rooms[r].seats = {} \/ (seating = r /\ rooms[r].seats = {rooms[r].me})
    /\ live' = [live EXCEPT ![r] = "off"]
    /\ UNCHANGED <<rooms, route, seating, wire, ident, waiting, ents, loop,
                   asks, past, blur>>

(* remove_session, on the network thread: its players go with it, routes   *)
(* too; the name stays.                                                    *)
Emptied(r) == [rooms EXCEPT ![r] = [name |-> rooms[r].name, seats |-> {},
                                    last |-> 0, me |-> 0]]

Removes(r) ==
    /\ live[r] = "off" /\ Free
    /\ live' = [live EXCEPT ![r] = "none"]
    /\ rooms' = Emptied(r) /\ route' = IF route = r THEN 0 ELSE route
    /\ blur' = blur \cup (IF rooms[r].me # 0 THEN {"stranded"} ELSE {})
    /\ UNCHANGED <<seating, wire, ident, waiting, ents, loop, asks, past>>

(* Anyone's join into a room whose game has started meets its game thread: *)
(* each waits for the mutex the other has (GameSession.tla).  The join in  *)
(* hand is never served, and no other message either.                      *)
Jams(r) ==
    /\ live[r] = "on" /\ Free /\ r \in Ending                        \* bound
    /\ rooms[r].last > 0 /\ Cardinality(rooms[r].seats) < MaxPlayers
    /\ live' = [live EXCEPT ![r] = "jammed"]
    /\ UNCHANGED <<rooms, route, seating, wire, ident, waiting, ents, loop,
                   asks, past, blur>>

(* Other clients of a room; this one hears of it if it has a place there.  *)
Tell(r, m) == down' = IF rooms[r].me = 0 THEN down ELSE Append(down, m)

OtherJoins(r) ==
    /\ r \in Opened /\ Free /\ live[r] # "off"
    /\ live' = [live EXCEPT ![r] = "on"]
    /\ Cardinality(rooms[r].seats) < MaxPlayers
    /\ rooms[r].last < MaxOthers[r]                                  \* bound
    /\ LET id == rooms[r].last + 1 IN
          /\ rooms' = [rooms EXCEPT ![r].last = id, ![r].seats = @ \cup {id}]
          /\ Tell(r, Down("join", r, id, {}))
    /\ UNCHANGED <<route, seating, up, ident, waiting, ents, loop, asks, past, blur>>

OtherLeaves(r, id) ==
    /\ id \in rooms[r].seats \ {rooms[r].me} /\ seating # r /\ live[r] # "jammed"
    /\ rooms' = [rooms EXCEPT ![r].seats = @ \ {id}]
    /\ Tell(r, Down("leave", r, id, {}))
    /\ UNCHANGED <<live, route, seating, up, ident, waiting, ents, loop, asks, past, blur>>

(* broadcast_moves.  Bound: one tick at a time on the wire.                *)
Tick(r) ==
    /\ live[r] = "on" /\ rooms[r].me # 0
    /\ down = <<>>                                                   \* bound
    /\ Sent(<<Down("moves", r, 0, rooms[r].seats)>>)
    /\ UNCHANGED <<server, up, ident, waiting, ents, loop, asks, past, blur>>

----------------------------------------------------------------------------
(* UDP.                                                                    *)

Udp(u, d) == /\ asks < MaxAsks /\ asks' = asks + 1                   \* bound
             /\ up' = u /\ down' = d
             /\ blur' = blur \cup {"udp"}
             /\ UNCHANGED <<server, ident, waiting, ents, loop, past>>

ToFront(s, i) == <<s[i]>> \o RemoveAt(s, i)

Lose     == \/ up # <<>> /\ Udp(Tail(up), down)
            \/ down # <<>> /\ Udp(up, Tail(down))
Double   == \/ up # <<>> /\ Udp(<<Head(up)>> \o up, down)
            \/ down # <<>> /\ Udp(up, <<Head(down)>> \o down)
Overtake == \/ \E i \in DOMAIN up \ {1} : Udp(ToFront(up, i), down)
            \/ \E i \in DOMAIN down \ {1} : Udp(up, ToFront(down, i))

----------------------------------------------------------------------------
(* The network thread: handle_server_message.                              *)

Ship(id) == [kind |-> "player", id |-> id]
Copies   == View(reg, {"player"})
CopiesOf(id) == {e \in Copies : reg.data[e].id = id}

Room(n)  == reg.next + n <= MaxCopies                                \* bound
Late(m)  == <<m.room, m.to>> \in left
Idle     == parting = -1
Taken    == down' = Tail(down)

\* mutant: every PlayerJoin is taken for the answer to the client's own join.
MutAdopt ==
    /\ Idle /\ down # <<>>
    /\ LET m == Head(down) IN
          /\ m.is = "join" /\ Room(1)
          /\ session' = m.room /\ me' = m.id /\ connected' = TRUE
          /\ reg' = Create(reg, Ship(m.id))
          /\ blur' = blur \cup (IF Late(m) THEN {"late"} ELSE {})
                          \cup (IF m.id = 0 THEN {"full"} ELSE {})
    /\ Taken
    /\ UNCHANGED <<server, up, waiting, parting, loop, asks, past>>

(* PlayerJoin while not connected: whoever it tells of, that is who the    *)
(* client is from now on.                                                  *)
Adopt ==
    /\ Idle /\ down # <<>> /\ ~connected
    /\ LET m == Head(down) IN
          /\ m.is = "join" /\ Room(1)
          /\ session' = m.room /\ me' = m.id /\ connected' = TRUE
          /\ reg' = Create(reg, Ship(m.id))
          /\ blur' = blur \cup (IF Late(m) THEN {"late"} ELSE {})
                          \cup (IF m.id = 0 THEN {"full"} ELSE {})
    /\ Taken
    /\ UNCHANGED <<server, up, waiting, parting, loop, asks, past>>

(* PlayerJoin while connected: another player.                             *)
Meet ==
    /\ Idle /\ down # <<>> /\ connected
    /\ LET m == Head(down) IN
          /\ m.is = "join"
          /\ IF CopiesOf(m.id) # {} THEN UNCHANGED reg
             ELSE Room(1) /\ reg' = Create(reg, Ship(m.id))
          /\ blur' = blur \cup (IF Late(m) THEN {"late"} ELSE {})
    /\ Taken
    /\ UNCHANGED <<server, up, ident, waiting, parting, loop, asks, past>>

(* PlayerMove: a ship for every player that has none, connected or not.    *)
Move ==
    /\ Idle /\ down # <<>>
    /\ LET m == Head(down)
           new == SetToSeq({id \in m.ids : CopiesOf(id) = {}})
       IN  /\ m.is = "moves" /\ Room(Len(new))
           /\ reg' = CreateAll(reg, [i \in DOMAIN new |-> Ship(new[i])])
           /\ blur' = blur \cup (IF Late(m) THEN {"late"} ELSE {})
                           \cup (IF connected THEN {} ELSE {"early"})
    /\ Taken
    /\ UNCHANGED <<server, up, ident, waiting, parting, loop, asks, past>>

(* PlayerLeave: the first entity found with the id goes, in a critical     *)
(* section of its own.                                                     *)
FindLeaver ==
    /\ Idle /\ down # <<>>
    /\ LET m == Head(down) IN
          /\ m.is = "leave"
          /\ \/ \E e \in CopiesOf(m.id) : parting' = e
             \/ CopiesOf(m.id) = {} /\ UNCHANGED parting
          /\ blur' = blur \cup (IF Late(m) THEN {"late"} ELSE {})
    /\ Taken
    /\ UNCHANGED <<server, up, ident, waiting, reg, loop, asks, past>>

DestroyLeaver ==
    /\ ~Idle /\ parting' = -1
    /\ reg' = Destroy(reg, {parting})
    /\ UNCHANGED <<server, wire, ident, waiting, loop, asks, past, blur>>

\* mutant: the name stays pending after the room was joined.
MutReadInfo ==
    /\ Idle /\ down # <<>>
    /\ LET m == Head(down) IN
          /\ m.is = "info"
          /\ \/ /\ waiting # "" /\ m.name = waiting
                /\ session' = m.room /\ UNCHANGED waiting
                /\ up' = Append(up, Up("join", m.room, ""))
                /\ autoJoins' = autoJoins + 1
                /\ Joining /\ UNCHANGED <<left, creations>>
             \/ /\ waiting = "" \/ m.name # waiting
                /\ UNCHANGED <<session, waiting, up, past, blur>>
    /\ Taken
    /\ UNCHANGED <<server, connected, me, ents, loop, asks>>

(* RoomInfo: of the room just created, the client joins it at once.  An    *)
(* answer read before RememberName is not taken for one.                   *)
ReadInfo ==
    /\ Idle /\ down # <<>>
    /\ LET m == Head(down) IN
          /\ m.is = "info"
          /\ \/ /\ waiting # "" /\ m.name = waiting
                /\ session' = m.room /\ waiting' = ""
                /\ up' = Append(up, Up("join", m.room, ""))
                /\ autoJoins' = autoJoins + 1
                /\ Joining /\ UNCHANGED <<left, creations>>
             \/ /\ waiting = "" \/ m.name # waiting
                /\ UNCHANGED <<session, waiting, up, past, blur>>
    /\ Taken
    /\ UNCHANGED <<server, connected, me, ents, loop, asks>>

Handle == Adopt \/ Meet \/ Move \/ FindLeaver \/ DestroyLeaver \/ ReadInfo

----------------------------------------------------------------------------

User == \/ \E r \in Rooms : JoinRoom(r)
        \/ \E n \in Names : CreateRoom(n)
        \/ RequestRoomList \/ LeaveRoom

Serve == \/ \E r \in Rooms : ServeCreate(r)
         \/ ServeList \/ ServeJoin \/ ServeLeave

Others == \E r \in Rooms : \/ OtherJoins(r) \/ Tick(r) \/ TimesOut(r)
                           \/ Stops(r) \/ Removes(r) \/ Jams(r)
                           \/ \E id \in Ids : OtherLeaves(r, id)

Next == \/ User \/ RememberName \/ DropEntities
        \/ Serve \/ AnswerJoin \/ Others
        \/ Lose \/ Double \/ Overtake
        \/ Handle

(* The threads run, and what UDP does not lose arrives.                    *)
Fairness == WF_vars(Serve) /\ WF_vars(AnswerJoin) /\ WF_vars(Handle)
            /\ WF_vars(RememberName) /\ WF_vars(DropEntities)

Spec == Init /\ [][Next]_vars /\ Fairness

----------------------------------------------------------------------------
(* Properties.                                                             *)

UpMsgs   == [is : {"create", "list", "join", "leave"}, room : Rooms \cup {0},
             name : Names \cup {""}]
DownMsgs == [is : {"join", "leave", "moves", "info"}, room : Rooms, id : 0..MaxId,
             ids : SUBSET Ids, name : Names \cup {""}, to : 0..MaxId]
RoomType == [name : Names \cup {""}, seats : SUBSET Ids, last : 0..MaxId, me : 0..MaxId]

TypeOK ==
    /\ rooms \in [Rooms -> RoomType]
    /\ \A r \in Rooms : rooms[r].me # 0 => rooms[r].me \in rooms[r].seats
    /\ live \in [Rooms -> {"none", "on", "off", "jammed"}]
    /\ route \in Rooms \cup {0} /\ seating \in Rooms \cup {0}
    /\ up \in Seq(UpMsgs) /\ down \in Seq(DownMsgs)
    /\ connected \in BOOLEAN /\ me \in 0..MaxId /\ session \in Rooms \cup {0, 1}
    /\ waiting \in Names \cup {""}
    /\ parting \in {-1} \cup Nat
    /\ RegistryOK(reg, [kind : {"player"}, id : 0..MaxId])
    /\ main \in {"idle", "created", "left"} /\ name \in Names \cup {""}

(* A connected client is the player the server has at its address, in the  *)
(* room it believes to be in, unless UDP failed it, it was told so late    *)
(* that it had left, it never left its last room, it was refused, the      *)
(* session was removed with its place in it, or a later session of a room  *)
(* it had left gave it the same id again.                                  *)
IdentityIsOwn ==
    connected /\ blur \subseteq {"early", "wiped"} =>
       session \in Rooms /\ me # 0 /\ me = rooms[session].me /\ route \in {session, 0}

(* With nothing on the way, the client shows the players of its room, each *)
(* once, unless one of those things or moves before the answer to the join *)
(* came in between.                                                        *)
ScreenMatchesRoom ==
    connected /\ blur = {} /\ down = <<>> /\ Idle /\ main = "idle" =>
       /\ {reg.data[e].id : e \in Copies} = rooms[session].seats
       /\ Cardinality(Copies) = Cardinality(rooms[session].seats)

(* A room that was asked for is joined by itself at most once, however     *)
(* often lists of rooms come in that name it.                              *)
OneJoinPerCreation == autoJoins <= creations

(* Whoever asks for a place gets an answer, a place or a refusal, unless   *)
(* UDP loses it, the session is stopping and drops the join without a word *)
(* (handle_player_join returns before it sends anything), or a room is     *)
(* deadlocked with the network thread and nobody is answered any more.     *)
AskedIsAnswered == asked ~> (connected \/ ignored \/ Jammed \/ "udp" \in blur)
=============================================================================

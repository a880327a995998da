------------------------- MODULE ClientSessionProofs -------------------------
(***************************************************************************)
(* What TLAPS proves of a client and its rooms, for every set of rooms and *)
(* names, any number of other players, and every bound.                    *)
(***************************************************************************)
EXTENDS ClientSession, FiniteSetTheorems, SequenceTheorems, TLAPS

(* Every join the client sends of itself was asked for by a create_room of *)
(* its own: one that is under way in create_room, one that is waited for,  *)
(* and the ones that were used up add up to no more than were asked for.   *)
Waits   == waiting # ""
Creates == main = "created"

CreationInv == /\ creations \in Nat /\ autoJoins \in Nat
               /\ autoJoins <= creations
               /\ Waits \/ Creates => autoJoins + 1 <= creations
               /\ Waits /\ Creates => autoJoins + 2 <= creations

LEMMA CreationInit == Init => CreationInv
<1> SUFFICES ASSUME Init
             PROVE  CreationInv
    OBVIOUS
<1>1. ~Waits /\ ~Creates
    BY DEF Init, Waits, Creates
<1>2. creations = 0 /\ autoJoins = 0
    BY DEF Init
<1> QED
    BY <1>1, <1>2 DEF CreationInv

LEMMA CreationNext == CreationInv /\ [Next]_vars => CreationInv'
<1> SUFFICES ASSUME CreationInv, [Next]_vars
             PROVE  CreationInv'
    OBVIOUS
<1> DEFINE Counted == UNCHANGED <<creations, autoJoins>>
<1>1. Counted /\ (Waits' => Waits) /\ (Creates' => Creates) => CreationInv'
    BY DEF CreationInv
<1>2. UNCHANGED <<waiting, main>> => (Waits' => Waits) /\ (Creates' => Creates)
    BY DEF Waits, Creates
<1> HIDE DEF Counted
<1>3. CASE UNCHANGED vars
    BY <1>1, <1>2, <1>3 DEF Counted, vars, past, loop
<1>4. CASE User
  <2>1. ASSUME NEW n \in Names, CreateRoom(n)
        PROVE  CreationInv'
    <3>1. creations' = creations + 1 /\ autoJoins' = autoJoins
        BY <2>1 DEF CreateRoom
    <3>2. ~Creates /\ (Waits' => Waits)
        BY <2>1 DEF CreateRoom, Waits, Creates
    <3> QED
        BY <3>1, <3>2 DEF CreationInv
  <2>2. CASE \E r \in Rooms : JoinRoom(r)
      BY <1>1, <1>2, <2>2 DEF JoinRoom, Counted, loop
  <2>3. CASE RequestRoomList
      BY <1>1, <1>2, <2>3 DEF RequestRoomList, Counted, loop, past
  <2>4. CASE LeaveRoom
    <3>1. (Waits' => Waits) /\ ~Creates'
        BY <2>4 DEF LeaveRoom, Waits, Creates
    <3> QED
        BY <1>1, <2>4, <3>1 DEF LeaveRoom, Counted
  <2> QED
      BY <1>4, <2>1, <2>2, <2>3, <2>4 DEF User
<1>5. CASE RememberName
  <2>1. Creates /\ ~Creates'
      BY <1>5 DEF RememberName, Creates
  <2>2. creations' = creations /\ autoJoins' = autoJoins
      BY <1>5 DEF RememberName, past
  <2> QED
      BY <2>1, <2>2 DEF CreationInv
<1>6. CASE DropEntities
  <2>1. (Waits' => Waits) /\ ~Creates'
      BY <1>6 DEF DropEntities, Waits, Creates
  <2> QED
      BY <1>1, <1>6, <2>1 DEF DropEntities, Counted, past
<1>7. CASE Serve \/ AnswerJoin \/ Others
    BY <1>1, <1>2, <1>7
       DEF Serve, ServeCreate, ServeList, ServeJoin, ServeLeave, AnswerJoin,
           Others, OtherJoins, Tick, TimesOut, Stops, Removes, Jams, OtherLeaves,
           Counted, loop, past
<1>8. CASE Lose \/ Double \/ Overtake
    BY <1>1, <1>2, <1>8 DEF Lose, Double, Overtake, Udp, Counted, loop, past
<1>9. CASE Handle
  <2>1. CASE ReadInfo
    <3>1. CASE UNCHANGED <<waiting, past>>
        BY <1>1, <1>2, <2>1, <3>1 DEF ReadInfo, Counted, past, loop
    <3>2. CASE /\ waiting # "" /\ waiting' = ""
               /\ autoJoins' = autoJoins + 1 /\ creations' = creations
      <4>1. Waits /\ ~Waits'
          BY <3>2 DEF Waits
      <4>2. Creates' => Creates
          BY <2>1 DEF ReadInfo, Creates, loop
      <4>3. autoJoins' = autoJoins + 1 /\ creations' = creations
          BY <3>2
      <4> QED
          BY <4>1, <4>2, <4>3 DEF CreationInv
    <3> QED
        BY <2>1, <3>1, <3>2 DEF ReadInfo
  <2>2. CASE Adopt \/ Meet \/ Move \/ FindLeaver \/ DestroyLeaver
      BY <1>1, <1>2, <2>2
         DEF Adopt, Meet, Move, FindLeaver, DestroyLeaver, Counted, loop, past
  <2> QED
      BY <1>9, <2>1, <2>2 DEF Handle
<1> QED
    BY <1>3, <1>4, <1>5, <1>6, <1>7, <1>8, <1>9 DEF Next

(* A RoomInfo makes the client join a room of itself at most once for each *)
(* create_room, whatever lists of rooms come in, in whatever order, lost   *)
(* or repeated, and whenever the name is remembered.                       *)
THEOREM RoomsAreJoinedOnce == Spec => []OneJoinPerCreation
<1>1. CreationInv => OneJoinPerCreation
    BY DEF CreationInv, OneJoinPerCreation
<1> QED
    BY <1>1, CreationInit, CreationNext, PTL DEF Spec

----------------------------------------------------------------------------
(* Types.  The wire up carries a join for a room that exists only.         *)

Labels  == Names \cup {""}
AskMsgs == {m \in UpMsgs : m.is = "join" => m.room \in Rooms}
Ships   == [kind : {"player"}, id : 0..MaxId]

RoomsOK  == /\ rooms \in [Rooms -> RoomType]
            /\ \A r \in Rooms : rooms[r].me # 0 => rooms[r].me \in rooms[r].seats
            /\ route \in Rooms \cup {0} /\ seating \in Rooms \cup {0}
WireOK   == up \in Seq(AskMsgs) /\ down \in Seq(DownMsgs)
ClientOK == /\ connected \in BOOLEAN /\ me \in 0..MaxId /\ session \in Rooms \cup {0, 1}
            /\ parting \in {-1} \cup Nat
            /\ RegistryOK(reg, Ships)
            /\ main \in {"idle", "created", "left"}
NamesOK  == waiting \in Labels /\ name \in Labels

TypeInv == RoomsOK /\ WireOK /\ ClientOK /\ NamesOK

LEMMA Bounds ==
    /\ Rooms \subseteq Nat \ {0} /\ IsFiniteSet(Rooms)
    /\ MaxPlayers \in Nat \ {0} /\ MaxId \in Nat /\ MaxOthers \in [Rooms -> 0..MaxId]
BY ClientAssumption, Zenon

LiveOK  == live \in [Rooms -> {"none", "on", "off", "jammed"}]

LEMMA LiveNext == LiveOK /\ [Next]_vars => LiveOK'
<1>1. ASSUME LiveOK, NEW r, NEW s \in {"none", "on", "off", "jammed"},
             live' = live \/ live' = [live EXCEPT ![r] = s]
      PROVE  LiveOK'
    BY <1>1 DEF LiveOK
<1> SUFFICES ASSUME LiveOK, [Next]_vars
             PROVE  LiveOK'
    OBVIOUS
<1>2. CASE UNCHANGED vars \/ User \/ RememberName \/ DropEntities \/ AnswerJoin \/ Handle
    BY <1>1, <1>2 DEF vars, server, User, JoinRoom, CreateRoom, RequestRoomList, LeaveRoom,
       RememberName, DropEntities, AnswerJoin, Handle, Adopt, Meet, Move, FindLeaver,
       DestroyLeaver, ReadInfo
<1>3. CASE Serve
    BY <1>1, <1>3 DEF Serve, ServeCreate, ServeList, ServeJoin, ServeLeave, server
<1>4. CASE Others
    BY <1>1, <1>4 DEF Others, OtherJoins, OtherLeaves, Tick, TimesOut, Stops, Removes, Jams, server
<1>5. CASE Lose \/ Double \/ Overtake
    BY <1>1, <1>5 DEF Lose, Double, Overtake, Udp, server
<1> QED
    BY <1>2, <1>3, <1>4, <1>5 DEF Next

LEMMA TypeInvIsTypeOK == TypeInv /\ LiveOK => TypeOK
<1>1. \A s \in Seq(AskMsgs) : s \in Seq(UpMsgs)
    BY DEF AskMsgs
<1> QED
    BY <1>1 DEF TypeInv, LiveOK, TypeOK, RoomsOK, WireOK, ClientOK, NamesOK, Labels, Ships

LEMMA UpIsAsked ==
    ASSUME NEW is \in {"create", "list", "join", "leave"}, NEW room \in Rooms \cup {0},
           NEW n \in Labels, is = "join" => room \in Rooms
    PROVE  Up(is, room, n) \in AskMsgs
BY DEF Up, AskMsgs, UpMsgs, Labels

LEMMA RoomFields ==
    ASSUME RoomsOK, NEW r \in Rooms
    PROVE  /\ rooms[r].name \in Labels /\ rooms[r].seats \subseteq Ids
           /\ rooms[r].last \in 0..MaxId /\ rooms[r].me \in 0..MaxId
           /\ rooms[r] = [name |-> rooms[r].name, seats |-> rooms[r].seats,
                          last |-> rooms[r].last, me |-> rooms[r].me]
BY DEF RoomsOK, RoomType, Labels

LEMMA DownIsMsg ==
    ASSUME RoomsOK, NEW is \in {"join", "leave", "moves", "info"}, NEW r \in Rooms,
           NEW id \in 0..MaxId, NEW ids \in SUBSET Ids
    PROVE  Down(is, r, id, ids) \in DownMsgs
BY RoomFields DEF Down, DownMsgs, Labels

LEMMA MakeRoom ==
    ASSUME NEW n \in Labels, NEW s \in SUBSET Ids, NEW l \in 0..MaxId, NEW i \in 0..MaxId
    PROVE  [name |-> n, seats |-> s, last |-> l, me |-> i] \in RoomType
BY DEF RoomType, Labels

LEMMA InitTypes == Init => TypeInv
<1> SUFFICES ASSUME Init
             PROVE  TypeInv
    OBVIOUS
<1>1. "" \in Labels
    BY DEF Labels
<1>2. 0 \in 0..MaxId
    BY Bounds
<1>3. NoRoom \in RoomType /\ NoRoom.me = 0
    BY <1>1, <1>2, MakeRoom DEF NoRoom
<1>4. RoomsOK
    BY <1>3 DEF Init, RoomsOK
<1>5. WireOK
  <2>1. \A S : <<>> \in Seq(S)
      OBVIOUS
  <2> QED
      BY <2>1, Zenon DEF Init, WireOK
<1>6. RegistryOK(Cleared, Ships)
    BY DEF RegistryOK, Cleared, Numbers
<1>7. ClientOK
    BY <1>2, <1>6 DEF Init, ClientOK
<1>8. NamesOK
    BY <1>1 DEF Init, NamesOK
<1> QED
    BY <1>4, <1>5, <1>7, <1>8 DEF TypeInv

(* What the wire does to a sequence.                                       *)
LEMMA Queues ==
    ASSUME NEW S, NEW s \in Seq(S)
    PROVE  /\ \A x \in S : Append(s, x) \in Seq(S) /\ <<x>> \o s \in Seq(S)
           /\ \A t \in Seq(S) : s \o t \in Seq(S)
           /\ s # <<>> => Head(s) \in S /\ Tail(s) \in Seq(S)
           /\ \A x \in S : <<x>> \in Seq(S)
OBVIOUS

LEMMA FrontOfQueue ==
    ASSUME NEW S, NEW s \in Seq(S), NEW i \in DOMAIN s
    PROVE  ToFront(s, i) \in Seq(S)
<1>1. s[i] \in S /\ i \in 1..Len(s)
    OBVIOUS
<1>2. SubSeq(s, 1, i - 1) \in Seq(S)
    BY <1>1
<1>3. SubSeq(s, i + 1, Len(s)) \in Seq(S)
    BY <1>1
<1>4. SubSeq(s, 1, i - 1) \o SubSeq(s, i + 1, Len(s)) \in Seq(S)
    BY <1>2, <1>3, Queues
<1> QED
    BY <1>1, <1>4, Queues DEF ToFront, RemoveAt

LEMMA SetAsQueue ==
    ASSUME NEW S, IsFiniteSet(S)
    PROVE  SetToSeq(S) \in Seq(S)
<1>1. PICK n \in Nat : ExistsBijection(1..n, S)
    BY FS_NatBijection
<1>2. Cardinality(S) = n
    BY <1>1, FS_CountingElements
<1>3. PICK f : f \in Bijection(1..n, S)
    BY <1>1 DEF ExistsBijection
<1>4. f \in [1..n -> S] /\ IsInjective(f)
    BY <1>3 DEF Bijection, Injection, IsInjective
<1>5. SetToSeq(S) \in [1..n -> S]
    BY <1>2, <1>4 DEF SetToSeq
<1> QED
    BY <1>5

LEMMA OrdersAreQueues ==
    ASSUME NEW S, IsFiniteSet(S), NEW order \in SetToAllKPermutations(S)
    PROVE  order \in Seq(S)
<1>1. PICK s \in SUBSET S : order \in SetToSeqs(s)
    BY DEF SetToAllKPermutations
<1>2. IsFiniteSet(s) /\ Cardinality(s) \in Nat
    BY <1>1, FS_Subset, FS_CardinalityType
<1>3. order \in [1..Cardinality(s) -> s]
    BY <1>1 DEF SetToSeqs
<1> QED
    BY <1>1, <1>2, <1>3

LEMMA IdsAreFinite ==
    ASSUME NEW S \in SUBSET Ids
    PROVE  IsFiniteSet(S) /\ Cardinality(S) \in Nat
<1>1. IsFiniteSet(Ids)
    BY Bounds, FS_Interval DEF Ids
<1> QED
    BY <1>1, FS_Subset, FS_CardinalityType

LEMMA ListedAreFinite == IsFiniteSet(Listed) /\ Listed \subseteq Rooms
<1>1. Listed \subseteq Rooms
    BY DEF Listed
<1> QED
    BY <1>1, Bounds, FS_Subset

LEMMA ShipsCreated ==
    ASSUME NEW r, RegistryOK(r, Ships), NEW new \in Seq(Ships)
    PROVE  RegistryOK(CreateAll(r, new), Ships)
<1> DEFINE upto == r.next + Len(new) - 1
           D == [e \in 0..upto |-> IF e < r.next THEN r.data[e] ELSE new[e - r.next + 1]]
<1>1. /\ CreateAll(r, new).next = r.next + Len(new)
      /\ CreateAll(r, new).valid = r.valid \cup r.next..upto
      /\ CreateAll(r, new).data = D
    BY DEF CreateAll
<1>2. r.next \in Nat /\ Len(new) \in Nat /\ r.valid \subseteq 0..(r.next - 1)
    BY DEF RegistryOK, Numbers
<1>3. ASSUME NEW e \in 0..upto
      PROVE  D[e] \in Ships
  <2>1. CASE e < r.next
    <3>1. e \in 0..(r.next - 1)
        BY <1>2, <2>1
    <3>2. r.data[e] \in Ships
        BY <3>1 DEF RegistryOK, Numbers
    <3> QED
        BY <2>1, <3>2
  <2>2. CASE ~(e < r.next)
    <3>1. e - r.next + 1 \in 1..Len(new)
        BY <1>2, <2>2
    <3>2. new[e - r.next + 1] \in Ships
        BY <3>1
    <3> QED
        BY <2>2, <3>2
  <2> QED
      BY <2>1, <2>2
<1>4. D \in [0..upto -> Ships]
    BY <1>3
<1>5. (r.next + Len(new)) - 1 = upto
    BY <1>2
<1>6. r.valid \cup r.next..upto \subseteq 0..upto
    BY <1>2
<1> HIDE DEF D, upto
<1> QED
    BY <1>1, <1>2, <1>4, <1>5, <1>6 DEF RegistryOK, Numbers

LEMMA ShipCreated ==
    ASSUME NEW r, RegistryOK(r, Ships), NEW id \in 0..MaxId
    PROVE  RegistryOK(Create(r, Ship(id)), Ships)
<1>1. Ship(id) \in Ships
    BY DEF Ship, Ships
<1>2. <<Ship(id)>> \in Seq(Ships)
    BY <1>1
<1> QED
    BY <1>2, ShipsCreated DEF Create

LEMMA ShipDestroyed ==
    ASSUME NEW r, RegistryOK(r, Ships), NEW gone
    PROVE  RegistryOK(Destroy(r, gone), Ships)
BY DEF Destroy, RegistryOK, Numbers

(* The fields of a room, one by one.                                       *)
LEMMA EditedRecord ==
    ASSUME NEW a, NEW b, NEW c, NEW d, NEW n, NEW s, NEW l, NEW i
    PROVE  /\ [[name |-> a, seats |-> b, last |-> c, me |-> d] EXCEPT !.name = n] =
                  [name |-> n, seats |-> b, last |-> c, me |-> d]
           /\ [[name |-> a, seats |-> b, last |-> c, me |-> d] EXCEPT !.seats = s] =
                  [name |-> a, seats |-> s, last |-> c, me |-> d]
           /\ [[name |-> a, seats |-> b, last |-> c, me |-> d] EXCEPT !.last = l] =
                  [name |-> a, seats |-> b, last |-> l, me |-> d]
           /\ [[name |-> a, seats |-> b, last |-> c, me |-> d] EXCEPT !.me = i] =
                  [name |-> a, seats |-> b, last |-> c, me |-> i]
OBVIOUS

LEMMA RoomRenamed ==
    ASSUME RoomsOK, NEW r \in Rooms, NEW n
    PROVE  [rooms EXCEPT ![r].name = n] =
              [rooms EXCEPT ![r] = [name |-> n, seats |-> rooms[r].seats,
                                    last |-> rooms[r].last, me |-> rooms[r].me]]
<1> DEFINE a == rooms[r].name
           b == rooms[r].seats
           c == rooms[r].last
           d == rooms[r].me
           R == rooms[r]
<1>1. R = [name |-> a, seats |-> b, last |-> c, me |-> d]
    BY RoomFields
<1>2. rooms = [q \in Rooms |-> rooms[q]]
    BY DEF RoomsOK
<1>3. [rooms EXCEPT ![r].name = n] = [rooms EXCEPT ![r] = [R EXCEPT !.name = n]]
    BY <1>2
<1>4. [R EXCEPT !.name = n] =
          [name |-> n, seats |-> b, last |-> c, me |-> d]
    BY <1>1, EditedRecord
<1> QED
    BY <1>3, <1>4, Zenon

LEMMA RoomReseated ==
    ASSUME RoomsOK, NEW r \in Rooms, NEW s
    PROVE  [rooms EXCEPT ![r].seats = s] =
              [rooms EXCEPT ![r] = [name |-> rooms[r].name, seats |-> s,
                                    last |-> rooms[r].last, me |-> rooms[r].me]]
<1> DEFINE a == rooms[r].name
           b == rooms[r].seats
           c == rooms[r].last
           d == rooms[r].me
           R == rooms[r]
<1>1. R = [name |-> a, seats |-> b, last |-> c, me |-> d]
    BY RoomFields
<1>2. rooms = [q \in Rooms |-> rooms[q]]
    BY DEF RoomsOK
<1>3. [rooms EXCEPT ![r].seats = s] = [rooms EXCEPT ![r] = [R EXCEPT !.seats = s]]
    BY <1>2
<1>4. [R EXCEPT !.seats = s] =
          [name |-> a, seats |-> s, last |-> c, me |-> d]
    BY <1>1, EditedRecord
<1> QED
    BY <1>3, <1>4, Zenon

LEMMA RoomLeft ==
    ASSUME RoomsOK, NEW r \in Rooms, NEW s, NEW i
    PROVE  [rooms EXCEPT ![r].seats = s, ![r].me = i] =
              [rooms EXCEPT ![r] = [name |-> rooms[r].name, seats |-> s,
                                    last |-> rooms[r].last, me |-> i]]
<1> DEFINE a == rooms[r].name
           b == rooms[r].seats
           c == rooms[r].last
           d == rooms[r].me
           R == rooms[r]
<1>1. R = [name |-> a, seats |-> b, last |-> c, me |-> d]
    BY RoomFields
<1>2. rooms = [q \in Rooms |-> rooms[q]]
    BY DEF RoomsOK
<1>3. [rooms EXCEPT ![r].seats = s, ![r].me = i] = [rooms EXCEPT ![r] = [R EXCEPT !.seats = s, !.me = i]]
    BY <1>2
<1>4. [R EXCEPT !.seats = s] =
          [name |-> a, seats |-> s, last |-> c, me |-> d]
    BY <1>1, EditedRecord
<1>5. [[name |-> a, seats |-> s, last |-> c, me |-> d] EXCEPT !.me = i] =
          [name |-> a, seats |-> s, last |-> c, me |-> i]
    BY EditedRecord
<1>6. [R EXCEPT !.seats = s, !.me = i] = [[R EXCEPT !.seats = s] EXCEPT !.me = i]
    BY Zenon
<1> QED
    BY <1>3, <1>4, <1>5, <1>6, Zenon

LEMMA RoomFilled ==
    ASSUME RoomsOK, NEW r \in Rooms, NEW l, NEW s
    PROVE  [rooms EXCEPT ![r].last = l, ![r].seats = s] =
              [rooms EXCEPT ![r] = [name |-> rooms[r].name, seats |-> s,
                                    last |-> l, me |-> rooms[r].me]]
<1> DEFINE a == rooms[r].name
           b == rooms[r].seats
           c == rooms[r].last
           d == rooms[r].me
           R == rooms[r]
<1>1. R = [name |-> a, seats |-> b, last |-> c, me |-> d]
    BY RoomFields
<1>2. rooms = [q \in Rooms |-> rooms[q]]
    BY DEF RoomsOK
<1>3. [rooms EXCEPT ![r].last = l, ![r].seats = s] = [rooms EXCEPT ![r] = [R EXCEPT !.last = l, !.seats = s]]
    BY <1>2
<1>4. [R EXCEPT !.last = l] =
          [name |-> a, seats |-> b, last |-> l, me |-> d]
    BY <1>1, EditedRecord
<1>5. [[name |-> a, seats |-> b, last |-> l, me |-> d] EXCEPT !.seats = s] =
          [name |-> a, seats |-> s, last |-> l, me |-> d]
    BY EditedRecord
<1>6. [R EXCEPT !.last = l, !.seats = s] = [[R EXCEPT !.last = l] EXCEPT !.seats = s]
    BY Zenon
<1> QED
    BY <1>3, <1>4, <1>5, <1>6, Zenon

LEMMA RoomTaken ==
    ASSUME RoomsOK, NEW r \in Rooms, NEW l, NEW i, NEW s
    PROVE  [rooms EXCEPT ![r].last = l, ![r].me = i, ![r].seats = s] =
              [rooms EXCEPT ![r] = [name |-> rooms[r].name, seats |-> s,
                                    last |-> l, me |-> i]]
<1> DEFINE a == rooms[r].name
           b == rooms[r].seats
           c == rooms[r].last
           d == rooms[r].me
           R == rooms[r]
<1>1. R = [name |-> a, seats |-> b, last |-> c, me |-> d]
    BY RoomFields
<1>2. rooms = [q \in Rooms |-> rooms[q]]
    BY DEF RoomsOK
<1>3. [rooms EXCEPT ![r].last = l, ![r].me = i, ![r].seats = s] = [rooms EXCEPT ![r] = [R EXCEPT !.last = l, !.me = i, !.seats = s]]
    BY <1>2
<1>4. [R EXCEPT !.last = l] =
          [name |-> a, seats |-> b, last |-> l, me |-> d]
    BY <1>1, EditedRecord
<1>5. [[name |-> a, seats |-> b, last |-> l, me |-> d] EXCEPT !.me = i] =
          [name |-> a, seats |-> b, last |-> l, me |-> i]
    BY EditedRecord
<1>6. [[name |-> a, seats |-> b, last |-> l, me |-> i] EXCEPT !.seats = s] =
          [name |-> a, seats |-> s, last |-> l, me |-> i]
    BY EditedRecord
<1>7. [R EXCEPT !.last = l, !.me = i, !.seats = s] = [[[R EXCEPT !.last = l] EXCEPT !.me = i] EXCEPT !.seats = s]
    BY Zenon
<1> QED
    BY <1>3, <1>4, <1>5, <1>6, <1>7, Zenon

LEMMA RoomChanged ==
    ASSUME RoomsOK, NEW r \in Rooms, NEW new \in RoomType,
           new.me # 0 => new.me \in new.seats,
           rooms' = [rooms EXCEPT ![r] = new],
           route' \in Rooms \cup {0}, seating' \in Rooms \cup {0}
    PROVE  RoomsOK'
BY DEF RoomsOK

LEMMA RoomVacated ==
    ASSUME RoomsOK, NEW r \in Rooms, rooms' = Vacated(r),
           route' \in Rooms \cup {0}, seating' \in Rooms \cup {0}
    PROVE  RoomsOK'
<1> DEFINE new == [name |-> rooms[r].name, seats |-> rooms[r].seats \ {rooms[r].me},
                   last |-> rooms[r].last, me |-> 0]
<1>1. 0 \in 0..MaxId
    BY Bounds
<1>2. new \in RoomType
    BY <1>1, RoomFields, MakeRoom
<1>3. rooms' = [rooms EXCEPT ![r].seats = rooms[r].seats \ {rooms[r].me}, ![r].me = 0]
    BY DEF Vacated
<1>5. \A s, i : [rooms EXCEPT ![r].seats = s, ![r].me = i] =
                [rooms EXCEPT ![r] = [name |-> rooms[r].name, seats |-> s,
                                      last |-> rooms[r].last, me |-> i]]
    BY RoomLeft
<1>6. rooms' = [rooms EXCEPT ![r] = new]
    BY <1>3, <1>5
<1>4. new.me = 0
    OBVIOUS
<1> HIDE DEF new
<1> QED
    BY <1>2, <1>6, <1>4, RoomChanged

LEMMA RoomEmptied ==
    ASSUME RoomsOK, NEW r \in Rooms, rooms' = Emptied(r),
           route' \in Rooms \cup {0}, seating' \in Rooms \cup {0}
    PROVE  RoomsOK'
<1> DEFINE new == [name |-> rooms[r].name, seats |-> {}, last |-> 0, me |-> 0]
<1>1. new \in RoomType
  <2>1. 0 \in 0..MaxId
      BY Bounds
  <2>2. rooms[r].name \in Labels
      BY RoomFields
  <2> QED
      BY <2>1, <2>2, MakeRoom
<1>2. rooms' = [rooms EXCEPT ![r] = new]
    BY DEF Emptied
<1>3. new.me = 0
    OBVIOUS
<1> HIDE DEF new
<1> QED
    BY <1>1, <1>2, <1>3, RoomChanged

LEMMA UserTypes ==
    ASSUME TypeInv, User \/ RememberName \/ DropEntities
    PROVE  TypeInv'
<1>0. RoomsOK /\ WireOK /\ ClientOK /\ NamesOK
    BY DEF TypeInv
<1>1. ASSUME NEW r \in Rooms, JoinRoom(r)
      PROVE  TypeInv'
  <2>1. /\ up' = Append(up, Up("join", r, "")) /\ session' = r
        /\ UNCHANGED <<rooms, route, seating, down, connected, me, waiting, reg,
                       parting, main, name>>
      BY <1>1 DEF JoinRoom, Ask, server, ents, loop
  <2>2. Up("join", r, "") \in AskMsgs
      BY UpIsAsked DEF Labels
  <2>3. RoomsOK' /\ ClientOK' /\ NamesOK'
      BY <1>0, <2>1 DEF RoomsOK, ClientOK, NamesOK
  <2>4. WireOK'
      BY <1>0, <2>1, <2>2, Queues DEF WireOK
  <2> QED
      BY <2>3, <2>4 DEF TypeInv
<1>2. CASE RequestRoomList
  <2>1. /\ up' = Append(up, Up("list", 0, ""))
        /\ UNCHANGED <<rooms, route, seating, down, connected, me, session,
                       waiting, reg, parting, main, name>>
      BY <1>2 DEF RequestRoomList, Ask, server, ident, ents, loop
  <2>2. Up("list", 0, "") \in AskMsgs
      BY UpIsAsked DEF Labels
  <2>3. RoomsOK' /\ ClientOK' /\ NamesOK'
      BY <1>0, <2>1 DEF RoomsOK, ClientOK, NamesOK
  <2>4. WireOK'
      BY <1>0, <2>1, <2>2, Queues DEF WireOK
  <2> QED
      BY <2>3, <2>4 DEF TypeInv
<1>3. ASSUME NEW n \in Names, CreateRoom(n)
      PROVE  TypeInv'
  <2>1. /\ up' = Append(up, Up("create", 0, n)) /\ main' = "created" /\ name' = n
        /\ UNCHANGED <<rooms, route, seating, down, connected, me, session,
                       waiting, reg, parting>>
      BY <1>3 DEF CreateRoom, Ask, server, ident, ents
  <2>2. n \in Labels
      BY DEF Labels
  <2>3. Up("create", 0, n) \in AskMsgs
      BY <2>2, UpIsAsked
  <2>4. RoomsOK' /\ ClientOK' /\ NamesOK'
      BY <1>0, <2>1, <2>2 DEF RoomsOK, ClientOK, NamesOK
  <2>5. WireOK'
      BY <1>0, <2>1, <2>3, Queues DEF WireOK
  <2> QED
      BY <2>4, <2>5 DEF TypeInv
<1>4. CASE LeaveRoom
  <2>1. /\ up' = Append(up, Up("leave", 0, "")) /\ main' = "left"
        /\ session' = 0 /\ me' = 0 /\ connected' = FALSE
        /\ UNCHANGED <<rooms, route, seating, down, waiting, reg, parting, name>>
      BY <1>4 DEF LeaveRoom, Ask, server, ents
  <2>2. Up("leave", 0, "") \in AskMsgs
      BY UpIsAsked DEF Labels
  <2>3. 0 \in 0..MaxId
      BY Bounds
  <2>4. RoomsOK' /\ ClientOK' /\ NamesOK'
      BY <1>0, <2>1, <2>3 DEF RoomsOK, ClientOK, NamesOK
  <2>5. WireOK'
      BY <1>0, <2>1, <2>2, Queues DEF WireOK
  <2> QED
      BY <2>4, <2>5 DEF TypeInv
<1>5. CASE RememberName
  <2>1. /\ main' = "idle" /\ waiting' = name /\ name' = ""
        /\ UNCHANGED <<rooms, route, seating, up, down, connected, me, session,
                       reg, parting>>
      BY <1>5 DEF RememberName, server, wire, ident, ents
  <2>2. RoomsOK' /\ WireOK' /\ ClientOK'
      BY <1>0, <2>1 DEF RoomsOK, WireOK, ClientOK
  <2>3. NamesOK'
      BY <1>0, <2>1 DEF NamesOK, Labels
  <2> QED
      BY <2>2, <2>3 DEF TypeInv
<1>6. CASE DropEntities
  <2>1. /\ main' = "idle" /\ reg' = Cleared
        /\ UNCHANGED <<rooms, route, seating, up, down, connected, me, session,
                       waiting, parting, name>>
      BY <1>6 DEF DropEntities, server, wire, ident
  <2>2. RegistryOK(Cleared, Ships)
      BY DEF RegistryOK, Cleared, Numbers
  <2>3. RoomsOK' /\ WireOK' /\ ClientOK' /\ NamesOK'
      BY <1>0, <2>1, <2>2 DEF RoomsOK, WireOK, ClientOK, NamesOK
  <2> QED
      BY <2>3 DEF TypeInv
<1> QED
    BY <1>1, <1>2, <1>3, <1>4, <1>5, <1>6 DEF User

LEMMA ServerTypes ==
    ASSUME TypeInv, Serve \/ AnswerJoin
    PROVE  TypeInv'
<1>0. RoomsOK /\ WireOK /\ ClientOK /\ NamesOK
    BY DEF TypeInv
<1>1. ASSUME UNCHANGED <<connected, me, session, waiting, reg, parting, main, name>>
      PROVE  ClientOK' /\ NamesOK'
    BY <1>0, <1>1 DEF ClientOK, NamesOK
<1>2. ASSUME up # <<>>
      PROVE  Head(up) \in AskMsgs /\ Tail(up) \in Seq(AskMsgs)
    BY <1>0, <1>2, Queues DEF WireOK
<1>3. \A m \in AskMsgs : m.name \in Labels /\ (m.is = "join" => m.room \in Rooms)
    BY DEF AskMsgs, UpMsgs, Labels
<1>4. 0 \in 0..MaxId
    BY Bounds
<1>5. ASSUME NEW r \in Rooms, ServeCreate(r)
      PROVE  TypeInv'
  <2> DEFINE n == Head(up).name
             info == [InfoOf(r) EXCEPT !.name = n]
  <2>1. /\ up' = Tail(up) /\ up # <<>> /\ down' = down \o <<info>>
        /\ rooms' = [rooms EXCEPT ![r].name = n]
        /\ UNCHANGED <<route, seating, connected, me, session, waiting, reg,
                       parting, main, name>>
      BY <1>5 DEF ServeCreate, Served, Sent, ident, ents, loop
  <2>2. n \in Labels
      BY <1>2, <1>3, <2>1
  <2>3. info \in DownMsgs
    <3>1. InfoOf(r) \in DownMsgs
        BY <1>0, <1>4, DownIsMsg DEF InfoOf
    <3>2. \A m \in DownMsgs : \A l \in Labels : [m EXCEPT !.name = l] \in DownMsgs
        BY DEF DownMsgs, Labels
    <3> QED
        BY <2>2, <3>1, <3>2
  <2> HIDE DEF n, info
  <2>4. WireOK'
      BY <1>0, <1>2, <2>1, <2>3, Queues DEF WireOK
  <2>5. RoomsOK'
    <3> DEFINE new == [name |-> n, seats |-> rooms[r].seats,
                       last |-> rooms[r].last, me |-> rooms[r].me]
    <3>1. new \in RoomType
        BY <1>0, <2>2, RoomFields, MakeRoom
    <3>2. rooms' = [rooms EXCEPT ![r] = new]
        BY <1>0, <2>1, RoomRenamed
    <3>3. new.me # 0 => new.me \in new.seats
        BY <1>0 DEF RoomsOK
    <3> HIDE DEF new
    <3> QED
        BY <1>0, <2>1, <3>1, <3>2, <3>3, RoomChanged DEF RoomsOK
  <2> QED
      BY <1>1, <2>1, <2>4, <2>5 DEF TypeInv
<1>6. CASE ServeList
  <2>1. /\ up' = Tail(up) /\ up # <<>>
        /\ UNCHANGED <<rooms, route, seating, connected, me, session, waiting,
                       reg, parting, main, name>>
      BY <1>6 DEF ServeList, Served, server, ident, ents, loop
  <2>2. PICK order \in SetToAllKPermutations(Listed) :
           down' = down \o [i \in DOMAIN order |-> InfoOf(order[i])]
      BY <1>6 DEF ServeList, Sent
  <2>3. order \in Seq(Rooms)
      BY ListedAreFinite, OrdersAreQueues
  <2>4. \A r \in Rooms : InfoOf(r) \in DownMsgs
      BY <1>0, <1>4, DownIsMsg DEF InfoOf
  <2>5. [i \in DOMAIN order |-> InfoOf(order[i])] \in Seq(DownMsgs)
      BY <2>3, <2>4
  <2>6. WireOK'
      BY <1>0, <1>2, <2>1, <2>2, <2>5, Queues DEF WireOK
  <2>7. RoomsOK'
      BY <1>0, <2>1 DEF RoomsOK
  <2> QED
      BY <1>1, <2>1, <2>6, <2>7 DEF TypeInv
<1>7. CASE ServeJoin
  <2> DEFINE r == Head(up).room
             n == rooms[r].last + 1
  <2>1. /\ up' = Tail(up) /\ up # <<>>
        /\ UNCHANGED <<connected, me, session, waiting, reg, parting, main, name>>
      BY <1>7 DEF ServeJoin, Served, ident, ents, loop
  <2>2. r \in Rooms
      BY <1>2, <1>3, <1>7 DEF ServeJoin
  <2>3. rooms[r].me \in 0..MaxId /\ rooms[r].last \in 0..MaxId
      BY <1>0, <2>2, RoomFields
  <2>4. \/ /\ down' = down \o <<Down("join", r, rooms[r].me, {})>>
           /\ UNCHANGED <<rooms, seating>> /\ route' \in Rooms \cup {0}
        \/ /\ down' = down \/ down' = down \o <<Down("join", r, 0, {})>>
           /\ UNCHANGED <<rooms, seating, route>>
        \/ /\ rooms[r].last < MaxId
           /\ rooms' = [rooms EXCEPT ![r].last = n, ![r].me = n,
                                     ![r].seats = rooms[r].seats \cup {n}]
           /\ seating' = r /\ UNCHANGED <<route, down>>
      BY <1>0, <1>7, <2>2 DEF ServeJoin, Sent, server, RoomsOK
  <2>5. WireOK'
    <3>1. /\ Down("join", r, rooms[r].me, {}) \in DownMsgs
          /\ Down("join", r, 0, {}) \in DownMsgs
        BY <1>0, <1>4, <2>2, <2>3, DownIsMsg
    <3> HIDE DEF r
    <3> QED
        BY <1>0, <1>2, <2>1, <2>4, <3>1, Queues DEF WireOK
  <2>6. RoomsOK'
    <3> HIDE DEF r
    <3>1. CASE UNCHANGED <<rooms, seating>> /\ route' \in Rooms \cup {0}
        BY <1>0, <3>1 DEF RoomsOK
    <3>2. CASE UNCHANGED <<rooms, seating, route>>
        BY <1>0, <3>2 DEF RoomsOK
    <3>3. CASE /\ rooms[r].last < MaxId
               /\ rooms' = [rooms EXCEPT ![r].last = n, ![r].me = n,
                                         ![r].seats = rooms[r].seats \cup {n}]
               /\ seating' = r /\ UNCHANGED <<route, down>>
      <4> DEFINE new == [name |-> rooms[r].name, seats |-> rooms[r].seats \cup {n},
                         last |-> n, me |-> n]
      <4>1. n \in 0..MaxId /\ n \in Ids /\ n # 0
          BY <2>3, <3>3, Bounds DEF Ids
      <4>2. new \in RoomType
          BY <1>0, <2>2, <4>1, RoomFields, MakeRoom
      <4>3. rooms' = [rooms EXCEPT ![r] = new]
        <5>1. \A l, i, s : [rooms EXCEPT ![r].last = l, ![r].me = i, ![r].seats = s] =
                  [rooms EXCEPT ![r] = [name |-> rooms[r].name, seats |-> s,
                                        last |-> l, me |-> i]]
            BY <1>0, <2>2, RoomTaken
        <5> QED
            BY <3>3, <5>1
      <4>4. new.me \in new.seats
          OBVIOUS
      <4> HIDE DEF new, n
      <4> QED
          BY <1>0, <2>2, <3>3, <4>2, <4>3, <4>4, RoomChanged DEF RoomsOK
    <3> QED
        BY <2>4, <3>1, <3>2, <3>3
  <2> QED
      BY <1>1, <2>1, <2>5, <2>6 DEF TypeInv
<1>8. CASE ServeLeave
  <2>1. /\ up' = Tail(up) /\ up # <<>> /\ route' = 0
        /\ rooms' = rooms \/ (route \in Rooms /\ rooms' = Vacated(route))
        /\ UNCHANGED <<seating, down, connected, me, session, waiting, reg,
                       parting, main, name>>
      BY <1>0, <1>8 DEF ServeLeave, Served, ident, ents, loop, RoomsOK
  <2>2. WireOK'
      BY <1>0, <1>2, <2>1 DEF WireOK
  <2>3. RoomsOK'
      BY <1>0, <2>1, RoomVacated DEF RoomsOK
  <2> QED
      BY <1>1, <2>1, <2>2, <2>3 DEF TypeInv
<1>9. CASE AnswerJoin
  <2> DEFINE r == seating
             seq == Roster(r)
  <2>1. /\ seating \in Rooms /\ seating' = 0 /\ route' = r /\ up' = up
        /\ down' = down \o (<<Down("join", r, rooms[r].me, {})>>
                            \o [i \in DOMAIN seq |-> Down("join", r, seq[i], {})])
        /\ UNCHANGED <<rooms, connected, me, session, waiting, reg, parting, main, name>>
      BY <1>0, <1>9 DEF AnswerJoin, Sent, ident, ents, loop, RoomsOK
  <2>2. rooms[r].me \in 0..MaxId /\ rooms[r].seats \ {rooms[r].me} \subseteq Ids
      BY <1>0, <2>1, RoomFields
  <2>3. seq \in Seq(rooms[r].seats \ {rooms[r].me})
      BY <2>2, IdsAreFinite, SetAsQueue DEF Roster
  <2>4. \A i \in DOMAIN seq : seq[i] \in 0..MaxId
      BY <2>2, <2>3 DEF Ids
  <2> HIDE DEF seq
  <2>5. /\ Down("join", r, rooms[r].me, {}) \in DownMsgs
        /\ \A i \in DOMAIN seq : Down("join", r, seq[i], {}) \in DownMsgs
      BY <1>0, <2>1, <2>2, <2>4, DownIsMsg
  <2> HIDE DEF r
  <2>6. [i \in DOMAIN seq |-> Down("join", r, seq[i], {})] \in Seq(DownMsgs)
      BY <2>3, <2>5
  <2>7. <<Down("join", r, rooms[r].me, {})>>
           \o [i \in DOMAIN seq |-> Down("join", r, seq[i], {})] \in Seq(DownMsgs)
      BY <2>5, <2>6, Queues
  <2>8. WireOK'
      BY <1>0, <2>1, <2>7, Queues DEF WireOK
  <2>9. RoomsOK'
      BY <1>0, <2>1 DEF RoomsOK, r
  <2> QED
      BY <1>1, <2>1, <2>8, <2>9 DEF TypeInv
<1> QED
    BY <1>5, <1>6, <1>7, <1>8, <1>9 DEF Serve

LEMMA OthersTypes ==
    ASSUME TypeInv, Others
    PROVE  TypeInv'
<1>0. RoomsOK /\ WireOK /\ ClientOK /\ NamesOK
    BY DEF TypeInv
<1>1. ASSUME UNCHANGED <<connected, me, session, waiting, reg, parting, main, name>>
      PROVE  ClientOK' /\ NamesOK'
    BY <1>0, <1>1 DEF ClientOK, NamesOK
<1>2. 0 \in 0..MaxId
    BY Bounds
<1>3. ASSUME NEW m \in DownMsgs, up' = up,
             down' = down \/ down' = Append(down, m) \/ down' = down \o <<m>>
      PROVE  WireOK'
    BY <1>0, <1>3, Queues DEF WireOK
<1>4. ASSUME NEW r \in Rooms, OtherJoins(r)
      PROVE  TypeInv'
  <2> DEFINE n == rooms[r].last + 1
             new == [name |-> rooms[r].name, seats |-> rooms[r].seats \cup {n},
                     last |-> n, me |-> rooms[r].me]
  <2>1. /\ rooms[r].last < MaxOthers[r]
        /\ rooms' = [rooms EXCEPT ![r].last = n, ![r].seats = rooms[r].seats \cup {n}]
        /\ down' = down \/ down' = Append(down, Down("join", r, n, {}))
        /\ UNCHANGED <<route, seating, up, connected, me, session, waiting, reg,
                       parting, main, name>>
      BY <1>4 DEF OtherJoins, Tell, ident, ents, loop
  <2>2. n \in 0..MaxId /\ n \in Ids
    <3>1. rooms[r].last \in 0..MaxId /\ MaxOthers[r] \in 0..MaxId /\ MaxId \in Nat
        BY <1>0, RoomFields, Bounds
    <3> QED
        BY <2>1, <3>1 DEF Ids
  <2>3. new \in RoomType
      BY <1>0, <2>2, RoomFields, MakeRoom
  <2>4. rooms' = [rooms EXCEPT ![r] = new]
      BY <1>0, <2>1, RoomFilled, Zenon
  <2>5. new.me # 0 => new.me \in new.seats
      BY <1>0 DEF RoomsOK
  <2>6. Down("join", r, n, {}) \in DownMsgs
      BY <1>0, <2>2, DownIsMsg
  <2> HIDE DEF new, n
  <2>7. RoomsOK'
      BY <1>0, <2>1, <2>3, <2>4, <2>5, RoomChanged DEF RoomsOK
  <2> QED
      BY <1>1, <1>3, <2>1, <2>6, <2>7 DEF TypeInv
<1>5. ASSUME NEW r \in Rooms, NEW id \in Ids, OtherLeaves(r, id)
      PROVE  TypeInv'
  <2> DEFINE new == [name |-> rooms[r].name, seats |-> rooms[r].seats \ {id},
                     last |-> rooms[r].last, me |-> rooms[r].me]
  <2>1. /\ id # rooms[r].me
        /\ rooms' = [rooms EXCEPT ![r].seats = rooms[r].seats \ {id}]
        /\ down' = down \/ down' = Append(down, Down("leave", r, id, {}))
        /\ UNCHANGED <<route, seating, up, connected, me, session, waiting, reg,
                       parting, main, name>>
      BY <1>5 DEF OtherLeaves, Tell, ident, ents, loop
  <2>2. id \in 0..MaxId
      BY Bounds DEF Ids
  <2>3. new \in RoomType
      BY <1>0, RoomFields, MakeRoom
  <2>4. rooms' = [rooms EXCEPT ![r] = new]
      BY <1>0, <2>1, RoomReseated, Zenon
  <2>5. new.me # 0 => new.me \in new.seats
      BY <1>0, <2>1 DEF RoomsOK
  <2>6. Down("leave", r, id, {}) \in DownMsgs
      BY <1>0, <2>2, DownIsMsg
  <2> HIDE DEF new
  <2>7. RoomsOK'
      BY <1>0, <2>1, <2>3, <2>4, <2>5, RoomChanged DEF RoomsOK
  <2> QED
      BY <1>1, <1>3, <2>1, <2>6, <2>7 DEF TypeInv
<1>6. ASSUME NEW r \in Rooms, Tick(r)
      PROVE  TypeInv'
  <2>1. /\ down' = down \o <<Down("moves", r, 0, rooms[r].seats)>>
        /\ UNCHANGED <<rooms, route, seating, up, connected, me, session, waiting,
                       reg, parting, main, name>>
      BY <1>6 DEF Tick, Sent, server, ident, ents, loop
  <2>2. Down("moves", r, 0, rooms[r].seats) \in DownMsgs
      BY <1>0, <1>2, RoomFields, DownIsMsg
  <2>3. RoomsOK'
      BY <1>0, <2>1 DEF RoomsOK
  <2> QED
      BY <1>1, <1>3, <2>1, <2>2, <2>3 DEF TypeInv
<1>7. ASSUME NEW r \in Rooms, TimesOut(r)
      PROVE  TypeInv'
  <2>1. /\ rooms' = Vacated(r) /\ route' = 0
        /\ UNCHANGED <<seating, up, down, connected, me, session, waiting, reg,
                       parting, main, name>>
      BY <1>7 DEF TimesOut, wire, ident, ents, loop
  <2>2. RoomsOK'
      BY <1>0, <2>1, RoomVacated DEF RoomsOK
  <2>3. WireOK'
      BY <1>0, <2>1 DEF WireOK
  <2> QED
      BY <1>1, <2>1, <2>2, <2>3 DEF TypeInv
<1>8. ASSUME NEW r \in Rooms, Removes(r)
      PROVE  TypeInv'
  <2>1. /\ rooms' = Emptied(r) /\ route' \in {0, route}
        /\ UNCHANGED <<seating, up, down, connected, me, session, waiting, reg,
                       parting, main, name>>
      BY <1>8 DEF Removes, wire, ident, ents, loop
  <2>2. RoomsOK'
      BY <1>0, <2>1, RoomEmptied DEF RoomsOK
  <2>3. WireOK'
      BY <1>0, <2>1 DEF WireOK
  <2> QED
      BY <1>1, <2>1, <2>2, <2>3 DEF TypeInv
<1>9. ASSUME NEW r \in Rooms, Stops(r) \/ Jams(r)
      PROVE  TypeInv'
  <2>1. UNCHANGED <<rooms, route, seating, up, down, connected, me, session, waiting,
                    reg, parting, main, name>>
      BY <1>9 DEF Stops, Jams, wire, ident, ents, loop
  <2>2. RoomsOK' /\ WireOK'
      BY <1>0, <2>1 DEF RoomsOK, WireOK
  <2> QED
      BY <1>1, <2>1, <2>2 DEF TypeInv
<1> QED
    BY <1>4, <1>5, <1>6, <1>7, <1>8, <1>9 DEF Others

LEMMA UdpTypes ==
    ASSUME TypeInv, Lose \/ Double \/ Overtake
    PROVE  TypeInv'
<1>0. RoomsOK /\ WireOK /\ ClientOK /\ NamesOK
    BY DEF TypeInv
<1>1. ASSUME NEW u \in Seq(AskMsgs), NEW d \in Seq(DownMsgs), Udp(u, d)
      PROVE  TypeInv'
  <2>1. /\ up' = u /\ down' = d
        /\ UNCHANGED <<rooms, route, seating, connected, me, session, waiting, reg,
                       parting, main, name>>
      BY <1>1 DEF Udp, server, ident, ents, loop
  <2>2. RoomsOK' /\ ClientOK' /\ NamesOK'
      BY <1>0, <2>1 DEF RoomsOK, ClientOK, NamesOK
  <2>3. WireOK'
      BY <2>1 DEF WireOK
  <2> QED
      BY <2>2, <2>3 DEF TypeInv
<1>2. up \in Seq(AskMsgs) /\ down \in Seq(DownMsgs)
    BY <1>0 DEF WireOK
<1>3. /\ up # <<>> => Tail(up) \in Seq(AskMsgs) /\ <<Head(up)>> \o up \in Seq(AskMsgs)
      /\ \A i \in DOMAIN up : ToFront(up, i) \in Seq(AskMsgs)
    BY <1>2, Queues, FrontOfQueue
<1>4. /\ down # <<>> => Tail(down) \in Seq(DownMsgs) /\ <<Head(down)>> \o down \in Seq(DownMsgs)
      /\ \A i \in DOMAIN down : ToFront(down, i) \in Seq(DownMsgs)
    BY <1>2, Queues, FrontOfQueue
<1>5. CASE Lose
    BY <1>1, <1>2, <1>3, <1>4, <1>5 DEF Lose
<1>6. CASE Double
    BY <1>1, <1>2, <1>3, <1>4, <1>6 DEF Double
<1>7. CASE Overtake
    BY <1>1, <1>2, <1>3, <1>4, <1>7 DEF Overtake
<1> QED
    BY <1>5, <1>6, <1>7

LEMMA HandleTypes ==
    ASSUME TypeInv, Handle
    PROVE  TypeInv'
<1>0. RoomsOK /\ WireOK /\ ClientOK /\ NamesOK
    BY DEF TypeInv
<1>1. ASSUME down # <<>>
      PROVE  Head(down) \in DownMsgs /\ Tail(down) \in Seq(DownMsgs)
    BY <1>0, <1>1, Queues DEF WireOK
<1>2. \A m \in DownMsgs : m.id \in 0..MaxId /\ m.room \in Rooms /\ m.ids \subseteq Ids
    BY DEF DownMsgs
<1>3. RegistryOK(reg, Ships)
    BY <1>0 DEF ClientOK
<1>4. CASE Adopt
  <2> DEFINE m == Head(down)
  <2>1. /\ down # <<>> /\ down' = Tail(down)
        /\ session' = m.room /\ me' = m.id /\ connected' = TRUE
        /\ reg' = Create(reg, Ship(m.id))
        /\ UNCHANGED <<rooms, route, seating, up, waiting, parting, main, name>>
      BY <1>4 DEF Adopt, Taken, server, loop
  <2>2. m.id \in 0..MaxId /\ m.room \in Rooms
      BY <1>1, <1>2, <2>1
  <2> HIDE DEF m
  <2>3. RegistryOK(reg', Ships)
      BY <1>3, <2>1, <2>2, ShipCreated
  <2>4. WireOK'
      BY <1>0, <1>1, <2>1 DEF WireOK
  <2>5. RoomsOK' /\ ClientOK' /\ NamesOK'
      BY <1>0, <2>1, <2>2, <2>3 DEF RoomsOK, ClientOK, NamesOK
  <2> QED
      BY <2>4, <2>5 DEF TypeInv
<1>5. CASE Meet
  <2> DEFINE m == Head(down)
  <2>1. /\ down # <<>> /\ down' = Tail(down)
        /\ reg' = reg \/ reg' = Create(reg, Ship(m.id))
        /\ UNCHANGED <<rooms, route, seating, up, connected, me, session, waiting,
                       parting, main, name>>
      BY <1>5 DEF Meet, Taken, server, ident, loop
  <2>2. m.id \in 0..MaxId
      BY <1>1, <1>2, <2>1
  <2> HIDE DEF m
  <2>3. RegistryOK(reg', Ships)
      BY <1>3, <2>1, <2>2, ShipCreated
  <2>4. WireOK'
      BY <1>0, <1>1, <2>1 DEF WireOK
  <2>5. RoomsOK' /\ ClientOK' /\ NamesOK'
      BY <1>0, <2>1, <2>3 DEF RoomsOK, ClientOK, NamesOK
  <2> QED
      BY <2>4, <2>5 DEF TypeInv
<1>6. CASE Move
  <2> DEFINE m == Head(down)
             unseen == {id \in m.ids : CopiesOf(id) = {}}
             new == SetToSeq(unseen)
             ships == [i \in DOMAIN new |-> Ship(new[i])]
  <2>1. /\ down # <<>> /\ down' = Tail(down)
        /\ reg' = CreateAll(reg, ships)
        /\ UNCHANGED <<rooms, route, seating, up, connected, me, session, waiting,
                       parting, main, name>>
      BY <1>6 DEF Move, Taken, server, ident, loop
  <2>2. m.ids \subseteq Ids
      BY <1>1, <1>2, <2>1
  <2>3. unseen \subseteq Ids
      BY <2>2
  <2> HIDE DEF unseen
  <2>4. new \in Seq(Ids)
    <3>1. IsFiniteSet(unseen)
        BY <2>3, IdsAreFinite
    <3>2. new \in Seq(unseen)
        BY <3>1, SetAsQueue
    <3> QED
        BY <2>3, <3>2
  <2>5. \A id \in Ids : Ship(id) \in Ships
      BY Bounds DEF Ship, Ships, Ids
  <2> HIDE DEF new
  <2>6. ships \in Seq(Ships)
      BY <2>4, <2>5
  <2> HIDE DEF ships
  <2>7. RegistryOK(reg', Ships)
      BY <1>3, <2>1, <2>6, ShipsCreated
  <2>8. WireOK'
      BY <1>0, <1>1, <2>1 DEF WireOK
  <2>9. RoomsOK' /\ ClientOK' /\ NamesOK'
      BY <1>0, <2>1, <2>7 DEF RoomsOK, ClientOK, NamesOK
  <2> QED
      BY <2>8, <2>9 DEF TypeInv
<1>7. CASE FindLeaver
  <2>1. /\ down # <<>> /\ down' = Tail(down)
        /\ parting' = parting \/ parting' \in Copies
        /\ UNCHANGED <<rooms, route, seating, up, connected, me, session, waiting,
                       reg, main, name>>
      BY <1>7 DEF FindLeaver, Taken, CopiesOf, server, ident, loop
  <2>2. Copies \subseteq Nat
      BY <1>3 DEF Copies, View, RegistryOK, Numbers
  <2>3. WireOK'
      BY <1>0, <1>1, <2>1 DEF WireOK
  <2>4. RoomsOK' /\ ClientOK' /\ NamesOK'
      BY <1>0, <2>1, <2>2 DEF RoomsOK, ClientOK, NamesOK
  <2> QED
      BY <2>3, <2>4 DEF TypeInv
<1>8. CASE DestroyLeaver
  <2>1. /\ parting' = -1 /\ reg' = Destroy(reg, {parting})
        /\ UNCHANGED <<rooms, route, seating, up, down, connected, me, session,
                       waiting, main, name>>
      BY <1>8 DEF DestroyLeaver, server, wire, ident, loop
  <2>2. RegistryOK(reg', Ships)
      BY <1>3, <2>1, ShipDestroyed
  <2>3. RoomsOK' /\ WireOK' /\ ClientOK' /\ NamesOK'
      BY <1>0, <2>1, <2>2 DEF RoomsOK, WireOK, ClientOK, NamesOK
  <2> QED
      BY <2>3 DEF TypeInv
<1>9. CASE ReadInfo
  <2> DEFINE m == Head(down)
  <2>1. /\ down # <<>> /\ down' = Tail(down)
        /\ UNCHANGED <<rooms, route, seating, connected, me, reg, parting, main, name>>
        /\ \/ /\ session' = m.room /\ waiting' = "" /\ up' = Append(up, Up("join", m.room, ""))
           \/ UNCHANGED <<session, waiting, up>>
      BY <1>9 DEF ReadInfo, Taken, server, ents, loop
  <2>2. m.room \in Rooms
      BY <1>1, <1>2, <2>1
  <2> HIDE DEF m
  <2>3. Up("join", m.room, "") \in AskMsgs
      BY <2>2, UpIsAsked DEF Labels
  <2>4. WireOK'
      BY <1>0, <1>1, <2>1, <2>3, Queues DEF WireOK
  <2>5. "" \in Labels
      BY DEF Labels
  <2>6. NamesOK'
      BY <1>0, <2>1, <2>5 DEF NamesOK
  <2>7. RoomsOK' /\ ClientOK'
      BY <1>0, <2>1, <2>2 DEF RoomsOK, ClientOK
  <2> QED
      BY <2>4, <2>6, <2>7 DEF TypeInv
<1> QED
    BY <1>4, <1>5, <1>6, <1>7, <1>8, <1>9 DEF Handle

LEMMA TypeStep == TypeInv /\ [Next]_vars => TypeInv'
<1> SUFFICES ASSUME TypeInv, [Next]_vars
             PROVE  TypeInv'
    OBVIOUS
<1>1. CASE UNCHANGED vars
    BY <1>1 DEF TypeInv, RoomsOK, WireOK, ClientOK, NamesOK, vars, server, wire, ident,
                ents, loop
<1>2. CASE Next
    BY <1>2, UserTypes, ServerTypes, OthersTypes, UdpTypes, HandleTypes DEF Next
<1> QED
    BY <1>1, <1>2

(* What the client keeps in its fields, what the server keeps of it, and   *)
(* every message on either wire have the types of the source in every      *)
(* state: ids are players' ids or 0 for a refusal, a seat of one's own is  *)
(* among the seats of its room, and what a PlayerLeave has found and not   *)
(* yet destroyed is an entity's number, or -1.                             *)
THEOREM TypesAreKept == Spec => []TypeOK
<1>1. Init => TypeInv
    BY InitTypes
<1>2. TypeInv /\ [Next]_vars => TypeInv'
    BY TypeStep
<1>3. TypeInv /\ LiveOK => TypeOK
    BY TypeInvIsTypeOK
<1>4. Init => LiveOK
    BY DEF Init, LiveOK
<1> QED
    BY <1>1, <1>2, <1>3, <1>4, LiveNext, PTL DEF Spec
=============================================================================

---------------------------- MODULE ScreensProofs ----------------------------
(***************************************************************************)
(* What TLAPS proves of the client's screens for every set of ids, rooms,  *)
(* scores and names and every bound.                                       *)
(***************************************************************************)
EXTENDS Screens, FiniteSetTheorems, SequenceTheorems, TLAPS

----------------------------------------------------------------------------
(* Types.                                                                  *)

MenuPages == [is : {"menu"}, open : BOOLEAN, target : BOOLEAN, wanted : KeyCodes,
              tint : 0..(Modes - 1), edited : BOOLEAN]

LobbyPages == [is : {"lobby"}, mode : {"main", "create", "browse", "room"},
               local : Ids \cup {0}, news : Ids \cup {0}, started : BOOLEAN,
               rooms : Seq(Rooms), shown : Seq(Rooms), picked : Nat,
               fresh : BOOLEAN, left : BOOLEAN]

GamePages == [is : {"game"}, multi : BOOLEAN, list : Lists, over : BOOLEAN, allDead : BOOLEAN,
              choice : BOOLEAN, chosen : BOOLEAN, saved : BOOLEAN,
              paused : BOOLEAN, panel : BOOLEAN, startSent : BOOLEAN,
              seen : BOOLEAN, stale : BOOLEAN]

OtherPages == {Gone, ModeSelection, SoloSettings}

(* The buttons are a part of the list, so that what is picked is in it.     *)
LobbyGood(p) == /\ p \in LobbyPages
                /\ p.picked \in 0..Len(p.rooms)
                /\ \A i \in DOMAIN p.shown : i \in DOMAIN p.rooms
                                             /\ p.rooms[i] = p.shown[i]

PageInv == page \in MenuPages \cup GamePages \cup OtherPages \/ LobbyGood(page)

FrameInv == next \in Screens \cup {""} /\ turn \in {"input", "update", "saving"}

Clients == [connected : BOOLEAN, me : Ids \cup {0}, ship : BOOLEAN, dead : BOOLEAN]

SessionInv == /\ client \in Clients
              /\ seat \in Ids \cup {0} /\ asked \in Nat /\ given \subseteq Ids \cup {0}
              /\ kept \in BOOLEAN /\ stray \in BOOLEAN

LastingInv == won \in BOOLEAN /\ keys \in KeyCodes /\ colours \in 0..(Modes - 1)

(* A board, or a file of one: no list is longer than it may be.            *)
Small(all) == /\ all \subseteq Entries /\ IsFiniteSet(all)
              /\ \A l \in Lists : Cardinality(On(all, l)) <= MaxScores

ScoresInv == Small(board) /\ Small(file) /\ saves \in Nat

CountInv == joins \in Nat /\ games \in Nat

TypeInv == PageInv /\ FrameInv /\ SessionInv /\ LastingInv /\ ScoresInv /\ CountInv

----------------------------------------------------------------------------
(* Boards.                                                                 *)

LEMMA TopIsSmall ==
    ASSUME NEW all, IsFiniteSet(all), NEW left \in TopOf(all)
    PROVE  /\ left \subseteq all /\ IsFiniteSet(left)
           /\ Cardinality(left) <= MaxScores
<1>1. left \subseteq all /\ IsFiniteSet(left)
    BY FS_Subset DEF TopOf
<1>2. Cardinality(all) \in Nat
    BY FS_CardinalityType
<1>3. Cardinality(left) = IF Cardinality(all) <= MaxScores
                          THEN Cardinality(all) ELSE MaxScores
    BY DEF TopOf
<1> QED
    BY <1>1, <1>2, <1>3, ScoresAssumption

LEMMA NothingIsSmall == Small({})
<1>1. \A l \in Lists : On({}, l) = {}
    BY DEF On
<1> QED
    BY <1>1, FS_EmptySet, ScoresAssumption DEF Small

LEMMA RereadTypes ==
    ASSUME NEW e \in Entries, Plain(e) \/ e.name \in DOMAIN Misread
    PROVE  Reread(e) \in Entries /\ Reread(e).list = e.list
<1>1. CASE Plain(e)
    BY <1>1 DEF Reread
<1>2. CASE ~Plain(e)
  <2>1. Misread[e.name] \in [name : Names, score : Nat]
      BY <1>2, ScoresAssumption
  <2>2. Misread[e.name].name \in Names /\ Misread[e.name].score \in Nat
      BY <2>1
  <2>3. e.list \in Lists /\ e.score \in Nat
      BY DEF Entries
  <2> QED
      BY <1>2, <2>2, <2>3 DEF Reread, Entries
<1> QED
    BY <1>1, <1>2

(* What is read back of a file is no longer than what was written.         *)
LEMMA LoadedIsSmall ==
    ASSUME NEW f, Small(f)
    PROVE  Small(Loaded(f))
<1> DEFINE read(all) == {e \in all : Plain(e) \/ e.name \in DOMAIN Misread}
<1>1. ASSUME NEW all, IsFiniteSet(all), all \subseteq Entries
      PROVE  /\ Loaded(all) \subseteq Entries /\ IsFiniteSet(Loaded(all))
             /\ Cardinality(Loaded(all)) <= Cardinality(all)
  <2>1. IsFiniteSet(read(all)) /\ Cardinality(read(all)) <= Cardinality(all)
      BY <1>1, FS_Subset
  <2> DEFINE again == [e \in read(all) |-> Reread(e)]
  <2>2. Loaded(all) = {again[e] : e \in read(all)}
      BY DEF Loaded
  <2>3. again \in Surjection(read(all), Loaded(all))
      BY <2>2 DEF Surjection
  <2> HIDE DEF again
  <2>4. /\ IsFiniteSet(Loaded(all))
        /\ Cardinality(Loaded(all)) <= Cardinality(read(all))
      BY <2>1, <2>3, FS_Surjection
  <2>5. /\ Cardinality(Loaded(all)) \in Nat /\ Cardinality(read(all)) \in Nat
        /\ Cardinality(all) \in Nat
      BY <1>1, <2>1, <2>4, FS_CardinalityType
  <2>6. Loaded(all) \subseteq Entries
      BY <1>1, RereadTypes DEF Loaded
  <2> QED
      BY <2>1, <2>4, <2>5, <2>6
<1>2. Loaded(f) \subseteq Entries /\ IsFiniteSet(Loaded(f))
    BY <1>1 DEF Small
<1>3. ASSUME NEW l \in Lists
      PROVE  Cardinality(On(Loaded(f), l)) <= MaxScores
  <2>1. On(f, l) \subseteq f /\ f \subseteq Entries /\ IsFiniteSet(f)
      BY DEF On, Small
  <2>2. IsFiniteSet(On(f, l))
      BY <2>1, FS_Subset
  <2>3. On(Loaded(f), l) = Loaded(On(f, l))
      BY <2>1, RereadTypes DEF On, Loaded
  <2>4. Cardinality(Loaded(On(f, l))) <= Cardinality(On(f, l))
      BY <1>1, <2>1, <2>2
  <2>5. Cardinality(On(f, l)) <= MaxScores
      BY DEF Small
  <2>6. Cardinality(Loaded(On(f, l))) \in Nat /\ Cardinality(On(f, l)) \in Nat
      BY <1>1, <2>1, <2>2, FS_CardinalityType
  <2> QED
      BY <2>3, <2>4, <2>5, <2>6, ScoresAssumption
<1> QED
    BY <1>2, <1>3 DEF Small

(* A new entry leaves the other list alone.                                *)
LEMMA AddedLists ==
    ASSUME NEW all, Small(all), NEW e \in Entries, NEW new \in Added(all, e)
    PROVE  /\ On(new, e.list) \in TopOf(On(all, e.list) \cup {e})
           /\ \A l \in Lists \ {e.list} : On(new, l) = On(all, l)
           /\ IsFiniteSet(On(all, e.list) \cup {e})
           /\ new \subseteq all \cup {e}
<1>1. PICK left \in TopOf(On(all, e.list) \cup {e}) :
         new = (all \ On(all, e.list)) \cup left
    BY DEF Added
<1>2. left \subseteq On(all, e.list) \cup {e}
    BY DEF TopOf
<1>3. On(new, e.list) = left
    BY <1>1, <1>2 DEF On
<1>4. \A l \in Lists \ {e.list} : On(new, l) = On(all, l)
    BY <1>1, <1>2 DEF On
<1>5. On(all, e.list) \subseteq all /\ IsFiniteSet(all)
    BY DEF On, Small
<1>6. IsFiniteSet(On(all, e.list) \cup {e})
    BY <1>5, FS_Subset, FS_AddElement
<1> QED
    BY <1>1, <1>2, <1>3, <1>4, <1>5, <1>6

LEMMA AddedIsSmall ==
    ASSUME NEW all, Small(all), NEW e \in Entries, NEW new \in Added(all, e)
    PROVE  Small(new)
<1>1. new \subseteq Entries /\ IsFiniteSet(new)
  <2>1. new \subseteq all \cup {e} /\ IsFiniteSet(all \cup {e})
      BY AddedLists, FS_AddElement DEF Small
  <2> QED
      BY <2>1, FS_Subset DEF Small
<1>2. /\ On(new, e.list) \in TopOf(On(all, e.list) \cup {e})
      /\ IsFiniteSet(On(all, e.list) \cup {e})
      /\ \A l \in Lists \ {e.list} : On(new, l) = On(all, l)
    BY AddedLists
<1>3. Cardinality(On(new, e.list)) <= MaxScores
    BY <1>2, TopIsSmall
<1>4. ASSUME NEW l \in Lists
      PROVE  Cardinality(On(new, l)) <= MaxScores
    BY <1>2, <1>3 DEF Small
<1> QED
    BY <1>1, <1>4 DEF Small

LEMMA WhoGoesWasPushedOut ==
    ASSUME NEW all, IsFiniteSet(all), NEW left \in TopOf(all), NEW e \in all \ left
    PROVE  /\ Cardinality(left) = MaxScores
           /\ \A k \in left : k.score >= e.score
<1>1. left \subseteq all /\ left # all
    BY DEF TopOf
<1>2. Cardinality(left) \in Nat /\ Cardinality(all) \in Nat
    BY <1>1, FS_Subset, FS_CardinalityType
<1>3. Cardinality(left) <= Cardinality(all) /\ Cardinality(left) # Cardinality(all)
    BY <1>1, FS_Subset
<1> QED
    BY <1>2, <1>3 DEF TopOf

----------------------------------------------------------------------------

LEMMA TypeInit == Init => TypeInv
<1> SUFFICES ASSUME Init
             PROVE  TypeInv
    OBVIOUS
<1>1. PageInv
    BY DEF Init, PageInv, OtherPages, Gone
<1>2. FrameInv
    BY DEF Init, FrameInv, Screens
<1>3. SessionInv
    BY DEF Init, SessionInv, Idle, Clients
<1>4. LastingInv
  <2>1. 0 \in 0..(Modes - 1)
      BY ScreensAssumption
  <2> QED
      BY <2>1, ScreensAssumption DEF Init, LastingInv
<1>5. CountInv
    BY DEF Init, CountInv
<1>6. ScoresInv
    BY NothingIsSmall DEF Init, ScoresInv
<1> QED
    BY <1>1, <1>2, <1>3, <1>4, <1>5, <1>6 DEF TypeInv

(* Whatever of the state stays, keeps its type.                            *)
LEMMA Kept ==
    ASSUME TypeInv
    PROVE  /\ UNCHANGED page => PageInv'
           /\ UNCHANGED frame => FrameInv'
           /\ UNCHANGED session => SessionInv'
           /\ UNCHANGED lasting => LastingInv'
           /\ UNCHANGED scores => ScoresInv'
           /\ UNCHANGED count => CountInv'
BY DEF TypeInv, PageInv, FrameInv, SessionInv, LastingInv, ScoresInv,
   CountInv, frame, session, lasting, scores, count

----------------------------------------------------------------------------
(* What the lobby makes of its lists.                                      *)

LEMMA DisplayedIsAPart ==
    ASSUME NEW rooms \in Seq(Rooms)
    PROVE  /\ Displayed(rooms) \in Seq(Rooms)
           /\ \A i \in DOMAIN Displayed(rooms) :
                 i \in DOMAIN rooms /\ rooms[i] = Displayed(rooms)[i]
<1> DEFINE n == IF Len(rooms) < MaxButtons THEN Len(rooms) ELSE MaxButtons
<1>1. Len(rooms) \in Nat /\ DOMAIN rooms = 1..Len(rooms) /\ \A i \in 1..Len(rooms) : rooms[i] \in Rooms
    BY LenProperties, ElementOfSeq
<1>2. n \in Nat /\ n <= Len(rooms)
    BY <1>1 DEF MaxButtons
<1> HIDE DEF n
<1>3. /\ SubSeq(rooms, 1, n) \in Seq(Rooms)
      /\ Len(SubSeq(rooms, 1, n)) = IF 1 <= n THEN n - 1 + 1 ELSE 0
      /\ \A i \in 1..(n - 1 + 1) : SubSeq(rooms, 1, n)[i] = rooms[1 + i - 1]
    BY <1>1, <1>2, SubSeqProperties
<1>4. Displayed(rooms) = SubSeq(rooms, 1, n)
    BY DEF Displayed, n
<1>5. DOMAIN Displayed(rooms) = 1..n
    BY <1>2, <1>3, <1>4, LenProperties
<1>6. \A i \in 1..n : Displayed(rooms)[i] = rooms[i]
    BY <1>2, <1>3, <1>4
<1> QED
    BY <1>1, <1>2, <1>3, <1>4, <1>5, <1>6

LEMMA EmptiedIsGood ==
    ASSUME NEW p, LobbyGood(p)
    PROVE  LobbyGood(Emptied(p))
<1>1. <<>> \in Seq(Rooms) /\ Len(<<>>) = 0 /\ DOMAIN <<>> = {}
    OBVIOUS
<1>2. /\ Emptied(p) \in LobbyPages /\ Emptied(p).picked = 0
      /\ Emptied(p).rooms = <<>> /\ Emptied(p).shown = <<>>
    BY <1>1 DEF Emptied, LobbyGood, LobbyPages
<1> QED
    BY <1>1, <1>2 DEF LobbyGood

LEMMA ShowIsGood ==
    ASSUME NEW p \in LobbyPages, p.picked \in 0..Len(p.rooms)
    PROVE  LobbyGood(Show(p))
<1>1. p.rooms \in Seq(Rooms)
    BY DEF LobbyPages
<1>2. Show(p) \in LobbyPages
    BY <1>1, DisplayedIsAPart DEF Show, LobbyPages
<1>3. /\ Show(p).picked = p.picked /\ Show(p).rooms = p.rooms
      /\ Show(p).shown = Displayed(p.rooms)
    BY DEF Show, LobbyPages
<1> QED
    BY <1>1, <1>2, <1>3, DisplayedIsAPart DEF LobbyGood

LEMMA KnownIsGood ==
    ASSUME NEW p, LobbyGood(p), SessionInv
    PROVE  LobbyGood(Known(p))
BY DEF Known, LobbyGood, LobbyPages, SessionInv, Clients

(* What leaves the lists alone.                                            *)
LEMMA SameLists ==
    ASSUME NEW p, LobbyGood(p), NEW q \in LobbyPages,
           q.rooms = p.rooms, q.shown = p.shown, q.picked = p.picked
    PROVE  LobbyGood(q)
BY DEF LobbyGood

LEMMA NewLobbyIsGood ==
    ASSUME SessionInv
    PROVE  LobbyGood(Lobby)
<1> DEFINE new == [is |-> "lobby", mode |-> "main", local |-> 0, news |-> 0,
                   started |-> FALSE, rooms |-> <<>>, shown |-> <<>>, picked |-> 0,
                   fresh |-> FALSE, left |-> FALSE]
<1>1. <<>> \in Seq(Rooms) /\ Len(<<>>) = 0 /\ DOMAIN <<>> = {}
    OBVIOUS
<1>2. new \in LobbyPages
    BY <1>1 DEF LobbyPages
<1>3. LobbyGood(new)
    BY <1>1, <1>2 DEF LobbyGood
<1> QED
    BY <1>3, KnownIsGood DEF Lobby

LEMMA AppendIsGood ==
    ASSUME NEW p, LobbyGood(p), NEW r \in Rooms
    PROVE  LobbyGood([p EXCEPT !.fresh = TRUE, !.rooms = Append(@, r)])
<1> DEFINE q == [p EXCEPT !.fresh = TRUE, !.rooms = Append(@, r)]
<1>1. p.rooms \in Seq(Rooms)
    BY DEF LobbyGood, LobbyPages
<1>2. /\ Append(p.rooms, r) \in Seq(Rooms)
      /\ Len(Append(p.rooms, r)) = Len(p.rooms) + 1 /\ Len(p.rooms) \in Nat
      /\ DOMAIN p.rooms = 1..Len(p.rooms)
      /\ DOMAIN Append(p.rooms, r) = 1..(Len(p.rooms) + 1)
      /\ \A i \in 1..Len(p.rooms) : Append(p.rooms, r)[i] = p.rooms[i]
    BY <1>1, AppendProperties, LenProperties
<1>3. /\ q \in LobbyPages /\ q.rooms = Append(p.rooms, r)
      /\ q.shown = p.shown /\ q.picked = p.picked
    BY <1>2 DEF LobbyGood, LobbyPages
<1>4. q.picked \in 0..Len(q.rooms)
    BY <1>2, <1>3 DEF LobbyGood
<1>5. \A i \in DOMAIN q.shown : i \in DOMAIN q.rooms /\ q.rooms[i] = q.shown[i]
    BY <1>2, <1>3 DEF LobbyGood
<1> QED
    BY <1>3, <1>4, <1>5 DEF LobbyGood

(* What a page is, from its name.                                          *)
LEMMA PageKinds ==
    ASSUME PageInv
    PROVE  /\ page.is = "menu" => page \in MenuPages
           /\ page.is = "lobby" => LobbyGood(page) /\ page \in LobbyPages
           /\ page.is = "game" => page \in GamePages
BY DEF PageInv, MenuPages, LobbyPages, GamePages, OtherPages, LobbyGood,
   Gone, ModeSelection, SoloSettings

LEMMA GamesAreGood ==
    ASSUME SessionInv
    PROVE  \A m \in BOOLEAN, l \in Lists : Game(m, l) \in GamePages
BY DEF Game, GamePages, SessionInv, Clients

LEMMA OfferIsGood ==
    ASSUME page \in GamePages
    PROVE  /\ Offered(page) \in GamePages
           /\ Offered(page) = [page EXCEPT !.choice = Offered(page).choice]
BY DEF Offered, GamePages

LEMMA JoinTypes ==
    ASSUME TypeInv, Join, UNCHANGED <<client, seat, given, stray>>
    PROVE  SessionInv'
<1>1. asked' \in Nat
    BY DEF TypeInv, SessionInv, Join
<1>2. kept' \in BOOLEAN
    BY DEF Join
<1>3. client' = client /\ seat' = seat /\ given' = given /\ stray' = stray
    OBVIOUS
<1> QED
    BY <1>1, <1>2, <1>3 DEF TypeInv, SessionInv

LEMMA LeaveTypes ==
    ASSUME TypeInv, LeaveRoom, UNCHANGED <<asked, given, kept>>
    PROVE  SessionInv'
<1>1. Idle \in Clients
    BY DEF Idle, Clients
<1>2. \/ client' = Idle /\ seat' = 0 /\ stray' = FALSE
      \/ client' = client /\ seat' = seat /\ stray' = stray
    BY DEF LeaveRoom
<1> QED
    BY <1>1, <1>2 DEF TypeInv, SessionInv

LEMMA ColoursTurn ==
    ASSUME NEW c \in 0..(Modes - 1)
    PROVE  (c + 1) % Modes \in 0..(Modes - 1)
BY ScreensAssumption

----------------------------------------------------------------------------

LEMMA TypeNext == TypeInv /\ [Next]_vars => TypeInv'
<1> SUFFICES ASSUME TypeInv, [Next]_vars
             PROVE  TypeInv'
    OBVIOUS
<1>0. /\ PageInv /\ FrameInv /\ SessionInv /\ LastingInv /\ ScoresInv /\ CountInv
      /\ page.is = "menu" => page \in MenuPages
      /\ page.is = "lobby" => LobbyGood(page) /\ page \in LobbyPages
      /\ page.is = "game" => page \in GamePages
    BY PageKinds DEF TypeInv
<1>1. CASE MenuKey
  <2>1. PageInv'
      BY <1>1, <1>0 DEF MenuKey, OpenSettings, LastingInv, MenuPages, Input,
         PageInv
  <2>2. FrameInv'
      BY <1>1, <1>0 DEF MenuKey, Goto, FrameInv, Screens
  <2> QED
      BY <1>1, <2>1, <2>2, Kept DEF MenuKey, TypeInv, frame, session,
         lasting, scores, count
<1>2. CASE MenuClick
  <2>1. PageInv'
      BY <1>2, <1>0 DEF MenuClick, OpenSettings, LastingInv, MenuPages,
         Input, PageInv
  <2>2. FrameInv'
      BY <1>2, <1>0 DEF MenuClick, Goto, FrameInv, Screens
  <2> QED
      BY <1>2, <2>1, <2>2, Kept DEF MenuClick, TypeInv, frame, session,
         lasting, scores, count
<1>3. CASE BeginRebinding
  <2>1. PageInv'
      BY <1>3, <1>0 DEF BeginRebinding, LastingInv, MenuPages, Input, PageInv
  <2> QED
      BY <1>3, <2>1, Kept DEF BeginRebinding, TypeInv, frame, session,
         lasting, scores, count
<1>4. CASE Rebind
  <2>1. PageInv'
      BY <1>4, <1>0 DEF Rebind, LastingInv, MenuPages, Input, PageInv
  <2> QED
      BY <1>4, <2>1, Kept DEF Rebind, TypeInv, frame, session, lasting,
         scores, count
<1>5. CASE Cancel
  <2>1. PageInv'
      BY <1>5, <1>0 DEF Cancel, LastingInv, MenuPages, Input, PageInv
  <2> QED
      BY <1>5, <2>1, Kept DEF Cancel, TypeInv, frame, session, lasting,
         scores, count
<1>6. CASE Escape
  <2>1. PageInv'
      BY <1>6, <1>0 DEF Escape, LastingInv, MenuPages, Input, PageInv
  <2> QED
      BY <1>6, <2>1, Kept DEF Escape, TypeInv, frame, session, lasting,
         scores, count
<1>7. CASE CycleColours
  <2>1. PageInv'
      BY <1>7, <1>0, ColoursTurn DEF CycleColours, MenuPages, Input, PageInv
  <2> QED
      BY <1>7, <2>1, Kept DEF CycleColours, TypeInv, frame, session, lasting,
         scores, count
<1>8. CASE Confirm
  <2>1. PageInv'
      BY <1>8, <1>0 DEF Confirm, MenuPages, Input, PageInv
  <2>2. LastingInv'
      BY <1>8, <1>0 DEF Confirm, MenuPages, LastingInv, Input
  <2> QED
      BY <1>8, <2>1, <2>2, Kept DEF Confirm, TypeInv, frame, session,
         lasting, scores, count
<1>9. CASE ModeKey
  <2>1. FrameInv'
      BY <1>9, <1>0 DEF ModeKey, Leads, Goto, FrameInv, Screens
  <2> QED
      BY <1>9, <2>1, Kept DEF ModeKey, Leads, TypeInv, frame, session,
         lasting, scores, count
<1>10. CASE ModeClick
  <2>1. FrameInv'
      BY <1>10, <1>0 DEF ModeClick, Leads, Goto, FrameInv, Screens
  <2> QED
      BY <1>10, <2>1, Kept DEF ModeClick, Leads, TypeInv, frame, session,
         lasting, scores, count
<1>11. CASE SoloInput
  <2>1. FrameInv'
      BY <1>11, <1>0 DEF SoloInput, Leads, Goto, FrameInv, Screens
  <2> QED
      BY <1>11, <2>1, Kept DEF SoloInput, Leads, TypeInv, frame, session,
         lasting, scores, count
<1>12. CASE MainMenuKey
  <2>1. PageInv'
    <3>1. LobbyGood(page) /\ LobbyGood(Known(page)) /\ LobbyGood(Emptied(Known(page)))
        BY <1>12, <1>0, KnownIsGood, EmptiedIsGood DEF MainMenuKey, In, Input
    <3>2. LobbyGood(AskForName(page)) /\ LobbyGood(Browse(page))
        BY <3>1, SameLists DEF AskForName, Browse, LobbyGood, LobbyPages
    <3> QED
        BY <1>12, <3>2 DEF MainMenuKey, PageInv
  <2> QED
      BY <1>12, <2>1, Kept DEF MainMenuKey, TypeInv, frame, session, lasting,
         scores, count
<1>13. CASE MainMenuClick
  <2>1. PageInv'
    <3>1. LobbyGood(page) /\ LobbyGood(Known(page)) /\ LobbyGood(Emptied(Known(page)))
        BY <1>13, <1>0, KnownIsGood, EmptiedIsGood DEF MainMenuClick, In, Input
    <3>2. LobbyGood(AskForName(page)) /\ LobbyGood(Browse(page))
        BY <3>1, SameLists DEF AskForName, Browse, LobbyGood, LobbyPages
    <3> QED
        BY <1>13, <3>2 DEF MainMenuClick, PageInv
  <2> QED
      BY <1>13, <2>1, Kept DEF MainMenuClick, TypeInv, frame, session,
         lasting, scores, count
<1>14. CASE CreateKey
  <2>1. PageInv'
    <3>1. LobbyGood(page)
        BY <1>14, <1>0 DEF CreateKey, In, Input
    <3>2. \A mode \in {"main", "room"} : LobbyGood([page EXCEPT !.mode = mode])
        BY <3>1 DEF LobbyGood, LobbyPages
    <3> QED
        BY <1>14, <3>2 DEF CreateKey, InRoomNow, BackToMain, PageInv
  <2>2. SessionInv'
      BY <1>14, <1>0, JoinTypes, Kept DEF CreateKey, InRoomNow, BackToMain,
         session
  <2>3. CountInv'
      BY <1>14, <1>0 DEF CreateKey, InRoomNow, Join, BackToMain, CountInv,
         count
  <2> QED
      BY <1>14, <2>1, <2>2, <2>3, Kept DEF CreateKey, TypeInv, frame,
         session, lasting, scores, count
<1>15. CASE CreateClick
  <2>1. PageInv'
    <3>1. LobbyGood(page)
        BY <1>15, <1>0 DEF CreateClick, In, Input
    <3>2. \A mode \in {"main", "room"} : LobbyGood([page EXCEPT !.mode = mode])
        BY <3>1 DEF LobbyGood, LobbyPages
    <3> QED
        BY <1>15, <3>2 DEF CreateClick, InRoomNow, BackToMain, PageInv
  <2>2. SessionInv'
      BY <1>15, <1>0, JoinTypes, Kept DEF CreateClick, InRoomNow, BackToMain,
         session
  <2>3. CountInv'
      BY <1>15, <1>0 DEF CreateClick, InRoomNow, Join, BackToMain, CountInv,
         count
  <2> QED
      BY <1>15, <2>1, <2>2, <2>3, Kept DEF CreateClick, TypeInv, frame,
         session, lasting, scores, count
<1>16. CASE BrowseClick
  <2>1. PageInv'
    <3>1. LobbyGood(page)
        BY <1>16, <1>0 DEF BrowseClick, In, Input
    <3>2. LobbyGood(Emptied(page))
        BY <3>1, EmptiedIsGood
    <3>3. ASSUME NEW i \in DOMAIN page.shown
          PROVE  LobbyGood(Show([page EXCEPT !.picked = i]))
      <4>1. /\ [page EXCEPT !.picked = i] \in LobbyPages
            /\ [page EXCEPT !.picked = i].rooms = page.rooms
            /\ [page EXCEPT !.picked = i].picked = i
            /\ i \in 0..Len(page.rooms)
          BY <3>1 DEF LobbyGood, LobbyPages
      <4> QED
          BY <4>1, ShowIsGood
    <3>4. \A mode \in {"main", "room"} : LobbyGood([page EXCEPT !.mode = mode])
        BY <3>1 DEF LobbyGood, LobbyPages
    <3> QED
        BY <1>16, <3>2, <3>3, <3>4 DEF BrowseClick, InRoomNow, BackToMain,
           PageInv
  <2>2. SessionInv'
      BY <1>16, <1>0, JoinTypes, Kept DEF BrowseClick, InRoomNow, BackToMain,
         session
  <2>3. CountInv'
      BY <1>16, <1>0 DEF BrowseClick, InRoomNow, Join, BackToMain, CountInv,
         count
  <2> QED
      BY <1>16, <2>1, <2>2, <2>3, Kept DEF BrowseClick, TypeInv, frame,
         session, lasting, scores, count
<1>17. CASE BrowseKey
  <2>1. PageInv'
    <3>1. LobbyGood(page) /\ Len(page.rooms) \in Nat
        BY <1>17, <1>0, LenProperties DEF BrowseKey, In, Input, LobbyPages
    <3>2. Up \in 0..Len(page.rooms) /\ Down \in 0..Len(page.rooms)
        BY <3>1 DEF LobbyGood, Up, Down
    <3>3. ASSUME NEW i \in {Up, Down}
          PROVE  LobbyGood(Show([page EXCEPT !.picked = i]))
      <4>1. /\ [page EXCEPT !.picked = i] \in LobbyPages
            /\ [page EXCEPT !.picked = i].rooms = page.rooms
            /\ [page EXCEPT !.picked = i].picked = i
            /\ i \in 0..Len(page.rooms)
        <5>1. i \in 0..Len(page.rooms) /\ i \in Nat
            BY <3>1, <3>2
        <5>2. page \in LobbyPages
            BY <3>1 DEF LobbyGood
        <5> QED
            BY <5>1, <5>2 DEF LobbyPages
      <4> QED
          BY <4>1, ShowIsGood
    <3>4. \A mode \in {"main", "room"} : LobbyGood([page EXCEPT !.mode = mode])
        BY <3>1 DEF LobbyGood, LobbyPages
    <3> QED
        BY <1>17, <3>3, <3>4 DEF BrowseKey, InRoomNow, BackToMain, PageInv
  <2>2. SessionInv'
      BY <1>17, <1>0, JoinTypes, Kept DEF BrowseKey, InRoomNow, BackToMain,
         session
  <2>3. CountInv'
      BY <1>17, <1>0 DEF BrowseKey, InRoomNow, Join, BackToMain, CountInv,
         count
  <2> QED
      BY <1>17, <2>1, <2>2, <2>3, Kept DEF BrowseKey, TypeInv, frame,
         session, lasting, scores, count
<1>18. CASE LeaveByKey
  <2>1. PageInv'
    <3>1. LobbyGood(Emptied(page))
        BY <1>18, <1>0, EmptiedIsGood DEF LeaveByKey, In, Input
    <3>2. LobbyGood(Forget(page))
        BY <3>1 DEF Forget, LobbyGood, LobbyPages
    <3> QED
        BY <1>18, <3>2 DEF LeaveByKey, PageInv
  <2>2. SessionInv'
      BY <1>18, <1>0, LeaveTypes DEF LeaveByKey
  <2> QED
      BY <1>18, <2>1, <2>2, Kept DEF LeaveByKey, TypeInv, frame, session,
         lasting, scores, count
<1>19. CASE LeaveByClick
  <2>1. PageInv'
    <3>1. LobbyGood(Emptied(page))
        BY <1>19, <1>0, EmptiedIsGood DEF LeaveByClick, In, Input
    <3>2. LobbyGood(Forget(page))
        BY <3>1 DEF Forget, LobbyGood, LobbyPages
    <3> QED
        BY <1>19, <3>2 DEF LeaveByClick, PageInv
  <2>2. SessionInv'
      BY <1>19, <1>0, LeaveTypes DEF LeaveByClick
  <2> QED
      BY <1>19, <2>1, <2>2, Kept DEF LeaveByClick, TypeInv, frame, session,
         lasting, scores, count
<1>20. CASE TogglePause
  <2>1. PageInv'
    <3>1. page \in GamePages
        BY <1>20, <1>0 DEF TogglePause, Input
    <3>2. ASSUME NEW b \in BOOLEAN, NEW c \in BOOLEAN
          PROVE  [page EXCEPT !.paused = b, !.panel = c] \in GamePages
        BY <3>1 DEF GamePages
    <3>3. page' = [page EXCEPT !.paused = ~page.paused, !.panel = page.panel /\ ~page.paused]
        BY <1>20, <3>1 DEF TogglePause, GamePages
    <3> QED
        BY <3>2, <3>3, Zenon DEF PageInv
  <2> QED
      BY <1>20, <2>1, Kept DEF TogglePause, TypeInv, frame, session, lasting,
         scores, count
<1>21. CASE Spectate
  <2>1. PageInv'
      BY <1>21, <1>0 DEF Spectate, GamePages, Input, PageInv
  <2> QED
      BY <1>21, <2>1, Kept DEF Spectate, TypeInv, frame, session, lasting,
         scores, count
<1>22. CASE ClickPaused
  <2>1. PageInv'
      BY <1>22, <1>0 DEF ClickPaused, GamePages, Input, PageInv
  <2>2. LastingInv'
      BY <1>22, <1>0, ColoursTurn DEF ClickPaused, LastingInv
  <2> QED
      BY <1>22, <2>1, <2>2, Kept DEF ClickPaused, TypeInv, frame, session,
         lasting, scores, count
<1>23. CASE DialogToMenu
  <2>1. PageInv'
      BY <1>23, <1>0 DEF DialogToMenu, BackToMenu, Reset, GamePages, Input,
         PageInv
  <2>2. FrameInv'
      BY <1>23, <1>0 DEF DialogToMenu, BackToMenu, Goto, FrameInv, Screens
  <2>3. SessionInv'
      BY <1>23, <1>0 DEF DialogToMenu, BackToMenu, ClearRegistry, SessionInv,
         Clients
  <2> QED
      BY <1>23, <2>1, <2>2, <2>3, Kept DEF DialogToMenu, BackToMenu, TypeInv,
         frame, session, lasting, scores, count
<1>24. CASE ExitHud
  <2>1. PageInv'
      BY <1>24, <1>0 DEF ExitHud, BackToMenu, Reset, GamePages, Input, PageInv
  <2>2. FrameInv'
      BY <1>24, <1>0 DEF ExitHud, BackToMenu, Goto, FrameInv, Screens
  <2>3. SessionInv'
      BY <1>24, <1>0 DEF ExitHud, BackToMenu, ClearRegistry, SessionInv,
         Clients
  <2> QED
      BY <1>24, <2>1, <2>2, <2>3, Kept DEF ExitHud, BackToMenu, TypeInv,
         frame, session, lasting, scores, count
<1>25. CASE GameOverToMenu
  <2>1. PageInv'
      BY <1>25, <1>0 DEF GameOverToMenu, BackToMenu, Reset, GamePages, Input,
         PageInv
  <2>2. FrameInv'
      BY <1>25, <1>0 DEF GameOverToMenu, BackToMenu, Goto, FrameInv, Screens
  <2>3. SessionInv'
      BY <1>25, <1>0 DEF GameOverToMenu, BackToMenu, ClearRegistry, SessionInv,
         Clients
  <2> QED
      BY <1>25, <2>1, <2>2, <2>3, Kept DEF GameOverToMenu, BackToMenu,
         TypeInv, frame, session, lasting, scores, count
<1>26. CASE VictoryToMenu
  <2>1. PageInv'
      BY <1>26, <1>0 DEF VictoryToMenu, BackToMenu, Reset, GamePages, Input,
         PageInv
  <2>2. FrameInv'
      BY <1>26, <1>0 DEF VictoryToMenu, BackToMenu, Goto, FrameInv, Screens
  <2>3. SessionInv'
      BY <1>26, <1>0, LeaveTypes DEF VictoryToMenu, BackToMenu
  <2> QED
      BY <1>26, <2>1, <2>2, <2>3, Kept DEF VictoryToMenu, BackToMenu,
         TypeInv, frame, session, lasting, scores, count
<1>27. CASE EnterMenu /\ next' = "" /\ turn' = "update"
  <2>1. PageInv'
      BY <1>27, <1>0 DEF EnterMenu, Menu, MenuPages, LastingInv, PageInv
  <2>2. FrameInv'
      BY <1>27, <1>0 DEF FrameInv, Screens
  <2>3. ScoresInv'
      BY <1>27, <1>0, LoadedIsSmall DEF EnterMenu, ScoresInv
  <2> QED
      BY <1>27, <2>1, <2>2, <2>3, Kept DEF EnterMenu, TypeInv, frame,
         session, lasting, scores, count
<1>28. CASE EnterModes /\ next' = "" /\ turn' = "update"
  <2>1. PageInv'
      BY <1>28, <1>0 DEF EnterModes, OtherPages, PageInv
  <2>2. FrameInv'
      BY <1>28, <1>0 DEF FrameInv, Screens
  <2> QED
      BY <1>28, <2>1, <2>2, Kept DEF EnterModes, TypeInv, frame, session,
         lasting, scores, count
<1>29. CASE EnterSettings /\ next' = "" /\ turn' = "update"
  <2>1. PageInv'
      BY <1>29, <1>0 DEF EnterSettings, OtherPages, PageInv
  <2>2. FrameInv'
      BY <1>29, <1>0 DEF FrameInv, Screens
  <2> QED
      BY <1>29, <2>1, <2>2, Kept DEF EnterSettings, TypeInv, frame, session,
         lasting, scores, count
<1>30. CASE EnterLobby /\ next' = "" /\ turn' = "update"
  <2>1. PageInv'
      BY <1>30, <1>0, NewLobbyIsGood DEF EnterLobby, PageInv
  <2>2. FrameInv'
      BY <1>30, <1>0 DEF FrameInv, Screens
  <2> QED
      BY <1>30, <2>1, <2>2, Kept DEF EnterLobby, TypeInv, frame, session,
         lasting, scores, count
<1>31. CASE EnterGame /\ next' = "" /\ turn' = "update"
  <2>1. PageInv'
      BY <1>31, <1>0, GamesAreGood DEF EnterGame, PageInv
  <2>2. FrameInv'
      BY <1>31, <1>0 DEF FrameInv, Screens
  <2>3. SessionInv'
      BY <1>31, <1>0, JoinTypes, Kept DEF EnterGame
  <2>4. CountInv'
    <3>1. \/ UNCHANGED count
          \/ joins' = joins + 1 /\ games' = games + 1
        BY <1>31 DEF EnterGame, Join
    <3> QED
        BY <1>0, <3>1 DEF CountInv, count
  <2> QED
      BY <1>31, <2>1, <2>2, <2>3, <2>4, Kept DEF EnterGame, TypeInv, frame,
         session, lasting, scores, count
<1>32. CASE UpdateQuietly
  <2>1. FrameInv'
      BY <1>32, <1>0 DEF UpdateQuietly, FrameInv
  <2> QED
      BY <1>32, <2>1, Kept DEF UpdateQuietly, TypeInv, frame, session,
         lasting, scores, count
<1>33. CASE UpdateLobby
  <2>1. PageInv'
    <3>1. LobbyGood(page)
        BY <1>33, <1>0 DEF UpdateLobby, Updates
    <3>2. LobbyGood(Numbered(page))
        BY <1>0, <3>1 DEF Numbered, LobbyGood, LobbyPages, SessionInv, Clients
    <3>3. LobbyGood(Informed(Numbered(page)))
        BY <3>2 DEF Informed, LobbyGood, LobbyPages
    <3>4. LobbyGood(Show(Informed(Numbered(page))))
        BY <3>3, ShowIsGood DEF LobbyGood
    <3>5. LobbyGood(Listed(Informed(Numbered(page))))
        BY <3>3, <3>4 DEF Listed, LobbyGood, LobbyPages
    <3> QED
        BY <1>33, <3>5 DEF UpdateLobby, PageInv
  <2>2. FrameInv'
      BY <1>33, <1>0 DEF UpdateLobby, FrameInv, Screens
  <2> QED
      BY <1>33, <2>1, <2>2, Kept DEF UpdateLobby, TypeInv, frame, session,
         lasting, scores, count
<1>34. CASE UpdatePaused
  <2>1. FrameInv'
      BY <1>34, <1>0 DEF UpdatePaused, FrameInv
  <2> QED
      BY <1>34, <2>1, Kept DEF UpdatePaused, TypeInv, frame, session,
         lasting, scores, count
<1>35. CASE UpdateGoesOn
  <2>1. PageInv'
    <3>1. page \in GamePages /\ Offered(page) \in GamePages
        BY <1>35, <1>0, OfferIsGood DEF UpdateGoesOn, Updates
    <3>2. [Offered(page) EXCEPT !.allDead = TRUE] \in GamePages
        BY <3>1 DEF GamePages
    <3>3. [Offered(page) EXCEPT !.startSent = @ \/ client.connected] \in GamePages
        BY <1>0, <3>1 DEF GamePages, SessionInv
    <3> QED
        BY <1>35, <3>2, <3>3 DEF UpdateGoesOn, PageInv
  <2>2. FrameInv'
      BY <1>35, <1>0 DEF UpdateGoesOn, FrameInv
  <2> QED
      BY <1>35, <2>1, <2>2, Kept DEF UpdateGoesOn, TypeInv, frame, session,
         lasting, scores, count
<1>36. CASE UpdateEnds
  <2>1. PageInv'
      BY <1>36, <1>0, OfferIsGood DEF UpdateEnds, Updates, Over, GamePages,
         PageInv
  <2>2. FrameInv'
      BY <1>36, <1>0 DEF UpdateEnds, FrameInv
  <2>3. ScoresInv'
    <3>1. CASE page.saved
        BY <1>36, <3>1, Kept DEF UpdateEnds
    <3>2. CASE ~page.saved
      <4>1. PICK n \in Names, s \in Points :
               board' \in Added(board, [list |-> page.list, name |-> n, score |-> s,
                                        at |-> saves])
          BY <1>36, <3>2 DEF UpdateEnds
      <4>2. page.list \in Lists /\ s \in Nat /\ saves \in Nat
          BY <1>0, <1>36, ScreensAssumption DEF UpdateEnds, Updates, GamePages, ScoresInv
      <4>3. [list |-> page.list, name |-> n, score |-> s, at |-> saves] \in Entries
          BY <4>2 DEF Entries
      <4>4. Small(board')
          BY <1>0, <4>1, <4>3, AddedIsSmall DEF ScoresInv
      <4>5. file' = {} /\ saves' = saves + 1
          BY <1>36, <3>2 DEF UpdateEnds
      <4> QED
          BY <4>2, <4>4, <4>5, NothingIsSmall DEF ScoresInv
    <3> QED
        BY <3>1, <3>2
  <2> QED
      BY <1>36, <2>1, <2>2, <2>3, Kept DEF UpdateEnds, TypeInv, frame,
         session, lasting, scores, count
<1>37. CASE Save
  <2>1. FrameInv'
      BY <1>37, <1>0 DEF Save, FrameInv
  <2>2. ScoresInv'
      BY <1>37, <1>0 DEF Save, Written, ScoresInv
  <2> QED
      BY <1>37, <2>1, <2>2, Kept DEF Save, TypeInv, frame, session, lasting,
         scores, count
<1>38. CASE \E id \in Ids \cup {0} : Decides(id)
  <2>1. SessionInv'
      BY <1>38, <1>0 DEF Decides, SessionInv
  <2> QED
      BY <1>38, <2>1, Kept DEF Decides, TypeInv, frame, session, lasting,
         scores, count
<1>39. CASE \E id \in Ids \cup {0} : PlayerJoin(id)
  <2>1. SessionInv'
    <3>1. PICK id \in Ids \cup {0} : PlayerJoin(id)
        BY <1>39
    <3>2. client' \in Clients
        BY <1>0, <3>1 DEF PlayerJoin, SessionInv, Clients
    <3>3. stray' \in BOOLEAN
        BY <1>0, <3>1 DEF PlayerJoin, SessionInv
    <3> QED
        BY <1>0, <3>1, <3>2, <3>3 DEF PlayerJoin, SessionInv
  <2>2. PageInv'
    <3>1. client'.ship \in BOOLEAN
        BY <2>1 DEF SessionInv, Clients
    <3>2. page' = page \/ (page \in GamePages /\ page' = [page EXCEPT !.seen = @ \/ client'.ship])
        BY <1>39, <1>0 DEF PlayerJoin, Witness
    <3>3. page' = page \/ page' \in GamePages
        BY <3>1, <3>2 DEF GamePages
    <3> QED
        BY <1>0, <3>3 DEF PageInv
  <2> QED
      BY <1>39, <2>1, <2>2, Kept DEF PlayerJoin, TypeInv, frame, session, lasting,
         scores, count
<1>40. CASE ShipComes
  <2>1. PageInv'
      BY <1>40, <1>0 DEF ShipComes, Witness, GamePages, SessionInv, PageInv
  <2>2. SessionInv'
      BY <1>40, <1>0 DEF ShipComes, SessionInv, Clients
  <2> QED
      BY <1>40, <2>1, <2>2, Kept DEF ShipComes, TypeInv, frame, session,
         lasting, scores, count
<1>48. CASE ShipGoes \/ \E none \in BOOLEAN : LivesTold(none)
  <2>1. SessionInv'
      BY <1>48, <1>0 DEF ShipGoes, LivesTold, SessionInv, Clients
  <2> QED
      BY <1>48, <2>1, Kept DEF ShipGoes, LivesTold, TypeInv, frame, session,
         lasting, scores, count
<1>41. CASE \E r \in Rooms : AddRoom(r)
  <2>1. PageInv'
    <3>1. PICK r \in Rooms : AddRoom(r)
        BY <1>41
    <3>2. LobbyGood(page)
        BY <1>0, <3>1 DEF AddRoom, InLobby
    <3>3. CASE r \in ToSet(page.rooms)
      <4>1. page' = [page EXCEPT !.fresh = TRUE, !.rooms = page.rooms]
          BY <3>1, <3>3 DEF AddRoom
      <4>2. LobbyGood(page')
          BY <3>2, <4>1, SameLists DEF LobbyGood, LobbyPages
      <4> QED
          BY <4>2 DEF PageInv
    <3>4. CASE r \notin ToSet(page.rooms)
      <4>1. page' = [page EXCEPT !.fresh = TRUE, !.rooms = Append(@, r)]
          BY <3>1, <3>4 DEF AddRoom
      <4> QED
          BY <3>2, <4>1, AppendIsGood DEF PageInv
    <3> QED
        BY <3>3, <3>4
  <2> QED
      BY <1>41, <2>1, Kept DEF AddRoom, TypeInv, frame, session, lasting,
         scores, count
<1>42. CASE \E id \in Ids : LobbyUpdate(id)
  <2>1. PageInv'
    <3>1. PICK id \in Ids : LobbyUpdate(id)
        BY <1>42
    <3>2. LobbyGood(page)
        BY <1>0, <3>1 DEF LobbyUpdate, InLobby
    <3>3. LobbyGood(page')
        BY <3>1, <3>2, SameLists DEF LobbyUpdate, LobbyGood, LobbyPages
    <3> QED
        BY <3>3 DEF PageInv
  <2> QED
      BY <1>42, <2>1, Kept DEF LobbyUpdate, TypeInv, frame, session, lasting,
         scores, count
<1>43. CASE GameStart
  <2>1. PageInv'
      BY <1>43, <1>0, SameLists DEF GameStart, InLobby, LobbyPages,
         SessionInv, PageInv
  <2> QED
      BY <1>43, <2>1, Kept DEF GameStart, TypeInv, frame, session, lasting,
         scores, count
<1>44. CASE \E last \in BOOLEAN : StageCleared(last)
  <2>1. LastingInv'
      BY <1>44, <1>0 DEF StageCleared, LastingInv
  <2> QED
      BY <1>44, <2>1, Kept DEF StageCleared, TypeInv, frame, session,
         lasting, scores, count
<1>45. CASE Start
  <2>1. FrameInv'
      BY <1>45, <1>0 DEF Start, FrameInv, Screens
  <2>2. ScoresInv'
      BY <1>45, <1>0, LoadedIsSmall DEF Start, ScoresInv
  <2> QED
      BY <1>45, <2>1, <2>2, Kept DEF Start, TypeInv, frame, session, lasting,
         scores, count
<1>46. CASE Stop
  <2>1. PageInv'
      BY <1>46, <1>0 DEF Stop, OtherPages, PageInv
  <2>2. FrameInv'
      BY <1>46, <1>0 DEF Stop, FrameInv
  <2>3. SessionInv'
      BY <1>46, <1>0 DEF Stop, Idle, SessionInv, Clients
  <2>4. LastingInv'
    <3>1. 0 \in 0..(Modes - 1) /\ FirstKey \in KeyCodes
        BY ScreensAssumption
    <3> QED
        BY <1>46, <3>1 DEF Stop, LastingInv
  <2> QED
      BY <1>46, <2>1, <2>2, <2>3, <2>4, Kept DEF Stop, TypeInv, frame,
         session, lasting, scores, count
<1>47. CASE UNCHANGED vars
    BY <1>47, Kept DEF vars, TypeInv
<1> QED
    BY <1>1, <1>2, <1>3, <1>4, <1>5, <1>6, <1>7, <1>8, <1>9, <1>10, <1>11,
       <1>12, <1>13, <1>14, <1>15, <1>16, <1>17, <1>18, <1>19, <1>20, <1>21,
       <1>22, <1>23, <1>24, <1>25, <1>26, <1>27, <1>28, <1>29, <1>30, <1>31,
       <1>32, <1>33, <1>34, <1>35, <1>36, <1>37, <1>38, <1>39, <1>40, <1>41,
       <1>42, <1>43, <1>44, <1>45, <1>46, <1>47, <1>48 DEF Next, MenuInput,
       LobbyInput, GameInput, Frame, Switch, Network, Quit, Killed

(* Every variable of the screens keeps its type (GameState.cpp,            *)
(* LobbyState.cpp, MenuState.cpp, ScoreboardManager.cpp).                  *)
THEOREM TypeCorrect == Spec => []TypeOK
<1>1. ASSUME TypeInv
      PROVE  TypeOK
  <2>1. /\ PageInv /\ FrameInv /\ SessionInv /\ LastingInv /\ ScoresInv
      BY <1>1 DEF TypeInv
  <2>2. page.is \in {"off", "menu", "modes", "settings", "lobby", "game"}
      BY <2>1 DEF PageInv, MenuPages, LobbyPages, GamePages, OtherPages,
         LobbyGood, Gone, ModeSelection, SoloSettings
  <2>3. page.is = "menu" => MenuOK
      BY <2>1, PageKinds DEF MenuOK, MenuPages
  <2>4. page.is = "lobby" => LobbyOK
      BY <2>1, PageKinds DEF LobbyOK, LobbyPages, LobbyGood
  <2>5. page.is = "game" => GameOK
      BY <2>1, PageKinds DEF GameOK, GamePages
  <2> QED
      BY <2>1, <2>2, <2>3, <2>4, <2>5 DEF TypeOK, FrameInv, SessionInv,
         LastingInv, ScoresInv, Small, Clients
<1> QED
    BY <1>1, TypeInit, TypeNext, PTL DEF Spec

----------------------------------------------------------------------------
(* Who the client is, and what the screens say.                            *)

(* What a step does to the session.                                        *)
LEMMA SessionSteps ==
    ASSUME TypeInv, [Next]_vars
    PROVE  \/ UNCHANGED session
           \/ Join /\ UNCHANGED <<client, seat, given, stray>>
           \/ LeaveRoom /\ UNCHANGED <<asked, given, kept>>
           \/ /\ UNCHANGED <<seat, asked, given, kept, stray>>
              /\ client'.connected = client.connected /\ client'.me = client.me
           \/ \E id \in Ids \cup {0} : Decides(id) \/ PlayerJoin(id)
           \/ Stop
<1>0. client \in Clients
    BY DEF TypeInv, SessionInv
<1>1. CASE MenuInput
    BY <1>1 DEF MenuInput, MenuKey, MenuClick, BeginRebinding, Rebind,
       CycleColours, Confirm, Cancel, Escape, ModeKey, ModeClick, SoloInput,
       Leads
<1>2. CASE LobbyInput
    BY <1>2 DEF LobbyInput, MainMenuKey, MainMenuClick, CreateKey,
       CreateClick, BrowseKey, BrowseClick, LeaveByKey, LeaveByClick,
       InRoomNow, BackToMain, session
<1>3. CASE GameInput
    BY <1>0, <1>3 DEF GameInput, TogglePause, Spectate, DialogToMenu, ClickPaused,
       ExitHud, GameOverToMenu, VictoryToMenu, BackToMenu, ClearRegistry,
       Clients, session
<1>4. CASE Switch
    BY <1>4 DEF Switch, EnterMenu, EnterModes, EnterSettings, EnterLobby,
       EnterGame, session
<1>5. CASE Frame /\ ~Switch
    BY <1>5 DEF Frame, UpdateQuietly, UpdateLobby, UpdatePaused,
       UpdateGoesOn, UpdateEnds, Save, session
<1>6. CASE Network
    BY <1>0, <1>6 DEF Network, ShipComes, ShipGoes, LivesTold, AddRoom,
       LobbyUpdate, GameStart, StageCleared, Clients, session
<1>7. CASE Start \/ Quit \/ Killed
    BY <1>7 DEF Start, Quit, Killed, session
<1>8. CASE UNCHANGED vars
    BY <1>8 DEF vars, session
<1> QED
    BY <1>1, <1>2, <1>3, <1>4, <1>5, <1>6, <1>7, <1>8 DEF Next

(* A client that left each room before it joined again waits for at most   *)
(* one answer, and not with a seat; and it is who its seat says, if it was *)
(* its own PlayerJoin that it took.                                        *)
SeatInv == /\ stray => client.connected
           /\ ~kept => /\ asked <= 1
                       /\ seat # 0 => asked = 0
                       /\ client.connected /\ ~stray => client.me = seat /\ seat # 0

LEMMA SeatInit == Init => SeatInv
BY DEF Init, SeatInv, Idle

LEMMA SeatNext == TypeInv /\ SeatInv /\ [Next]_vars => SeatInv'
<1> SUFFICES ASSUME TypeInv, SeatInv, [Next]_vars
             PROVE  SeatInv'
    OBVIOUS
<1>0. SessionInv
    BY DEF TypeInv
<1>1. CASE UNCHANGED session
    BY <1>1 DEF session, SeatInv
<1>2. CASE Join /\ UNCHANGED <<client, seat, given, stray>>
  <2>1. ~kept' => ~kept /\ ~client.connected /\ ~(asked > 0) /\ seat = 0
      BY <1>2 DEF Join
  <2>2. /\ asked' = asked + 1 /\ asked \in Nat
        /\ client' = client /\ seat' = seat /\ stray' = stray
      BY <1>0, <1>2 DEF Join, SessionInv
  <2> QED
      BY <2>1, <2>2 DEF SeatInv
<1>3. CASE LeaveRoom /\ UNCHANGED <<asked, given, kept>>
    BY <1>0, <1>3 DEF LeaveRoom, Idle, SeatInv, SessionInv
<1>4. CASE /\ UNCHANGED <<seat, asked, given, kept, stray>>
           /\ client'.connected = client.connected /\ client'.me = client.me
    BY <1>0, <1>4 DEF SeatInv
<1>5. CASE \E id \in Ids \cup {0} : Decides(id)
  <2>1. PICK id \in Ids \cup {0} : Decides(id)
      BY <1>5
  <2>2. /\ asked > 0 /\ asked' = asked - 1 /\ asked \in Nat
        /\ client' = client /\ kept' = kept /\ stray' = stray
      BY <1>0, <2>1 DEF Decides, SessionInv
  <2>3. ~kept => asked = 1 /\ seat = 0 /\ ~(client.connected /\ ~stray)
      BY <1>0, <2>2 DEF SeatInv, SessionInv
  <2> QED
      BY <2>2, <2>3 DEF SeatInv
<1>6. CASE \E id \in Ids \cup {0} : PlayerJoin(id)
  <2>1. PICK id \in Ids \cup {0} : PlayerJoin(id)
      BY <1>6
  <2>2. seat' = seat /\ asked' = asked /\ kept' = kept
      BY <2>1 DEF PlayerJoin
  <2>3. CASE client.connected
    <3>1. client'.connected /\ client'.me = client.me /\ stray' = stray
        BY <1>0, <2>1, <2>3 DEF PlayerJoin, SessionInv, Clients
    <3> QED
        BY <2>2, <2>3, <3>1 DEF SeatInv
  <2>4. CASE ~client.connected
    <3>1. client'.connected /\ client'.me = id /\ stray' = (id # seat \/ id = 0)
        BY <2>1, <2>4 DEF PlayerJoin
    <3> QED
        BY <2>2, <3>1 DEF SeatInv
  <2> QED
      BY <2>3, <2>4
<1>7. CASE Stop
  <2>1. ~client'.connected /\ seat' = 0 /\ asked' = 0 /\ ~stray'
      BY <1>7 DEF Stop, Idle
  <2> QED
      BY <2>1 DEF SeatInv
<1> QED
    BY <1>1, <1>2, <1>3, <1>4, <1>5, <1>6, <1>7, SessionSteps

LEMMA GamesBegin ==
    ASSUME TypeInv, EnterGame
    PROVE  page' \in GamePages /\ page'.is = "game"
<1>1. page' \in GamePages
    BY GamesAreGood DEF EnterGame, TypeInv
<1> QED
    BY <1>1 DEF GamePages

(* What a step does to the page and to what the settings are made of.      *)
LEMMA PageSteps ==
    ASSUME TypeInv, [Next]_vars
    PROVE  \/ UNCHANGED <<page, keys, colours>>
           \/ page'.is # "menu"
           \/ MenuKey \/ MenuClick \/ BeginRebinding \/ Rebind \/ CycleColours
           \/ Confirm \/ Cancel \/ Escape \/ EnterMenu
<1>0. /\ page.is = "lobby" => page \in LobbyPages
      /\ page.is = "game" => page \in GamePages
    BY PageKinds DEF TypeInv
<1>1. CASE MenuInput
    BY <1>1 DEF MenuInput, ModeKey, ModeClick, SoloInput, Leads, lasting
<1>2. CASE LobbyInput
    BY <1>0, <1>2 DEF LobbyInput, MainMenuKey, MainMenuClick, CreateKey,
       CreateClick, BrowseKey, BrowseClick, LeaveByKey, LeaveByClick,
       InRoomNow, BackToMain, In, Input, AskForName, Browse, Known, Emptied,
       Show, Forget, LobbyPages
<1>3. CASE GameInput
    BY <1>0, <1>3 DEF GameInput, TogglePause, Spectate, DialogToMenu,
       ClickPaused, ExitHud, GameOverToMenu, VictoryToMenu, BackToMenu,
       Reset, Input, GamePages
<1>4. CASE Switch
  <2>1. Lobby.is = "lobby"
      BY NewLobbyIsGood DEF TypeInv, LobbyGood, LobbyPages
  <2>2. EnterGame => page'.is = "game"
      BY GamesBegin
  <2>3. EnterLobby => page'.is = "lobby"
      BY <2>1 DEF EnterLobby
  <2>4. EnterModes \/ EnterSettings => page'.is \in {"modes", "settings"}
      BY DEF EnterModes, EnterSettings, ModeSelection, SoloSettings
  <2> QED
      BY <1>4, <2>2, <2>3, <2>4 DEF Switch
<1>5. CASE UpdateQuietly \/ UpdatePaused \/ Save
    BY <1>5 DEF UpdateQuietly, UpdatePaused, Save, lasting
<1>6. CASE UpdateLobby
    BY <1>0, <1>6 DEF UpdateLobby, Updates, Numbered, Informed, Listed, Show,
       LobbyPages
<1>7. CASE UpdateGoesOn \/ UpdateEnds
  <2>1. page \in GamePages /\ Offered(page) \in GamePages
      BY <1>0, <1>7, OfferIsGood DEF UpdateGoesOn, UpdateEnds, Updates
  <2> QED
      BY <1>7, <2>1 DEF UpdateGoesOn, UpdateEnds, Over, GamePages
<1>8. CASE Network
  <2>1. CASE page.is = "game"
      BY <1>0, <1>8, <2>1 DEF Network, Decides, PlayerJoin, LivesTold, Witness, ShipComes,
         ShipGoes, AddRoom, LobbyUpdate, GameStart, StageCleared, InLobby,
         GamePages
  <2>2. CASE page.is = "lobby"
      BY <1>0, <1>8, <2>2 DEF Network, Decides, PlayerJoin, LivesTold, Witness, ShipComes,
         ShipGoes, AddRoom, LobbyUpdate, GameStart, StageCleared, LobbyPages
  <2>3. CASE page.is # "game" /\ page.is # "lobby"
    <3>1. UNCHANGED page
        BY <1>8, <2>3 DEF Network, Decides, PlayerJoin, LivesTold, Witness, ShipComes, ShipGoes,
           AddRoom, LobbyUpdate, GameStart, StageCleared, InLobby
    <3>2. UNCHANGED lasting \/ \E last \in BOOLEAN : StageCleared(last)
        BY <1>8 DEF Network, Decides, PlayerJoin, LivesTold, ShipComes, ShipGoes, AddRoom,
           LobbyUpdate, GameStart
    <3> QED
        BY <3>1, <3>2 DEF StageCleared, lasting
  <2> QED
      BY <2>1, <2>2, <2>3
<1>9. CASE Start \/ Quit \/ Killed
  <2>1. page' = Gone \/ UNCHANGED <<page, keys, colours>>
      BY <1>9 DEF Start, Quit, Killed, Stop, lasting
  <2> QED
      BY <2>1 DEF Gone
<1>10. CASE UNCHANGED vars
    BY <1>10 DEF vars, lasting
<1> QED
    BY <1>1, <1>2, <1>3, <1>4, <1>5, <1>6, <1>7, <1>8, <1>9, <1>10 DEF Next,
       Frame

(* A lobby that left no room takes itself for the one with the client's    *)
(* seat, which it knows from the client or from the server, or does not    *)
(* know it yet.                                                            *)
LocalInv == page.is = "lobby" /\ ~page.left /\ ~kept /\ ~stray =>
               page.local \in {0, seat} /\ page.news \in {0, seat}

SettingsInv == page.is = "menu" => SettingsAreReal

LEMMA SettingsInit == Init => LocalInv /\ SettingsInv
BY DEF Init, LocalInv, SettingsInv, Gone

LEMMA SettingsNext == TypeInv /\ SettingsInv /\ [Next]_vars => SettingsInv'
<1> SUFFICES ASSUME TypeInv, SettingsInv, [Next]_vars
             PROVE  SettingsInv'
    OBVIOUS
<1>0. /\ PageInv
      /\ page.is = "menu" => page \in MenuPages
      /\ page.is = "lobby" => page \in LobbyPages
      /\ page.is = "game" => page \in GamePages
    BY PageKinds DEF TypeInv
<1>1. CASE MenuKey
    BY <1>0, <1>1 DEF MenuKey, OpenSettings, lasting, Input, MenuPages,
       SettingsInv, SettingsAreReal
<1>2. CASE MenuClick
    BY <1>0, <1>2 DEF MenuClick, OpenSettings, lasting, Input, MenuPages,
       SettingsInv, SettingsAreReal
<1>3. CASE BeginRebinding \/ Rebind \/ CycleColours
    BY <1>0, <1>3 DEF BeginRebinding, Rebind, CycleColours, lasting, Input,
       MenuPages, SettingsInv, SettingsAreReal
<1>4. CASE Confirm \/ Cancel \/ Escape
    BY <1>0, <1>4 DEF Confirm, Cancel, Escape, lasting, Input, MenuPages,
       SettingsInv, SettingsAreReal
<1>5. CASE EnterMenu
    BY <1>5 DEF EnterMenu, Menu, lasting, SettingsInv, SettingsAreReal
<1>6. CASE page'.is # "menu"
    BY <1>6 DEF SettingsInv
<1>7. CASE UNCHANGED <<page, keys, colours>>
    BY <1>7 DEF SettingsInv, SettingsAreReal
<1> QED
    BY <1>0, <1>1, <1>2, <1>3, <1>4, <1>5, <1>6, <1>7, PageSteps

LEMMA LocalNext == TypeInv /\ SeatInv /\ LocalInv /\ [Next]_vars => LocalInv'
<1> SUFFICES ASSUME TypeInv, SeatInv, LocalInv, [Next]_vars
             PROVE  LocalInv'
    OBVIOUS
<1>0. /\ PageInv /\ SessionInv
      /\ page.is = "lobby" => page \in LobbyPages
      /\ page.is = "game" => page \in GamePages
    BY PageKinds DEF TypeInv
<1>a. ASSUME page \in LobbyPages, page'.local = page.local, page'.news = page.news,
             page'.left = page.left, UNCHANGED seat, ~kept' => ~kept,
             ~stray' => ~stray
      PROVE  LocalInv'
    BY <1>a DEF LobbyPages, LocalInv
<1>1. CASE page'.is # "lobby"
    BY <1>1 DEF LocalInv
<1>2. CASE MainMenuKey \/ MainMenuClick
  <2>1. page \in LobbyPages /\ UNCHANGED session
      BY <1>0, <1>2 DEF MainMenuKey, MainMenuClick, In, Input
  <2>2. page'.left = page.left /\ page'.news = page.news /\ page.is = "lobby"
        /\ page'.local = IF client.connected THEN client.me ELSE page.local
      BY <1>2, <2>1 DEF MainMenuKey, MainMenuClick, AskForName, Browse,
         Known, Emptied, LobbyPages
  <2> QED
      BY <2>1, <2>2 DEF session, LocalInv, SeatInv
<1>3. CASE InRoomNow /\ page \in LobbyPages
  <2>1. /\ page'.local = page.local /\ page'.news = page.news /\ page'.left = page.left
        /\ stray' = stray /\ seat' = seat
      BY <1>3 DEF InRoomNow, LobbyPages
  <2>2. ~kept' => ~kept
      BY <1>3 DEF InRoomNow, Join
  <2> QED
      BY <1>3, <1>a, <2>1, <2>2
<1>4. CASE /\ page \in LobbyPages /\ UNCHANGED session
           /\ \/ BackToMain
              \/ page' = Emptied(page)
              \/ \E i : page' = Show([page EXCEPT !.picked = i])
  <2>1. /\ page'.local = page.local /\ page'.news = page.news /\ page'.left = page.left
      BY <1>4 DEF BackToMain, Emptied, Show, LobbyPages
  <2> QED
      BY <1>4, <1>a, <2>1 DEF session
<1>5. CASE page \in LobbyPages /\ page' = Forget(page)
  <2>1. page'.left
      BY <1>5 DEF Forget, Emptied, LobbyPages
  <2> QED
      BY <2>1 DEF LocalInv
<1>6. CASE EnterLobby
  <2>1. /\ page'.local = IF client.connected THEN client.me ELSE 0
        /\ page'.news = 0 /\ UNCHANGED session
      BY <1>6 DEF EnterLobby, Lobby, Known
  <2> QED
      BY <2>1 DEF session, LocalInv, SeatInv
<1>7. CASE UpdateLobby
  <2>1. page \in LobbyPages /\ page.is = "lobby" /\ UNCHANGED session
      BY <1>0, <1>7 DEF UpdateLobby, Updates
  <2> DEFINE known == IF page.local = 0 /\ client.connected THEN client.me ELSE page.local
  <2>2. Numbered(page) \in LobbyPages /\ Numbered(page) = [page EXCEPT !.local = known]
      BY <1>0, <2>1 DEF Numbered, LobbyPages, SessionInv, Clients
  <2>3. /\ Informed(Numbered(page)) \in LobbyPages
        /\ Informed(Numbered(page)).left = page.left
        /\ Informed(Numbered(page)).news = 0
        /\ Informed(Numbered(page)).local = IF known = 0 THEN page.news ELSE known
      BY <2>1, <2>2 DEF Informed, LobbyPages
  <2>4. /\ page'.left = page.left /\ page'.news = 0
        /\ page'.local = IF known = 0 THEN page.news ELSE known
      BY <1>7, <2>3 DEF UpdateLobby, Listed, Show, LobbyPages
  <2> QED
      BY <1>0, <2>1, <2>4 DEF session, LocalInv, SeatInv, SessionInv
<1>8. CASE page \in LobbyPages /\ \E id \in Ids \cup {0} : Decides(id)
  <2>1. page.is = "lobby" /\ page' = page /\ kept' = kept /\ stray' = stray /\ asked > 0
      BY <1>8 DEF Decides, LobbyPages
  <2>2. kept \/ seat = 0
      BY <2>1 DEF SeatInv
  <2> QED
      BY <2>1, <2>2 DEF LocalInv
<1>9. CASE page \in LobbyPages /\ \E id \in Ids \cup {0} : PlayerJoin(id)
  <2>1. page.is = "lobby"
      BY <1>9 DEF LobbyPages
  <2>2. page' = page /\ kept' = kept /\ seat' = seat
      BY <1>9, <2>1 DEF PlayerJoin, Witness
  <2>3. ~stray' => ~stray
      BY <1>9 DEF PlayerJoin, SeatInv
  <2> QED
      BY <1>9, <1>a, <2>2, <2>3
<1>21. CASE page \in LobbyPages /\ (ShipComes \/ ShipGoes \/ \E none \in BOOLEAN : LivesTold(none))
  <2>1. page' = page /\ UNCHANGED <<seat, kept, stray>>
      BY <1>21 DEF ShipComes, ShipGoes, LivesTold, Witness, LobbyPages
  <2> QED
      BY <1>21, <1>a, <2>1
<1>10. CASE page \in LobbyPages /\ ((\E r \in Rooms : AddRoom(r)) \/ GameStart)
  <2>1. /\ page'.local = page.local /\ page'.news = page.news /\ page'.left = page.left
        /\ UNCHANGED session
      BY <1>10 DEF AddRoom, GameStart, LobbyPages
  <2> QED
      BY <1>10, <1>a, <2>1 DEF session
<1>11. CASE page \in LobbyPages /\ \E id \in Ids : LobbyUpdate(id)
  <2>1. PICK id \in Ids : LobbyUpdate(id)
      BY <1>11
  <2>2. /\ page'.local = page.local /\ page'.news = id
        /\ page'.left = (page.left \/ id # seat)
        /\ UNCHANGED session /\ page.is = "lobby"
      BY <1>11, <2>1 DEF LobbyUpdate, LobbyPages
  <2> QED
      BY <2>2 DEF session, LocalInv
<1>12. CASE UNCHANGED <<page, session>>
    BY <1>12 DEF session, LocalInv
<1>13. CASE MenuInput
  <2>1. page.is # "lobby" /\ (page' = page \/ page'.is = page.is)
    <3>1. page \in MenuPages \/ page' = page
        BY <1>13, PageKinds DEF TypeInv, MenuInput, MenuKey, MenuClick,
           BeginRebinding, Rebind, CycleColours, Confirm, Cancel, Escape,
           Input, ModeKey, ModeClick, SoloInput, Leads
    <3>2. page.is \in {"menu", "modes", "settings"}
        BY <1>13 DEF MenuInput, MenuKey, MenuClick, BeginRebinding, Rebind,
           CycleColours, Confirm, Cancel, Escape, Input, ModeKey, ModeClick,
           SoloInput, Leads
    <3> QED
        BY <1>13, <3>1, <3>2 DEF MenuInput, MenuKey, MenuClick, OpenSettings,
           BeginRebinding, Rebind, CycleColours, Confirm, Cancel, Escape,
           ModeKey, ModeClick, SoloInput, Leads, MenuPages
  <2> QED
      BY <1>1, <2>1
<1>14. CASE LobbyInput
  <2>1. page \in LobbyPages
      BY <1>0, <1>14 DEF LobbyInput, MainMenuKey, MainMenuClick, CreateKey,
         CreateClick, BrowseKey, BrowseClick, LeaveByKey, LeaveByClick, In,
         Input
  <2>2. CASE CreateKey \/ CreateClick
      BY <1>3, <1>4, <2>1, <2>2 DEF CreateKey, CreateClick, BackToMain
  <2>3. CASE BrowseKey
      BY <1>3, <1>4, <2>1, <2>3 DEF BrowseKey, BackToMain
  <2>4. CASE BrowseClick
      BY <1>3, <1>4, <2>1, <2>4 DEF BrowseClick, BackToMain
  <2>5. CASE LeaveByKey \/ LeaveByClick
      BY <1>5, <2>1, <2>5 DEF LeaveByKey, LeaveByClick
  <2> QED
      BY <1>2, <1>14, <2>2, <2>3, <2>4, <2>5 DEF LobbyInput
<1>15. CASE GameInput \/ UpdateGoesOn \/ UpdateEnds
  <2>1. page \in GamePages
      BY <1>0, <1>15 DEF GameInput, TogglePause, Spectate, DialogToMenu,
         ClickPaused, ExitHud, GameOverToMenu, VictoryToMenu, UpdateGoesOn,
         UpdateEnds, Input, Updates
  <2>2. page'.is = "game"
      BY <1>15, <2>1, OfferIsGood DEF GameInput, TogglePause, Spectate,
         DialogToMenu, ClickPaused, ExitHud, GameOverToMenu, VictoryToMenu,
         BackToMenu, Reset, UpdateGoesOn, UpdateEnds, Over, GamePages
  <2> QED
      BY <1>1, <2>2
<1>16. CASE Switch
  <2>1. EnterLobby \/ page'.is # "lobby"
    <3>1. EnterGame => page'.is = "game"
        BY GamesBegin
    <3>2. EnterMenu => page'.is = "menu"
        BY DEF EnterMenu, Menu
    <3>3. EnterModes \/ EnterSettings => page'.is \in {"modes", "settings"}
        BY DEF EnterModes, EnterSettings, ModeSelection, SoloSettings
    <3> QED
        BY <1>16, <3>1, <3>2, <3>3 DEF Switch
  <2> QED
      BY <1>1, <1>6, <2>1
<1>17. CASE UpdateQuietly \/ UpdatePaused \/ Save
    BY <1>12, <1>17 DEF UpdateQuietly, UpdatePaused, Save
<1>18. CASE Network
  <2>1. CASE page.is = "lobby"
    <3>1. page \in LobbyPages
        BY <1>0, <2>1
    <3>2. (\E last \in BOOLEAN : StageCleared(last)) => UNCHANGED <<page, session>>
        BY DEF StageCleared
    <3> QED
        BY <1>8, <1>9, <1>10, <1>11, <1>12, <1>18, <1>21, <3>1, <3>2 DEF Network
  <2>2. CASE page.is # "lobby"
    <3>1. page' = page \/ (page \in GamePages /\ page'.is = "game")
        BY <1>0, <1>18, <2>2 DEF Network, Decides, PlayerJoin, LivesTold, Witness, ShipComes,
           ShipGoes, AddRoom, LobbyUpdate, GameStart, StageCleared, InLobby,
           GamePages
    <3> QED
        BY <1>1, <2>2, <3>1
  <2> QED
      BY <2>1, <2>2
<1>19. CASE Start \/ Quit \/ Killed
  <2>1. UNCHANGED <<page, session>> \/ page' = Gone
      BY <1>19 DEF Start, Quit, Killed, Stop
  <2> QED
      BY <1>1, <1>12, <2>1 DEF Gone
<1>20. CASE UNCHANGED vars
    BY <1>12, <1>20 DEF vars
<1> QED
    BY <1>7, <1>13, <1>14, <1>15, <1>16, <1>17, <1>18, <1>19, <1>20 DEF Next,
       Frame

(* The button of a room joins that room; the settings show what is in      *)
(* force when they open; who may start the game is the first of its room   *)
(* (LobbyState.cpp:466, 854, MenuState.cpp).                               *)
THEOREM ScreensAreTrue == Spec => []ScreensTellTheTruth
<1>1. ASSUME TypeInv, SeatInv, LocalInv, SettingsInv
      PROVE  ScreensTellTheTruth
  <2>1. page.is = "lobby" => ButtonsAreRooms
      BY <1>1, PageKinds DEF TypeInv, LobbyGood, ButtonsAreRooms
  <2>2. StarterIsFirst
      BY <1>1 DEF StarterIsFirst, MayStart, LocalInv, SeatInv
  <2> QED
      BY <1>1, <2>1, <2>2 DEF ScreensTellTheTruth, SettingsInv
<1> QED
    BY <1>1, TypeInit, TypeNext, SeatInit, SeatNext, SettingsInit,
       SettingsNext, LocalNext, PTL DEF Spec

----------------------------------------------------------------------------
(* Scores.                                                                 *)

(* A solo game whose score is still to come.                               *)
Pending == page.is = "game" /\ ~page.multi /\ ~page.saved /\ next = ""

(* Every score is of a solo game of its own: a game with others is never   *)
(* over (see README), and a game that has been left for the menu is not    *)
(* updated again.                                                          *)
PlayedInv ==
    /\ saves <= games /\ (Pending => saves < games)
    /\ turn \in {"update", "saving"} => next = ""
    /\ page.is = "game" =>
          /\ page.multi => ~page.over /\ ~page.allDead
          /\ ~page.multi => /\ page.saved => page.over \/ next # ""
                            /\ client.connected => page.seen \/ page.stale
                            /\ page.over => page.seen \/ page.stale

LEMMA PlayedInit == Init => PlayedInv
BY DEF Init, PlayedInv, Pending, Gone

LEMMA PlayedNext == TypeInv /\ PlayedInv /\ [Next]_vars => PlayedInv'
<1> SUFFICES ASSUME TypeInv, PlayedInv, [Next]_vars
             PROVE  PlayedInv'
    OBVIOUS
<1>0. /\ PageInv /\ SessionInv /\ FrameInv /\ games \in Nat /\ saves \in Nat
      /\ page.is = "menu" => page \in MenuPages
      /\ page.is = "lobby" => page \in LobbyPages
      /\ page.is = "game" => page \in GamePages
    BY PageKinds DEF TypeInv, CountInv, ScoresInv
(* Away from the game, and not scoring.                                    *)
<1>a. ASSUME page'.is # "game", saves' = saves, games' = games,
             turn' \in {"update", "saving"} => next' = ""
      PROVE  PlayedInv'
    BY <1>a DEF PlayedInv, Pending
<1>1. CASE MenuInput
  <2>1. page'.is # "game" /\ turn' = turn /\ turn = "input"
    <3>1. page.is \in {"menu", "modes", "settings"} /\ turn = "input"
        BY <1>1 DEF MenuInput, MenuKey, MenuClick, BeginRebinding, Rebind,
           CycleColours, Confirm, Cancel, Escape, Input, ModeKey, ModeClick,
           SoloInput, Leads
    <3>2. page' = page \/ (page \in MenuPages /\ page'.is = page.is)
        BY <1>0, <1>1 DEF MenuInput, MenuKey, MenuClick, OpenSettings,
           BeginRebinding, Rebind, CycleColours, Confirm, Cancel, Escape,
           Input, ModeKey, ModeClick, SoloInput, Leads, MenuPages
    <3>3. turn' = turn
        BY <1>1 DEF MenuInput, MenuKey, MenuClick, BeginRebinding, Rebind,
           CycleColours, Confirm, Cancel, Escape, ModeKey, ModeClick,
           SoloInput, Leads, frame
    <3> QED
        BY <3>1, <3>2, <3>3
  <2>2. saves' = saves /\ games' = games
      BY <1>1 DEF MenuInput, MenuKey, MenuClick, BeginRebinding, Rebind,
         CycleColours, Confirm, Cancel, Escape, ModeKey, ModeClick,
         SoloInput, Leads, scores, count
  <2> QED
      BY <1>a, <2>1, <2>2
<1>2. CASE LobbyInput \/ UpdateLobby
  <2>1. page \in LobbyPages
      BY <1>0, <1>2 DEF LobbyInput, MainMenuKey, MainMenuClick, CreateKey,
         CreateClick, BrowseKey, BrowseClick, LeaveByKey, LeaveByClick, In,
         Input, UpdateLobby, Updates
  <2>2. page'.is # "game"
    <3>1. page'.is = page.is
        BY <1>2, <2>1 DEF LobbyInput, MainMenuKey, MainMenuClick, CreateKey,
           CreateClick, BrowseKey, BrowseClick, LeaveByKey, LeaveByClick,
           InRoomNow, BackToMain, AskForName, Browse, Known, Emptied, Show,
           Forget, UpdateLobby, Numbered, Informed, Listed, LobbyPages
    <3> QED
        BY <2>1, <3>1 DEF LobbyPages
  <2>3. saves' = saves /\ games' = games
      BY <1>2 DEF LobbyInput, MainMenuKey, MainMenuClick, CreateKey,
         CreateClick, BrowseKey, BrowseClick, LeaveByKey, LeaveByClick,
         InRoomNow, BackToMain, UpdateLobby, scores, count
  <2>4. turn' = "input"
      BY <1>2 DEF LobbyInput, MainMenuKey, MainMenuClick, CreateKey,
         CreateClick, BrowseKey, BrowseClick, LeaveByKey, LeaveByClick, In,
         Input, UpdateLobby, frame
  <2> QED
      BY <1>a, <2>2, <2>3, <2>4
<1>3. CASE TogglePause \/ Spectate \/ ClickPaused
  <2>1. page \in GamePages /\ turn = "input"
      BY <1>0, <1>3 DEF TogglePause, Spectate, ClickPaused, Input
  <2>2. /\ page'.is = page.is /\ page'.multi = page.multi /\ page'.over = page.over
        /\ page'.allDead = page.allDead /\ page'.saved = page.saved
        /\ page'.seen = page.seen /\ page'.stale = page.stale
      BY <1>3, <2>1 DEF TogglePause, Spectate, ClickPaused, GamePages
  <2>3. UNCHANGED <<next, turn, client, saves, games>>
      BY <1>3 DEF TogglePause, Spectate, ClickPaused, frame, session, scores,
         count
  <2> QED
      BY <2>2, <2>3 DEF PlayedInv, Pending
<1>4. CASE DialogToMenu \/ ExitHud \/ GameOverToMenu \/ VictoryToMenu
  <2>1. page \in GamePages /\ turn' = "input" /\ next' = "menu"
      BY <1>0, <1>4 DEF DialogToMenu, ExitHud, GameOverToMenu, VictoryToMenu,
         BackToMenu, Goto, Input
  <2>2. /\ page'.is = page.is /\ page'.multi = page.multi /\ ~page'.over
        /\ ~page'.allDead /\ page'.seen = page.seen /\ page'.stale = page.stale
        /\ ~page'.saved
      BY <1>4, <2>1 DEF DialogToMenu, ExitHud, GameOverToMenu, VictoryToMenu,
         BackToMenu, Reset, GamePages
  <2>3. client'.connected => client.connected
      BY <1>0, <1>4 DEF DialogToMenu, ExitHud, GameOverToMenu, VictoryToMenu,
         ClearRegistry, LeaveRoom, Idle, SessionInv, Clients
  <2>4. saves' = saves /\ games' = games
      BY <1>4 DEF DialogToMenu, ExitHud, GameOverToMenu, VictoryToMenu,
         BackToMenu, scores, count
  <2> QED
      BY <2>1, <2>2, <2>3, <2>4 DEF PlayedInv, Pending, GamePages
<1>5. CASE Switch
  <2>1. next' = "" /\ turn' = "update"
      BY <1>5 DEF Switch
  <2>2. CASE EnterGame
    <3>1. saves' = saves /\ client' = client
        BY <2>2 DEF EnterGame, scores, session
    <3>2. /\ page' \in GamePages /\ page'.stale = client.connected
          /\ ~page'.over /\ ~page'.allDead /\ ~page'.saved
      <4>1. \A m \in BOOLEAN, l \in Lists :
               /\ Game(m, l).stale = client.connected
               /\ ~Game(m, l).over /\ ~Game(m, l).allDead /\ ~Game(m, l).saved
          BY DEF Game
      <4> QED
          BY <2>2, <4>1, GamesBegin DEF EnterGame
    <3>3. (games' = games /\ page'.multi) \/ games' = games + 1
      <4>1. \A l \in Lists : Game(TRUE, l).multi
          BY DEF Game
      <4> QED
          BY <2>2, <4>1 DEF EnterGame, count
    <3>4. saves <= games /\ (games' = games \/ games' = games + 1)
        BY <3>3 DEF PlayedInv
    <3>5. saves' <= games' /\ (Pending' => saves' < games')
      <4>1. Pending' => games' = games + 1
          BY <3>3 DEF Pending
      <4> QED
          BY <1>0, <3>1, <3>4, <4>1
    <3> QED
        BY <2>1, <3>1, <3>2, <3>5 DEF PlayedInv
  <2>3. CASE EnterMenu \/ EnterModes \/ EnterSettings \/ EnterLobby
    <3>1. page'.is # "game"
      <4>1. Lobby.is = "lobby"
          BY NewLobbyIsGood DEF TypeInv, LobbyGood, LobbyPages
      <4> QED
          BY <2>3, <4>1 DEF EnterMenu, EnterModes, EnterSettings, EnterLobby,
             Menu, ModeSelection, SoloSettings
    <3>2. saves' = saves /\ games' = games
        BY <2>3 DEF EnterMenu, EnterModes, EnterSettings, EnterLobby, scores,
           count
    <3> QED
        BY <1>a, <2>1, <3>1, <3>2
  <2> QED
      BY <1>5, <2>2, <2>3 DEF Switch
<1>6. CASE UpdateQuietly \/ UpdatePaused \/ Save
  <2>1. UNCHANGED <<page, next, client, saves, games>> /\ turn' = "input"
      BY <1>6 DEF UpdateQuietly, UpdatePaused, Save, session, count, scores
  <2> QED
      BY <2>1 DEF PlayedInv, Pending
<1>7. CASE UpdateGoesOn
  <2>1. page \in GamePages /\ page.is = "game" /\ next = ""
      BY <1>0, <1>7 DEF UpdateGoesOn, Updates, PlayedInv
  <2>2. page.multi => ~page.over
      BY <2>1 DEF PlayedInv
  <2>3. /\ page'.is = "game" /\ page'.multi = page.multi /\ page'.over = page.over
        /\ page'.saved = page.saved /\ page'.seen = page.seen
        /\ page'.stale = page.stale
        /\ page.multi => page'.allDead = page.allDead
      BY <1>7, <2>1, <2>2, OfferIsGood DEF UpdateGoesOn, GamePages
  <2>4. UNCHANGED <<next, client, saves, games>> /\ turn' = "input"
      BY <1>7 DEF UpdateGoesOn, session, scores, count
  <2> QED
      BY <2>1, <2>3, <2>4 DEF PlayedInv, Pending
<1>8. CASE UpdateEnds
  <2>1. page \in GamePages /\ page.is = "game" /\ next = "" /\ ~page.over
      BY <1>0, <1>8 DEF UpdateEnds, Updates, PlayedInv
  <2>2. ~page.multi /\ client.connected
      BY <1>8, <2>1 DEF UpdateEnds, Ends, Offered, MayEnd, Dead, PlayedInv,
         GamePages
  <2>3. /\ page'.is = "game" /\ page'.multi = page.multi /\ page'.over /\ page'.saved
        /\ page'.seen = page.seen /\ page'.stale = page.stale
      BY <1>8, <2>1, OfferIsGood DEF UpdateEnds, Over, GamePages
  <2>4. ~page.saved
      BY <2>1, <2>2 DEF PlayedInv
  <2>5. saves' = saves + 1 /\ games' = games
      BY <1>8, <2>4 DEF UpdateEnds, count
  <2>9. next' = "" /\ client' = client
      BY <1>8, <2>1 DEF UpdateEnds, session
  <2>6. saves < games
      BY <2>1, <2>2, <2>4 DEF PlayedInv, Pending
  <2>7. saves' <= games' /\ ~Pending'
    <3>1. ~Pending'
        BY <2>3 DEF Pending
    <3>2. saves \in Nat /\ games \in Nat
        BY <1>0
    <3>3. saves' <= games'
        BY <2>5, <2>6, <3>2
    <3> QED
        BY <3>1, <3>3
  <2>8. page.seen \/ page.stale
      BY <2>1, <2>2 DEF PlayedInv
  <2> QED
      BY <2>2, <2>3, <2>7, <2>8, <2>9 DEF PlayedInv
<1>9. CASE \E id \in Ids \cup {0} : PlayerJoin(id)
  <2>1. UNCHANGED <<next, turn, saves, games>>
      BY <1>9 DEF PlayerJoin, frame, scores, count
  <2>2. CASE page.is = "game"
    <3>1. /\ page \in GamePages
          /\ page'.is = "game" /\ page'.multi = page.multi /\ page'.over = page.over
          /\ page'.allDead = page.allDead /\ page'.saved = page.saved
          /\ page'.stale = page.stale
        BY <1>0, <1>9, <2>2 DEF PlayerJoin, Witness, GamePages
    <3>2. /\ page.seen => page'.seen
          /\ ~client.connected => page'.seen
      <4>1. page' = [page EXCEPT !.seen = @ \/ client'.ship] /\ page \in GamePages
          BY <1>0, <1>9, <2>2 DEF PlayerJoin, Witness
      <4>2. page'.seen <=> page.seen \/ client'.ship
          BY <4>1 DEF GamePages
      <4>3. ~client.connected => client'.ship
          BY <1>9 DEF PlayerJoin
      <4> QED
          BY <4>2, <4>3
    <3> QED
        BY <2>1, <2>2, <3>1, <3>2 DEF PlayedInv, Pending
  <2>3. CASE page.is # "game"
    <3>1. page' = page
        BY <1>9, <2>3 DEF PlayerJoin, Witness
    <3> QED
        BY <2>1, <2>3, <3>1 DEF PlayedInv, Pending
  <2> QED
      BY <2>2, <2>3
<1>10. CASE ShipComes \/ ShipGoes \/ \E none \in BOOLEAN : LivesTold(none)
  <2>1. UNCHANGED <<next, turn, saves, games>> /\ client'.connected = client.connected
      BY <1>0, <1>10 DEF ShipComes, ShipGoes, LivesTold, frame, scores, count, SessionInv,
         Clients
  <2>2. CASE page.is = "game"
    <3>1. /\ page \in GamePages
          /\ page'.is = "game" /\ page'.multi = page.multi /\ page'.over = page.over
          /\ page'.allDead = page.allDead /\ page'.saved = page.saved
          /\ page'.stale = page.stale /\ (page.seen => page'.seen)
        BY <1>0, <1>10, <2>2 DEF ShipComes, ShipGoes, LivesTold, Witness, GamePages
    <3> QED
        BY <2>1, <2>2, <3>1 DEF PlayedInv, Pending
  <2>3. CASE page.is # "game"
    <3>1. page' = page
        BY <1>10, <2>3 DEF ShipComes, ShipGoes, LivesTold, Witness
    <3> QED
        BY <2>1, <2>3, <3>1 DEF PlayedInv, Pending
  <2> QED
      BY <2>2, <2>3
<1>11. CASE (\E r \in Rooms : AddRoom(r)) \/ (\E id \in Ids : LobbyUpdate(id)) \/ GameStart
  <2>1. page \in LobbyPages /\ page'.is = page.is
      BY <1>0, <1>11 DEF AddRoom, LobbyUpdate, GameStart, InLobby, LobbyPages
  <2>2. UNCHANGED <<next, turn, saves, games>>
      BY <1>11 DEF AddRoom, LobbyUpdate, GameStart, frame, scores, count
  <2> QED
      BY <1>a, <2>1, <2>2 DEF LobbyPages, PlayedInv
<1>12. CASE \E last \in BOOLEAN : StageCleared(last)
    BY <1>12 DEF StageCleared, frame, session, scores, count, PlayedInv,
       Pending
<1>13. CASE Start
  <2>1. page' = Gone /\ turn' = "input" /\ saves' = saves /\ games' = games
      BY <1>13 DEF Start, count
  <2> QED
      BY <1>a, <2>1 DEF Gone
<1>14. CASE Quit \/ Killed
  <2>1. page' = Gone /\ next' = "" /\ saves' = saves /\ games' = games
      BY <1>14 DEF Quit, Killed, Stop, scores, count
  <2> QED
      BY <1>a, <2>1 DEF Gone
<1>15. CASE UNCHANGED vars
    BY <1>15 DEF vars, frame, session, scores, count, PlayedInv, Pending
<1>16. CASE \E id \in Ids \cup {0} : Decides(id)
    BY <1>16 DEF Decides, frame, scores, count, PlayedInv, Pending
<1> QED
    BY <1>1, <1>2, <1>3, <1>4, <1>5, <1>6, <1>7, <1>8, <1>9, <1>10, <1>11,
       <1>12, <1>13, <1>14, <1>15, <1>16 DEF Next, GameInput, Frame, Network

(* A game is scored at most once; and a solo game that is over had the     *)
(* client's ship in it, or was entered by a client that still took itself  *)
(* for connected to an earlier room: that one may be over, and scored,     *)
(* before it was played (GameState.cpp:445, update).                       *)
THEOREM OnlyPlayedGamesScore == Spec => []ScoresArePlayed
<1>1. PlayedInv => ScoresArePlayed
    BY DEF PlayedInv, ScoresArePlayed
<1> QED
    BY <1>1, TypeInit, TypeNext, PlayedInit, PlayedNext, PTL DEF Spec

----------------------------------------------------------------------------
(* Scores stay on the board.                                               *)

(* Except while the file is being written, what it is read back as has all *)
(* the board has that a file can carry.                                    *)
FileInv == turn # "saving" => \A e \in board : Plain(e) => e \in Loaded(file)

Stays == \A e \in board :
            Plain(e) => \/ e \in board'
                        \/ PushedOut(e)
                        \/ page = Gone /\ turn = "saving"

LEMMA FileInit == Init => FileInv
BY DEF Init, FileInv

LEMMA FileNext == TypeInv /\ FileInv /\ [Next]_vars => FileInv' /\ Stays
<1> SUFFICES ASSUME TypeInv, FileInv, [Next]_vars
             PROVE  FileInv' /\ Stays
    OBVIOUS
<1>1. CASE UNCHANGED <<board, file>> /\ (turn' # "saving" => turn # "saving")
    BY <1>1 DEF FileInv, Stays
<1>2. CASE EnterMenu /\ Switch
    BY <1>2 DEF EnterMenu, Switch, FileInv, Stays
<1>3. CASE Start
    BY <1>3 DEF Start, FileInv, Stays
<1>4. CASE UpdateEnds /\ ~page.saved
  <2>1. PICK n \in Names, s \in Points :
           board' \in Added(board, [list |-> page.list, name |-> n, score |-> s,
                                    at |-> saves])
      BY <1>4 DEF UpdateEnds
  <2> DEFINE new == [list |-> page.list, name |-> n, score |-> s, at |-> saves]
  <2>2. Small(board) /\ new \in Entries
    <3>1. page.list \in Lists /\ s \in Nat /\ saves \in Nat /\ Small(board)
        BY <1>4, PageKinds, ScreensAssumption DEF TypeInv, UpdateEnds, Updates, GamePages,
           ScoresInv
    <3> QED
        BY <3>1 DEF Entries
  <2> HIDE DEF new
  <2>a. board' \in Added(board, new)
      BY <2>1 DEF new
  <2>b. /\ On(board', new.list) \in TopOf(On(board, new.list) \cup {new})
        /\ \A l \in Lists \ {new.list} : On(board', l) = On(board, l)
        /\ IsFiniteSet(On(board, new.list) \cup {new})
      BY <2>2, <2>a, AddedLists
  <2>3. ASSUME NEW e \in board, e \notin board'
        PROVE  PushedOut(e)
    <3>1. e.list \in Lists
        BY <2>2 DEF Small, Entries
    <3>2. e.list = new.list
        BY <2>3, <2>b, <3>1 DEF On
    <3>3. e \in (On(board, new.list) \cup {new}) \ On(board', new.list)
        BY <2>3, <3>2 DEF On
    <3>4. /\ Cardinality(On(board', new.list)) = MaxScores
          /\ \A k \in On(board', new.list) : k.score >= e.score
        BY <2>b, <3>3, WhoGoesWasPushedOut
    <3> QED
        BY <3>2, <3>4 DEF PushedOut, On
  <2>4. turn' = "saving"
      BY <1>4 DEF UpdateEnds
  <2> QED
      BY <2>3, <2>4 DEF FileInv, Stays
<1>5. CASE Save
  <2>1. board' = board /\ file' = board
      BY <1>5 DEF Save, Written
  <2> QED
      BY <2>1 DEF FileInv, Stays, Loaded, Reread
<1>6. CASE Quit \/ Killed
    BY <1>1, <1>6 DEF Quit, Killed, Stop, scores
<1>7. CASE MenuInput \/ LobbyInput
  <2>1. UNCHANGED scores /\ turn' = turn
      BY <1>7 DEF MenuInput, MenuKey, MenuClick, BeginRebinding, Rebind,
         CycleColours, Confirm, Cancel, Escape, ModeKey, ModeClick,
         SoloInput, Leads, LobbyInput, MainMenuKey, MainMenuClick, CreateKey,
         CreateClick, BrowseKey, BrowseClick, LeaveByKey, LeaveByClick,
         InRoomNow, BackToMain, frame
  <2> QED
      BY <1>1, <2>1 DEF scores
<1>8. CASE GameInput \/ Network
  <2>1. UNCHANGED scores /\ turn' = turn
      BY <1>8 DEF GameInput, TogglePause, Spectate, DialogToMenu,
         ClickPaused, ExitHud, GameOverToMenu, VictoryToMenu, BackToMenu,
         Network, Decides, PlayerJoin, LivesTold, ShipComes, ShipGoes, AddRoom, LobbyUpdate,
         GameStart, StageCleared, frame
  <2> QED
      BY <1>1, <2>1 DEF scores
<1>9. CASE Switch /\ ~EnterMenu
  <2>1. UNCHANGED scores /\ turn = "input"
      BY <1>9 DEF Switch, EnterModes, EnterSettings, EnterLobby, EnterGame
  <2> QED
      BY <1>1, <2>1 DEF scores
<1>10. CASE \/ UpdateQuietly \/ UpdateLobby \/ UpdatePaused \/ UpdateGoesOn
            \/ UpdateEnds /\ page.saved
  <2>1. UNCHANGED scores /\ turn # "saving"
      BY <1>10 DEF UpdateQuietly, UpdateLobby, UpdatePaused, UpdateGoesOn,
         UpdateEnds, Updates
  <2> QED
      BY <1>1, <2>1 DEF scores
<1>11. CASE UNCHANGED vars
    BY <1>1, <1>11 DEF vars, frame, scores
<1> QED
    BY <1>2, <1>3, <1>4, <1>5, <1>6, <1>7, <1>8, <1>9, <1>10, <1>11 DEF Next,
       Frame

(* A score with a name the file can carry leaves the board only for better *)
(* ones, or with a process that ended while it wrote                       *)
(* (ScoreboardManager.cpp:75, ScoreData.cpp:14).                           *)
THEOREM ScoresAreKept == Spec => ScoresStay
<1>1. TypeInv /\ FileInv /\ [Next]_vars => [Stays]_vars
    BY FileNext
<1>2. TypeInv /\ FileInv /\ [Next]_vars => FileInv'
    BY FileNext
<1>3. [Stays]_vars <=> [\A e \in board :
                         Plain(e) => \/ e \in board'
                                     \/ PushedOut(e)
                                     \/ page = Gone /\ turn = "saving"]_vars
    BY DEF Stays
<1> QED
    BY <1>1, <1>2, <1>3, TypeInit, TypeNext, FileInit, PTL DEF Spec, ScoresStay
=============================================================================

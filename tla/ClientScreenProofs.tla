--------------------------- MODULE ClientScreenProofs ---------------------------
(***************************************************************************)
(* A client shows the players of its room.  The invariant says of every    *)
(* player what the messages still on their way will make of it.            *)
(***************************************************************************)
EXTENDS ClientStayProofs

(* A message may name a player to the client, or end it.                   *)
Named(m, id)   == \/ m.is = "join" /\ m.id = id
                  \/ m.is = "moves" /\ id \in m.ids
Dropped(m, id) == m.is = "leave" /\ m.id = id

NoName(id) == {m \in DownMsgs : ~Named(m, id)}
NoDrop(id) == {m \in DownMsgs : ~Dropped(m, id)}
Drop(id)   == {m \in DownMsgs : Dropped(m, id)}
Deaf(id)   == NoName(id) \cap NoDrop(id)

(* What the messages d make of the player id, to a client that shows the   *)
(* players S, in a room with these seats that gave ids up to last: one     *)
(* that is there and shown or named; one never heard of; one that leaves,  *)
(* and is named only before.                                               *)
Told(id, S, d, seats, last) ==
    \/ /\ id \in seats /\ d \in Seq(NoDrop(id))
       /\ id \in S \/ d \notin Seq(NoName(id))
    \/ id \notin seats /\ id \notin S /\ d \in Seq(Deaf(id))
    \/ /\ id \notin seats /\ id <= last
       /\ Around(d, NoDrop(id), Drop(id), Deaf(id))

News(S, seats, last) ==
    {d \in Seq(DownMsgs) : \A id \in 0..MaxId : Told(id, S, d, seats, last)}

LEMMA MsgSets ==
    ASSUME NEW id
    PROVE  /\ Deaf(id) \subseteq NoDrop(id) /\ Deaf(id) \subseteq NoName(id)
           /\ NoDrop(id) \subseteq DownMsgs /\ NoName(id) \subseteq DownMsgs
           /\ Drop(id) \subseteq NoName(id)
           /\ \A m \in DownMsgs : m \notin NoDrop(id) <=> m \in Drop(id)
           /\ \A m \in DownMsgs : m \notin NoName(id) <=> Named(m, id)
           /\ \A m \in DownMsgs : m \notin NoDrop(id) <=> Dropped(m, id)
           /\ \A m \in DownMsgs : Named(m, id) => m \in NoDrop(id)
BY DEF Deaf, NoDrop, NoName, Drop, Named, Dropped

LEMMA LongerQueue ==
    ASSUME NEW S, NEW s \in Seq(S), NEW t \in Seq(S), NEW T, s \o t \in Seq(T)
    PROVE  s \in Seq(T)
<1>1. /\ Len(s \o t) = Len(s) + Len(t)
      /\ \A i \in 1..Len(s) + Len(t) : (s \o t)[i] = IF i <= Len(s) THEN s[i] ELSE t[i - Len(s)]
    BY ConcatProperties
<1>2. Len(s) \in Nat /\ Len(t) \in Nat
    BY LenProperties
<1>3. \A i \in 1..Len(s) : s[i] \in T
  <2> DEFINE u == s \o t
  <2>1. \A i \in 1..Len(s) : i \in 1..Len(u) /\ u[i] = s[i]
      BY <1>1, <1>2
  <2>2. \A i \in 1..Len(u) : u[i] \in T
    <3> HIDE DEF u
    <3> QED
        BY DEF u
  <2> QED
      BY <2>1, <2>2
<1> QED
    BY <1>3

LEMMA LastOfQueue ==
    ASSUME NEW S, NEW s \in Seq(S), NEW x \in S, NEW T, x \notin T
    PROVE  Append(s, x) \notin Seq(T)
<1>1. Append(s, x)[Len(s) + 1] = x /\ Len(s) + 1 \in 1..Len(Append(s, x))
    OBVIOUS
<1> QED
    BY <1>1

(* The first message is handled.                                           *)
LEMMA ToldOn ==
    ASSUME NEW d \in Seq(DownMsgs), d # <<>>, NEW S, NEW S2, NEW id, NEW seats, NEW last,
           Told(id, S, d, seats, last),
           id \in S2 <=> (id \in S \/ Named(Head(d), id)) /\ ~Dropped(Head(d), id)
    PROVE  Told(id, S2, Tail(d), seats, last)
<1> DEFINE m == Head(d)
<1>1. m \in DownMsgs /\ Tail(d) \in Seq(DownMsgs)
    BY Queues
<1>2. CASE id \in seats /\ d \in Seq(NoDrop(id)) /\ (id \in S \/ d \notin Seq(NoName(id)))
  <2>1. m \in NoDrop(id) /\ Tail(d) \in Seq(NoDrop(id))
      BY <1>2, Queues
  <2>2. ~Dropped(m, id)
      BY <2>1 DEF NoDrop
  <2>3. CASE Named(m, id) \/ id \in S
      BY <1>2, <2>1, <2>2, <2>3 DEF Told
  <2>4. CASE ~Named(m, id) /\ id \notin S
    <3>1. m \in NoName(id)
        BY <1>1, <2>4 DEF NoName
    <3>2. Tail(d) \notin Seq(NoName(id))
        BY <1>2, <2>4, <3>1, HeadIsFirst
    <3> QED
        BY <1>2, <2>1, <3>2 DEF Told
  <2> QED
      BY <2>3, <2>4
<1>3. CASE id \notin seats /\ id \notin S /\ d \in Seq(Deaf(id))
  <2>1. m \in Deaf(id) /\ Tail(d) \in Seq(Deaf(id))
      BY <1>3, Queues
  <2>2. ~Named(m, id)
      BY <2>1 DEF Deaf, NoName
  <2> QED
      BY <1>3, <2>1, <2>2 DEF Told
<1>4. CASE id \notin seats /\ id <= last /\ Around(d, NoDrop(id), Drop(id), Deaf(id))
  <2>1. \/ m \in NoDrop(id) /\ Around(Tail(d), NoDrop(id), Drop(id), Deaf(id))
        \/ m \in Drop(id) /\ Tail(d) \in Seq(Deaf(id))
      BY <1>4, AroundServed
  <2>2. m \in Drop(id) => Dropped(m, id)
      BY DEF Drop
  <2> QED
      BY <1>4, <2>1, <2>2 DEF Told
<1> QED
    BY <1>2, <1>3, <1>4 DEF Told

(* More messages are sent: not of this player; naming one that is there;   *)
(* the join of one; its leave.                                             *)
LEMMA ToldNoMore ==
    ASSUME NEW d \in Seq(DownMsgs), NEW id, NEW S, NEW seats, NEW last,
           Told(id, S, d, seats, last), NEW t \in Seq(Deaf(id)),
           NEW seats2, id \in seats2 <=> id \in seats, NEW last2, id <= last => id <= last2
    PROVE  Told(id, S, d \o t, seats2, last2)
<1>1. t \in Seq(NoDrop(id)) /\ t \in Seq(DownMsgs)
  <2>1. Deaf(id) \subseteq DownMsgs
      BY MsgSets
  <2> QED
      BY <2>1, MsgSets, SeqMonotonic
<1>2. CASE id \in seats /\ d \in Seq(NoDrop(id)) /\ (id \in S \/ d \notin Seq(NoName(id)))
  <2>1. d \o t \in Seq(NoDrop(id))
      BY <1>1, <1>2, Queues
  <2>2. d \o t \in Seq(NoName(id)) => d \in Seq(NoName(id))
      BY <1>1, LongerQueue
  <2> QED
      BY <1>2, <2>1, <2>2 DEF Told
<1>3. CASE id \notin seats /\ id \notin S /\ d \in Seq(Deaf(id))
  <2>1. d \o t \in Seq(Deaf(id))
      BY <1>3, Queues
  <2> QED
      BY <1>3, <2>1 DEF Told
<1>4. CASE id \notin seats /\ id <= last /\ Around(d, NoDrop(id), Drop(id), Deaf(id))
  <2>1. Around(d \o t, NoDrop(id), Drop(id), Deaf(id))
      BY <1>4, AroundLonger
  <2> QED
      BY <1>4, <2>1 DEF Told
<1> QED
    BY <1>2, <1>3, <1>4 DEF Told

LEMMA ToldAgain ==
    ASSUME NEW d \in Seq(DownMsgs), NEW id, NEW S, NEW seats, NEW last,
           Told(id, S, d, seats, last), id \in seats, NEW t \in Seq(NoDrop(id)),
           NEW seats2, id \in seats2, NEW last2
    PROVE  Told(id, S, d \o t, seats2, last2)
<1>1. t \in Seq(DownMsgs)
    BY MsgSets, SeqMonotonic
<1>2. d \in Seq(NoDrop(id)) /\ (id \in S \/ d \notin Seq(NoName(id)))
    BY DEF Told
<1>3. d \o t \in Seq(NoDrop(id))
    BY <1>2, Queues
<1>4. d \o t \in Seq(NoName(id)) => d \in Seq(NoName(id))
    BY <1>1, LongerQueue
<1> QED
    BY <1>2, <1>3, <1>4 DEF Told

LEMMA ToldOfJoin ==
    ASSUME NEW d \in Seq(DownMsgs), NEW id, NEW S, NEW seats, NEW last,
           Told(id, S, d, seats, last), id \notin seats, ~(id <= last),
           NEW m \in DownMsgs, Named(m, id), NEW seats2, id \in seats2, NEW last2
    PROVE  Told(id, S, d \o <<m>>, seats2, last2)
<1>1. d \in Seq(Deaf(id))
    BY DEF Told
<1>2. m \in NoDrop(id) /\ m \notin NoName(id)
    BY MsgSets
<1>3. d \in Seq(NoDrop(id))
    BY <1>1, MsgSets, SeqMonotonic
<1>4. d \o <<m>> = Append(d, m)
    BY AppendIsConcat
<1>5. d \o <<m>> \in Seq(NoDrop(id))
    BY <1>2, <1>3, <1>4, Queues
<1>6. d \o <<m>> \notin Seq(NoName(id))
    BY <1>2, <1>4, LastOfQueue
<1> QED
    BY <1>5, <1>6 DEF Told

LEMMA ToldOfLeave ==
    ASSUME NEW d \in Seq(DownMsgs), NEW id, NEW S, NEW seats, NEW last,
           Told(id, S, d, seats, last), id \in seats,
           NEW m \in DownMsgs, Dropped(m, id), NEW seats2, id \notin seats2,
           NEW last2, id <= last2
    PROVE  Told(id, S, d \o <<m>>, seats2, last2)
<1>1. d \in Seq(NoDrop(id))
    BY DEF Told
<1>2. m \in Drop(id)
    BY DEF Drop
<1>3. d \o <<m>> \in Seq(DownMsgs)
    BY Queues
<1>4. d \o <<m>> = d \o <<m>> \o <<>>
    BY <1>3, ConcatEmptySeq
<1>5. <<>> \in Seq(Deaf(id))
    BY EmptySeq
<1>6. Around(d \o <<m>>, NoDrop(id), Drop(id), Deaf(id))
    BY <1>1, <1>2, <1>4, <1>5 DEF Around, Behind
<1> QED
    BY <1>6 DEF Told

(* SetToSeq has every element of the set, each once.                       *)
LEMMA SetAsOrder ==
    ASSUME NEW S, IsFiniteSet(S)
    PROVE  /\ Len(SetToSeq(S)) \in Nat
           /\ \A i, j \in 1..Len(SetToSeq(S)) : SetToSeq(S)[i] = SetToSeq(S)[j] => i = j
           /\ \A i \in 1..Len(SetToSeq(S)) : SetToSeq(S)[i] \in S
           /\ \A x \in S : \E i \in 1..Len(SetToSeq(S)) : SetToSeq(S)[i] = x
<1>1. PICK n \in Nat : ExistsBijection(1..n, S)
    BY FS_NatBijection
<1>2. Cardinality(S) = n
    BY <1>1, FS_CountingElements
<1>3. PICK f : f \in Bijection(1..n, S)
    BY <1>1 DEF ExistsBijection
<1>4. f \in [1..n -> S] /\ IsInjective(f)
    BY <1>3 DEF Bijection, Injection, IsInjective
<1> DEFINE s == SetToSeq(S)
<1>5. s \in [1..n -> S] /\ IsInjective(s)
    BY <1>2, <1>4 DEF SetToSeq
<1> HIDE DEF s
<1>6. Len(s) = n
    BY <1>5
<1>7. s \in Injection(1..n, S)
    BY <1>5 DEF Injection, IsInjective
<1>8. IsFiniteSet(1..n) /\ Cardinality(1..n) = n
    BY FS_Interval
<1>9. s \in Surjection(1..n, S)
    BY <1>2, <1>7, <1>8, FS_Injection
<1> QED
    BY <1>5, <1>6, <1>9 DEF Surjection, IsInjective, s

(* What is created is in the registry, and what was there is as it was.    *)
LEMMA CopiesCreated ==
    ASSUME RegistryOK(reg, Ships), NEW new \in Seq(Ships), reg' = CreateAll(reg, new)
    PROVE  /\ \A e \in Copies : e \in Copies' /\ reg'.data[e] = reg.data[e]
           /\ \A k \in 1..Len(new) : /\ reg.next + k - 1 \in Copies' \ Copies
                                     /\ reg'.data[reg.next + k - 1] = new[k]
           /\ \A e \in Copies' \ Copies : \E k \in 1..Len(new) : e = reg.next + k - 1
<1> DEFINE upto == reg.next + Len(new) - 1
<1>1. /\ reg'.valid = reg.valid \cup reg.next..upto
      /\ reg'.data = [e \in 0..upto |-> IF e < reg.next THEN reg.data[e]
                                        ELSE new[e - reg.next + 1]]
    BY DEF CreateAll
<1>2. /\ reg.next \in Nat /\ Len(new) \in Nat /\ reg.valid \subseteq 0..(reg.next - 1)
      /\ reg.data \in [0..(reg.next - 1) -> Ships]
    BY DEF RegistryOK, Numbers
<1>3. Copies = reg.valid
    BY <1>2 DEF Copies, View, Ships
<1>4. RegistryOK(reg', Ships)
    BY ShipsCreated
<1>5. Copies' = reg'.valid
    BY <1>4 DEF Copies, View, Ships, RegistryOK
<1>6. ASSUME NEW e \in Copies
      PROVE  e \in Copies' /\ reg'.data[e] = reg.data[e]
    BY <1>1, <1>2, <1>3, <1>5
<1>7. ASSUME NEW k \in 1..Len(new)
      PROVE  /\ reg.next + k - 1 \in Copies' \ Copies
             /\ reg'.data[reg.next + k - 1] = new[k]
  <2> DEFINE e == reg.next + k - 1
  <2>1. e \in reg.next..upto /\ e \in 0..upto /\ ~(e < reg.next) /\ e - reg.next + 1 = k
      BY <1>2
  <2>2. e \notin reg.valid
      BY <1>2, <2>1
  <2> HIDE DEF e, upto
  <2>3. reg'.data[e] = new[k]
      BY <1>1, <2>1
  <2> QED
      BY <1>1, <1>3, <1>5, <2>1, <2>2, <2>3 DEF e
<1>8. ASSUME NEW e \in Copies' \ Copies
      PROVE  \E k \in 1..Len(new) : e = reg.next + k - 1
  <2>1. e \in reg.next..upto
      BY <1>1, <1>3, <1>5
  <2>2. e - reg.next + 1 \in 1..Len(new) /\ e = reg.next + (e - reg.next + 1) - 1
      BY <1>2, <2>1
  <2> QED
      BY <2>2
<1> QED
    BY <1>6, <1>7, <1>8

(* Players the client shows and has not found leaving.                     *)
Staying  == {reg.data[e].id : e \in Copies \ {parting}}
OnePerId == \A e, f \in Copies : reg.data[e].id = reg.data[f].id => e = f

LEMMA CopyFields ==
    ASSUME ClientOK
    PROVE  /\ Copies \subseteq Nat /\ -1 \notin Copies
           /\ \A e \in Copies : reg.data[e].id \in 0..MaxId
           /\ Idle => Staying = {reg.data[e].id : e \in Copies}
           /\ \A id : CopiesOf(id) = {} <=> id \notin {reg.data[e].id : e \in Copies}
<1>1. RegistryOK(reg, Ships) /\ reg.next \in Nat
    BY DEF ClientOK, RegistryOK
<1>2. Copies \subseteq Nat /\ \A e \in Copies : reg.data[e] \in Ships
    BY <1>1 DEF RegistryOK, Copies, View, Numbers
<1>3. -1 \notin Copies
    BY <1>2
<1>4. \A e \in Copies : reg.data[e].id \in 0..MaxId
    BY <1>2 DEF Ships
<1>5. Idle => Copies \ {parting} = Copies
    BY <1>3 DEF Idle
<1>6. Idle => Staying = {reg.data[e].id : e \in Copies}
    BY <1>5 DEF Staying
<1>7. \A id : CopiesOf(id) = {} <=> id \notin {reg.data[e].id : e \in Copies}
    BY DEF CopiesOf
<1> QED
    BY <1>2, <1>3, <1>4, <1>6, <1>7

(* Ships are added for players that had none.                              *)
LEMMA ShownAdded ==
    ASSUME ClientOK, Idle, parting' = parting,
           NEW new \in Seq(Ships), reg' = CreateAll(reg, new)
    PROVE  /\ \A id : id \in Staying' <=> id \in Staying \/ \E k \in 1..Len(new) : new[k].id = id
           /\ OnePerId /\ (\A k \in 1..Len(new) : new[k].id \notin Staying)
                       /\ (\A j, k \in 1..Len(new) : new[j].id = new[k].id => j = k)
                 => OnePerId'
<1>1. RegistryOK(reg, Ships) /\ parting = -1
    BY DEF ClientOK, Idle
<1>2. /\ \A e \in Copies : e \in Copies' /\ reg'.data[e] = reg.data[e]
      /\ \A k \in 1..Len(new) : /\ reg.next + k - 1 \in Copies' \ Copies
                                /\ reg'.data[reg.next + k - 1] = new[k]
      /\ \A e \in Copies' \ Copies : \E k \in 1..Len(new) : e = reg.next + k - 1
    BY <1>1, CopiesCreated
<1>3. Staying = {reg.data[e].id : e \in Copies}
    BY CopyFields
<1>4. RegistryOK(reg', Ships)
    BY <1>1, ShipsCreated
<1>5. -1 \notin Copies'
    BY <1>4 DEF RegistryOK, Copies, View, Numbers
<1>6. Staying' = {reg'.data[e].id : e \in Copies'}
    BY <1>1, <1>5 DEF Staying
<1>7. ASSUME NEW id
      PROVE  id \in Staying' <=> id \in Staying \/ \E k \in 1..Len(new) : new[k].id = id
  <2>1. ASSUME NEW e \in Copies', reg'.data[e].id = id
        PROVE  id \in Staying \/ \E k \in 1..Len(new) : new[k].id = id
    <3>1. CASE e \in Copies
        BY <1>2, <1>3, <2>1, <3>1
    <3>2. CASE e \notin Copies
        BY <1>2, <2>1, <3>2
    <3> QED
        BY <3>1, <3>2
  <2>2. id \in Staying => id \in Staying'
      BY <1>2, <1>3, <1>6
  <2>3. ASSUME NEW k \in 1..Len(new), new[k].id = id
        PROVE  id \in Staying'
      BY <1>2, <1>6, <2>3
  <2> QED
      BY <1>6, <2>1, <2>2, <2>3
<1>8. ASSUME OnePerId, \A k \in 1..Len(new) : new[k].id \notin Staying,
             \A j, k \in 1..Len(new) : new[j].id = new[k].id => j = k
      PROVE  OnePerId'
  <2> SUFFICES ASSUME NEW e \in Copies', NEW f \in Copies', reg'.data[e].id = reg'.data[f].id
               PROVE  e = f
      BY DEF OnePerId
  <2>1. CASE e \in Copies /\ f \in Copies
      BY <1>2, <1>8, <2>1 DEF OnePerId
  <2>2. CASE e \in Copies /\ f \notin Copies
    <3>1. PICK k \in 1..Len(new) : reg'.data[f] = new[k]
        BY <1>2, <2>2
    <3>2. new[k].id \in Staying
        BY <1>2, <1>3, <2>2, <3>1
    <3> QED
        BY <1>8, <3>2
  <2>3. CASE f \in Copies /\ e \notin Copies
    <3>1. PICK k \in 1..Len(new) : reg'.data[e] = new[k]
        BY <1>2, <2>3
    <3>2. new[k].id \in Staying
        BY <1>2, <1>3, <2>3, <3>1
    <3> QED
        BY <1>8, <3>2
  <2>4. CASE e \notin Copies /\ f \notin Copies
    <3>1. PICK j \in 1..Len(new) : e = reg.next + j - 1 /\ reg'.data[e] = new[j]
        BY <1>2, <2>4
    <3>2. PICK k \in 1..Len(new) : f = reg.next + k - 1 /\ reg'.data[f] = new[k]
        BY <1>2, <2>4
    <3> QED
        BY <1>8, <3>1, <3>2
  <2> QED
      BY <2>1, <2>2, <2>3, <2>4
<1> QED
    BY <1>7, <1>8

LEMMA OneShip ==
    ASSUME NEW id \in 0..MaxId
    PROVE  /\ <<Ship(id)>> \in Seq(Ships) /\ Len(<<Ship(id)>>) = 1
           /\ <<Ship(id)>>[1].id = id
BY DEF Ship, Ships

(* What the first message on the wire down makes of the players shown.     *)
LEMMA NewsOn ==
    ASSUME NEW d, NEW S, NEW seats, NEW last, d \in News(S, seats, last), d # <<>>,
           NEW S2, \A id \in 0..MaxId :
                      id \in S2 <=> (id \in S \/ Named(Head(d), id)) /\ ~Dropped(Head(d), id)
    PROVE  Tail(d) \in News(S2, seats, last)
<1>1. d \in Seq(DownMsgs) /\ \A id \in 0..MaxId : Told(id, S, d, seats, last)
    BY DEF News
<1>2. Tail(d) \in Seq(DownMsgs)
    BY <1>1, Queues
<1>3. ASSUME NEW id \in 0..MaxId
      PROVE  Told(id, S2, Tail(d), seats, last)
  <2>1. Told(id, S, d, seats, last)
      BY <1>1
  <2>2. id \in S2 <=> (id \in S \/ Named(Head(d), id)) /\ ~Dropped(Head(d), id)
      OBVIOUS
  <2> QED
      BY <1>1, <2>1, <2>2, ToldOn
<1> QED
    BY <1>2, <1>3 DEF News

LEMMA MeetShows ==
    ASSUME TypeInv, Meet, OnePerId, NEW seats, NEW last,
           down \in News(Staying, seats, last)
    PROVE  OnePerId' /\ down' \in News(Staying', seats, last)
<1> DEFINE m == Head(down)
<1>1. /\ Idle /\ parting' = parting /\ down # <<>> /\ down' = Tail(down)
      /\ m.is = "join" /\ m \in DownMsgs /\ m.id \in 0..MaxId
      /\ \/ CopiesOf(m.id) # {} /\ reg' = reg
         \/ CopiesOf(m.id) = {} /\ reg' = Create(reg, Ship(m.id))
  <2>1. m \in DownMsgs
      BY Queues DEF Meet, TypeInv, WireOK
  <2>2. m.id \in 0..MaxId
      BY <2>1 DEF DownMsgs
  <2> QED
      BY <2>1, <2>2 DEF Meet, Taken
<1>2. \A id : Named(m, id) <=> id = m.id
    BY <1>1 DEF Named
<1>3. \A id : ~Dropped(m, id)
    BY <1>1 DEF Dropped
<1> HIDE DEF m
<1>0. ClientOK /\ Staying = {reg.data[e].id : e \in Copies}
    BY <1>1, CopyFields DEF TypeInv
<1>4. CASE CopiesOf(m.id) # {} /\ reg' = reg
  <2>1. m.id \in Staying
      BY <1>0, <1>4, CopyFields
  <2>2. Staying' = Staying /\ OnePerId'
      BY <1>1, <1>4 DEF Staying, OnePerId, Copies, View
  <2>3. \A id \in 0..MaxId : id \in Staying' <=> (id \in Staying \/ Named(m, id)) /\ ~Dropped(m, id)
      BY <1>2, <1>3, <2>1, <2>2
  <2> QED
      BY <1>1, <2>2, <2>3, NewsOn DEF m
<1>5. CASE CopiesOf(m.id) = {} /\ reg' = Create(reg, Ship(m.id))
  <2> DEFINE new == <<Ship(m.id)>>
  <2>1. m.id \notin Staying
      BY <1>0, <1>5, CopyFields
  <2>2. new \in Seq(Ships) /\ Len(new) = 1 /\ new[1].id = m.id
      BY <1>1, OneShip
  <2>3. reg' = CreateAll(reg, new)
      BY <1>5 DEF Create
  <2> HIDE DEF new
  <2>4. \A k \in 1..Len(new) : k = 1
      BY <2>2
  <2>5. /\ \A id : id \in Staying' <=> id \in Staying \/ \E k \in 1..Len(new) : new[k].id = id
        /\ OnePerId'
      BY <1>0, <1>1, <2>1, <2>2, <2>3, <2>4, ShownAdded
  <2>6. \A id : id \in Staying' <=> id \in Staying \/ id = m.id
    <3>1. 1 \in 1..Len(new)
        BY <2>2
    <3> QED
        BY <2>2, <2>4, <2>5, <3>1
  <2>7. \A id \in 0..MaxId : id \in Staying' <=> (id \in Staying \/ Named(m, id)) /\ ~Dropped(m, id)
      BY <1>2, <1>3, <2>6
  <2> QED
      BY <1>1, <2>5, <2>7, NewsOn DEF m
<1> QED
    BY <1>1, <1>4, <1>5

LEMMA MoveShows ==
    ASSUME TypeInv, Move, OnePerId, NEW seats, NEW last,
           down \in News(Staying, seats, last)
    PROVE  OnePerId' /\ down' \in News(Staying', seats, last)
<1> DEFINE m == Head(down)
           fresh == {id \in m.ids : CopiesOf(id) = {}}
           order == SetToSeq(fresh)
           new   == [i \in DOMAIN order |-> Ship(order[i])]
<1>1. /\ Idle /\ parting' = parting /\ down # <<>> /\ down' = Tail(down)
      /\ m.is = "moves" /\ reg' = CreateAll(reg, new)
      BY DEF Move, Taken
<1>2. m.ids \in SUBSET Ids
  <2>1. m \in DownMsgs
      BY <1>1, Queues DEF TypeInv, WireOK
  <2> QED
      BY <2>1 DEF DownMsgs
<1>3. \A id : Named(m, id) <=> id \in m.ids
    BY <1>1 DEF Named
<1>4. \A id : ~Dropped(m, id)
    BY <1>1 DEF Dropped
<1> HIDE DEF m
<1>0. ClientOK /\ Staying = {reg.data[e].id : e \in Copies}
    BY <1>1, CopyFields DEF TypeInv
<1>5. \A id : id \in fresh <=> id \in m.ids /\ id \notin Staying
    BY <1>0, CopyFields
<1>6. fresh \in SUBSET Ids /\ IsFiniteSet(fresh)
    BY <1>2, IdsAreFinite
<1> HIDE DEF fresh
<1>7. /\ order \in Seq(fresh) /\ Len(order) \in Nat
      /\ \A i, j \in 1..Len(order) : order[i] = order[j] => i = j
      /\ \A i \in 1..Len(order) : order[i] \in fresh
      /\ \A x \in fresh : \E i \in 1..Len(order) : order[i] = x
    BY <1>6, SetAsQueue, SetAsOrder
<1> HIDE DEF order
<1>8. DOMAIN order = 1..Len(order)
    BY <1>7
<1>9. \A i \in 1..Len(order) : order[i] \in 0..MaxId
  <2>1. Ids \subseteq 0..MaxId
      BY Bounds DEF Ids
  <2> QED
      BY <1>6, <1>7, <2>1
<1>10. \A i \in 1..Len(order) : new[i] = Ship(order[i]) /\ Ship(order[i]) \in Ships
                               /\ Ship(order[i]).id = order[i]
    BY <1>8, <1>9 DEF Ship, Ships
<1>11. new \in Seq(Ships) /\ Len(new) = Len(order)
    BY <1>7, <1>8, <1>10
<1> HIDE DEF new
<1>12. \A k \in 1..Len(new) : new[k].id = order[k]
    BY <1>10, <1>11
<1>13. \A k \in 1..Len(new) : new[k].id \notin Staying
    BY <1>5, <1>7, <1>11, <1>12
<1>14. \A j, k \in 1..Len(new) : new[j].id = new[k].id => j = k
    BY <1>7, <1>11, <1>12
<1>15. /\ \A id : id \in Staying' <=> id \in Staying \/ \E k \in 1..Len(new) : new[k].id = id
       /\ OnePerId'
    BY <1>0, <1>1, <1>11, <1>13, <1>14, ShownAdded
<1>16. \A id : id \in Staying' <=> id \in Staying \/ id \in fresh
    BY <1>7, <1>11, <1>12, <1>15
<1>17. \A id \in 0..MaxId : id \in Staying' <=> (id \in Staying \/ Named(m, id)) /\ ~Dropped(m, id)
    BY <1>3, <1>4, <1>5, <1>16
<1> QED
    BY <1>1, <1>15, <1>17, NewsOn DEF m

LEMMA LeaverShows ==
    ASSUME TypeInv, FindLeaver, OnePerId, NEW seats, NEW last,
           down \in News(Staying, seats, last)
    PROVE  OnePerId' /\ down' \in News(Staying', seats, last)
<1> DEFINE m == Head(down)
<1>1. /\ Idle /\ reg' = reg /\ down # <<>> /\ down' = Tail(down)
      /\ m.is = "leave"
      /\ \/ \E e \in CopiesOf(m.id) : parting' = e
         \/ CopiesOf(m.id) = {} /\ parting' = parting
    BY DEF FindLeaver, Taken
<1>2. \A id : ~Named(m, id)
    BY <1>1 DEF Named
<1>3. \A id : Dropped(m, id) <=> id = m.id
    BY <1>1 DEF Dropped
<1> HIDE DEF m
<1>0. ClientOK /\ Staying = {reg.data[e].id : e \in Copies} /\ parting = -1 /\ -1 \notin Copies
    BY <1>1, CopyFields DEF TypeInv, Idle
<1>4. OnePerId' /\ Copies' = Copies /\ Staying' = {reg.data[e].id : e \in Copies \ {parting'}}
    BY <1>1 DEF OnePerId, Copies, View, Staying
<1>5. \A id : id \in Staying' <=> id \in Staying /\ id # m.id
  <2>1. CASE CopiesOf(m.id) = {} /\ parting' = parting
    <3>1. m.id \notin Staying
        BY <1>0, <2>1, CopyFields
    <3>2. Staying' = Staying
        BY <1>0, <1>4, <2>1
    <3> QED
        BY <3>1, <3>2
  <2>2. ASSUME NEW e \in CopiesOf(m.id), parting' = e
        PROVE  \A id : id \in Staying' <=> id \in Staying /\ id # m.id
    <3>1. e \in Copies /\ reg.data[e].id = m.id
        BY DEF CopiesOf
    <3>2. \A f \in Copies : f # e <=> reg.data[f].id # m.id
        BY <3>1 DEF OnePerId
    <3> QED
        BY <1>0, <1>4, <2>2, <3>2
  <2> QED
      BY <1>1, <2>1, <2>2
<1>6. \A id \in 0..MaxId : id \in Staying' <=> (id \in Staying \/ Named(m, id)) /\ ~Dropped(m, id)
    BY <1>2, <1>3, <1>5
<1> QED
    BY <1>1, <1>4, <1>6, NewsOn DEF m

LEMMA DestroyShows ==
    ASSUME TypeInv, DestroyLeaver
    PROVE  /\ Staying' = Staying /\ down' = down
           /\ OnePerId => OnePerId'
           /\ Copies' \subseteq Copies
<1>1. /\ parting' = -1 /\ down' = down /\ reg' = Destroy(reg, {parting})
    BY DEF DestroyLeaver, wire
<1>2. reg'.data = reg.data /\ reg'.valid = reg.valid \ {parting}
    BY <1>1 DEF Destroy
<1>3. Copies' = Copies \ {parting}
    BY <1>2 DEF Copies, View
<1>4. -1 \notin Copies
    BY CopyFields DEF TypeInv
<1>5. Copies' \ {parting'} = Copies \ {parting}
    BY <1>1, <1>3, <1>4
<1>6. Staying' = Staying
    BY <1>2, <1>5 DEF Staying
<1>7. OnePerId => OnePerId'
    BY <1>2, <1>3 DEF OnePerId
<1> QED
    BY <1>1, <1>3, <1>6, <1>7

(* The seats of a room as they were and as they are, and what its members  *)
(* are sent of the player id: nothing; that it is there; its join, or its  *)
(* leave.                                                                  *)
Heard(id, t, seats, last, seats2, last2) ==
    \/ /\ t \in Seq(Deaf(id)) /\ (id \in seats2 <=> id \in seats)
       /\ id <= last => id <= last2
    \/ t \in Seq(NoDrop(id)) /\ id \in seats /\ id \in seats2
    \/ /\ \E m \in DownMsgs : t = <<m>> /\ Named(m, id)
       /\ id \notin seats /\ ~(id <= last) /\ id \in seats2
    \/ /\ \E m \in DownMsgs : t = <<m>> /\ Dropped(m, id)
       /\ id \in seats /\ id \notin seats2 /\ id <= last2

LEMMA NewsMore ==
    ASSUME NEW S, NEW seats, NEW last, NEW a, a \in News(S, seats, last),
           NEW t \in Seq(DownMsgs), NEW seats2, NEW last2,
           \A id \in 0..MaxId : Heard(id, t, seats, last, seats2, last2)
    PROVE  a \o t \in News(S, seats2, last2)
<1>1. a \in Seq(DownMsgs) /\ \A id \in 0..MaxId : Told(id, S, a, seats, last)
    BY DEF News
<1>2. a \o t \in Seq(DownMsgs)
    BY <1>1, Queues
<1>3. ASSUME NEW id \in 0..MaxId
      PROVE  Told(id, S, a \o t, seats2, last2)
  <2>0. Told(id, S, a, seats, last) /\ Heard(id, t, seats, last, seats2, last2)
      BY <1>1
  <2>1. CASE /\ t \in Seq(Deaf(id)) /\ (id \in seats2 <=> id \in seats)
             /\ id <= last => id <= last2
      BY <1>1, <2>0, <2>1, ToldNoMore
  <2>2. CASE t \in Seq(NoDrop(id)) /\ id \in seats /\ id \in seats2
      BY <1>1, <2>0, <2>2, ToldAgain
  <2>3. CASE /\ \E m \in DownMsgs : t = <<m>> /\ Named(m, id)
             /\ id \notin seats /\ ~(id <= last) /\ id \in seats2
      BY <1>1, <2>0, <2>3, ToldOfJoin
  <2>4. CASE /\ \E m \in DownMsgs : t = <<m>> /\ Dropped(m, id)
             /\ id \in seats /\ id \notin seats2 /\ id <= last2
      BY <1>1, <2>0, <2>4, ToldOfLeave
  <2> QED
      BY <2>0, <2>1, <2>2, <2>3, <2>4 DEF Heard
<1> QED
    BY <1>2, <1>3 DEF News

SeatInv == \A r \in Rooms : \A id \in rooms[r].seats : id <= rooms[r].last

LEMMA SeatsKept ==
    ASSUME TypeInv, SeatInv, [Next]_vars
    PROVE  SeatInv'
<1>0. RoomsOK
    BY DEF TypeInv
<1>1. \A r \in Rooms : /\ rooms[r].last \in Int /\ rooms[r].seats \subseteq Int
                       /\ rooms[r].last + 1 \in Int /\ rooms[r].last <= rooms[r].last + 1
  <2>1. \A r \in Rooms : rooms[r].last \in 0..MaxId /\ rooms[r].seats \subseteq Ids
      BY <1>0, RoomFields
  <2> QED
      BY <2>1, Bounds DEF Ids
<1>2. ASSUME rooms' = rooms
      PROVE  SeatInv'
    BY <1>2 DEF SeatInv
<1>3. ASSUME NEW r \in Rooms, rooms'[r].seats \subseteq rooms[r].seats,
             rooms'[r].last = rooms[r].last,
             \A q \in Rooms : q # r => rooms'[q] = rooms[q]
      PROVE  SeatInv'
    BY <1>3 DEF SeatInv
<1>4. ASSUME NEW r \in Rooms,
             rooms'[r].seats = rooms[r].seats \cup {rooms[r].last + 1},
             rooms'[r].last = rooms[r].last + 1,
             \A q \in Rooms : q # r => rooms'[q] = rooms[q]
      PROVE  SeatInv'
  <2>1. ASSUME NEW id \in rooms'[r].seats
        PROVE  id <= rooms'[r].last
      BY <1>1, <1>4, <2>1 DEF SeatInv
  <2> QED
      BY <1>4, <2>1 DEF SeatInv
<1>5. ASSUME NEW r \in Rooms, ServeCreate(r)
      PROVE  SeatInv'
  <2>1. rooms' = Renamed(r, Head(up).name)
      BY <1>5 DEF ServeCreate, Renamed
  <2>2. /\ rooms'[r].seats = rooms[r].seats /\ rooms'[r].last = rooms[r].last
        /\ \A q \in Rooms : q # r => rooms'[q] = rooms[q]
      BY <1>0, <2>1, RenamedRoom
  <2> QED
      BY <1>3, <2>2
<1>6. CASE ServeJoin
  <2> DEFINE r == Head(up).room
             n == rooms[r].last + 1
  <2>1. r \in Rooms
    <3>1. Head(up) \in AskMsgs
        BY <1>6, Queues DEF ServeJoin, TypeInv, WireOK
    <3> QED
        BY <1>6, <3>1 DEF ServeJoin, AskMsgs
  <2>2. \/ rooms' = rooms
        \/ rooms' = Occupied(r, n, n, rooms[r].seats \cup {n})
      BY <1>6 DEF ServeJoin, server, Occupied
  <2> HIDE DEF r
  <2>3. CASE rooms' = Occupied(r, n, n, rooms[r].seats \cup {n})
    <3> HIDE DEF n
    <3>1. /\ rooms'[r].seats = rooms[r].seats \cup {n} /\ rooms'[r].last = n
          /\ \A q \in Rooms : q # r => rooms'[q] = rooms[q]
        BY <1>0, <2>1, <2>3, TakenRoom
    <3> QED
        BY <1>4, <2>1, <3>1 DEF n
  <2> QED
      BY <1>2, <2>2, <2>3
<1>7. ASSUME NEW r \in Rooms, rooms' = Vacated(r)
      PROVE  SeatInv'
  <2>1. /\ rooms'[r].seats = rooms[r].seats \ {rooms[r].me} /\ rooms'[r].last = rooms[r].last
        /\ \A q \in Rooms : q # r => rooms'[q] = rooms[q]
      BY <1>0, <1>7, VacatedRoom
  <2> QED
      BY <1>3, <2>1
<1>8. ASSUME NEW r \in Rooms, OtherJoins(r)
      PROVE  SeatInv'
  <2> DEFINE n == rooms[r].last + 1
  <2>1. rooms' = Filled(r, n, rooms[r].seats \cup {n})
      BY <1>8 DEF OtherJoins, Filled
  <2> HIDE DEF n
  <2>2. /\ rooms'[r].seats = rooms[r].seats \cup {n} /\ rooms'[r].last = n
        /\ \A q \in Rooms : q # r => rooms'[q] = rooms[q]
      BY <1>0, <2>1, FilledRoom
  <2> QED
      BY <1>4, <2>2 DEF n
<1>9. ASSUME NEW r \in Rooms, NEW id \in Ids, OtherLeaves(r, id)
      PROVE  SeatInv'
  <2>1. rooms' = Reseated(r, rooms[r].seats \ {id})
      BY <1>9 DEF OtherLeaves, Reseated
  <2>2. /\ rooms'[r].seats = rooms[r].seats \ {id} /\ rooms'[r].last = rooms[r].last
        /\ \A q \in Rooms : q # r => rooms'[q] = rooms[q]
      BY <1>0, <2>1, ReseatedRoom
  <2> QED
      BY <1>3, <2>2
<1>10. CASE ServeLeave
  <2>1. rooms' = rooms \/ (route \in Rooms /\ rooms' = Vacated(route))
      BY <1>0, <1>10 DEF ServeLeave, RoomsOK
  <2> QED
      BY <1>2, <1>7, <2>1
<1>11. ASSUME NEW r \in Rooms, TimesOut(r)
       PROVE  SeatInv'
    BY <1>7, <1>11 DEF TimesOut
<1>12. CASE \/ User \/ RememberName \/ DropEntities \/ ServeList \/ AnswerJoin
            \/ (\E r \in Rooms : Tick(r) \/ Stops(r) \/ Jams(r)) \/ UNCHANGED vars
  <2>1. rooms' = rooms
      BY <1>12 DEF User, JoinRoom, CreateRoom, RequestRoomList, LeaveRoom, RememberName,
         DropEntities, ServeList, AnswerJoin, Tick, Stops, Jams, vars, server
  <2> QED
      BY <1>2, <2>1
<1>13. CASE Lose \/ Double \/ Overtake
  <2>1. rooms' = rooms
      BY <1>13 DEF Lose, Double, Overtake, Udp, server
  <2> QED
      BY <1>2, <2>1
<1>14. CASE Handle
  <2>1. rooms' = rooms
      BY <1>14 DEF Handle, Adopt, Meet, Move, FindLeaver, DestroyLeaver, ReadInfo, server
  <2> QED
      BY <1>2, <2>1
<1>15. ASSUME NEW r \in Rooms, Removes(r)
       PROVE  SeatInv'
  <2>1. rooms' = Emptied(r)
      BY <1>15 DEF Removes
  <2>2. rooms'[r].seats = {} /\ \A q \in Rooms : q # r => rooms'[q] = rooms[q]
      BY <1>0, <2>1, EmptiedRoom
  <2> QED
      BY <2>2 DEF SeatInv
<1> QED
    BY <1>5, <1>6, <1>8, <1>9, <1>10, <1>11, <1>12, <1>13, <1>14, <1>15
       DEF Next, Serve, Others

Following(S) == News(S, rooms[session].seats, rooms[session].last)

(* What the members of the client's room are sent, if anything, tells them *)
(* of every change to its seats.                                           *)
MoreNews ==
    \E t \in Seq(DownMsgs) :
       /\ down' = down \o t
       /\ \A id \in 0..MaxId :
             Heard(id, t, rooms[session].seats, rooms[session].last,
                          rooms'[session].seats, rooms'[session].last)

LEMMA NewsGrows ==
    ASSUME MoreNews, session' = session
    PROVE  \E t \in Seq(DownMsgs) :
              down' = down \o t /\ \A S : \A a \in Following(S) : a \o t \in Following(S)'
<1>1. PICK t \in Seq(DownMsgs) :
         /\ down' = down \o t
         /\ \A id \in 0..MaxId :
               Heard(id, t, rooms[session].seats, rooms[session].last,
                            rooms'[session].seats, rooms'[session].last)
    BY DEF MoreNews
<1>2. ASSUME NEW S, NEW a \in Following(S)
      PROVE  a \o t \in Following(S)'
  <2>1. a \in News(S, rooms[session].seats, rooms[session].last)
      BY DEF Following
  <2>2. a \o t \in News(S, rooms'[session].seats, rooms'[session].last)
      BY <1>1, <2>1, NewsMore
  <2> QED
      BY <2>2 DEF Following
<1> QED
    BY <1>1, <1>2

LEMMA HeardNothing ==
    ASSUME NEW id, NEW t \in Seq(Deaf(id)), NEW seats, NEW last, NEW seats2, NEW last2,
           seats2 = seats, last2 = last
    PROVE  Heard(id, t, seats, last, seats2, last2)
BY DEF Heard

LEMMA InfosAreDeaf == \A id : Infos \subseteq Deaf(id) /\ Infos \subseteq DownMsgs
BY DEF Infos, Deaf, NoName, NoDrop, Named, Dropped

(* Without a word to the room nothing of it changes.                       *)
LEMMA NoNews ==
    ASSUME down \in Seq(DownMsgs), NEW t \in Seq(Infos), down' = down \o t,
           rooms'[session].seats = rooms[session].seats,
           rooms'[session].last = rooms[session].last
    PROVE  MoreNews
<1>1. t \in Seq(DownMsgs) /\ \A id : t \in Seq(Deaf(id))
    BY InfosAreDeaf, SeqMonotonic
<1>2. \A id : Heard(id, t, rooms[session].seats, rooms[session].last,
                           rooms'[session].seats, rooms'[session].last)
    BY <1>1, HeardNothing
<1> QED
    BY <1>1, <1>2 DEF MoreNews

LEMMA NoWord ==
    ASSUME down \in Seq(DownMsgs), down' = down,
           rooms'[session].seats = rooms[session].seats,
           rooms'[session].last = rooms[session].last
    PROVE  MoreNews
<1>1. <<>> \in Seq(Infos)
    BY EmptySeq
<1>2. down' = down \o <<>>
    BY ConcatEmptySeq
<1> QED
    BY <1>1, <1>2, NoNews

LEMMA NewsSent ==
    ASSUME TypeInv, SeatInv, Home(session), seating = 0,
           \/ RequestRoomList \/ (\E n \in Names : CreateRoom(n)) \/ RememberName
           \/ DropEntities \/ UNCHANGED vars
           \/ (\E r \in Rooms : ServeCreate(r) \/ OtherJoins(r) \/ Tick(r)) \/ ServeList
           \/ (\E r \in Rooms : Stops(r) \/ Jams(r))
           \/ \E r \in Rooms : \E id \in Ids : OtherLeaves(r, id)
    PROVE  MoreNews
<1>0. /\ RoomsOK /\ down \in Seq(DownMsgs) /\ session \in Rooms
      /\ rooms[session].me # 0 /\ \A q \in Rooms : q # session => rooms[q].me = 0
      /\ \A r \in Rooms : /\ rooms[r].me \in 0..MaxId /\ rooms[r].seats \subseteq Ids
                          /\ rooms[r].last \in 0..MaxId
  <2>1. RoomsOK
      BY DEF TypeInv
  <2>2. \A r \in Rooms : /\ rooms[r].me \in 0..MaxId /\ rooms[r].seats \subseteq Ids
                         /\ rooms[r].last \in 0..MaxId
      BY <2>1, RoomFields
  <2> QED
      BY <2>1, <2>2 DEF TypeInv, WireOK, Home, NoSeatBut
<1>1. CASE \/ RequestRoomList \/ (\E n \in Names : CreateRoom(n)) \/ RememberName
           \/ DropEntities \/ (\E r \in Rooms : Stops(r) \/ Jams(r)) \/ UNCHANGED vars
  <2>1. down' = down /\ rooms' = rooms
      BY <1>1 DEF RequestRoomList, CreateRoom, RememberName, DropEntities, Stops, Jams,
         vars, server, wire
  <2> QED
      BY <1>0, <2>1, NoWord
<1>2. ASSUME NEW r \in Rooms, ServeCreate(r)
      PROVE  MoreNews
  <2> DEFINE n == Head(up).name
             info == [InfoOf(r) EXCEPT !.name = n]
  <2>1. /\ up # <<>> /\ rooms' = Renamed(r, n) /\ down' = down \o <<info>>
      BY <1>2 DEF ServeCreate, Sent, Renamed
  <2>2. Head(up) \in AskMsgs
      BY <2>1, Queues DEF TypeInv, WireOK
  <2>3. info \in Infos
    <3>1. InfoOf(r) \in DownMsgs /\ InfoOf(r).is = "info"
      <4>1. 0 \in 0..MaxId
          BY Bounds
      <4> QED
          BY <1>0, <4>1, DownIsMsg DEF InfoOf, Down
    <3>2. n \in Labels
        BY <2>2 DEF AskMsgs, UpMsgs, Labels
    <3>3. \A m \in DownMsgs : \A l \in Labels :
             m.is = "info" => [m EXCEPT !.name = l] \in DownMsgs /\ [m EXCEPT !.name = l].is = "info"
        BY DEF DownMsgs, Labels
    <3> QED
        BY <3>1, <3>2, <3>3 DEF Infos
  <2> HIDE DEF n, info
  <2>4. /\ rooms'[session].seats = rooms[session].seats
        /\ rooms'[session].last = rooms[session].last
      BY <1>0, <2>1, RenamedRoom
  <2>5. <<info>> \in Seq(Infos)
      BY <2>3
  <2> QED
      BY <1>0, <2>1, <2>4, <2>5, NoNews
<1>3. CASE ServeList
  <2>1. rooms' = rooms
      BY <1>3 DEF ServeList, server
  <2>3. PICK order \in SetToAllKPermutations(Listed) :
           down' = down \o [i \in DOMAIN order |-> InfoOf(order[i])]
      BY <1>3 DEF ServeList, Sent
  <2>4. order \in Seq(Rooms)
      BY ListedAreFinite, OrdersAreQueues
  <2>5. \A r \in Rooms : InfoOf(r) \in Infos
    <3>1. \A r \in Rooms : InfoOf(r) \in DownMsgs
      <4>1. 0 \in 0..MaxId
          BY Bounds
      <4> QED
          BY <1>0, <4>1, DownIsMsg DEF InfoOf
    <3> QED
        BY <3>1 DEF InfoOf, Down, Infos
  <2>6. [i \in DOMAIN order |-> InfoOf(order[i])] \in Seq(Infos)
      BY <2>4, <2>5
  <2> QED
      BY <1>0, <2>1, <2>3, <2>6, NoNews
<1>4. ASSUME NEW r \in Rooms, OtherJoins(r)
      PROVE  MoreNews
  <2> DEFINE n == rooms[r].last + 1
             m == Down("join", r, n, {})
  <2>1. /\ rooms' = Filled(r, n, rooms[r].seats \cup {n})
        /\ IF rooms[r].me = 0 THEN down' = down ELSE down' = Append(down, m)
      BY <1>4 DEF OtherJoins, Tell, Filled
  <2>2. n \in 0..MaxId /\ ~(n <= rooms[r].last)
        /\ \A id \in 0..MaxId : id <= rooms[r].last => id <= n
    <3>1. rooms[r].last < MaxOthers[r] /\ rooms[r].last \in 0..MaxId /\ MaxOthers[r] \in 0..MaxId /\ MaxId \in Nat
        BY <1>0, <1>4, Bounds DEF OtherJoins
    <3> QED
        BY <3>1
  <2>3. m \in DownMsgs /\ m.is = "join" /\ m.id = n
    <3>1. m \in DownMsgs
        BY <1>0, <2>2, DownIsMsg
    <3> QED
        BY <3>1 DEF Down
  <2> HIDE DEF n, m
  <2>4. /\ rooms'[r].seats = rooms[r].seats \cup {n} /\ rooms'[r].last = n
        /\ \A q \in Rooms : q # r => rooms'[q] = rooms[q]
    <3>0. RoomsOK
        BY <1>0
    <3>1. \A l, s : rooms' = Filled(r, l, s)
             => /\ rooms'[r].me = rooms[r].me /\ rooms'[r].last = l
                /\ rooms'[r].seats = s
                /\ \A q \in Rooms : q # r => rooms'[q] = rooms[q]
        BY <3>0, FilledRoom, Zenon
    <3> QED
        BY <2>1, <3>1
  <2>5. n \notin rooms[r].seats
      BY <2>2 DEF SeatInv
  <2>6. CASE r # session
      BY <1>0, <2>1, <2>4, <2>6, NoWord
  <2>7. CASE r = session
    <3>1. down' = Append(down, m)
        BY <1>0, <2>1, <2>7
    <3>2. down' = down \o <<m>> /\ <<m>> \in Seq(DownMsgs)
        BY <1>0, <2>3, <3>1, AppendIsConcat
    <3>3. ASSUME NEW id \in 0..MaxId
          PROVE  Heard(id, <<m>>, rooms[r].seats, rooms[r].last, rooms'[r].seats, rooms'[r].last)
      <4>1. CASE id = n
        <5>1. Named(m, id)
            BY <2>3, <4>1 DEF Named
        <5> QED
            BY <2>2, <2>3, <2>4, <2>5, <4>1, <5>1 DEF Heard
      <4>2. CASE id # n
        <5>1. m \in Deaf(id)
            BY <2>3, <4>2 DEF Deaf, NoName, NoDrop, Named, Dropped
        <5>2. <<m>> \in Seq(Deaf(id))
            BY <5>1
        <5> QED
            BY <2>2, <2>4, <4>2, <5>2 DEF Heard
      <4> QED
          BY <4>1, <4>2
    <3> QED
        BY <2>7, <3>2, <3>3 DEF MoreNews
  <2> QED
      BY <2>6, <2>7
<1>5. ASSUME NEW r \in Rooms, NEW gone \in Ids, OtherLeaves(r, gone)
      PROVE  MoreNews
  <2> DEFINE m == Down("leave", r, gone, {})
  <2>1. /\ rooms' = Reseated(r, rooms[r].seats \ {gone}) /\ gone \in rooms[r].seats
        /\ IF rooms[r].me = 0 THEN down' = down ELSE down' = Append(down, m)
      BY <1>5 DEF OtherLeaves, Tell, Reseated
  <2>2. gone \in 0..MaxId
      BY Bounds DEF Ids
  <2>3. m \in DownMsgs /\ m.is = "leave" /\ m.id = gone
    <3>1. m \in DownMsgs
        BY <1>0, <2>2, DownIsMsg
    <3> QED
        BY <3>1 DEF Down
  <2>4. /\ rooms'[r].seats = rooms[r].seats \ {gone} /\ rooms'[r].last = rooms[r].last
        /\ \A q \in Rooms : q # r => rooms'[q] = rooms[q]
      BY <1>0, <2>1, ReseatedRoom
  <2>5. gone <= rooms[r].last
      BY <2>1 DEF SeatInv
  <2> HIDE DEF m
  <2>6. CASE r # session
      BY <1>0, <2>1, <2>4, <2>6, NoWord
  <2>7. CASE r = session
    <3>1. down' = Append(down, m)
        BY <1>0, <2>1, <2>7
    <3>2. down' = down \o <<m>> /\ <<m>> \in Seq(DownMsgs)
        BY <1>0, <2>3, <3>1, AppendIsConcat
    <3>3. ASSUME NEW id \in 0..MaxId
          PROVE  Heard(id, <<m>>, rooms[r].seats, rooms[r].last, rooms'[r].seats, rooms'[r].last)
      <4>1. CASE id = gone
        <5>1. Dropped(m, id)
            BY <2>3, <4>1 DEF Dropped
        <5> QED
            BY <2>1, <2>3, <2>4, <2>5, <4>1, <5>1 DEF Heard
      <4>2. CASE id # gone
        <5>1. m \in Deaf(id)
            BY <2>3, <4>2 DEF Deaf, NoName, NoDrop, Named, Dropped
        <5>2. <<m>> \in Seq(Deaf(id))
            BY <5>1
        <5> QED
            BY <2>4, <4>2, <5>2 DEF Heard
      <4> QED
          BY <4>1, <4>2
    <3> QED
        BY <2>7, <3>2, <3>3 DEF MoreNews
  <2> QED
      BY <2>6, <2>7
<1>6. ASSUME NEW r \in Rooms, Tick(r)
      PROVE  MoreNews
  <2> DEFINE m == Down("moves", r, 0, rooms[r].seats)
  <2>1. /\ rooms[r].me # 0 /\ down' = down \o <<m>> /\ rooms' = rooms
      BY <1>6 DEF Tick, Sent, server
  <2>2. r = session
      BY <1>0, <2>1
  <2>3. m \in DownMsgs /\ m.is = "moves" /\ m.ids = rooms[r].seats
    <3>1. 0 \in 0..MaxId
        BY Bounds
    <3>2. m \in DownMsgs
        BY <1>0, <3>1, DownIsMsg
    <3> QED
        BY <3>2 DEF Down
  <2> HIDE DEF m
  <2>4. <<m>> \in Seq(DownMsgs)
      BY <2>3
  <2>5. ASSUME NEW id \in 0..MaxId
        PROVE  Heard(id, <<m>>, rooms[r].seats, rooms[r].last, rooms'[r].seats, rooms'[r].last)
    <3>1. CASE id \in rooms[r].seats
      <4>1. m \in NoDrop(id)
          BY <2>3 DEF NoDrop, Dropped
      <4>2. <<m>> \in Seq(NoDrop(id))
          BY <4>1
      <4> QED
          BY <2>1, <3>1, <4>2 DEF Heard
    <3>2. CASE id \notin rooms[r].seats
      <4>1. m \in Deaf(id)
          BY <2>3, <3>2 DEF Deaf, NoName, NoDrop, Named, Dropped
      <4>2. <<m>> \in Seq(Deaf(id))
          BY <4>1
      <4> QED
          BY <2>1, <4>2 DEF Heard
    <3> QED
        BY <3>1, <3>2
  <2> QED
      BY <2>1, <2>2, <2>4, <2>5 DEF MoreNews
<1> QED
    BY <1>1, <1>2, <1>3, <1>4, <1>5, <1>6

(* While a client follows its room: what is on the wire makes the players  *)
(* it shows, or will show once the answer is in, those of the room.        *)
Screen ==
    /\ Answered => Behind(down, Stale(left), Answer(session, rooms[session].me),
                          Following({rooms[session].me}))
    /\ ~connected /\ main # "left" => Copies = {}
    /\ connected /\ main # "left" => OnePerId /\ down \in Following(Staying)

ScreenInv == SeatInv /\ (blur = {} => Screen)

LEMMA FollowingIsNews == \A S : Following(S) \in SUBSET Seq(DownMsgs)
BY DEF Following, News

LEMMA OneOfTheStages ==
    /\ Parted \/ Asking => ~Answered /\ ~connected
    /\ Seated \/ Refused => ~Answered /\ ~connected
    /\ Answered => ~connected
    /\ Stages /\ connected => In
BY Bounds DEF Parted, Asking, Seated, Answered, Refused, In, Stages, Leaving, Home, NoSeatBut

(* Only the answer to a join makes an answered client.                     *)
LEMMA AnsweredBefore ==
    ASSUME Stages, SamePlace, Answered'
    PROVE  Answered /\ Home(session) /\ seating = 0
<1>1. /\ Pending /\ ~connected /\ seating = 0 /\ session \in Rooms
      /\ rooms[session].me # 0 /\ <<session, rooms[session].me>> \notin left
    BY DEF Answered, SamePlace, Home, Pending
<1>2. ~Parted /\ ~Asking /\ ~In
    BY <1>1 DEF Parted, Asking, In, Leaving
<1>3. ~Seated /\ ~Refused
    BY <1>1, Bounds DEF Seated, Refused, NoSeatBut
<1> QED
    BY <1>1, <1>2, <1>3 DEF Stages, Answered

(* The room sends on, or the client handles what comes before the answer.  *)
LEMMA AnswerAhead ==
    ASSUME TypeInv, Stages, SamePlace, Screen, Answered',
           \/ MoreNews
           \/ /\ down # <<>> /\ down' = Tail(down) /\ Head(down).is # "join"
              /\ rooms' = rooms
    PROVE  Behind(down', Stale(left'), Answer(session', rooms'[session'].me),
                  Following({rooms[session].me})')
<1> DEFINE i == rooms[session].me
           X == Answer(session, i)
           Q == Following({i})
<1>1. Answered /\ Behind(down, Stale(left), X, Q)
    BY AnsweredBefore DEF Screen
<1>2. session \in Rooms
    BY <1>1 DEF Answered, Home
<1>3. session' = session /\ left' = left /\ rooms'[session'].me = i
    BY <1>2 DEF SamePlace
<1>4. Q \in SUBSET Seq(DownMsgs)
    BY FollowingIsNews
<1>5. CASE MoreNews
  <2>1. PICK t \in Seq(DownMsgs) :
           down' = down \o t /\ \A S : \A a \in Following(S) : a \o t \in Following(S)'
      BY <1>3, <1>5, NewsGrows
  <2> DEFINE Q2 == Following({i})'
  <2>2. \A a \in Q : a \o t \in Q2
      BY <1>3, <2>1
  <2> HIDE DEF Q, Q2, X
  <2>3. Behind(down \o t, Stale(left), X, Q2)
      BY <1>1, <1>4, <2>2, BehindLonger
  <2> QED
      BY <1>3, <2>1, <2>3 DEF Q2, X
<1>6. CASE /\ down # <<>> /\ down' = Tail(down) /\ Head(down).is # "join"
           /\ rooms' = rooms
  <2>1. Following({i})' = Q
      BY <1>3, <1>6 DEF Following
  <2>2. Head(down) \notin X
      BY <1>6 DEF Answer
  <2> HIDE DEF Q, X
  <2>3. Behind(Tail(down), Stale(left), X, Q)
      BY <1>1, <1>4, <2>2, BehindServed
  <2> QED
      BY <1>3, <1>6, <2>1, <2>3 DEF X
<1> QED
    BY <1>5, <1>6

LEMMA AnswerIsNews ==
    ASSUME TypeInv, Stages, AnswerJoin
    PROVE  Behind(down', Stale(left'), Answer(session', rooms'[session'].me),
                  Following({rooms[session].me})')
<1>0. RoomsOK /\ down \in Seq(DownMsgs)
    BY DEF TypeInv, WireOK
<1>1. Seated
    BY AnswerStages
<1> DEFINE r == session
           i == rooms[r].me
           seq == Roster(r)
           x == Down("join", r, i, {})
           a == [k \in DOMAIN seq |-> Down("join", r, seq[k], {})]
<1>2. /\ down' = down \o (<<x>> \o a)
      /\ UNCHANGED <<rooms, session, left>>
    BY <1>1 DEF AnswerJoin, Sent, ident, past, Seated
<1>3. /\ r \in Rooms /\ i \in 0..MaxId /\ i \in rooms[r].seats
      /\ rooms[r].seats \subseteq Ids
    BY <1>0, <1>1, RoomFields DEF Seated, Home, RoomsOK
<1>4. /\ seq \in Seq(rooms[r].seats \ {i}) /\ Len(seq) \in Nat
      /\ \A k \in 1..Len(seq) : seq[k] \in rooms[r].seats \ {i}
      /\ \A id \in rooms[r].seats \ {i} : \E k \in 1..Len(seq) : seq[k] = id
  <2>1. rooms[r].seats \ {i} \in SUBSET Ids
      BY <1>3
  <2>2. IsFiniteSet(rooms[r].seats \ {i})
      BY <2>1, IdsAreFinite
  <2> QED
      BY <2>2, SetAsQueue, SetAsOrder DEF Roster
<1>5. \A id \in 0..MaxId : Down("join", r, id, {}) \in DownMsgs
    BY <1>0, <1>3, DownIsMsg
<1>6. x \in Answer(r, i) /\ x \in DownMsgs
    BY <1>3, <1>5 DEF Answer, Down
<1> HIDE DEF x
<1>7. \A k \in 1..Len(seq) : seq[k] \in 0..MaxId
  <2>1. Ids \subseteq 0..MaxId
      BY Bounds DEF Ids
  <2> HIDE DEF seq
  <2> QED
      BY <1>3, <1>4, <2>1
<1> HIDE DEF seq
<1>8. \A k \in 1..Len(seq) : a[k] = Down("join", r, seq[k], {}) /\ a[k] \in DownMsgs
                             /\ \A id : (Named(a[k], id) <=> id = seq[k]) /\ ~Dropped(a[k], id)
  <2>1. DOMAIN seq = 1..Len(seq)
      BY <1>4
  <2>2. \A k \in 1..Len(seq) : a[k] = Down("join", r, seq[k], {}) /\ a[k] \in DownMsgs
      BY <1>5, <1>7, <2>1
  <2>3. \A id, j : LET m == Down("join", r, j, {})
                   IN  (Named(m, id) <=> id = j) /\ ~Dropped(m, id)
      BY DEF Down, Named, Dropped
  <2> HIDE DEF a
  <2> QED
      BY <2>2, <2>3
<1>9. Len(a) = Len(seq) /\ DOMAIN a = 1..Len(a)
    BY <1>4
<1>10. \A T : (\A k \in 1..Len(seq) : a[k] \in T) => a \in Seq(T)
  <2> SUFFICES ASSUME NEW T, \A k \in 1..Len(seq) : a[k] \in T
               PROVE  a \in Seq(T)
      OBVIOUS
  <2>1. a = [k \in 1..Len(seq) |-> a[k]]
      BY <1>4
  <2> HIDE DEF a
  <2> QED
      BY <1>4, <2>1
<1> HIDE DEF a
<1>11. a \in Seq(DownMsgs)
    BY <1>8, <1>10
<1>12. ASSUME NEW id \in 0..MaxId
       PROVE  Told(id, {i}, a, rooms[r].seats, rooms[r].last)
  <2>1. a \in Seq(NoDrop(id))
    <3>1. \A k \in 1..Len(seq) : a[k] \in NoDrop(id)
        BY <1>8 DEF NoDrop
    <3> QED
        BY <1>10, <3>1
  <2>2. CASE id = i
      BY <1>3, <2>1, <2>2 DEF Told
  <2>3. CASE id \in rooms[r].seats /\ id # i
    <3>1. PICK k \in 1..Len(seq) : seq[k] = id
        BY <1>4, <2>3
    <3>2. a[k] \notin NoName(id)
        BY <1>8, <3>1 DEF NoName
    <3>3. a \notin Seq(NoName(id))
      <4>1. a \in Seq(NoName(id)) => a[k] \in NoName(id)
          BY <1>9
      <4> QED
          BY <3>2, <4>1
    <3> QED
        BY <2>1, <2>3, <3>3 DEF Told
  <2>4. CASE id \notin rooms[r].seats
    <3>1. \A k \in 1..Len(seq) : a[k] \in Deaf(id)
      <4>1. \A k \in 1..Len(seq) : seq[k] # id
          BY <1>4, <2>4
      <4> QED
          BY <1>8, <4>1 DEF Deaf, NoName, NoDrop
    <3>2. a \in Seq(Deaf(id))
        BY <1>10, <3>1
    <3> QED
        BY <1>3, <2>4, <3>2 DEF Told
  <2> QED
      BY <2>2, <2>3, <2>4
<1>13. a \in Following({i})'
    BY <1>2, <1>11, <1>12 DEF Following, News
<1>14. down' = down \o <<x>> \o a
  <2>1. <<x>> \in Seq(DownMsgs)
      BY <1>6
  <2> QED
      BY <1>0, <1>2, <1>11, <2>1, ConcatAssociative
<1>15. down \in Seq(Stale(left))
    BY <1>1 DEF Seated
<1> DEFINE Q == Following({i})'
<1> HIDE DEF Q
<1>16. Behind(down', Stale(left), Answer(r, i), Q)
    BY <1>6, <1>13, <1>14, <1>15 DEF Behind, Q
<1> QED
    BY <1>2, <1>16 DEF Q

(* The answer: the client shows itself, and the rest is to come.           *)
LEMMA AdoptShows ==
    ASSUME TypeInv, Stages, Clean', Screen, Adopt, main # "left"
    PROVE  OnePerId' /\ down' \in Following(Staying)'
<1> DEFINE i == rooms[session].me
           new == <<Ship(i)>>
           Q == Following({i})
<1>1. /\ Answered /\ session' = session /\ Head(down) \in Answer(session, i)
    BY AdoptStages
<1>2. /\ Idle /\ parting' = parting /\ down' = Tail(down) /\ ~connected
      /\ reg' = Create(reg, Ship(Head(down).id)) /\ rooms' = rooms
    BY DEF Adopt, Taken, server
<1>3. Head(down).id = i /\ i \in 0..MaxId /\ Head(down).is = "join"
  <2>1. session \in Rooms
      BY <1>1 DEF Answered, Home
  <2> QED
      BY <1>1, <2>1, RoomFields DEF Answer, TypeInv
<1>4. Copies = {}
    BY <1>2 DEF Screen
<1>5. /\ OnePerId /\ \A id : id \notin Staying
    BY <1>4 DEF OnePerId, Staying
<1>6. new \in Seq(Ships) /\ Len(new) = 1 /\ new[1].id = i
    BY <1>3, OneShip
<1>7. reg' = CreateAll(reg, new)
    BY <1>2, <1>3 DEF Create
<1> HIDE DEF new
<1>8. \A k \in 1..Len(new) : k = 1
    BY <1>6
<1>9. /\ \A id : id \in Staying' <=> id \in Staying \/ \E k \in 1..Len(new) : new[k].id = id
      /\ OnePerId'
    BY <1>2, <1>5, <1>6, <1>7, <1>8, ShownAdded DEF TypeInv
<1>10. Staying' = {i}
  <2>1. 1 \in 1..Len(new)
      BY <1>6
  <2> QED
      BY <1>5, <1>6, <1>8, <1>9, <2>1
<1>11. Tail(down) \in Q
  <2>1. Behind(down, Stale(left), Answer(session, i), Q)
      BY <1>1 DEF Screen
  <2>2. Q \in SUBSET Seq(DownMsgs)
      BY FollowingIsNews
  <2>3. Head(down) \notin Stale(left)
    <3>1. ~Late(Head(down))
        BY DEF Adopt, Clean
    <3> QED
        BY <1>3, <3>1 DEF Stale, Late
  <2> HIDE DEF Q
  <2> QED
      BY <2>1, <2>2, <2>3, BehindServed
<1>12. Following(Staying)' = Q
    BY <1>1, <1>2, <1>10 DEF Following
<1> QED
    BY <1>2, <1>9, <1>11, <1>12

LEMMA ScreenInit == Init => ScreenInv
<1> SUFFICES ASSUME Init
             PROVE  ScreenInv
    OBVIOUS
<1>1. \A r \in Rooms : rooms[r].seats = {}
    BY DEF Init, NoRoom
<1>2. SeatInv
    BY <1>1 DEF SeatInv
<1>3. ~connected /\ ~Pending /\ Copies = {}
    BY DEF Init, Copies, View, Cleared, Pending
<1>4. Screen
    BY <1>3 DEF Screen, Answered
<1> QED
    BY <1>2, <1>4 DEF ScreenInv

(* With nothing on the way, what the messages will make of the screen is   *)
(* what it shows.                                                          *)
LEMMA ScreenMeansMatch == TypeInv /\ IdentInv /\ ScreenInv => ScreenMatchesRoom
<1> SUFFICES ASSUME TypeInv, IdentInv, ScreenInv, connected, blur = {}, down = <<>>,
                    Idle, main = "idle"
             PROVE  /\ {reg.data[e].id : e \in Copies} = rooms[session].seats
                    /\ Cardinality(Copies) = Cardinality(rooms[session].seats)
    BY DEF ScreenMatchesRoom
<1> DEFINE seats == rooms[session].seats
           last  == rooms[session].last
<1>1. OnePerId /\ down \in Following(Staying)
    BY DEF ScreenInv, Screen
<1>2. In
    BY OneOfTheStages DEF IdentInv, Clean
<1>3. ClientOK /\ RoomsOK /\ session \in Rooms
    BY <1>2 DEF TypeInv, In, Home
<1>4. Staying = {reg.data[e].id : e \in Copies} /\ Staying \subseteq 0..MaxId
    BY <1>3, CopyFields
<1>5. seats \subseteq Ids /\ IsFiniteSet(seats)
    BY <1>3, RoomFields, IdsAreFinite
<1>6. ASSUME NEW id \in 0..MaxId
      PROVE  id \in Staying <=> id \in seats
  <2>1. Told(id, Staying, down, seats, last)
      BY <1>1 DEF Following, News
  <2>2. ~Around(down, NoDrop(id), Drop(id), Deaf(id))
      BY AroundServed
  <2>3. down \in Seq(NoName(id))
      BY EmptySeq
  <2> QED
      BY <2>1, <2>2, <2>3 DEF Told
<1>7. Staying = seats
  <2>1. Ids \subseteq 0..MaxId
      BY Bounds DEF Ids
  <2> QED
      BY <1>4, <1>5, <1>6, <2>1
<1>8. Cardinality(Copies) = Cardinality(seats)
  <2> DEFINE f == [e \in Copies |-> reg.data[e].id]
  <2>1. f \in [Copies -> seats]
      BY <1>4, <1>7
  <2>2. \A e, g \in Copies : f[e] = f[g] => e = g
      BY <1>1 DEF OnePerId
  <2>3. \A id \in seats : \E e \in Copies : f[e] = id
      BY <1>4, <1>7
  <2> HIDE DEF f
  <2>4. f \in Injection(Copies, seats)
      BY <2>1, <2>2 DEF Injection, IsInjective
  <2>5. f \in Surjection(Copies, seats)
      BY <2>1, <2>3 DEF Surjection
  <2> QED
      BY <1>5, <2>4, <2>5, FS_Injection
<1> QED
    BY <1>4, <1>7, <1>8

LEMMA ScreenNext ==
    ASSUME TypeInv, IdentInv, ScreenInv, [Next]_vars
    PROVE  ScreenInv'
<1>1. SeatInv'
    BY SeatsKept DEF ScreenInv
<1> SUFFICES ASSUME blur' = {}
             PROVE  Screen'
    BY <1>1 DEF ScreenInv
<1>2. Clean'
    BY DEF Clean
<1>3. blur = {} /\ ~(Lose \/ Double \/ Overtake)
  <2>1. ASSUME NEW u, NEW d
        PROVE  ~Udp(u, d)
      BY DEF Udp
  <2>2. ~(Lose \/ Double \/ Overtake)
      BY <2>1 DEF Lose, Double, Overtake
  <2>3. ASSUME User \/ RememberName \/ DropEntities
        PROVE  blur \subseteq blur'
      BY <2>3 DEF User, JoinRoom, CreateRoom, RequestRoomList, LeaveRoom, Joining,
         RememberName, DropEntities
  <2>4. ASSUME Serve \/ AnswerJoin \/ Others \/ UNCHANGED vars
        PROVE  blur \subseteq blur'
      BY <2>4 DEF Serve, ServeCreate, ServeList, ServeJoin, ServeLeave,
         AnswerJoin, Others, OtherJoins, OtherLeaves, Tick, TimesOut, Stops, Removes, Jams, vars
  <2>5. ASSUME Handle
        PROVE  blur \subseteq blur'
      BY <2>5 DEF Handle, Adopt, Meet, Move, FindLeaver, DestroyLeaver, ReadInfo, Joining, past
  <2> QED
      BY <2>2, <2>3, <2>4, <2>5 DEF Next
<1>4. SeatInv /\ Screen /\ Stages
    BY <1>3 DEF ScreenInv, IdentInv, Clean
<1> DEFINE Ahead == Behind(down', Stale(left'), Answer(session', rooms'[session'].me),
                           Following({rooms[session].me})')
           Apart == Answered' => Ahead
<1>5. ASSUME Apart,
             ~connected' /\ main' # "left" => Copies' = {},
             connected' /\ main' # "left" => OnePerId' /\ down' \in Following(Staying)'
      PROVE  Screen'
    BY <1>5 DEF Screen
<1> HIDE DEF Ahead, Apart
<1>6. ASSUME SamePlace,
             \/ Home(session) /\ seating = 0 => MoreNews
             \/ /\ down # <<>> /\ down' = Tail(down) /\ Head(down).is # "join"
                /\ rooms' = rooms
      PROVE  Apart
  <2> SUFFICES ASSUME Answered'
               PROVE  Ahead
      BY DEF Apart
  <2>1. rooms'[session'].me = rooms[session].me /\ Home(session) /\ seating = 0
      BY <1>4, <1>6, AnsweredBefore DEF SamePlace, Home
  <2>2. Behind(down', Stale(left'), Answer(session', rooms'[session'].me),
               Following({rooms[session].me})')
      BY <1>4, <1>6, <2>1, AnswerAhead
  <2> QED
      BY <2>1, <2>2 DEF Ahead
<1>7. ASSUME ~Answered' PROVE Apart
    BY <1>7 DEF Apart
(* Another stage begins.                                                   *)
<1>8. ASSUME reg' = reg, main' = main, connected' = connected, ~connected, Apart
      PROVE  Screen'
  <2>1. Copies' = Copies
      BY <1>8 DEF Copies, View
  <2> QED
      BY <1>4, <1>5, <1>8, <2>1 DEF Screen
<1>9. ASSUME NEW r \in Rooms, JoinRoom(r)
      PROVE  Screen'
  <2>1. /\ up' = Append(up, Up("join", r, "")) /\ session' = r /\ Joining /\ down' = down
        /\ UNCHANGED <<rooms, route, seating, connected, me, left, reg, main>>
      BY <1>9 DEF JoinRoom, Ask, server, ents, loop
  <2>2. ~connected /\ Asking'
      BY <1>2, <1>4, <2>1, AskStages
  <2>3. ~Answered'
      BY <2>2, OneOfTheStages DEF Parted, Asking, Answered, Leaving, Home
  <2> QED
      BY <1>7, <1>8, <2>1, <2>2, <2>3
<1>10. CASE LeaveRoom
  <2>1. Parted' /\ main' = "left"
      BY <1>4, <1>10, LeaveStages DEF LeaveRoom
  <2>2. ~Answered'
      BY <2>1 DEF Parted, Answered
  <2> QED
      BY <1>5, <1>7, <2>1, <2>2
<1>11. CASE ServeJoin
  <2>1. ~connected /\ (Parted' \/ Refused' \/ Seated')
      BY <1>2, <1>4, <1>11, ServeJoinStages
  <2>2. ~Answered'
      BY <2>1, Bounds DEF Parted, Refused, Seated, Answered, Home, NoSeatBut
  <2>3. UNCHANGED <<reg, main, connected>>
      BY <1>11 DEF ServeJoin, ident, ents, loop
  <2> QED
      BY <1>7, <1>8, <2>1, <2>2, <2>3
<1>12. CASE ServeLeave \/ \E r \in Rooms : TimesOut(r)
  <2>1. (Parted \/ Asking) /\ (Parted' \/ Asking')
      BY <1>4, <1>12, ServeLeaveStages, TimesOutStages
  <2>2. ~Answered' /\ ~connected
      BY <2>1 DEF Parted, Asking, Answered, Leaving, Home
  <2>3. UNCHANGED <<reg, main, connected>>
      BY <1>12 DEF ServeLeave, TimesOut, ident, ents, loop
  <2> QED
      BY <1>7, <1>8, <2>2, <2>3
<1>13. CASE AnswerJoin
  <2>1. Seated /\ Answered'
      BY <1>4, <1>13, AnswerStages
  <2>2. UNCHANGED <<reg, main, connected, rooms, session>> /\ ~connected
      BY <1>13, <2>1 DEF AnswerJoin, ident, ents, loop, Seated
  <2>3. Ahead
      BY <1>4, <1>13, <2>2, AnswerIsNews DEF Ahead
  <2> QED
      BY <1>8, <2>2, <2>3 DEF Apart
<1>14. CASE Adopt
  <2>1. In'
      BY <1>2, <1>4, <1>14, AdoptStages
  <2>2. ~Answered' /\ connected'
      BY <2>1 DEF In, Answered
  <2>3. main' = main
      BY <1>14 DEF Adopt, loop
  <2>4. main # "left" => OnePerId' /\ down' \in Following(Staying)'
      BY <1>2, <1>4, <1>14, AdoptShows
  <2> QED
      BY <1>5, <1>7, <2>2, <2>3, <2>4
<1>15. CASE ReadInfo
  <2> DEFINE m == Head(down)
  <2>1. /\ down # <<>> /\ down' = Tail(down) /\ m.is = "info"
        /\ UNCHANGED <<rooms, route, seating, connected, me, left, reg, parting, main>>
        /\ \/ up' = Append(up, Up("join", m.room, "")) /\ session' = m.room /\ Joining
           \/ UNCHANGED <<up, session, asked, ignored>>
      BY <1>15 DEF ReadInfo, Taken, server, past, ents, loop
  <2>2. m.room \in Rooms
    <3>1. m \in DownMsgs
        BY <2>1, Queues DEF TypeInv, WireOK
    <3> QED
        BY <3>1 DEF DownMsgs
  <2>3. CASE up' = Append(up, Up("join", m.room, "")) /\ session' = m.room /\ Joining
    <3>1. ~connected /\ Asking'
        BY <1>2, <1>4, <2>1, <2>2, <2>3, AskStages
    <3>2. ~Answered'
        BY <3>1 DEF Asking, Answered, Leaving, Home
    <3> QED
        BY <1>7, <1>8, <2>1, <3>1, <3>2
  <2>4. CASE UNCHANGED <<up, session, asked, ignored>>
    <3>1. SamePlace
        BY <2>1, <2>4 DEF SamePlace
    <3>2. Apart
        BY <1>6, <2>1, <3>1
    <3>3. Staying' = Staying /\ Copies' = Copies /\ (OnePerId => OnePerId')
        BY <2>1 DEF Staying, Copies, View, OnePerId
    <3>4. ASSUME connected, main # "left"
          PROVE  OnePerId' /\ down' \in Following(Staying)'
      <4>1. OnePerId /\ down \in News(Staying, rooms[session].seats, rooms[session].last)
          BY <1>4, <3>4 DEF Screen, Following
      <4>2. \A id : ~Named(m, id) /\ ~Dropped(m, id)
          BY <2>1 DEF Named, Dropped
      <4>3. Tail(down) \in News(Staying, rooms[session].seats, rooms[session].last)
          BY <2>1, <4>1, <4>2, NewsOn
      <4> QED
          BY <2>1, <2>4, <3>3, <4>1, <4>3 DEF Following
    <3> QED
        BY <1>4, <1>5, <2>1, <3>2, <3>3, <3>4 DEF Screen
  <2> QED
      BY <2>1, <2>3, <2>4
<1>17. ASSUME NEW r \in Rooms, Removes(r)
       PROVE  Screen'
  <2>0. RoomsOK
      BY DEF TypeInv
  <2>1. /\ rooms[r].me = 0 /\ \A q \in Rooms : rooms'[q].me = rooms[q].me
        /\ rooms' = Emptied(r)
        /\ UNCHANGED <<seating, connected, session, left, asked, ignored, down,
                       reg, parting, main>>
      BY <1>2, <1>4, <1>17, RemovesStages DEF Removes, wire, ident, ents, loop, past
  <2>2. Staying' = Staying /\ Copies' = Copies /\ (OnePerId => OnePerId')
      BY <2>1 DEF Staying, Copies, View, OnePerId
  <2>3. ASSUME Home(session)
        PROVE  /\ rooms'[session] = rooms[session]
               /\ \A S : Following(S)' = Following(S)
    <3>1. session \in Rooms /\ session # r
        BY <2>1, <2>3 DEF Home
    <3>2. rooms'[session] = rooms[session]
        BY <2>0, <2>1, <3>1, EmptiedRoom
    <3> QED
        BY <2>1, <3>2 DEF Following
  <2>4. Stages'
      BY <1>2, <1>4, <1>17, RemovesStages
  <2>5. Answered' => Answered
    <3>1. Answered' => /\ Pending /\ ~connected /\ seating = 0 /\ session \in Rooms
                       /\ rooms[session].me # 0 /\ <<session, rooms[session].me>> \notin left
        BY <2>1 DEF Answered, Home, Pending
    <3>2. Answered' => ~Parted /\ ~Asking /\ ~In
        BY <3>1 DEF Parted, Asking, In, Leaving
    <3>3. Answered' => ~Seated /\ ~Refused
        BY <3>1, Bounds DEF Seated, Refused, NoSeatBut
    <3> QED
        BY <1>4, <3>2, <3>3 DEF Stages
  <2>6. Apart
    <3> SUFFICES ASSUME Answered'
                 PROVE  Ahead
        BY DEF Apart
    <3>1. Answered /\ Home(session)
        BY <2>5 DEF Answered
    <3>2. Behind(down, Stale(left), Answer(session, rooms[session].me),
                 Following({rooms[session].me}))
        BY <1>4, <3>1 DEF Screen
    <3>3. Following({rooms[session].me})' = Following({rooms[session].me})
        BY <2>1, <2>3, <3>1 DEF Following
    <3> QED
        BY <2>1, <2>3, <3>1, <3>2, <3>3 DEF Ahead
  <2>7. ASSUME connected, main # "left"
        PROVE  OnePerId' /\ down' \in Following(Staying)'
    <3>1. In /\ Home(session)
        BY <1>4, <2>7, OneOfTheStages DEF In
    <3>2. OnePerId /\ down \in Following(Staying)
        BY <1>4, <2>7 DEF Screen
    <3>3. Following(Staying)' = Following(Staying)
        BY <2>1, <2>2, <2>3, <3>1 DEF Following
    <3> QED
        BY <2>1, <2>2, <3>2, <3>3
  <2> QED
      BY <1>4, <1>5, <2>1, <2>2, <2>6, <2>7 DEF Screen
(* The stage goes on.                                                      *)
<1> DEFINE Turned == \/ \E r \in Rooms : JoinRoom(r) \/ TimesOut(r) \/ Removes(r)
                     \/ LeaveRoom \/ ServeJoin \/ ServeLeave \/ AnswerJoin \/ Adopt
                     \/ Lose \/ Double \/ Overtake \/ ReadInfo
<1>16. CASE ~Turned
  <2>1. SamePlace
      BY <1>16, FrameKept
  <2>2. connected => In /\ Home(session) /\ seating = 0
      BY <1>4, OneOfTheStages DEF In
  <2>3. connected' = connected /\ session' = session
      BY <2>1 DEF SamePlace
  <2> HIDE DEF Turned
  <2>4. CASE \/ RequestRoomList \/ (\E n \in Names : CreateRoom(n)) \/ RememberName
             \/ UNCHANGED vars
             \/ (\E r \in Rooms : ServeCreate(r) \/ OtherJoins(r) \/ Tick(r)) \/ ServeList
             \/ (\E r \in Rooms : Stops(r) \/ Jams(r))
             \/ \E r \in Rooms : \E id \in Ids : OtherLeaves(r, id)
    <3>1. Home(session) /\ seating = 0 => MoreNews
        BY <1>4, <2>4, NewsSent
    <3>2. /\ UNCHANGED <<reg, parting>> /\ (main' # "left" => main # "left")
        BY <2>4 DEF RequestRoomList, CreateRoom, RememberName, vars, ServeCreate, OtherJoins,
           Tick, ServeList, Stops, Jams, OtherLeaves, ents, loop
    <3>3. Staying' = Staying /\ Copies' = Copies /\ (OnePerId => OnePerId')
        BY <3>2 DEF Staying, Copies, View, OnePerId
    <3>4. ASSUME connected, main # "left"
          PROVE  OnePerId' /\ down' \in Following(Staying)'
      <4>1. OnePerId /\ down \in Following(Staying)
          BY <1>4, <3>4 DEF Screen
      <4>2. MoreNews
          BY <2>2, <3>1, <3>4
      <4>3. PICK t \in Seq(DownMsgs) :
               down' = down \o t /\ \A S : \A a \in Following(S) : a \o t \in Following(S)'
          BY <2>3, <4>2, NewsGrows
      <4>4. Following(Staying)' = News(Staying, rooms'[session'].seats, rooms'[session'].last)
          BY <3>3 DEF Following
      <4>5. \A S : Following(S)' = News(S, rooms'[session'].seats, rooms'[session'].last)
          BY DEF Following
      <4> QED
          BY <3>3, <4>1, <4>3, <4>4, <4>5
    <3> QED
        BY <1>4, <1>5, <1>6, <2>1, <2>3, <3>1, <3>2, <3>3, <3>4 DEF Screen
  <2>5. CASE DropEntities
    <3>1. Home(session) /\ seating = 0 => MoreNews
        BY <1>4, <2>5, NewsSent
    <3>2. ~connected
        BY <2>5 DEF DropEntities
    <3>3. Copies' = {}
        BY <2>5 DEF DropEntities, Copies, View, Cleared
    <3> QED
        BY <1>5, <1>6, <2>1, <2>3, <3>1, <3>2, <3>3
  <2>6. CASE Meet \/ Move
    <3>1. connected /\ main' = main /\ rooms' = rooms
        BY <2>6 DEF Meet, Move, server, loop
    <3>2. ~Answered'
        BY <2>3, <3>1 DEF Answered
    <3>3. ASSUME main # "left"
          PROVE  OnePerId' /\ down' \in Following(Staying)'
      <4>1. OnePerId /\ down \in News(Staying, rooms[session].seats, rooms[session].last)
          BY <1>4, <3>1, <3>3 DEF Screen, Following
      <4>2. OnePerId' /\ down' \in News(Staying', rooms[session].seats, rooms[session].last)
          BY <2>6, <4>1, MeetShows, MoveShows
      <4> QED
          BY <2>3, <3>1, <4>2 DEF Following
    <3> QED
        BY <1>5, <1>7, <2>3, <3>1, <3>2, <3>3
  <2>7. CASE FindLeaver
    <3>1. /\ main' = main /\ rooms' = rooms /\ reg' = reg
          /\ down # <<>> /\ down' = Tail(down) /\ Head(down).is # "join"
        BY <2>7 DEF FindLeaver, Taken, server, loop
    <3>2. Apart
        BY <1>6, <2>1, <3>1
    <3>3. Copies' = Copies
        BY <3>1 DEF Copies, View
    <3>4. ASSUME connected, main # "left"
          PROVE  OnePerId' /\ down' \in Following(Staying)'
      <4>1. OnePerId /\ down \in News(Staying, rooms[session].seats, rooms[session].last)
          BY <1>4, <3>4 DEF Screen, Following
      <4>2. OnePerId' /\ down' \in News(Staying', rooms[session].seats, rooms[session].last)
          BY <2>7, <4>1, LeaverShows
      <4> QED
          BY <2>3, <3>1, <4>2 DEF Following
    <3> QED
        BY <1>4, <1>5, <2>3, <3>1, <3>2, <3>3, <3>4 DEF Screen
  <2>8. CASE DestroyLeaver
    <3>1. /\ Staying' = Staying /\ down' = down /\ (OnePerId => OnePerId')
          /\ Copies' \subseteq Copies
        BY <2>8, DestroyShows
    <3>2. main' = main /\ rooms' = rooms
        BY <2>8 DEF DestroyLeaver, server, loop
    <3>3. MoreNews
        BY <2>3, <3>1, <3>2, NoWord DEF TypeInv, WireOK
    <3>4. Following(Staying)' = Following(Staying)
        BY <2>3, <3>1, <3>2 DEF Following
    <3> QED
        BY <1>4, <1>5, <1>6, <2>1, <2>3, <3>1, <3>2, <3>3, <3>4 DEF Screen
  <2> QED
      BY <1>16, <2>4, <2>5, <2>6, <2>7, <2>8
         DEF Next, User, Serve, Others, Handle, Turned
<1> QED
    BY <1>3, <1>9, <1>10, <1>11, <1>12, <1>13, <1>14, <1>15, <1>16, <1>17

(* With nothing on its way a client shows the players of its room, each    *)
(* once, whoever joins, leaves, times out and comes back and whichever     *)
(* sessions stop, but for the causes excepted of its identity, moves that  *)
(* come before the answer to the join, and entities dropped after it.      *)
THEOREM ScreensAreKept == Spec => []ScreenMatchesRoom
<1>1. Init => TypeInv
    BY InitTypes
<1>2. TypeInv /\ [Next]_vars => TypeInv'
    BY TypeStep
<1>3. TypeInv /\ IdentInv /\ ScreenInv /\ [Next]_vars => ScreenInv'
    BY ScreenNext
<1> QED
    BY <1>1, <1>2, <1>3, IdentInit, IdentNext, ScreenInit, ScreenMeansMatch, PTL DEF Spec
=============================================================================

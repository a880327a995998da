---------------------------- MODULE ClientStayProofs ----------------------------
(***************************************************************************)
(* The client is who the server takes it for.  The invariant that carries  *)
(* this follows a stay in a room through six stages, and says of each what *)
(* may be on the wire up and on the wire down.                             *)
(***************************************************************************)
EXTENDS ClientSessionProofs

(* A sequence with one element of X in it, members of B before it and one  *)
(* of the sequences Q behind it; or members of A behind it, in any order.  *)
Behind(s, B, X, Q) == \E b \in Seq(B) : \E x \in X : \E a \in Q : s = b \o <<x>> \o a
Around(s, B, X, A) == Behind(s, B, X, Seq(A))

LEMMA OneInQueue ==
    ASSUME NEW x
    PROVE  Head(<<x>>) = x /\ Tail(<<x>>) = <<>>
<1>1. <<x>> \in Seq({x}) /\ <<x>> # <<>> /\ Len(<<x>>) = 1
    OBVIOUS
<1>2. Tail(<<x>>) \in Seq({x}) /\ Len(Tail(<<x>>)) = 0
    BY <1>1, HeadTailProperties
<1> QED
    BY <1>1, <1>2, EmptySeq

LEMMA ConcatFront ==
    ASSUME NEW S, NEW s \in Seq(S), NEW t \in Seq(S), s # <<>>
    PROVE  s \o t # <<>> /\ Head(s \o t) = Head(s) /\ Tail(s \o t) = Tail(s) \o t
<1> DEFINE u == s \o t
           v == Tail(s) \o t
<1>1. /\ u \in Seq(S) /\ Len(u) = Len(s) + Len(t)
      /\ \A i \in 1..Len(s) + Len(t) : u[i] = IF i <= Len(s) THEN s[i] ELSE t[i - Len(s)]
    BY ConcatProperties
<1>2. /\ Len(s) \in Nat \ {0} /\ Len(t) \in Nat
    BY EmptySeq, LenProperties
<1>3. /\ Tail(s) \in Seq(S) /\ Len(Tail(s)) = Len(s) - 1
      /\ \A i \in 1..Len(Tail(s)) : Tail(s)[i] = s[i + 1]
    BY HeadTailProperties
<1>4. /\ v \in Seq(S) /\ Len(v) = Len(s) - 1 + Len(t)
      /\ \A i \in 1..Len(s) - 1 + Len(t) :
            v[i] = IF i <= Len(s) - 1 THEN Tail(s)[i] ELSE t[i - (Len(s) - 1)]
    BY <1>3, ConcatProperties
<1> HIDE DEF u, v
<1>5. u # <<>>
    BY <1>1, <1>2
<1>6. /\ Tail(u) \in Seq(S) /\ Len(Tail(u)) = Len(u) - 1
      /\ \A i \in 1..Len(Tail(u)) : Tail(u)[i] = u[i + 1]
    BY <1>1, <1>5, HeadTailProperties
<1>7. \A i \in 1..Len(v) : Tail(u)[i] = v[i]
    BY <1>1, <1>2, <1>3, <1>4, <1>6
<1>8. Tail(u) = v
    BY <1>1, <1>2, <1>4, <1>6, <1>7, SeqEqual
<1>9. Head(u) = u[1] /\ Head(s) = s[1]
    BY <1>1, <1>5
<1> QED
    BY <1>1, <1>2, <1>5, <1>8, <1>9 DEF u, v

LEMMA HeadIsFirst ==
    ASSUME NEW S, NEW s \in Seq(S), s # <<>>, NEW T, Head(s) \in T, Tail(s) \in Seq(T)
    PROVE  s \in Seq(T)
<1>1. Len(s) \in Nat /\ Len(s) # 0 /\ DOMAIN s = 1..Len(s)
    OBVIOUS
<1>2. ASSUME NEW i \in 1..Len(s)
      PROVE  s[i] \in T
  <2>1. CASE i = 1
      BY <2>1
  <2>2. CASE i # 1
    <3>1. i - 1 \in 1..Len(Tail(s)) /\ Tail(s)[i - 1] = s[i]
        BY <1>1, <1>2, <2>2
    <3> QED
        BY <3>1
  <2> QED
      BY <2>1, <2>2
<1>3. s = [i \in 1..Len(s) |-> s[i]]
    OBVIOUS
<1> QED
    BY <1>1, <1>2, <1>3

LEMMA ShorterQueue ==
    ASSUME NEW S, NEW s \in Seq(S), NEW x \in S, NEW T, Append(s, x) \in Seq(T)
    PROVE  s \in Seq(T)
<1>1. \A i \in 1..Len(s) : Append(s, x)[i] = s[i] /\ i \in 1..Len(Append(s, x))
    OBVIOUS
<1>2. \A i \in 1..Len(s) : s[i] \in T
    BY <1>1
<1>3. s = [i \in 1..Len(s) |-> s[i]] /\ Len(s) \in Nat
    OBVIOUS
<1> QED
    BY <1>2, <1>3

(* The front of it.                                                        *)
LEMMA BehindFront ==
    ASSUME NEW B, NEW X, NEW A, NEW b \in Seq(B), NEW x \in X, NEW a \in Seq(A),
           NEW s, s = b \o <<x>> \o a
    PROVE  /\ s # <<>>
           /\ b = <<>> => Head(s) = x /\ Tail(s) = a
           /\ b # <<>> => /\ Head(s) = Head(b) /\ Head(s) \in B
                          /\ Tail(b) \in Seq(B) /\ Tail(s) = Tail(b) \o <<x>> \o a
<1> DEFINE S == B \cup X \cup A
           c == b \o <<x>>
<1>1. b \in Seq(S) /\ a \in Seq(S)
    BY SeqMonotonic
<1>2. <<x>> \in Seq(S) /\ x \in S
    OBVIOUS
<1> HIDE DEF S
<1>3. c \in Seq(S) /\ c # <<>>
    BY <1>1, <1>2
<1>4. s = c \o a
    OBVIOUS
<1>5. s # <<>> /\ Head(s) = Head(c) /\ Tail(s) = Tail(c) \o a
  <2> HIDE DEF c
  <2> QED
      BY <1>1, <1>3, <1>4, ConcatFront
<1>6. CASE b = <<>>
  <2>1. c = <<x>>
      BY <1>2, <1>6, ConcatEmptySeq
  <2> HIDE DEF c
  <2>2. Head(c) = x /\ Tail(c) = <<>>
      BY <2>1, OneInQueue
  <2>3. Tail(c) \o a = a
      BY <1>1, <2>2, ConcatEmptySeq
  <2> QED
      BY <1>5, <1>6, <2>2, <2>3
<1>7. CASE b # <<>>
  <2>1. Head(b) \in B /\ Tail(b) \in Seq(B)
      BY <1>7, Queues
  <2>2. Head(c) = Head(b) /\ Tail(c) = Tail(b) \o <<x>>
      BY <1>1, <1>2, <1>7
  <2> QED
      BY <1>5, <1>7, <2>1, <2>2
<1> QED
    BY <1>6, <1>7

LEMMA BehindServed ==
    ASSUME NEW A, NEW Q \in SUBSET Seq(A), NEW B, NEW X, NEW s, Behind(s, B, X, Q)
    PROVE  /\ s # <<>>
           /\ \/ Head(s) \in B /\ Behind(Tail(s), B, X, Q)
              \/ Head(s) \in X /\ Tail(s) \in Q
<1>1. PICK b \in Seq(B), x \in X, a \in Q : s = b \o <<x>> \o a
    BY DEF Behind
<1>2. a \in Seq(A)
    OBVIOUS
<1>3. CASE b = <<>>
  <2>1. s # <<>> /\ Head(s) = x /\ Tail(s) = a
      BY <1>1, <1>2, <1>3, BehindFront
  <2> QED
      BY <2>1
<1>4. CASE b # <<>>
  <2>1. /\ Head(s) \in B /\ Tail(b) \in Seq(B) /\ Tail(s) = Tail(b) \o <<x>> \o a
        /\ s # <<>>
      BY <1>1, <1>2, <1>4, BehindFront
  <2> QED
      BY <2>1 DEF Behind
<1> QED
    BY <1>3, <1>4

LEMMA BehindLonger ==
    ASSUME NEW A, NEW Q \in SUBSET Seq(A), NEW B, NEW X, NEW s, Behind(s, B, X, Q),
           NEW t \in Seq(A), NEW Q2, \A a \in Q : a \o t \in Q2
    PROVE  Behind(s \o t, B, X, Q2)
<1>1. PICK b \in Seq(B), x \in X, a \in Q : s = b \o <<x>> \o a
    BY DEF Behind
<1> DEFINE S == B \cup X \cup A
           c == b \o <<x>>
<1>2. b \in Seq(S) /\ a \in Seq(S) /\ t \in Seq(S)
    BY SeqMonotonic
<1>3. <<x>> \in Seq(S)
    OBVIOUS
<1> HIDE DEF S
<1>5. c \in Seq(S)
    BY <1>2, <1>3, Queues
<1> HIDE DEF c
<1>6. (c \o a) \o t = c \o (a \o t)
    BY <1>2, <1>5, ConcatAssociative
<1> QED
    BY <1>1, <1>6 DEF Behind, c

LEMMA AroundServed ==
    ASSUME NEW B, NEW X, NEW A, NEW s, Around(s, B, X, A)
    PROVE  /\ s # <<>>
           /\ \/ Head(s) \in B /\ Around(Tail(s), B, X, A)
              \/ Head(s) \in X /\ Tail(s) \in Seq(A)
<1> DEFINE Q == Seq(A)
<1>1. Q \in SUBSET Seq(A) /\ Behind(s, B, X, Q)
    BY DEF Around
<1> HIDE DEF Q
<1>2. /\ s # <<>>
      /\ \/ Head(s) \in B /\ Behind(Tail(s), B, X, Q)
         \/ Head(s) \in X /\ Tail(s) \in Q
    BY <1>1, BehindServed
<1> QED
    BY <1>2 DEF Around, Q

LEMMA AroundLonger ==
    ASSUME NEW B, NEW X, NEW A, NEW s, Around(s, B, X, A), NEW t \in Seq(A)
    PROVE  Around(s \o t, B, X, A)
<1> DEFINE Q == Seq(A)
<1>1. Q \in SUBSET Seq(A) /\ Behind(s, B, X, Q) /\ \A a \in Q : a \o t \in Q
    BY Queues DEF Around
<1> HIDE DEF Q
<1>2. Behind(s \o t, B, X, Q)
    BY <1>1, BehindLonger
<1> QED
    BY <1>2 DEF Around, Q

(* Nothing came in between: the property speaks of these states only.      *)
Clean == blur \subseteq {"early", "wiped"}

(* Messages up, and messages down as the seats they were sent to show them:*)
(* of a seat left (l), stale (moves may come before the answer to a join), *)
(* of seat i of room r, the answer that gives it, and a refusal.           *)
NoJoin    == {m \in AskMsgs : m.is # "join"}
NoLeave   == {m \in AskMsgs : m.is # "leave"}
Asides    == {m \in AskMsgs : m.is \notin {"join", "leave"}}
JoinOf(r) == {m \in AskMsgs : m.is = "join" /\ m.room = r}

Infos         == {m \in DownMsgs : m.is = "info"}
Bygone(l)     == {m \in DownMsgs : m.is = "info" \/ <<m.room, m.to>> \in l}
Stale(l)      == {m \in DownMsgs : m.is \in {"info", "moves"} \/ <<m.room, m.to>> \in l}
Current(r, i) == {m \in DownMsgs : m.is = "info" \/ (m.room = r /\ m.to = i)}
Answer(r, i)  == {m \in DownMsgs : m.is = "join" /\ m.room = r /\ m.id = i}
Refusal       == {m \in DownMsgs : m.is = "join" /\ m.id = 0}

NoSeatBut(r) == \A q \in Rooms : q # r => rooms[q].me = 0
Home(r)      == /\ r \in Rooms /\ rooms[r].me # 0 /\ <<r, rooms[r].me>> \notin left
                /\ NoSeatBut(r)
(* What seats there are have been left, and the server will hear of it.    *)
Leaving      == /\ \A q \in Rooms : rooms[q].me # 0 =>
                      <<q, rooms[q].me>> \in left /\ route = q
                /\ up \in Seq(NoLeave) => NoSeatBut(0)

(* The stages of a stay: no room asked for, or the join dropped by a       *)
(* stopping session; the join on its way; the seat taken and not answered; *)
(* the answer, or a refusal, on its way; in.                               *)
Parted   == /\ ~Pending /\ ~connected /\ seating = 0 /\ Leaving
            /\ up \in Seq(NoJoin) /\ down \in Seq(Bygone(left))
Asking   == /\ Pending /\ ~connected /\ seating = 0 /\ Leaving
            /\ Around(up, NoJoin, JoinOf(session), Asides)
            /\ down \in Seq(Bygone(left))
Seated   == /\ Pending /\ ~connected /\ seating = session /\ Home(session)
            /\ up \in Seq(Asides) /\ down \in Seq(Stale(left))
Answered == /\ Pending /\ ~connected /\ seating = 0 /\ route = session /\ Home(session)
            /\ up \in Seq(Asides)
            /\ Around(down, Stale(left), Answer(session, rooms[session].me),
                      Current(session, rooms[session].me))
Refused  == /\ Pending /\ ~connected /\ seating = 0 /\ NoSeatBut(0)
            /\ up \in Seq(Asides)
            /\ Around(down, Bygone(left), Refusal, DownMsgs)
In       == /\ Pending /\ connected /\ seating = 0 /\ route = session /\ Home(session)
            /\ up \in Seq(Asides)
            /\ me = rooms[session].me /\ down \in Seq(Current(session, me))

Stages == Parted \/ Asking \/ Seated \/ Answered \/ Refused \/ In

IdentInv == Clean => Stages

LEMMA IdentInit == Init => IdentInv
<1> SUFFICES ASSUME Init
             PROVE  IdentInv
    OBVIOUS
<1>1. \A r \in Rooms : rooms[r].me = 0 /\ rooms[r].last = 0
    BY DEF Init, NoRoom
<1>0. left = {}
    BY DEF Init
<1>3. up = <<>> /\ down = <<>>
    BY DEF Init
<1>4. up \in Seq(NoJoin) /\ down \in Seq(Bygone(left))
    BY <1>3
<1>5. Leaving
    BY <1>1 DEF Leaving, NoSeatBut
<1>6. Parted
    BY <1>4, <1>5 DEF Init, Parted, Pending
<1> QED
    BY <1>6 DEF IdentInv, Stages

LEMMA IdentMeansOwn == TypeInv /\ IdentInv => IdentityIsOwn
BY DEF IdentInv, IdentityIsOwn, Stages, Parted, Asking, Seated, Answered, Refused, In, Home, Clean

(* Asides come and go on the wire up.                                      *)
UpKept == \/ up' = up
          \/ \E m \in Asides : up' = Append(up, m)
          \/ up # <<>> /\ Head(up) \in Asides /\ up' = Tail(up)

LEMMA UpIsKept ==
    ASSUME up \in Seq(AskMsgs), UpKept
    PROVE  /\ up \in Seq(NoJoin) => up' \in Seq(NoJoin)
           /\ up \in Seq(Asides) => up' \in Seq(Asides)
           /\ up' \in Seq(NoLeave) => up \in Seq(NoLeave)
           /\ \A s : Around(up, NoJoin, JoinOf(s), Asides)
                        => Around(up', NoJoin, JoinOf(s), Asides)
<1>1. Asides \subseteq NoJoin /\ Asides \subseteq NoLeave /\ Asides \subseteq AskMsgs
    BY DEF Asides, NoJoin, NoLeave
<1>2. CASE up' = up
    BY <1>2
<1>3. ASSUME NEW m \in Asides, up' = Append(up, m)
      PROVE  /\ up \in Seq(NoJoin) => up' \in Seq(NoJoin)
             /\ up \in Seq(Asides) => up' \in Seq(Asides)
             /\ up' \in Seq(NoLeave) => up \in Seq(NoLeave)
             /\ \A s : Around(up, NoJoin, JoinOf(s), Asides)
                          => Around(up', NoJoin, JoinOf(s), Asides)
  <2>1. m \in NoJoin /\ m \in AskMsgs
      BY <1>1, <1>3
  <2>2. up \in Seq(NoJoin) => up' \in Seq(NoJoin)
      BY <1>3, <2>1, Queues
  <2>3. up \in Seq(Asides) => up' \in Seq(Asides)
      BY <1>3, Queues
  <2>4. up' \in Seq(NoLeave) => up \in Seq(NoLeave)
      BY <1>3, <2>1, ShorterQueue
  <2>5. up' = up \o <<m>>
      BY <1>3, <2>1, AppendIsConcat
  <2>6. <<m>> \in Seq(Asides)
      BY <1>3
  <2>7. ASSUME NEW s, Around(up, NoJoin, JoinOf(s), Asides)
        PROVE  Around(up', NoJoin, JoinOf(s), Asides)
      BY <2>5, <2>6, <2>7, AroundLonger
  <2> QED
      BY <2>2, <2>3, <2>4, <2>7
<1>4. CASE up # <<>> /\ Head(up) \in Asides /\ up' = Tail(up)
  <2>1. up \in Seq(NoJoin) => up' \in Seq(NoJoin)
      BY <1>4, Queues
  <2>2. up \in Seq(Asides) => up' \in Seq(Asides)
      BY <1>4, Queues
  <2>3. Head(up) \in NoLeave
      BY <1>1, <1>4
  <2>4. up' \in Seq(NoLeave) => up \in Seq(NoLeave)
      BY <1>4, <2>3, HeadIsFirst
  <2>5. ASSUME NEW s, Around(up, NoJoin, JoinOf(s), Asides)
        PROVE  Around(up', NoJoin, JoinOf(s), Asides)
    <3>1. Head(up) \notin JoinOf(s)
        BY <1>4 DEF Asides, JoinOf
    <3> QED
        BY <1>4, <2>5, <3>1, AroundServed
  <2> QED
      BY <2>1, <2>2, <2>4, <2>5
<1> QED
    BY <1>2, <1>3, <1>4 DEF UpKept

(* Steps that leave the seats, and what client and server take them for.   *)
SamePlace == /\ UNCHANGED <<route, seating, connected, me, session, asked, ignored, left>>
             /\ \A q \in Rooms : rooms'[q].me = rooms[q].me

(* What comes down and is handled meanwhile.                               *)
DownKept == \/ down' = down
            \/ \E t \in Seq(Infos) : down' = down \o t
            \/ \E r \in Rooms : \E m \in Current(r, rooms[r].me) :
                  /\ rooms[r].me # 0 /\ (seating # r \/ m.is = "moves")
                  /\ down' = Append(down, m)
            \/ down # <<>> /\ down' = Tail(down) /\ (connected \/ Head(down).is # "join")

LEMMA DownParts ==
    /\ \A l : Infos \subseteq Bygone(l) /\ Bygone(l) \subseteq Stale(l)
    /\ \A l : Bygone(l) \subseteq DownMsgs /\ Stale(l) \subseteq DownMsgs
    /\ \A r, i : /\ Infos \subseteq Current(r, i) /\ Current(r, i) \subseteq DownMsgs
                 /\ \A m \in Current(r, i) : \A l : <<r, i>> \in l => m \in Bygone(l)
                 /\ \A m \in Current(r, i) : m.is = "moves" => \A l : m \in Stale(l)
BY DEF Infos, Bygone, Stale, Current

(* What holds of every message on its way holds of them after such a step. *)
LEMMA DownAllKept ==
    ASSUME down \in Seq(DownMsgs), DownKept, NEW S \in SUBSET DownMsgs, Infos \subseteq S,
           \A r \in Rooms : \A m \in Current(r, rooms[r].me) :
              rooms[r].me # 0 /\ (seating # r \/ m.is = "moves") => m \in S,
           down \in Seq(S)
    PROVE  down' \in Seq(S)
<1>1. CASE down' = down
    BY <1>1
<1>2. ASSUME NEW t \in Seq(Infos), down' = down \o t
      PROVE  down' \in Seq(S)
  <2>1. t \in Seq(S)
      BY SeqMonotonic
  <2> QED
      BY <1>2, <2>1, Queues
<1>3. ASSUME NEW r \in Rooms, NEW m \in Current(r, rooms[r].me), rooms[r].me # 0,
             seating # r \/ m.is = "moves", down' = Append(down, m)
      PROVE  down' \in Seq(S)
  <2>1. m \in S
      BY <1>3
  <2> QED
      BY <1>3, <2>1, Queues
<1>4. CASE down # <<>> /\ down' = Tail(down)
    BY <1>4, Queues
<1> QED
    BY <1>1, <1>2, <1>3, <1>4 DEF DownKept

LEMMA DownAroundKept ==
    ASSUME down \in Seq(DownMsgs), DownKept, NEW B \in SUBSET DownMsgs,
           NEW X \in SUBSET DownMsgs, NEW A \in SUBSET DownMsgs, Infos \subseteq A,
           \A r \in Rooms : \A m \in Current(r, rooms[r].me) :
              rooms[r].me # 0 /\ (seating # r \/ m.is = "moves") => m \in A,
           ~connected, \A m \in X : m.is = "join",
           Around(down, B, X, A)
    PROVE  Around(down', B, X, A)
<1>1. CASE down' = down
    BY <1>1
<1>2. ASSUME NEW t \in Seq(Infos), down' = down \o t
      PROVE  Around(down', B, X, A)
  <2>1. t \in Seq(A)
      BY SeqMonotonic
  <2> QED
      BY <1>2, <2>1, AroundLonger
<1>3. ASSUME NEW r \in Rooms, NEW m \in Current(r, rooms[r].me), rooms[r].me # 0,
             seating # r \/ m.is = "moves", down' = Append(down, m)
      PROVE  Around(down', B, X, A)
  <2>1. m \in A
      BY <1>3
  <2>2. m \in DownMsgs
      BY <2>1
  <2>3. down' = down \o <<m>>
      BY <1>3, <2>2, AppendIsConcat
  <2>4. <<m>> \in Seq(A)
      BY <2>1
  <2> QED
      BY <2>3, <2>4, AroundLonger
<1>4. CASE down # <<>> /\ down' = Tail(down) /\ Head(down).is # "join"
  <2>1. Head(down) \notin X
      BY <1>4
  <2>2. \/ Head(down) \in B /\ Around(Tail(down), B, X, A)
        \/ Head(down) \in X /\ Tail(down) \in Seq(A)
      BY AroundServed
  <2> QED
      BY <1>4, <2>1, <2>2
<1> QED
    BY <1>1, <1>2, <1>3, <1>4 DEF DownKept

LEMMA StagesKept ==
    ASSUME TypeInv, Stages, SamePlace, UpKept, DownKept
    PROVE  Stages'
<1> DEFINE i == rooms[session].me
<1>1. up \in Seq(AskMsgs) /\ down \in Seq(DownMsgs) /\ session \in Rooms \cup {0, 1}
    BY DEF TypeInv, WireOK, ClientOK
<1>2. Leaving => Leaving'
  <2>1. up' \in Seq(NoLeave) => up \in Seq(NoLeave)
      BY <1>1, UpIsKept
  <2> QED
      BY <2>1 DEF Leaving, SamePlace, NoSeatBut
<1>3. /\ NoSeatBut(0) => NoSeatBut(0)'
      /\ Home(session) => Home(session)' /\ rooms'[session].me = i /\ session \in Rooms
    BY DEF SamePlace, NoSeatBut, Home
<1>4. Leaving /\ down \in Seq(Bygone(left)) => down' \in Seq(Bygone(left'))
  <2> SUFFICES ASSUME Leaving, down \in Seq(Bygone(left))
               PROVE  down' \in Seq(Bygone(left))
      BY DEF SamePlace
  <2>1. \A r \in Rooms : \A m \in Current(r, rooms[r].me) :
           rooms[r].me # 0 => m \in Bygone(left)
      BY DownParts DEF Leaving
  <2> QED
      BY <1>1, <2>1, DownParts, DownAllKept
<1>5. CASE Parted
  <2>1. up' \in Seq(NoJoin)
      BY <1>1, <1>5, UpIsKept DEF Parted
  <2> QED
      BY <1>2, <1>4, <1>5, <2>1 DEF Parted, SamePlace, Stages, Pending
<1>6. CASE Asking
  <2>1. Around(up', NoJoin, JoinOf(session), Asides)
      BY <1>1, <1>6, UpIsKept DEF Asking
  <2> QED
      BY <1>2, <1>4, <1>6, <2>1 DEF Asking, SamePlace, Stages, Pending
<1>7. CASE Seated
  <2>1. up' \in Seq(Asides)
      BY <1>1, <1>7, UpIsKept DEF Seated
  <2>2. \A r \in Rooms : \A m \in Current(r, rooms[r].me) :
           rooms[r].me # 0 /\ (seating # r \/ m.is = "moves") => m \in Stale(left)
    <3>1. \A r \in Rooms : rooms[r].me # 0 => r = seating
        BY <1>7 DEF Seated, Home, NoSeatBut
    <3> QED
        BY <3>1, DownParts
  <2>3. Stale(left) \subseteq DownMsgs /\ Infos \subseteq Stale(left)
      BY DownParts
  <2>4. down' \in Seq(Stale(left))
      BY <1>1, <1>7, <2>2, <2>3, DownAllKept DEF Seated
  <2> QED
      BY <1>3, <1>7, <2>1, <2>4 DEF Seated, SamePlace, Stages, Pending
<1>8. ASSUME Home(session)
      PROVE  \A r \in Rooms : \A m \in Current(r, rooms[r].me) :
                rooms[r].me # 0 /\ (seating # r \/ m.is = "moves") => m \in Current(session, i)
    BY <1>8 DEF Home, NoSeatBut
<1>9. CASE Answered
  <2>1. up' \in Seq(Asides)
      BY <1>1, <1>9, UpIsKept DEF Answered
  <2>2. /\ Stale(left) \in SUBSET DownMsgs /\ Infos \subseteq Current(session, i)
        /\ Answer(session, i) \in SUBSET DownMsgs
        /\ Current(session, i) \in SUBSET DownMsgs
        /\ \A m \in Answer(session, i) : m.is = "join"
      BY DownParts DEF Answer
  <2>3. Around(down', Stale(left), Answer(session, i), Current(session, i))
      BY <1>1, <1>8, <1>9, <2>2, DownAroundKept DEF Answered
  <2> QED
      BY <1>3, <1>9, <2>1, <2>3 DEF Answered, SamePlace, Stages, Pending
<1>10. CASE Refused
  <2>1. up' \in Seq(Asides)
      BY <1>1, <1>10, UpIsKept DEF Refused
  <2>2. /\ Bygone(left) \in SUBSET DownMsgs /\ Infos \subseteq DownMsgs
        /\ Refusal \in SUBSET DownMsgs
        /\ \A m \in Refusal : m.is = "join"
        /\ \A r, j : Current(r, j) \subseteq DownMsgs
      BY DownParts DEF Refusal
  <2>3. \A r \in Rooms : \A m \in Current(r, rooms[r].me) :
           rooms[r].me # 0 /\ (seating # r \/ m.is = "moves") => m \in DownMsgs
      BY <2>2
  <2>4. Around(down', Bygone(left), Refusal, DownMsgs)
      BY <1>1, <1>10, <2>2, <2>3, DownAroundKept DEF Refused
  <2> QED
      BY <1>3, <1>10, <2>1, <2>4 DEF Refused, SamePlace, Stages, Pending
<1>11. CASE In
  <2>1. up' \in Seq(Asides)
      BY <1>1, <1>11, UpIsKept DEF In
  <2>2. Infos \subseteq Current(session, i) /\ Current(session, i) \in SUBSET DownMsgs
      BY DownParts
  <2>3. down' \in Seq(Current(session, i))
      BY <1>1, <1>8, <1>11, <2>2, DownAllKept DEF In
  <2> QED
      BY <1>3, <1>11, <2>1, <2>3 DEF In, SamePlace, Stages, Pending
<1> QED
    BY <1>5, <1>6, <1>7, <1>9, <1>10, <1>11 DEF Stages

(* What the edits of a room do to the fields the invariants speak of.      *)
LEMMA RoomSet ==
    ASSUME RoomsOK, NEW r \in Rooms, NEW new, rooms' = [rooms EXCEPT ![r] = new]
    PROVE  rooms'[r] = new /\ \A q \in Rooms : q # r => rooms'[q] = rooms[q]
BY DEF RoomsOK

(* ServeCreate, OtherJoins, OtherLeaves and ServeJoin write these.         *)
Renamed(r, n)        == [rooms EXCEPT ![r].name = n]
Filled(r, l, s)      == [rooms EXCEPT ![r].last = l, ![r].seats = s]
Reseated(r, s)       == [rooms EXCEPT ![r].seats = s]
Occupied(r, l, i, s) == [rooms EXCEPT ![r].last = l, ![r].me = i, ![r].seats = s]

LEMMA RenamedRoom ==
    ASSUME RoomsOK, NEW r \in Rooms, NEW n, rooms' = Renamed(r, n)
    PROVE  /\ rooms'[r].me = rooms[r].me /\ rooms'[r].last = rooms[r].last
           /\ rooms'[r].seats = rooms[r].seats
           /\ \A q \in Rooms : q # r => rooms'[q] = rooms[q]
<1> DEFINE new == [name |-> n, seats |-> rooms[r].seats,
                   last |-> rooms[r].last, me |-> rooms[r].me]
<1>1. rooms' = [rooms EXCEPT ![r] = new]
    BY RoomRenamed, Zenon DEF Renamed
<1> HIDE DEF new
<1>2. rooms'[r] = new /\ \A q \in Rooms : q # r => rooms'[q] = rooms[q]
    BY <1>1, RoomSet
<1>3. new.me = rooms[r].me /\ new.last = rooms[r].last /\ new.seats = rooms[r].seats
    BY DEF new
<1> QED
    BY <1>2, <1>3

LEMMA FilledRoom ==
    ASSUME RoomsOK, NEW r \in Rooms, NEW l, NEW s, rooms' = Filled(r, l, s)
    PROVE  /\ rooms'[r].me = rooms[r].me /\ rooms'[r].last = l
           /\ rooms'[r].seats = s
           /\ \A q \in Rooms : q # r => rooms'[q] = rooms[q]
<1> DEFINE new == [name |-> rooms[r].name, seats |-> s,
                   last |-> l, me |-> rooms[r].me]
<1>1. rooms' = [rooms EXCEPT ![r] = new]
    BY RoomFilled, Zenon DEF Filled
<1> HIDE DEF new
<1>2. rooms'[r] = new /\ \A q \in Rooms : q # r => rooms'[q] = rooms[q]
    BY <1>1, RoomSet
<1>3. new.me = rooms[r].me /\ new.last = l /\ new.seats = s
    BY DEF new
<1> QED
    BY <1>2, <1>3

LEMMA ReseatedRoom ==
    ASSUME RoomsOK, NEW r \in Rooms, NEW s, rooms' = Reseated(r, s)
    PROVE  /\ rooms'[r].me = rooms[r].me /\ rooms'[r].last = rooms[r].last
           /\ rooms'[r].seats = s
           /\ \A q \in Rooms : q # r => rooms'[q] = rooms[q]
<1> DEFINE new == [name |-> rooms[r].name, seats |-> s,
                   last |-> rooms[r].last, me |-> rooms[r].me]
<1>1. rooms' = [rooms EXCEPT ![r] = new]
    BY RoomReseated, Zenon DEF Reseated
<1> HIDE DEF new
<1>2. rooms'[r] = new /\ \A q \in Rooms : q # r => rooms'[q] = rooms[q]
    BY <1>1, RoomSet
<1>3. new.me = rooms[r].me /\ new.last = rooms[r].last /\ new.seats = s
    BY DEF new
<1> QED
    BY <1>2, <1>3

LEMMA VacatedRoom ==
    ASSUME RoomsOK, NEW r \in Rooms, rooms' = Vacated(r)
    PROVE  /\ rooms'[r].me = 0 /\ rooms'[r].last = rooms[r].last
           /\ rooms'[r].seats = rooms[r].seats \ {rooms[r].me}
           /\ \A q \in Rooms : q # r => rooms'[q] = rooms[q]
<1> DEFINE new == [name |-> rooms[r].name, seats |-> rooms[r].seats \ {rooms[r].me},
                   last |-> rooms[r].last, me |-> 0]
<1>1. rooms' = [rooms EXCEPT ![r] = new]
  <2>1. rooms' = [rooms EXCEPT ![r].seats = rooms[r].seats \ {rooms[r].me}, ![r].me = 0]
      BY DEF Vacated
  <2>2. \A s, i : [rooms EXCEPT ![r].seats = s, ![r].me = i] =
                  [rooms EXCEPT ![r] = [name |-> rooms[r].name, seats |-> s,
                                        last |-> rooms[r].last, me |-> i]]
      BY RoomLeft
  <2> QED
      BY <2>1, <2>2
<1> HIDE DEF new
<1>2. rooms'[r] = new /\ \A q \in Rooms : q # r => rooms'[q] = rooms[q]
    BY <1>1, RoomSet
<1>3. new.me = 0 /\ new.last = rooms[r].last /\ new.seats = rooms[r].seats \ {rooms[r].me}
    BY DEF new
<1> QED
    BY <1>2, <1>3

LEMMA TakenRoom ==
    ASSUME RoomsOK, NEW r \in Rooms, NEW l, NEW i, NEW s, rooms' = Occupied(r, l, i, s)
    PROVE  /\ rooms'[r].me = i /\ rooms'[r].last = l
           /\ rooms'[r].seats = s
           /\ \A q \in Rooms : q # r => rooms'[q] = rooms[q]
<1> DEFINE new == [name |-> rooms[r].name, seats |-> s,
                   last |-> l, me |-> i]
<1>1. rooms' = [rooms EXCEPT ![r] = new]
  <2>1. \A k, j, t : [rooms EXCEPT ![r].last = k, ![r].me = j, ![r].seats = t] =
            [rooms EXCEPT ![r] = [name |-> rooms[r].name, seats |-> t, last |-> k, me |-> j]]
      BY RoomTaken
  <2> QED
      BY <2>1 DEF Occupied
<1> HIDE DEF new
<1>2. rooms'[r] = new /\ \A q \in Rooms : q # r => rooms'[q] = rooms[q]
    BY <1>1, RoomSet
<1>3. new.me = i /\ new.last = l /\ new.seats = s
    BY DEF new
<1> QED
    BY <1>2, <1>3

(* The steps that leave seats and stages as they are.                      *)
LEMMA FrameKept ==
    ASSUME TypeInv, [Next]_vars,
           ~ \/ \E r \in Rooms : JoinRoom(r) \/ TimesOut(r) \/ Removes(r)
             \/ LeaveRoom \/ ServeJoin \/ ServeLeave \/ AnswerJoin \/ Adopt
             \/ Lose \/ Double \/ Overtake \/ ReadInfo
    PROVE  SamePlace /\ UpKept /\ DownKept
<1>0. /\ RoomsOK /\ up \in Seq(AskMsgs) /\ down \in Seq(DownMsgs)
      /\ \A r \in Rooms : rooms[r].me \in 0..MaxId /\ rooms[r].seats \subseteq Ids
      /\ 0 \in 0..MaxId
  <2>1. RoomsOK
      BY DEF TypeInv
  <2>2. \A r \in Rooms : rooms[r].me \in 0..MaxId /\ rooms[r].seats \subseteq Ids
      BY <2>1, RoomFields
  <2>3. 0 \in 0..MaxId
      BY Bounds
  <2>4. up \in Seq(AskMsgs) /\ down \in Seq(DownMsgs)
      BY DEF TypeInv, WireOK
  <2> QED
      BY <2>1, <2>2, <2>3, <2>4
<1>1. ASSUME UNCHANGED <<rooms, route, seating, connected, me, session, asked, ignored, left>>
      PROVE  SamePlace
    BY <1>1 DEF SamePlace
<1>2. ASSUME up' = up PROVE UpKept
    BY <1>2 DEF UpKept
<1>3. ASSUME down' = down PROVE DownKept
    BY <1>3 DEF DownKept
<1>4. ASSUME NEW m \in AskMsgs, up # <<>>, Head(up) = m, m.is \in {"create", "list"},
             up' = Tail(up)
      PROVE  UpKept
    BY <1>4 DEF UpKept, Asides
<1>5. ASSUME NEW r \in Rooms, NEW is \in {"join", "leave", "moves"}, NEW id \in 0..MaxId,
             NEW ids \in SUBSET Ids, rooms[r].me # 0, seating # r \/ is = "moves",
             down' = Append(down, Down(is, r, id, ids))
      PROVE  DownKept
  <2>1. Down(is, r, id, ids) \in DownMsgs
      BY <1>0, DownIsMsg
  <2>2. Down(is, r, id, ids) \in Current(r, rooms[r].me) /\ Down(is, r, id, ids).is = is
      BY <2>1 DEF Down, Current
  <2> QED
      BY <1>5, <2>2 DEF DownKept
<1>6. CASE RequestRoomList
  <2>1. Up("list", 0, "") \in Asides
    <3>1. Up("list", 0, "") \in AskMsgs
        BY UpIsAsked DEF Labels
    <3> QED
        BY <3>1 DEF Up, Asides
  <2>2. UpKept
      BY <1>6, <2>1 DEF RequestRoomList, Ask, UpKept
  <2> QED
      BY <1>1, <1>3, <1>6, <2>2 DEF RequestRoomList, server, ident, past
<1>7. ASSUME NEW n \in Names, CreateRoom(n)
      PROVE  SamePlace /\ UpKept /\ DownKept
  <2>1. Up("create", 0, n) \in Asides
    <3>1. Up("create", 0, n) \in AskMsgs
        BY UpIsAsked DEF Labels
    <3> QED
        BY <3>1 DEF Up, Asides
  <2>2. UpKept
      BY <1>7, <2>1 DEF CreateRoom, Ask, UpKept
  <2> QED
      BY <1>1, <1>3, <1>7, <2>2 DEF CreateRoom, server, ident
<1>8. CASE RememberName \/ DropEntities \/ DestroyLeaver \/ UNCHANGED vars
    BY <1>1, <1>2, <1>3, <1>8 DEF RememberName, DropEntities, DestroyLeaver, vars,
       server, wire, ident, past
<1>9. ASSUME NEW r \in Rooms, ServeCreate(r)
      PROVE  SamePlace /\ UpKept /\ DownKept
  <2> DEFINE n == Head(up).name
             info == [InfoOf(r) EXCEPT !.name = n]
  <2>1. /\ up # <<>> /\ Head(up).is = "create" /\ up' = Tail(up)
        /\ rooms' = Renamed(r, n) /\ down' = down \o <<info>>
        /\ UNCHANGED <<route, seating, connected, me, session, asked, ignored, left>>
      BY <1>9 DEF ServeCreate, Served, Sent, ident, past, Renamed
  <2>2. Head(up) \in AskMsgs
      BY <1>0, <2>1, Queues
  <2>3. info \in Infos
    <3>1. InfoOf(r) \in DownMsgs /\ InfoOf(r).is = "info"
        BY <1>0, DownIsMsg DEF InfoOf, Down
    <3>2. n \in Labels
        BY <2>2 DEF AskMsgs, UpMsgs, Labels
    <3>3. \A m \in DownMsgs : \A l \in Labels :
             m.is = "info" => [m EXCEPT !.name = l] \in DownMsgs /\ [m EXCEPT !.name = l].is = "info"
        BY DEF DownMsgs, Labels
    <3> QED
        BY <3>1, <3>2, <3>3 DEF Infos
  <2> HIDE DEF n, info
  <2>4. SamePlace
      BY <1>0, <2>1, RenamedRoom DEF SamePlace
  <2>5. <<info>> \in Seq(Infos)
      BY <2>3
  <2> QED
      BY <1>4, <2>1, <2>2, <2>4, <2>5 DEF DownKept
<1>10. CASE ServeList
  <2>1. /\ up # <<>> /\ Head(up).is = "list" /\ up' = Tail(up)
        /\ UNCHANGED <<rooms, route, seating, connected, me, session, asked, ignored, left>>
      BY <1>10 DEF ServeList, Served, server, ident, past
  <2>2. Head(up) \in AskMsgs
      BY <1>0, <2>1, Queues
  <2>3. PICK order \in SetToAllKPermutations(Listed) :
           down' = down \o [i \in DOMAIN order |-> InfoOf(order[i])]
      BY <1>10 DEF ServeList, Sent
  <2>4. order \in Seq(Rooms)
      BY ListedAreFinite, OrdersAreQueues
  <2>5. \A r \in Rooms : InfoOf(r) \in Infos
    <3>1. \A r \in Rooms : InfoOf(r) \in DownMsgs
        BY <1>0, DownIsMsg DEF InfoOf
    <3> QED
        BY <3>1 DEF InfoOf, Down, Infos
  <2>6. [i \in DOMAIN order |-> InfoOf(order[i])] \in Seq(Infos)
      BY <2>4, <2>5
  <2>7. DownKept
      BY <2>3, <2>6 DEF DownKept
  <2> QED
      BY <1>1, <1>4, <2>1, <2>2, <2>7
<1>11. ASSUME NEW r \in Rooms, OtherJoins(r)
       PROVE  SamePlace /\ UpKept /\ DownKept
  <2> DEFINE n == rooms[r].last + 1
  <2>1. /\ rooms[r].last < MaxOthers[r] /\ seating = 0
        /\ rooms' = Filled(r, n, rooms[r].seats \cup {n})
        /\ IF rooms[r].me = 0 THEN down' = down
                              ELSE down' = Append(down, Down("join", r, n, {}))
        /\ UNCHANGED <<route, seating, up, connected, me, session, asked, ignored, left>>
      BY <1>11 DEF OtherJoins, Free, Tell, ident, past, Filled
  <2>2. n \in 0..MaxId
    <3>1. rooms[r].last \in 0..MaxId /\ MaxOthers[r] \in 0..MaxId /\ MaxId \in Nat
        BY <1>0, RoomFields, Bounds
    <3> QED
        BY <2>1, <3>1
  <2> HIDE DEF n
  <2>3. SamePlace
      BY <1>0, <2>1, FilledRoom DEF SamePlace
  <2>4. seating # r
      BY <2>1, Bounds
  <2>5. DownKept
      BY <1>3, <1>5, <2>1, <2>2, <2>4
  <2> QED
      BY <1>2, <2>1, <2>3, <2>5
<1>12. ASSUME NEW r \in Rooms, NEW id \in Ids, OtherLeaves(r, id)
       PROVE  SamePlace /\ UpKept /\ DownKept
  <2>1. /\ seating # r
        /\ rooms' = Reseated(r, rooms[r].seats \ {id})
        /\ IF rooms[r].me = 0 THEN down' = down
                              ELSE down' = Append(down, Down("leave", r, id, {}))
        /\ UNCHANGED <<route, seating, up, connected, me, session, asked, ignored, left>>
      BY <1>12 DEF OtherLeaves, Tell, ident, past, Reseated
  <2>2. id \in 0..MaxId
      BY Bounds DEF Ids
  <2>3. SamePlace
      BY <1>0, <2>1, ReseatedRoom DEF SamePlace
  <2>4. DownKept
      BY <1>3, <1>5, <2>1, <2>2
  <2> QED
      BY <1>2, <2>1, <2>3, <2>4
<1>13. ASSUME NEW r \in Rooms, Tick(r)
       PROVE  SamePlace /\ UpKept /\ DownKept
  <2> DEFINE m == Down("moves", r, 0, rooms[r].seats)
  <2>1. /\ rooms[r].me # 0 /\ down' = down \o <<m>>
        /\ UNCHANGED <<rooms, route, seating, up, connected, me, session, asked, ignored, left>>
      BY <1>13 DEF Tick, Sent, server, ident, past
  <2>2. m \in DownMsgs
      BY <1>0, DownIsMsg
  <2>3. down' = Append(down, m)
      BY <1>0, <2>1, <2>2, AppendIsConcat
  <2>4. DownKept
      BY <1>0, <1>5, <2>1, <2>3
  <2> QED
      BY <1>1, <1>2, <2>1, <2>4
<1>14. CASE Meet \/ Move \/ FindLeaver
  <2>1. /\ down # <<>> /\ down' = Tail(down) /\ up' = up
        /\ connected \/ Head(down).is # "join"
        /\ UNCHANGED <<rooms, route, seating, connected, me, session, asked, ignored, left>>
      BY <1>14 DEF Meet, Move, FindLeaver, Taken, server, ident, past
  <2> QED
      BY <1>1, <1>2, <2>1 DEF DownKept
<1>15. ASSUME NEW r \in Rooms, Stops(r) \/ Jams(r)
       PROVE  SamePlace /\ UpKept /\ DownKept
    BY <1>1, <1>2, <1>3, <1>15 DEF Stops, Jams, wire, ident, past
<1> QED
    BY <1>6, <1>7, <1>8, <1>9, <1>10, <1>11, <1>12, <1>13, <1>14, <1>15
       DEF Next, User, Serve, Others, Handle

LEMMA NobodySeated == NoSeatBut(0) <=> \A q \in Rooms : rooms[q].me = 0
BY Bounds DEF NoSeatBut

(* A join goes out: from the frame loop, or on a RoomInfo.                 *)
LEMMA AskStages ==
    ASSUME TypeInv, Stages, Clean', NEW r \in Rooms,
           up' = Append(up, Up("join", r, "")), session' = r, Joining,
           down' = down \/ (down # <<>> /\ down' = Tail(down)),
           UNCHANGED <<rooms, route, seating, connected, me, left>>
    PROVE  ~connected /\ Asking'
<1>1. ~Pending
    BY DEF Joining, Clean
<1>2. Parted
    BY <1>1 DEF Stages, Asking, Seated, Answered, Refused, In
<1> DEFINE m == Up("join", r, "")
<1>3. m \in AskMsgs
    BY UpIsAsked DEF Labels
<1>4. m \in JoinOf(r)
    BY <1>3 DEF JoinOf, Up
<1> HIDE DEF m
<1>5. up \in Seq(AskMsgs) /\ up \in Seq(NoJoin)
    BY <1>2 DEF TypeInv, WireOK, Parted
<1>6. up' = up \o <<m>> \o <<>>
  <2>1. up' = up \o <<m>>
      BY <1>3, <1>5, AppendIsConcat DEF m
  <2>2. up \o <<m>> \in Seq(AskMsgs)
      BY <1>3, <1>5, Queues
  <2> QED
      BY <2>1, <2>2, ConcatEmptySeq
<1>7. Around(up', NoJoin, JoinOf(r), Asides)
  <2>1. <<>> \in Seq(Asides)
      BY EmptySeq
  <2> QED
      BY <1>4, <1>5, <1>6, <2>1 DEF Around, Behind
<1>8. up' \in Seq(NoLeave) => up \in Seq(NoLeave)
    BY <1>3, <1>5, ShorterQueue DEF m
<1>9. Leaving'
    BY <1>2, <1>8 DEF Parted, Leaving, NoSeatBut
<1>10. down' \in Seq(Bygone(left))
    BY <1>2, Queues DEF Parted
<1>11. Asking'
    BY <1>2, <1>7, <1>9, <1>10 DEF Parted, Asking, Joining, Pending
<1> QED
    BY <1>2, <1>11 DEF Parted

LEMMA LeaveStages ==
    ASSUME TypeInv, Stages, LeaveRoom
    PROVE  Parted'
<1>1. In
    BY DEF LeaveRoom, Stages, Parted, Asking, Seated, Answered, Refused
<1> DEFINE m == Up("leave", 0, "")
<1>2. /\ up' = Append(up, m)
      /\ left' = left \cup {<<r, rooms[r].me>> : r \in {q \in Rooms : rooms[q].me # 0}}
      /\ connected' = FALSE /\ asked' = FALSE
      /\ UNCHANGED <<rooms, route, seating, down>>
    BY DEF LeaveRoom, Ask, server
<1>3. m \in AskMsgs /\ m.is = "leave"
  <2>1. m \in AskMsgs
      BY UpIsAsked DEF Labels
  <2> QED
      BY <2>1 DEF Up
<1> HIDE DEF m
<1>4. m \in NoJoin /\ m \notin NoLeave
    BY <1>3 DEF NoJoin, NoLeave
<1>5. up \in Seq(AskMsgs) /\ up \in Seq(NoJoin)
  <2>1. Asides \subseteq NoJoin
      BY DEF Asides, NoJoin
  <2> QED
      BY <1>1, <2>1, SeqMonotonic DEF TypeInv, WireOK, In
<1>6. up' \in Seq(NoJoin)
    BY <1>2, <1>4, <1>5, Queues
<1>7. up' \notin Seq(NoLeave)
  <2>1. up'[Len(up) + 1] = m /\ Len(up) + 1 \in 1..Len(up')
      BY <1>2, <1>5
  <2> QED
      BY <1>4, <2>1
<1>8. \A q \in Rooms : rooms[q].me # 0 => <<q, rooms[q].me>> \in left'
    BY <1>2
<1>9. Leaving'
    BY <1>1, <1>2, <1>7, <1>8 DEF Leaving, In, Home, NoSeatBut
<1>10. <<session, me>> \in left'
    BY <1>1, <1>8 DEF In, Home
<1>11. down \in Seq(Bygone(left'))
  <2>1. Current(session, me) \subseteq Bygone(left')
      BY <1>10, DownParts
  <2> QED
      BY <1>1, <2>1, SeqMonotonic DEF In
<1>12. Parted'
    BY <1>1, <1>2, <1>6, <1>9, <1>11 DEF Parted, In, Pending
<1> QED
    BY <1>12

LEMMA ServeJoinStages ==
    ASSUME TypeInv, Stages, Clean', ServeJoin
    PROVE  ~connected /\ (Parted' \/ Refused' \/ Seated')
<1> DEFINE m == Head(up)
<1>0. RoomsOK /\ up \in Seq(AskMsgs) /\ down \in Seq(DownMsgs)
    BY DEF TypeInv, WireOK
<1>1. up # <<>> /\ up' = Tail(up) /\ m.is = "join" /\ m \in AskMsgs
      /\ UNCHANGED <<connected, me, session, asked, left>>
    BY <1>0, Queues DEF ServeJoin, Served, ident, past
<1>2. m \notin NoJoin /\ m \notin Asides /\ m \in NoLeave
    BY <1>1 DEF NoJoin, Asides, NoLeave
<1>3. Asking
  <2>1. ~(up \in Seq(NoJoin)) /\ ~(up \in Seq(Asides))
      BY <1>1, <1>2, Queues
  <2> QED
      BY <2>1 DEF Stages, Parted, Seated, Answered, Refused, In
<1> HIDE DEF m
<1>4. m \in JoinOf(session) /\ Tail(up) \in Seq(Asides)
    BY <1>2, <1>3, AroundServed DEF Asking, m
<1>5. NoSeatBut(0)
  <2>1. Asides \subseteq NoLeave
      BY DEF Asides, NoLeave
  <2>2. Tail(up) \in Seq(NoLeave)
      BY <1>4, <2>1, SeqMonotonic
  <2>3. up \in Seq(NoLeave)
      BY <1>0, <1>1, <1>2, <2>2, HeadIsFirst DEF m
  <2> QED
      BY <1>3, <2>3 DEF Asking, Leaving
<1>6. m.room = session /\ session \in Rooms
    BY <1>1, <1>4 DEF JoinOf, AskMsgs
<1>7. \A q \in Rooms : rooms[q].me = 0
    BY <1>5, NobodySeated
<1> DEFINE r == session
           n == rooms[r].last + 1
<1>8. \/ /\ ignored' = asked /\ UNCHANGED <<rooms, route, seating, down>>
      \/ /\ down' = down \o <<Down("join", r, 0, {})>>
         /\ UNCHANGED <<rooms, route, seating, ignored>>
      \/ /\ rooms' = Occupied(r, n, n, rooms[r].seats \cup {n})
         /\ blur' = blur \cup (IF <<r, n>> \in left THEN {"again"} ELSE {})
         /\ rooms[r].last < MaxId /\ seating' = r /\ UNCHANGED <<route, down, ignored>>
    BY <1>6, <1>7 DEF ServeJoin, Sent, server, Occupied, m
<1>11. CASE /\ ignored' = asked /\ UNCHANGED <<rooms, route, seating, down>>
  <2>1. up' \in Seq(NoJoin)
    <3>1. Asides \subseteq NoJoin
        BY DEF Asides, NoJoin
    <3> QED
        BY <1>1, <1>4, <3>1, SeqMonotonic
  <2>2. Leaving'
      BY <1>7, <1>11 DEF Leaving, NoSeatBut
  <2>3. Parted'
      BY <1>1, <1>3, <1>11, <2>1, <2>2 DEF Parted, Asking, Pending
  <2> QED
      BY <1>3, <2>3 DEF Asking
<1>9. CASE /\ down' = down \o <<Down("join", r, 0, {})>>
           /\ UNCHANGED <<rooms, route, seating, ignored>>
  <2> DEFINE x == Down("join", r, 0, {})
  <2>1. x \in Refusal
    <3>1. x \in DownMsgs
        BY <1>0, <1>6, Bounds, DownIsMsg
    <3> QED
        BY <3>1 DEF Down, Refusal
  <2> HIDE DEF x
  <2>2. x \in DownMsgs
      BY <2>1 DEF Refusal
  <2>3. down' = down \o <<x>> \o <<>>
    <3>1. down \o <<x>> \in Seq(DownMsgs)
        BY <1>0, <2>2, Queues
    <3> QED
        BY <1>9, <3>1, ConcatEmptySeq DEF x
  <2>4. Around(down', Bygone(left), Refusal, DownMsgs)
    <3>1. <<>> \in Seq(DownMsgs)
        BY EmptySeq
    <3> QED
        BY <1>3, <2>1, <2>3, <3>1 DEF Around, Behind, Asking
  <2>5. Refused'
      BY <1>1, <1>3, <1>4, <1>5, <1>9, <2>4 DEF Refused, Asking, NoSeatBut, Pending
  <2> QED
      BY <1>3, <2>5 DEF Asking
<1>10. CASE /\ rooms' = Occupied(r, n, n, rooms[r].seats \cup {n})
            /\ blur' = blur \cup (IF <<r, n>> \in left THEN {"again"} ELSE {})
            /\ rooms[r].last < MaxId /\ seating' = r /\ UNCHANGED <<route, down, ignored>>
  <2>1. rooms[r].last \in 0..MaxId /\ MaxId \in Nat
      BY <1>0, <1>6, RoomFields, Bounds
  <2>2. n # 0
      BY <2>1
  <2>3. <<r, n>> \notin left
      BY <1>10 DEF Clean
  <2>8. r \in Rooms
      BY <1>6
  <2>9. rooms' = Occupied(r, n, n, rooms[r].seats \cup {n})
      BY <1>10
  <2> HIDE DEF n, r
  <2>4. /\ rooms'[r].me = n /\ rooms'[r].last = n
        /\ \A q \in Rooms : q # r => rooms'[q] = rooms[q]
    <3>1. \A l, i, t : rooms' = Occupied(r, l, i, t)
             => /\ rooms'[r].me = i /\ rooms'[r].last = l
                /\ rooms'[r].seats = t
                /\ \A q \in Rooms : q # r => rooms'[q] = rooms[q]
        BY <1>0, <2>8, TakenRoom, Zenon
    <3> QED
        BY <2>9, <3>1
  <2> USE DEF r
  <2>5. Home(r)'
      BY <1>1, <1>6, <1>7, <2>2, <2>3, <2>4 DEF Home, NoSeatBut
  <2>6. down \in Seq(Stale(left))
      BY <1>3, DownParts, SeqMonotonic DEF Asking
  <2>7. Seated'
      BY <1>1, <1>3, <1>4, <1>10, <2>5, <2>6 DEF Seated, Asking, Pending
  <2> QED
      BY <1>3, <2>7 DEF Asking
<1> QED
    BY <1>8, <1>9, <1>10, <1>11

LEMMA RosterIsSeq ==
    ASSUME RoomsOK, NEW r \in Rooms
    PROVE  Roster(r) \in Seq(rooms[r].seats \ {rooms[r].me})
<1>1. rooms[r].seats \ {rooms[r].me} \subseteq Ids
    BY RoomFields
<1> QED
    BY <1>1, IdsAreFinite, SetAsQueue DEF Roster

LEMMA AnswerStages ==
    ASSUME TypeInv, Stages, AnswerJoin
    PROVE  Seated /\ Answered'
<1>0. RoomsOK /\ down \in Seq(DownMsgs)
    BY DEF TypeInv, WireOK
<1>1. Seated
    BY DEF AnswerJoin, Stages, Parted, Asking, Answered, Refused, In
<1> DEFINE r == session
           i == rooms[r].me
           seq == Roster(r)
           x == Down("join", r, i, {})
           a == [k \in DOMAIN seq |-> Down("join", r, seq[k], {})]
<1>2. /\ down' = down \o (<<x>> \o a)
      /\ route' = r /\ seating' = 0
      /\ UNCHANGED <<rooms, up, connected, me, session, asked, ignored, left>>
    BY <1>1 DEF AnswerJoin, Sent, ident, past, Seated
<1>3. r \in Rooms /\ i \in 0..MaxId
    BY <1>0, <1>1, RoomFields DEF Seated, Home
<1>4. seq \in Seq(rooms[r].seats \ {i})
    BY <1>0, <1>3, RosterIsSeq
<1>5. \A id \in 0..MaxId : Down("join", r, id, {}) \in Current(r, i)
  <2>1. \A id \in 0..MaxId : Down("join", r, id, {}) \in DownMsgs
      BY <1>0, <1>3, DownIsMsg
  <2> QED
      BY <2>1 DEF Down, Current
<1>6. x \in Answer(r, i)
    BY <1>3, <1>5 DEF Answer, Current, Down
<1>7. a \in Seq(Current(r, i))
  <2>1. \A k \in DOMAIN seq : seq[k] \in 0..MaxId
    <3>1. rooms[r].seats \ {i} \subseteq 0..MaxId
      <4>1. rooms[r].seats \subseteq Ids
          BY <1>0, <1>3, RoomFields
      <4> QED
          BY <4>1, Bounds DEF Ids
    <3> HIDE DEF seq
    <3> QED
        BY <1>4, <3>1
  <2> HIDE DEF seq
  <2>2. \A k \in DOMAIN seq : Down("join", r, seq[k], {}) \in Current(r, i)
      BY <1>5, <2>1
  <2> HIDE DEF i, r
  <2> QED
      BY <1>4, <2>2
<1> HIDE DEF x, a, seq, i
<1>8. down' = down \o <<x>> \o a
  <2>1. <<x>> \in Seq(DownMsgs) /\ a \in Seq(DownMsgs)
    <3>1. x \in DownMsgs /\ Current(r, i) \subseteq DownMsgs
        BY <1>6, DownParts DEF Answer
    <3> QED
        BY <1>7, <3>1, SeqMonotonic
  <2> QED
      BY <1>0, <1>2, <2>1, ConcatAssociative
<1>9. Around(down', Stale(left), Answer(r, i), Current(r, i))
    BY <1>1, <1>6, <1>7, <1>8 DEF Around, Behind, Seated
<1>10. Answered'
    BY <1>1, <1>2, <1>9 DEF Answered, Seated, Home, NoSeatBut, Pending, i
<1> QED
    BY <1>1, <1>10

LEMMA ServeLeaveStages ==
    ASSUME TypeInv, Stages, ServeLeave
    PROVE  (Parted \/ Asking) /\ (Parted' \/ Asking')
<1> DEFINE m == Head(up)
<1>0. RoomsOK /\ up \in Seq(AskMsgs)
    BY DEF TypeInv, WireOK
<1>1. /\ up # <<>> /\ up' = Tail(up) /\ m.is = "leave" /\ m \in AskMsgs
      /\ route' = 0 /\ rooms' = IF route = 0 THEN rooms ELSE Vacated(route)
      /\ UNCHANGED <<seating, down, connected, me, session, asked, ignored, left>>
    BY <1>0, Queues DEF ServeLeave, Served, ident, past
<1>2. m \notin Asides /\ \A s : m \notin JoinOf(s)
    BY <1>1 DEF Asides, JoinOf
<1>3. Parted \/ Asking
  <2>1. ~(up \in Seq(Asides))
      BY <1>1, <1>2, Queues
  <2> QED
      BY <2>1 DEF Stages, Seated, Answered, Refused, In
<1> HIDE DEF m
<1>4. \A q \in Rooms : rooms'[q].me = 0
  <2>1. \A q \in Rooms : rooms[q].me # 0 => route = q
      BY <1>3 DEF Parted, Asking, Leaving
  <2>2. CASE route = 0
      BY <1>1, <2>1, <2>2, Bounds
  <2>3. CASE route # 0
    <3>1. route \in Rooms /\ rooms' = Vacated(route)
        BY <1>0, <1>1, <2>3 DEF RoomsOK
    <3>2. /\ rooms'[route].me = 0
          /\ \A q \in Rooms : q # route => rooms'[q] = rooms[q]
        BY <1>0, <3>1, VacatedRoom
    <3> QED
        BY <2>1, <3>2
  <2> QED
      BY <2>2, <2>3
<1>5. Leaving'
    BY <1>4 DEF Leaving, NoSeatBut
<1>6. CASE Parted
  <2>1. up' \in Seq(NoJoin)
      BY <1>1, <1>6, Queues DEF Parted
  <2>2. Parted'
      BY <1>1, <1>5, <1>6, <2>1 DEF Parted, Pending
  <2> QED
      BY <1>3, <2>2
<1>7. CASE Asking
  <2>1. Around(up', NoJoin, JoinOf(session), Asides)
      BY <1>1, <1>2, <1>7, AroundServed DEF Asking, m
  <2>2. Asking'
      BY <1>1, <1>5, <1>7, <2>1 DEF Asking, Pending
  <2> QED
      BY <1>3, <2>2
<1> QED
    BY <1>3, <1>6, <1>7

LEMMA TimesOutStages ==
    ASSUME TypeInv, Stages, NEW r \in Rooms, TimesOut(r)
    PROVE  (Parted \/ Asking) /\ (Parted' \/ Asking')
<1>0. RoomsOK
    BY DEF TypeInv
<1>1. /\ rooms[r].me # 0 /\ seating # r
      /\ route # r \/ (~connected /\ down = <<>>)
      /\ rooms' = Vacated(r) /\ route' = 0
      /\ UNCHANGED <<seating, up, down, connected, me, session, asked, ignored, left>>
    BY DEF TimesOut, wire, ident, past
<1>2. ~Seated /\ ~In /\ ~Refused
    BY <1>1, Bounds DEF Seated, In, Refused, Home, NoSeatBut
<1>3. ~Answered
  <2>1. Answered => down # <<>>
      BY AroundServed DEF Answered
  <2> QED
      BY <1>1, <2>1 DEF Answered, Home, NoSeatBut
<1>4. Parted \/ Asking
    BY <1>2, <1>3 DEF Stages
<1>5. rooms'[r].me = 0 /\ \A q \in Rooms : q # r => rooms'[q] = rooms[q]
    BY <1>0, <1>1, VacatedRoom
<1>6. \A q \in Rooms : rooms'[q].me = 0
    BY <1>1, <1>4, <1>5 DEF Parted, Asking, Leaving
<1>7. Leaving'
    BY <1>6 DEF Leaving, NoSeatBut
<1>8. Parted' \/ Asking'
    BY <1>1, <1>4, <1>7 DEF Parted, Asking, Pending
<1> QED
    BY <1>4, <1>8

(* A session that is removed takes no seat of the client with it, but for  *)
(* the stranded one that is excepted.                                      *)
LEMMA EmptiedRoom ==
    ASSUME RoomsOK, NEW r \in Rooms, rooms' = Emptied(r)
    PROVE  /\ rooms'[r].me = 0 /\ rooms'[r].last = 0 /\ rooms'[r].seats = {}
           /\ \A q \in Rooms : q # r => rooms'[q] = rooms[q]
<1> DEFINE new == [name |-> rooms[r].name, seats |-> {}, last |-> 0, me |-> 0]
<1>1. rooms' = [rooms EXCEPT ![r] = new]
    BY DEF Emptied
<1>2. new.me = 0 /\ new.last = 0 /\ new.seats = {}
    OBVIOUS
<1> HIDE DEF new
<1> QED
    BY <1>1, <1>2, RoomSet

LEMMA RemovesStages ==
    ASSUME TypeInv, Stages, Clean', NEW r \in Rooms, Removes(r)
    PROVE  /\ Stages' /\ rooms[r].me = 0
           /\ \A q \in Rooms : rooms'[q].me = rooms[q].me
<1>1. /\ rooms' = Emptied(r) /\ route' = IF route = r THEN 0 ELSE route
      /\ UNCHANGED <<seating, up, down, connected, me, session, asked, ignored, left>>
    BY DEF Removes, wire, ident, past
<1>2. rooms[r].me = 0
    BY DEF Removes, Clean
<1>3. \A q \in Rooms : rooms'[q].me = rooms[q].me
  <2>1. RoomsOK
      BY DEF TypeInv
  <2> QED
      BY <1>1, <1>2, <2>1, EmptiedRoom
<1>4. Leaving => Leaving'
    BY <1>1, <1>2, <1>3 DEF Leaving, NoSeatBut
<1>5. Home(session) => Home(session)' /\ session # r /\ rooms'[session].me = rooms[session].me
    BY <1>1, <1>2, <1>3 DEF Home, NoSeatBut
<1>6. NoSeatBut(0) => NoSeatBut(0)'
    BY <1>3 DEF NoSeatBut
<1>7. CASE Parted \/ Asking
    BY <1>1, <1>2, <1>3, <1>4, <1>7 DEF Parted, Asking, Pending, Stages
<1>8. CASE Seated \/ Answered \/ In
    BY <1>1, <1>2, <1>3, <1>5, <1>8 DEF Seated, Answered, In, Pending, Stages
<1>9. CASE Refused
    BY <1>1, <1>2, <1>3, <1>6, <1>9 DEF Refused, Pending, Stages
<1> QED
    BY <1>2, <1>3, <1>7, <1>8, <1>9 DEF Stages

LEMMA AdoptStages ==
    ASSUME TypeInv, Stages, Clean', Adopt
    PROVE  /\ Answered /\ In' /\ session' = session
           /\ Head(down) \in Answer(session, rooms[session].me)
<1> DEFINE m == Head(down)
<1>0. down \in Seq(DownMsgs)
    BY DEF TypeInv, WireOK
<1>1. /\ down # <<>> /\ down' = Tail(down) /\ m.is = "join" /\ ~connected
      /\ session' = m.room /\ me' = m.id /\ connected' = TRUE
      /\ m \in DownMsgs
      /\ UNCHANGED <<rooms, route, seating, up, asked, ignored, left>>
    BY <1>0, Queues DEF Adopt, Taken, server, past
<1>2. ~Late(m) /\ m.id # 0
    BY DEF Adopt, Clean
<1>3. m \notin Bygone(left) /\ m \notin Stale(left) /\ m \notin Refusal
    BY <1>1, <1>2 DEF Bygone, Stale, Refusal, Late
<1>4. ~Parted /\ ~Asking /\ ~Seated
    BY <1>1, <1>3, Queues DEF Parted, Asking, Seated
<1>5. ~Refused
    BY <1>3, AroundServed DEF Refused
<1>6. Answered
    BY <1>1, <1>4, <1>5 DEF Stages, In
<1> HIDE DEF m
<1> DEFINE i == rooms[session].me
<1>7. m \in Answer(session, i) /\ Tail(down) \in Seq(Current(session, i))
    BY <1>3, <1>6, AroundServed DEF Answered, m
<1>8. session' = session /\ me' = i
    BY <1>1, <1>7 DEF Answer
<1>9. In'
    BY <1>1, <1>6, <1>7, <1>8 DEF Answered, In, Home, NoSeatBut, Pending
<1> QED
    BY <1>6, <1>7, <1>8, <1>9 DEF m

LEMMA IdentNext == TypeInv /\ IdentInv /\ [Next]_vars => IdentInv'
<1> SUFFICES ASSUME TypeInv, IdentInv, [Next]_vars
             PROVE  IdentInv'
    OBVIOUS
<1> SUFFICES ASSUME Clean'
             PROVE  Stages'
    BY DEF IdentInv
<1>2. blur \subseteq blur' /\ ~(Lose \/ Double \/ Overtake)
  <2>1. ASSUME NEW u, NEW d
        PROVE  ~Udp(u, d)
      BY DEF Udp, Clean
  <2>2. ~(Lose \/ Double \/ Overtake)
      BY <2>1 DEF Lose, Double, Overtake
  <2>3. ASSUME User \/ RememberName \/ DropEntities
        PROVE  blur \subseteq blur'
      BY <2>3 DEF User, JoinRoom, CreateRoom, RequestRoomList, LeaveRoom, Joining,
         RememberName, DropEntities
  <2>4. ASSUME Serve \/ AnswerJoin \/ Others \/ UNCHANGED vars
        PROVE  blur \subseteq blur'
      BY <2>4 DEF Serve, ServeCreate, ServeList, ServeJoin, ServeLeave,
         AnswerJoin, Others, OtherJoins, OtherLeaves, Tick, TimesOut, Stops, Removes, Jams, vars
  <2>5. ASSUME Handle
        PROVE  blur \subseteq blur'
      BY <2>5 DEF Handle, Adopt, Meet, Move, FindLeaver, DestroyLeaver, ReadInfo, Joining, past
  <2> QED
      BY <2>2, <2>3, <2>4, <2>5 DEF Next
<1>3. Stages
    BY <1>2 DEF IdentInv, Clean
<1>4. ASSUME NEW r \in Rooms, JoinRoom(r)
      PROVE  Stages'
  <2>1. /\ up' = Append(up, Up("join", r, "")) /\ session' = r /\ Joining /\ down' = down
        /\ UNCHANGED <<rooms, route, seating, connected, me, left>>
      BY <1>4 DEF JoinRoom, Ask, server
  <2> QED
      BY <1>3, <2>1, AskStages DEF Stages
<1>5. CASE ReadInfo
  <2> DEFINE m == Head(down)
  <2>1. /\ down # <<>> /\ down' = Tail(down) /\ m.is = "info"
        /\ UNCHANGED <<rooms, route, seating, connected, me, left>>
        /\ \/ up' = Append(up, Up("join", m.room, "")) /\ session' = m.room /\ Joining
           \/ UNCHANGED <<up, session, asked, ignored>>
      BY <1>5 DEF ReadInfo, Taken, server, past
  <2>2. m.room \in Rooms
    <3>1. m \in DownMsgs
        BY <2>1, Queues DEF TypeInv, WireOK
    <3> QED
        BY <3>1 DEF DownMsgs
  <2>3. CASE up' = Append(up, Up("join", m.room, "")) /\ session' = m.room /\ Joining
      BY <1>3, <2>1, <2>2, <2>3, AskStages DEF Stages
  <2>4. CASE UNCHANGED <<up, session, asked, ignored>>
    <3>1. SamePlace
        BY <2>1, <2>4 DEF SamePlace
    <3>2. UpKept /\ DownKept
        BY <2>1, <2>4 DEF UpKept, DownKept
    <3> QED
        BY <1>3, <3>1, <3>2, StagesKept
  <2> QED
      BY <2>1, <2>3, <2>4
<1>6. CASE \/ LeaveRoom \/ ServeJoin \/ ServeLeave \/ AnswerJoin \/ Adopt
           \/ \E r \in Rooms : TimesOut(r) \/ Removes(r)
    BY <1>3, <1>6, LeaveStages, ServeJoinStages, ServeLeaveStages, AnswerStages,
       AdoptStages, TimesOutStages, RemovesStages DEF Stages
<1>7. CASE ~ \/ \E r \in Rooms : JoinRoom(r) \/ TimesOut(r) \/ Removes(r)
             \/ LeaveRoom \/ ServeJoin \/ ServeLeave \/ AnswerJoin \/ Adopt
             \/ Lose \/ Double \/ Overtake \/ ReadInfo
    BY <1>3, <1>7, FrameKept, StagesKept
<1> QED
    BY <1>2, <1>4, <1>5, <1>6, <1>7

(* Whatever is asked, left, joined and timed out, a connected client's id  *)
(* and room (player_id_, session_id_) are the ones the server has for its  *)
(* address, but for the excepted causes: UDP, a refusal, word of a room    *)
(* already left, a second join without a leave, a session removed with the *)
(* client in it, and a later session that gives it an id it has had.       *)
THEOREM IdentityIsKept == Spec => []IdentityIsOwn
<1>1. Init => TypeInv
    BY InitTypes
<1>2. TypeInv /\ [Next]_vars => TypeInv'
    BY TypeStep
<1>3. TypeInv /\ IdentInv => IdentityIsOwn
    BY IdentMeansOwn
<1> QED
    BY <1>1, <1>2, <1>3, IdentInit, IdentNext, PTL DEF Spec

(* Half of AskedIsAnswered: a client that asked for a place, is not in one *)
(* and has nothing blurred waits for something that is there, or its join  *)
(* was dropped by a stopping session.                                      *)
Holds(s, is) == \E k \in DOMAIN s : s[k].is = is

SomethingIsComing ==
    asked /\ ~connected /\ Clean =>
       ignored \/ Holds(up, "join") \/ seating = session \/ Holds(down, "join")

LEMMA AroundHolds ==
    ASSUME NEW B, NEW X, NEW A, NEW s, Around(s, B, X, A), NEW is, \A x \in X : x.is = is
    PROVE  Holds(s, is)
<1>1. PICK b \in Seq(B), x \in X, a \in Seq(A) : s = b \o <<x>> \o a
    BY DEF Around, Behind
<1> DEFINE S == B \cup X \cup A
           c == b \o <<x>>
<1>2. b \in Seq(S) /\ a \in Seq(S) /\ x \in S
    BY SeqMonotonic
<1> HIDE DEF S
<1>3. c = Append(b, x) /\ c \in Seq(S)
    BY <1>2, AppendIsConcat, Queues
<1>4. Len(c) = Len(b) + 1 /\ c[Len(b) + 1] = x /\ Len(b) \in Nat
    BY <1>2, <1>3
<1> HIDE DEF c
<1>5. s[Len(b) + 1] = x /\ Len(b) + 1 \in DOMAIN s
  <2>1. /\ s \in Seq(S) /\ Len(s) = Len(c) + Len(a)
        /\ \A k \in 1..Len(c) + Len(a) : s[k] = IF k <= Len(c) THEN c[k] ELSE a[k - Len(c)]
      BY <1>1, <1>2, <1>3, ConcatProperties DEF c
  <2>2. Len(a) \in Nat /\ DOMAIN s = 1..Len(s)
      BY <1>2, <2>1, LenProperties
  <2>3. Len(b) + 1 \in 1..Len(c) + Len(a) /\ Len(b) + 1 <= Len(c)
      BY <1>4, <2>2
  <2> QED
      BY <1>4, <2>1, <2>2, <2>3
<1> QED
    BY <1>5 DEF Holds

(* Whatever was asked, left and timed out, and whichever sessions stop or  *)
(* deadlock: the join of a waiting client is on its way to the server,     *)
(* handle_player_join has yet to answer it, the answer, a seat or a        *)
(* refusal, is on its way back, or the session it came to was stopping and *)
(* dropped it without a word, the one way to wait for nothing.             *)
THEOREM NobodyWaitsForNothing == Spec => []SomethingIsComing
<1>1. Init => TypeInv
    BY InitTypes
<1>2. TypeInv /\ [Next]_vars => TypeInv'
    BY TypeStep
<1>3. IdentInv => SomethingIsComing
  <2> SUFFICES ASSUME IdentInv, asked, ~ignored, ~connected, Clean
               PROVE  Holds(up, "join") \/ seating = session \/ Holds(down, "join")
      BY DEF SomethingIsComing
  <2>1. Asking \/ Seated \/ Answered \/ Refused
      BY DEF IdentInv, Stages, Parted, In, Pending
  <2>2. Asking => Holds(up, "join")
    <3>1. \A m \in JoinOf(session) : m.is = "join"
        BY DEF JoinOf
    <3> QED
        BY <3>1, AroundHolds DEF Asking
  <2>3. Answered => Holds(down, "join")
    <3>1. \A m \in Answer(session, rooms[session].me) : m.is = "join"
        BY DEF Answer
    <3> QED
        BY <3>1, AroundHolds DEF Answered
  <2>4. Refused => Holds(down, "join")
    <3>1. \A m \in Refusal : m.is = "join"
        BY DEF Refusal
    <3> QED
        BY <3>1, AroundHolds DEF Refused
  <2> QED
      BY <2>1, <2>2, <2>3, <2>4 DEF Seated
<1> QED
    BY <1>1, <1>2, <1>3, IdentInit, IdentNext, PTL DEF Spec
=============================================================================

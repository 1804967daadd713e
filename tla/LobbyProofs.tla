---------------------------- MODULE LobbyProofs ----------------------------
(***************************************************************************)
(* The lobby's invariants for any number of clients and seats.             *)
(***************************************************************************)
EXTENDS Lobby, FiniteSetTheorems, WellFoundedInduction, TLAPS

Full == \A s \in Seats : fd[s] # NoFd

\* Seats and open descriptors correspond one to one, and an open descriptor
\* has a client of its own.
Held ==
    /\ \A s \in Seats : fd[s] # NoFd => fd[s] \in rset /\ peer[fd[s]] # Nobody
    /\ \A s1, s2 \in Seats : (fd[s1] = fd[s2] /\ fd[s1] # NoFd) => s1 = s2
    /\ \A f \in Fds : peer[f] # Nobody => \E s \in Seats : fd[s] = f
    /\ \A f1, f2 \in Fds : (peer[f1] = peer[f2] /\ peer[f1] # Nobody) => f1 = f2

\* rset holds the lowest numbers: those of the seats filled so far in the
\* first pass, as many as there are seats for ever after.
Numbers ==
    \/ /\ pc \in {"accept", "exited"} /\ rset = 4..(3 + i)
       /\ \A s \in Seats : fd[s] = IF s < i THEN 4 + s ELSE NoFd
    \/ rset = 4..(3 + SeatCount)

\* What the loops over the seats have seen to, and what they have counted.
Loops ==
    /\ pc = "accept" => connection_count = i /\ \A s \in Seats : s < i => fd[s] # NoFd
    /\ pc = "select" => i = 0 /\ connection_count = SeatCount /\ Full
    /\ pc = "check" => /\ connection_count >= SeatCount - i
                       /\ connection_count = SeatCount => Full
    /\ pc = "start" => Full
    /\ pc = "fork" => i = 0 /\ Full

\* A client that waits, sits or plays is connected, and in one place.
Places ==
    /\ \A k \in DOMAIN queue : conn[queue[k]] # "away" /\ queue[k] \notin Playing
    /\ \A k1, k2 \in DOMAIN queue : queue[k1] = queue[k2] => k1 = k2
    /\ \A f \in Fds : peer[f] # Nobody =>
          /\ conn[peer[f]] # "away" /\ peer[f] \notin Playing
          /\ \A k \in DOMAIN queue : queue[k] # peer[f]
    /\ \A t \in tables : \A c \in t : conn[c] # "away"
    /\ \A t1, t2 \in tables : t1 # t2 => t1 \cap t2 = {}
    /\ \A t \in tables : Cardinality(t) = SeatCount

\* A connection that a write has found closed is noticed before the next.
Noticed ==
    /\ pc = "check" => \A s \in Seats :
          (fd[s] # NoFd /\ conn[peer[fd[s]]] = "shut") => s >= i /\ fd[s] \in testset
    /\ pc \in {"start", "wait"} => \A s \in Seats :
          (fd[s] # NoFd /\ s >= i) => conn[peer[fd[s]]] # "shut"
    /\ pc = "killed" => fd[i] # NoFd /\ conn[peer[fd[i]]] = "err"

Inv == TypeOK /\ Held /\ Numbers /\ Loops /\ Places /\ Noticed
-----------------------------------------------------------------------------
(* Descriptor numbers                                                      *)

\* A non-empty set of naturals has a least element, and Min finds it.
LEMMA LeastExists ==
    ASSUME NEW S \in SUBSET Nat, S # {}
    PROVE  Min(S) \in S /\ \A y \in S : Min(S) <= y
<1>1. PICK x \in S : \A y \in S : ~(<<y, x>> \in OpToRel(<, Nat))
    BY NatLessThanWellFounded, WFMin
<1>2. ASSUME NEW y \in S PROVE x <= y
  <2>1. x \in Nat /\ y \in Nat  OBVIOUS
  <2>2. <<y, x>> \in Nat \X Nat  BY <2>1
  <2>3. <<y, x>>[1] = y /\ <<y, x>>[2] = x  OBVIOUS
  <2>4. ~(y < x)  BY <1>1, <2>2, <2>3 DEF OpToRel
  <2> QED  BY <2>1, <2>4
<1> QED  BY <1>2 DEF Min

\* The seats are as many as SeatCount says, and so are the lowest numbers.
LEMMA SeatsFinite ==
    /\ IsFiniteSet(Seats) /\ Cardinality(Seats) = SeatCount
    /\ IsFiniteSet(4..(3 + SeatCount)) /\ Cardinality(4..(3 + SeatCount)) = SeatCount
<1>1. SeatCount \in Nat /\ SeatCount >= 1  BY LobbyAssumption
<1>2. 0 \in Int /\ SeatCount - 1 \in Int /\ 4 \in Int /\ 3 + SeatCount \in Int
    BY <1>1
<1>3. IsFiniteSet(0..(SeatCount - 1)) /\ Cardinality(0..(SeatCount - 1)) = SeatCount
    BY <1>1, <1>2, FS_Interval
<1>4. IsFiniteSet(4..(3 + SeatCount)) /\ Cardinality(4..(3 + SeatCount)) = SeatCount
    BY <1>1, <1>2, FS_Interval
<1> QED  BY <1>3, <1>4 DEF Seats

\* While a seat is empty, one of the lowest numbers is free.
LEMMA SomeFree ==
    ASSUME TypeOK, Held, NEW e \in Seats, fd[e] = NoFd
    PROVE  \E f \in 4..(3 + SeatCount) : peer[f] = Nobody
<1> DEFINE Low == 4..(3 + SeatCount)
           Rest == Seats \ {e}
<1>1. SUFFICES ASSUME \A f \in Low : peer[f] # Nobody PROVE FALSE
    OBVIOUS
<1>2. Low \subseteq Fds  BY LobbyAssumption DEF Fds
<1>3. \A f \in Low : \E s \in Rest : fd[s] = f
  <2>1. SUFFICES ASSUME NEW f \in Low PROVE \E s \in Rest : fd[s] = f
      OBVIOUS
  <2>2. PICK s \in Seats : fd[s] = f  BY <1>1, <1>2 DEF Held
  <2>3. f # NoFd  BY <1>2, LobbyAssumption DEF Fds, NoFd
  <2> QED  BY <2>2, <2>3
<1> DEFINE seatOf == [f \in Low |-> CHOOSE s \in Rest : fd[s] = f]
<1>4. \A f \in Low : seatOf[f] \in Rest /\ fd[seatOf[f]] = f  BY <1>3
<1>5. seatOf \in [Low -> Rest]  BY <1>4
<1>6. IsFiniteSet(Rest) /\ Cardinality(Rest) = SeatCount - 1
    BY SeatsFinite, FS_RemoveElement
<1>7. IsFiniteSet(Low) /\ Cardinality(Rest) < Cardinality(Low)
    BY SeatsFinite, <1>6, LobbyAssumption
<1> HIDE DEF Low, Rest, seatOf
<1>8. PICK f1, f2 \in Low : f1 # f2 /\ seatOf[f1] = seatOf[f2]
    BY <1>5, <1>6, <1>7, FS_PigeonHole
<1> QED  BY <1>4, <1>8

\* accept() for an empty seat returns a number that is not in use, and no
\* new one once every seat has been filled; in the first pass, the next one.
LEMMA LowestFreeFd ==
    ASSUME TypeOK, Held, Numbers, pc = "accept", fd[i] = NoFd
    PROVE  /\ LowestFree \in Fds /\ LowestFree \in 4..(3 + SeatCount)
           /\ peer[LowestFree] = Nobody
           /\ (rset = 4..(3 + i) /\ \A s \in Seats : fd[s] = IF s < i THEN 4 + s ELSE NoFd)
                 => LowestFree = 4 + i
<1> DEFINE Free == {f \in Fds : peer[f] = Nobody}
<1>1. i \in Seats  BY DEF TypeOK
<1>2. PICK f \in 4..(3 + SeatCount) : peer[f] = Nobody  BY <1>1, SomeFree
<1>3. Fds \in SUBSET Nat /\ 4..(3 + SeatCount) \subseteq Fds
    BY LobbyAssumption DEF Fds
<1>4. Free \in SUBSET Nat /\ f \in Free  BY <1>2, <1>3
<1>5. Min(Free) \in Free /\ \A y \in Free : Min(Free) <= y
    BY <1>4, LeastExists
<1>6. LowestFree = Min(Free)  BY DEF LowestFree
<1>7. LowestFree \in 4..(3 + SeatCount)
    BY <1>2, <1>3, <1>4, <1>5, <1>6, LobbyAssumption DEF Fds
<1>8. ASSUME \A s \in Seats : fd[s] = IF s < i THEN 4 + s ELSE NoFd
      PROVE  LowestFree = 4 + i
  <2>1. 4 + i \in Fds  BY <1>1, LobbyAssumption DEF Fds, Seats
  <2>2. peer[4 + i] = Nobody
    <3>1. \A s \in Seats : fd[s] # 4 + i  BY <1>1, <1>8, LobbyAssumption DEF Seats, NoFd
    <3> QED  BY <2>1, <3>1 DEF Held
  <2>3. LowestFree <= 4 + i  BY <1>5, <1>6, <2>1, <2>2
  <2>4. SUFFICES ASSUME LowestFree < 4 + i PROVE FALSE
      BY <2>3, <1>7, <1>1, LobbyAssumption DEF Seats
  <2>5. LowestFree - 4 \in Seats /\ LowestFree - 4 < i
      BY <2>4, <1>7, <1>1, LobbyAssumption DEF Seats
  <2>6. fd[LowestFree - 4] = LowestFree  BY <2>5, <1>8, <1>7, LobbyAssumption
  <2>7. peer[LowestFree] # Nobody  BY <2>5, <2>6, <1>7, LobbyAssumption DEF Held, NoFd
  <2> QED  BY <2>7, <1>5, <1>6
<1> QED  BY <1>5, <1>6, <1>7, <1>8
-----------------------------------------------------------------------------
(* Initially, and clients and tables                                       *)

\* Nobody is connected, no descriptor is open, and the first pass begins.
LEMMA LobbyInit == Init => Inv
<1> SUFFICES ASSUME Init PROVE Inv
    OBVIOUS
<1>1. 0 \in Seats /\ SeatCount \in Nat  BY LobbyAssumption DEF Seats
<1>2. TypeOK
  <2>1. unread \in [Clients -> BOOLEAN] /\ interrupted \in BOOLEAN  BY Zenon DEF Init
  <2>2. queue \in Seq(Clients) /\ i \in Seats /\ connection_count \in 0..SeatCount
      BY <1>1 DEF Init
  <2>3. /\ conn \in [Clients -> {"away", "open", "fin", "rst", "err", "shut"}]
        /\ fd \in [Seats -> Fds \cup {NoFd}]
        /\ peer \in [Fds -> Clients \cup {Nobody}]
        /\ rset \subseteq Fds /\ testset \subseteq rset /\ tables \subseteq SUBSET Clients
        /\ pc \in {"accept", "select", "check", "start", "wait", "fork", "killed", "exited"}
      BY DEF Init
  <2> QED  BY <2>1, <2>2, <2>3 DEF TypeOK
<1>3. Held  BY DEF Init, Held
<1>4. Numbers
  <2>1. \A s \in Seats : ~(s < 0)  BY LobbyAssumption DEF Seats
  <2>2. 4..(3 + 0) = {}  OBVIOUS
  <2> QED  BY <2>1, <2>2 DEF Init, Numbers
<1>5. Loops
  <2>1. \A s \in Seats : ~(s < 0)  BY LobbyAssumption DEF Seats
  <2> QED  BY <2>1 DEF Init, Loops
<1>6. Places  BY DEF Init, Places
<1>7. Noticed  BY DEF Init, Noticed
<1> QED  BY <1>2, <1>3, <1>4, <1>5, <1>6, <1>7 DEF Inv

\* A new connection waits in the kernel, and nowhere else.
LEMMA ConnectInv ==
    ASSUME Inv, NEW c \in Clients, Connect(c)
    PROVE  Inv'
<1> USE DEF Inv
<1>1. TypeOK'  BY DEF TypeOK, Connect
<1>2. Held' /\ Numbers' /\ Loops'
    BY DEF Held, Numbers, Loops, Full, Connect
<1>3. Places'
  <2>1. DOMAIN queue = 1..Len(queue) /\ DOMAIN queue' = 1..(Len(queue) + 1)
        /\ Len(queue) \in Nat
      BY DEF TypeOK, Connect
  <2>2. /\ \A k \in DOMAIN queue : queue'[k] = queue[k] /\ queue[k] \in Clients
        /\ queue'[Len(queue) + 1] = c
      BY <2>1 DEF TypeOK, Connect
  <2>3. conn[c] = "away" /\ conn' = [conn EXCEPT ![c] = "open"]
        /\ conn \in [Clients -> {"away", "open", "fin", "rst", "err", "shut"}]
        /\ peer' = peer /\ tables' = tables /\ tables \subseteq SUBSET Clients
        /\ peer \in [Fds -> Clients \cup {Nobody}]
      BY DEF TypeOK, Connect
  <2>4. c \notin Playing  BY <2>3 DEF Places, Playing
  <2>5. \A f \in Fds : peer[f] # c  BY <2>3, LobbyAssumption DEF Places
  <2>6. \A k \in DOMAIN queue : queue[k] # c  BY <2>3 DEF Places
  <2>7. Playing' = Playing  BY <2>3 DEF Playing
  <2>8. \A k \in DOMAIN queue' : k \in DOMAIN queue \/ k = Len(queue) + 1
      BY <2>1
  <2>9. \A k \in DOMAIN queue' : conn'[queue'[k]] # "away" /\ queue'[k] \notin Playing'
      BY <2>2, <2>3, <2>4, <2>6, <2>7, <2>8 DEF Places
  <2>10. \A k1, k2 \in DOMAIN queue' : queue'[k1] = queue'[k2] => k1 = k2
      BY <2>2, <2>6, <2>8 DEF Places
  <2>11. \A f \in Fds : peer'[f] # Nobody =>
          /\ conn'[peer'[f]] # "away" /\ peer'[f] \notin Playing'
          /\ \A k \in DOMAIN queue' : queue'[k] # peer'[f]
      BY <2>2, <2>3, <2>5, <2>7, <2>8 DEF Places
  <2>12. \A t \in tables' : \A x \in t : conn'[x] # "away"
      BY <2>3 DEF Places
  <2> QED  BY <2>3, <2>9, <2>10, <2>11, <2>12 DEF Places
<1>4. Noticed'  BY DEF TypeOK, Noticed, Connect, Places, Held
<1> QED  BY <1>1, <1>2, <1>3, <1>4

\* Taking the lines in changes nothing the server keeps.
LEMMA ReadLinesInv ==
    ASSUME Inv, NEW c \in Clients, ReadLines(c)
    PROVE  Inv'
<1> USE DEF Inv
<1>1. TypeOK'  BY DEF TypeOK, ReadLines
<1>2. Held' /\ Numbers' /\ Loops'
    BY DEF Held, Numbers, Loops, Full, ReadLines
<1>3. Places' /\ Noticed'
    BY DEF Places, Noticed, Playing, ReadLines
<1> QED  BY <1>1, <1>2, <1>3

\* A client that leaves stays where it was counted until it is noticed.
LEMMA LeaveInv ==
    ASSUME Inv, NEW c \in Clients, Leave(c)
    PROVE  Inv'
<1> USE DEF Inv
<1>1. TypeOK'  BY DEF TypeOK, Leave
<1>2. Held' /\ Numbers' /\ Loops'
    BY DEF Held, Numbers, Loops, Full, Leave
<1>3. /\ conn' \in [Clients -> {"away", "open", "fin", "rst", "err", "shut"}]
      /\ \A x \in Clients : conn'[x] = conn[x] \/ (conn[x] = "open" /\ conn'[x] \in {"fin", "rst"})
    BY DEF TypeOK, Leave
<1>4. Places'
    BY <1>3 DEF Places, Playing, TypeOK, Leave
<1>5. Noticed'
  <2>1. fd' = fd /\ peer' = peer /\ pc' = pc /\ i' = i /\ testset' = testset
      BY DEF Leave
  <2>2. \A s \in Seats : fd[s] # NoFd => peer[fd[s]] \in Clients
      BY DEF TypeOK, Held
  <2> QED  BY <1>3, <2>1, <2>2 DEF Noticed, TypeOK
<1> QED  BY <1>1, <1>2, <1>4, <1>5

\* The clients of a table that ends are in no other place.
LEMMA TableEndsInv ==
    ASSUME Inv, NEW t \in tables, TableEnds(t)
    PROVE  Inv'
<1> USE DEF Inv
<1>1. TypeOK'  BY DEF TypeOK, TableEnds
<1>2. Held' /\ Numbers' /\ Loops'
    BY DEF Held, Numbers, Loops, Full, TableEnds
<1>3. /\ t \subseteq Clients
      /\ \A x \in Clients : x \notin t => conn'[x] = conn[x]
    BY DEF TypeOK, TableEnds
<1>4. t \subseteq Playing /\ Playing' \subseteq Playing
    BY DEF TableEnds, Playing
<1>5. Places'
  <2>1. \A x \in Clients : x \notin Playing => conn'[x] = conn[x]
      BY <1>3, <1>4
  <2>2. /\ queue' = queue /\ peer' = peer /\ tables' = tables \ {t}
        /\ queue \in Seq(Clients) /\ tables \subseteq SUBSET Clients
        /\ peer \in [Fds -> Clients \cup {Nobody}]
      BY DEF TypeOK, TableEnds
  <2>3. \A u \in tables' : \A c \in u : conn'[c] # "away"
    <3>1. \A u \in tables' : u \cap t = {} /\ u \in tables  BY <2>2 DEF Places
    <3> QED  BY <2>2, <3>1, <1>3 DEF Places
  <2>4. \A k \in DOMAIN queue : queue[k] \in Clients  BY <2>2
  <2> QED  BY <2>1, <2>2, <2>3, <2>4, <1>4 DEF Places
<1>6. Noticed'
  <2>1. fd' = fd /\ peer' = peer /\ pc' = pc /\ i' = i /\ testset' = testset
      BY DEF TableEnds
  <2>2. \A s \in Seats : fd[s] # NoFd => peer[fd[s]] \in Clients /\ peer[fd[s]] \notin Playing
      BY DEF TypeOK, Held, Places
  <2>3. \A s \in Seats : fd[s] # NoFd => conn'[peer[fd[s]]] = conn[peer[fd[s]]]
      BY <2>2, <1>3, <1>4
  <2> QED  BY <2>1, <2>3 DEF Noticed, TypeOK
<1> QED  BY <1>1, <1>2, <1>5, <1>6
-----------------------------------------------------------------------------
(* connection_establish()                                                  *)

\* accept(): the client changes from the kernel's queue to the seat.
LEMMA AcceptSeatInv ==
    ASSUME Inv, AcceptSeat
    PROVE  Inv'
<1> USE DEF Inv
<1> DEFINE f0 == LowestFree
           c0 == Head(queue)
<1>1. /\ f0 \in Fds /\ f0 \in 4..(3 + SeatCount) /\ peer[f0] = Nobody
      /\ (rset = 4..(3 + i) /\ \A s \in Seats : fd[s] = IF s < i THEN 4 + s ELSE NoFd)
            => f0 = 4 + i
    BY LowestFreeFd DEF AcceptSeat
<1> HIDE DEF f0
<1>2. /\ DOMAIN queue = 1..Len(queue) /\ Len(queue) \in Nat /\ Len(queue) >= 1
      /\ c0 \in Clients /\ c0 = queue[1]
      /\ queue' \in Seq(Clients) /\ DOMAIN queue' = 1..(Len(queue) - 1)
      /\ \A k \in DOMAIN queue' : queue'[k] = queue[k + 1]
    BY DEF TypeOK, AcceptSeat
<1> HIDE DEF c0
<1>3. /\ pc = "accept" /\ fd[i] = NoFd /\ i \in Seats
      /\ fd' = [fd EXCEPT ![i] = f0]
      /\ peer' = [peer EXCEPT ![f0] = c0]
      /\ rset' = rset \cup {f0}
      /\ conn' = [conn EXCEPT ![c0] = Written(@)]
      /\ unread' = [unread EXCEPT ![c0] = (conn[c0] = "open")]
      /\ connection_count' = connection_count + 1
      /\ testset' = testset /\ interrupted' = interrupted /\ tables' = tables
    BY DEF AcceptSeat, TypeOK, f0, c0
<1>4. /\ i' \in Seats /\ SeatCount \in Nat
      /\ \/ i + 1 = SeatCount /\ i' = 0 /\ pc' = "select"
         \/ i + 1 < SeatCount /\ i' = i + 1 /\ pc' = "accept"
    BY <1>3, LobbyAssumption DEF AcceptSeat, NextSeat, Seats
<1>5. conn' \in [Clients -> {"away", "open", "fin", "rst", "err", "shut"}]
    BY <1>2, <1>3 DEF TypeOK, Written
<1>6. f0 # NoFd /\ Nobody # c0  BY <1>1, <1>2, LobbyAssumption DEF Fds, NoFd
<1>7. TypeOK'
  <2>1. unread' \in [Clients -> BOOLEAN]  BY <1>3 DEF TypeOK
  <2>2. connection_count' \in 0..SeatCount
      BY <1>3, <1>4 DEF Loops, Seats
  <2>3. fd' \in [Seats -> Fds \cup {NoFd}] /\ peer' \in [Fds -> Clients \cup {Nobody}]
      BY <1>1, <1>2, <1>3 DEF TypeOK
  <2>4. rset' \subseteq Fds /\ testset' \subseteq rset'
      BY <1>1, <1>3 DEF TypeOK
  <2> QED  BY <1>2, <1>3, <1>4, <1>5, <2>1, <2>2, <2>3, <2>4 DEF TypeOK
<1>8. Held'
  <2>1. \A s \in Seats : fd'[s] = IF s = i THEN f0 ELSE fd[s]  BY <1>3 DEF TypeOK
  <2>2. \A f \in Fds : peer'[f] = IF f = f0 THEN c0 ELSE peer[f]  BY <1>3 DEF TypeOK
  <2>3. \A s \in Seats : fd[s] # f0  BY <1>1, <1>6 DEF Held
  <2>4. \A f \in Fds : peer[f] # c0  BY <1>2, <1>6 DEF Places
  <2>5. \A s \in Seats : fd[s] # NoFd => fd[s] \in Fds  BY DEF TypeOK
  <2>6. \A s \in Seats : fd'[s] # NoFd => fd'[s] \in rset' /\ peer'[fd'[s]] # Nobody
      BY <2>1, <2>2, <2>5, <1>1, <1>3, <1>6 DEF Held
  <2>7. \A s1, s2 \in Seats : (fd'[s1] = fd'[s2] /\ fd'[s1] # NoFd) => s1 = s2
      BY <2>1, <2>3 DEF Held
  <2>8. \A f \in Fds : peer'[f] # Nobody => \E s \in Seats : fd'[s] = f
    <3>1. SUFFICES ASSUME NEW f \in Fds, peer'[f] # Nobody PROVE \E s \in Seats : fd'[s] = f
        OBVIOUS
    <3>2. CASE f = f0  BY <3>2, <2>1, <1>3
    <3>3. CASE f # f0
      <4>1. PICK s \in Seats : fd[s] = f  BY <3>1, <3>3, <2>2 DEF Held
      <4>2. s # i  BY <4>1, <1>3, LobbyAssumption DEF Fds, NoFd
      <4> QED  BY <4>1, <4>2, <2>1
    <3> QED  BY <3>2, <3>3
  <2>9. \A f1, f2 \in Fds : (peer'[f1] = peer'[f2] /\ peer'[f1] # Nobody) => f1 = f2
      BY <2>2, <2>4 DEF Held
  <2> QED  BY <2>6, <2>7, <2>8, <2>9 DEF Held
<1>9. Numbers'
  <2>1. CASE rset = 4..(3 + SeatCount)
    <3>1. rset' = 4..(3 + SeatCount)  BY <2>1, <1>1, <1>3
    <3> QED  BY <3>1 DEF Numbers
  <2>2. CASE /\ rset = 4..(3 + i)
             /\ \A s \in Seats : fd[s] = IF s < i THEN 4 + s ELSE NoFd
    <3>1. f0 = 4 + i  BY <2>2, <1>1
    <3>2. rset' = 4..(4 + i)  BY <3>1, <2>2, <1>3, LobbyAssumption DEF Seats
    <3>3. CASE i + 1 = SeatCount /\ i' = 0 /\ pc' = "select"
      <4>1. 4 + i = 3 + SeatCount  BY <3>3, <1>3, LobbyAssumption DEF Seats
      <4> QED  BY <4>1, <3>2 DEF Numbers
    <3>4. CASE i + 1 < SeatCount /\ i' = i + 1 /\ pc' = "accept"
      <4>1. 3 + i' = 4 + i  BY <3>4, <1>3, LobbyAssumption DEF Seats
      <4>2. \A s \in Seats : fd'[s] = IF s < i' THEN 4 + s ELSE NoFd
          BY <2>2, <3>1, <3>4, <1>3, LobbyAssumption DEF TypeOK, Seats
      <4> QED  BY <4>1, <4>2, <3>2, <3>4 DEF Numbers
    <3> QED  BY <3>3, <3>4, <1>4
  <2> QED  BY <2>1, <2>2 DEF Numbers
<1>10. Loops'
  <2>1. \A s \in Seats : s <= i => fd'[s] # NoFd
      BY <1>3, <1>6 DEF Loops, TypeOK, Seats
  <2>2. pc' = "accept" => connection_count' = i' /\ \A s \in Seats : s < i' => fd'[s] # NoFd
      BY <2>1, <1>3, <1>4 DEF Loops, Seats
  <2>3. pc' = "select" => i' = 0 /\ connection_count' = SeatCount /\ Full'
      BY <2>1, <1>3, <1>4 DEF Loops, Full, Seats
  <2> QED  BY <2>2, <2>3, <1>4 DEF Loops
<1>11. Places'
  <2>1. \A f \in Fds : peer'[f] = IF f = f0 THEN c0 ELSE peer[f]  BY <1>3 DEF TypeOK
  <2>2. Playing' = Playing  BY <1>3 DEF Playing
  <2>3. \A x \in Clients : conn[x] # "away" => conn'[x] # "away"
      BY <1>2, <1>3 DEF TypeOK, Written
  <2>4. \A k \in DOMAIN queue' : k + 1 \in DOMAIN queue /\ 1 \in DOMAIN queue /\ k + 1 # 1
      BY <1>2
  <2>5. \A k \in DOMAIN queue : queue[k] \in Clients  BY DEF TypeOK
  <2>6. \A k \in DOMAIN queue' : queue'[k] # c0  BY <1>2, <2>4 DEF Places
  <2>7. \A k \in DOMAIN queue' : conn'[queue'[k]] # "away" /\ queue'[k] \notin Playing'
      BY <1>2, <2>2, <2>3, <2>4, <2>5 DEF Places
  <2>8. \A k1, k2 \in DOMAIN queue' : queue'[k1] = queue'[k2] => k1 = k2
    <3>1. \A k1, k2 \in DOMAIN queue' : queue[k1 + 1] = queue[k2 + 1] => k1 + 1 = k2 + 1
        BY <2>4 DEF Places
    <3>2. \A k \in DOMAIN queue' : k \in Int  BY <1>2
    <3> QED  BY <3>1, <3>2, <1>2
  <2>9. c0 \notin Playing /\ conn[c0] # "away"  BY <1>2 DEF Places
  <2>10. \A f \in Fds : peer'[f] # Nobody =>
          /\ conn'[peer'[f]] # "away" /\ peer'[f] \notin Playing'
          /\ \A k \in DOMAIN queue' : queue'[k] # peer'[f]
    <3>1. SUFFICES ASSUME NEW f \in Fds, peer'[f] # Nobody
                   PROVE  /\ conn'[peer'[f]] # "away" /\ peer'[f] \notin Playing'
                          /\ \A k \in DOMAIN queue' : queue'[k] # peer'[f]
        OBVIOUS
    <3>2. CASE f = f0  BY <3>2, <2>1, <2>2, <2>3, <2>6, <2>9, <1>2
    <3>3. CASE f # f0
      <4>1. peer[f] \in Clients /\ peer'[f] = peer[f] /\ peer[f] # Nobody
          BY <3>1, <3>3, <2>1 DEF TypeOK
      <4> QED  BY <4>1, <2>2, <2>3, <2>4, <1>2 DEF Places
    <3> QED  BY <3>2, <3>3
  <2>11. \A t \in tables' : \A x \in t : conn'[x] # "away"
      BY <2>3, <1>3 DEF Places, TypeOK
  <2> QED  BY <2>7, <2>8, <2>10, <2>11, <1>3 DEF Places
<1>12. Noticed'  BY <1>4 DEF Noticed
<1> QED  BY <1>7, <1>8, <1>9, <1>10, <1>11, <1>12

\* A seat taken in an earlier pass is counted again.
LEMMA KeepSeatInv ==
    ASSUME Inv, KeepSeat
    PROVE  Inv'
<1> USE DEF Inv
<1>1. /\ pc = "accept" /\ fd[i] # NoFd /\ i \in Seats
      /\ connection_count' = connection_count + 1
      /\ fd' = fd /\ peer' = peer /\ rset' = rset /\ conn' = conn /\ queue' = queue
      /\ unread' = unread /\ testset' = testset /\ interrupted' = interrupted
      /\ tables' = tables
    BY DEF KeepSeat, TypeOK
<1>2. /\ i' \in Seats /\ SeatCount \in Nat
      /\ \/ i + 1 = SeatCount /\ i' = 0 /\ pc' = "select"
         \/ i + 1 < SeatCount /\ i' = i + 1 /\ pc' = "accept"
    BY <1>1, LobbyAssumption DEF KeepSeat, NextSeat, Seats
<1>3. TypeOK'
  <2>1. connection_count' \in 0..SeatCount  BY <1>1, <1>2 DEF Loops, Seats
  <2> QED  BY <2>1, <1>1, <1>2 DEF TypeOK
<1>4. Held'  BY <1>1 DEF Held
<1>5. Numbers'
  <2>1. rset = 4..(3 + SeatCount)
      BY <1>1 DEF Numbers, Seats
  <2> QED  BY <2>1, <1>1 DEF Numbers
<1>6. Loops'
  <2>1. \A s \in Seats : s <= i => fd[s] # NoFd
      BY <1>1 DEF Loops, Seats
  <2>2. pc' = "accept" => connection_count' = i' /\ \A s \in Seats : s < i' => fd'[s] # NoFd
      BY <2>1, <1>1, <1>2 DEF Loops, Seats
  <2>3. pc' = "select" => i' = 0 /\ connection_count' = SeatCount /\ Full'
      BY <2>1, <1>1, <1>2 DEF Loops, Full, Seats
  <2> QED  BY <2>2, <2>3, <1>2 DEF Loops
<1>7. Places'  BY <1>1 DEF Places, Playing
<1>8. Noticed'  BY <1>2 DEF Noticed
<1> QED  BY <1>3, <1>4, <1>5, <1>6, <1>7, <1>8

\* select(): a connection found closed by a write is among those it reports.
LEMMA SelectInv ==
    ASSUME Inv, Select
    PROVE  Inv'
<1> USE DEF Inv
<1>1. TypeOK'  BY DEF TypeOK, Select
<1>2. Held' /\ Numbers'  BY DEF Held, Numbers, Select
<1>3. Loops'
  <2>1. SeatCount \in Nat  BY LobbyAssumption
  <2> QED  BY <2>1 DEF Loops, Full, Select
<1>4. Places'  BY DEF Places, Playing, Select
<1>5. Noticed'
  <2>1. pc = "select" /\ i = 0 /\ pc' = "check" /\ i' = i /\ fd' = fd /\ peer' = peer
        /\ conn' = conn
      BY DEF Select, Loops
  <2>2. \A s \in Seats : s >= 0  BY DEF Seats
  <2>3. \A f \in rset : conn[peer[f]] = "shut" => f \in testset'
      BY DEF Select
  <2>4. \A s \in Seats : fd[s] # NoFd => fd[s] \in rset  BY DEF Held
  <2> QED  BY <2>1, <2>2, <2>3, <2>4 DEF Noticed
<1> QED  BY <1>1, <1>2, <1>3, <1>4, <1>5
\* Different seats belong to different clients, all of them connected.
LEMMA SeatClients ==
    ASSUME TypeOK, Held, Places
    PROVE  /\ \A s \in Seats : fd[s] # NoFd =>
                /\ fd[s] \in Fds /\ peer[fd[s]] \in Clients
                /\ peer[fd[s]] # Nobody /\ conn[peer[fd[s]]] # "away"
           /\ \A s1, s2 \in Seats :
                (fd[s1] # NoFd /\ fd[s2] # NoFd /\ peer[fd[s1]] = peer[fd[s2]]) => s1 = s2
<1>1. \A s \in Seats : fd[s] # NoFd =>
        fd[s] \in Fds /\ peer[fd[s]] \in Clients /\ peer[fd[s]] # Nobody
    BY DEF TypeOK, Held
<1>2. \A s1, s2 \in Seats :
        (fd[s1] # NoFd /\ fd[s2] # NoFd /\ peer[fd[s1]] = peer[fd[s2]]) => s1 = s2
    BY <1>1 DEF Held
<1> QED  BY <1>1, <1>2 DEF Places

\* close(): the seat, its descriptor and the client come apart together.
LEMMA FreeSeatInv ==
    ASSUME Inv, FreeSeat
    PROVE  Inv'
<1> USE DEF Inv
<1> DEFINE f0 == fd[i]
           c0 == peer[fd[i]]
<1>1. /\ pc = "check" /\ i \in Seats /\ f0 \in Fds /\ f0 # NoFd /\ f0 \in rset
      /\ c0 \in Clients /\ c0 # Nobody
      /\ conn[c0] \in {"fin", "err", "shut"}
  <2>1. pc = "check" /\ i \in Seats /\ f0 \in testset /\ conn[c0] \in {"fin", "err", "shut"}
      BY DEF FreeSeat, HasLeft, TypeOK
  <2>2. f0 \in rset /\ f0 \in Fds /\ f0 # NoFd
      BY <2>1, LobbyAssumption DEF TypeOK, Fds, NoFd
  <2>3. c0 \in Clients /\ c0 # Nobody  BY <2>1, <2>2, SeatClients
  <2> QED  BY <2>1, <2>2, <2>3
<1>2. /\ fd' = [fd EXCEPT ![i] = NoFd]
      /\ peer' = [peer EXCEPT ![f0] = Nobody]
      /\ conn' = [conn EXCEPT ![c0] = "away"]
      /\ connection_count' = connection_count - 1
      /\ unread' = unread /\ queue' = queue /\ rset' = rset /\ testset' = testset
      /\ interrupted' = interrupted /\ tables' = tables
    BY DEF FreeSeat
<1>3. /\ connection_count \in 0..SeatCount /\ connection_count >= SeatCount - i
      /\ SeatCount \in Nat
    BY <1>1, LobbyAssumption DEF TypeOK, Loops
<1>4. connection_count' \in 0..SeatCount /\ connection_count' < SeatCount
    BY <1>1, <1>2, <1>3 DEF Seats
<1>5. /\ i' \in Seats
      /\ \/ i + 1 = SeatCount /\ i' = 0 /\ pc' = "wait"
         \/ i + 1 < SeatCount /\ i' = i + 1 /\ pc' = "check"
    BY <1>1, <1>4, LobbyAssumption DEF FreeSeat, NextSeat, AfterChecks, Seats
<1>6. \A s \in Seats : fd'[s] = IF s = i THEN NoFd ELSE fd[s]  BY <1>2 DEF TypeOK
<1>7. \A f \in Fds : peer'[f] = IF f = f0 THEN Nobody ELSE peer[f]  BY <1>2 DEF TypeOK
<1>8. \A c \in Clients : conn'[c] = IF c = c0 THEN "away" ELSE conn[c]
    BY <1>2 DEF TypeOK
<1>9. \A s \in Seats : (s # i /\ fd[s] # NoFd) =>
        fd[s] # f0 /\ fd[s] \in Fds /\ peer[fd[s]] # c0 /\ peer[fd[s]] \in Clients
    BY <1>1, SeatClients DEF Held
<1>10. \A f \in Fds : f # f0 => peer[f] # c0
    BY <1>1 DEF Held
<1> HIDE DEF f0, c0
<1>11. TypeOK'
  <2>1. fd' \in [Seats -> Fds \cup {NoFd}] /\ peer' \in [Fds -> Clients \cup {Nobody}]
      BY <1>1, <1>2 DEF TypeOK
  <2>2. conn' \in [Clients -> {"away", "open", "fin", "rst", "err", "shut"}]
      BY <1>1, <1>2 DEF TypeOK
  <2> QED  BY <1>2, <1>4, <1>5, <2>1, <2>2 DEF TypeOK
<1>12. Held'
  <2>1. \A s \in Seats : fd'[s] # NoFd => fd'[s] \in rset' /\ peer'[fd'[s]] # Nobody
      BY <1>2, <1>6, <1>7, <1>9 DEF Held
  <2>2. \A s1, s2 \in Seats : (fd'[s1] = fd'[s2] /\ fd'[s1] # NoFd) => s1 = s2
      BY <1>6 DEF Held
  <2>3. \A f \in Fds : peer'[f] # Nobody => \E s \in Seats : fd'[s] = f
    <3>1. SUFFICES ASSUME NEW f \in Fds, peer'[f] # Nobody PROVE \E s \in Seats : fd'[s] = f
        OBVIOUS
    <3>2. f # f0 /\ peer[f] # Nobody  BY <3>1, <1>7
    <3>3. PICK s \in Seats : fd[s] = f  BY <3>2 DEF Held
    <3>4. s # i  BY <3>2, <3>3 DEF f0
    <3> QED  BY <3>3, <3>4, <1>6
  <2>4. \A f1, f2 \in Fds : (peer'[f1] = peer'[f2] /\ peer'[f1] # Nobody) => f1 = f2
      BY <1>7 DEF Held
  <2> QED  BY <2>1, <2>2, <2>3, <2>4 DEF Held
<1>13. Numbers'  BY <1>1, <1>2 DEF Numbers
<1>14. Loops'
  <2>1. pc' = "check" => connection_count' >= SeatCount - i'
      BY <1>1, <1>2, <1>3, <1>5 DEF Seats
  <2> QED  BY <2>1, <1>4, <1>5 DEF Loops
<1>15. Places'
  <2>1. Playing' = Playing  BY <1>2 DEF Playing
  <2>2. c0 \notin Playing /\ \A k \in DOMAIN queue : queue[k] # c0
      BY <1>1 DEF Places, c0, f0
  <2>3. \A k \in DOMAIN queue : queue[k] \in Clients  BY DEF TypeOK
  <2>4. \A k \in DOMAIN queue' : conn'[queue'[k]] # "away" /\ queue'[k] \notin Playing'
      BY <1>2, <1>8, <2>1, <2>2, <2>3 DEF Places
  <2>5. \A f \in Fds : peer'[f] # Nobody =>
          /\ conn'[peer'[f]] # "away" /\ peer'[f] \notin Playing'
          /\ \A k \in DOMAIN queue' : queue'[k] # peer'[f]
    <3>1. SUFFICES ASSUME NEW f \in Fds, peer'[f] # Nobody
                   PROVE  /\ conn'[peer'[f]] # "away" /\ peer'[f] \notin Playing'
                          /\ \A k \in DOMAIN queue' : queue'[k] # peer'[f]
        OBVIOUS
    <3>2. f # f0 /\ peer'[f] = peer[f] /\ peer[f] # Nobody /\ peer[f] \in Clients
        BY <3>1, <1>7 DEF TypeOK
    <3> QED  BY <3>2, <1>2, <1>8, <1>10, <2>1 DEF Places
  <2>6. \A t \in tables' : \A x \in t : conn'[x] # "away"
      BY <1>2, <1>8, <2>2 DEF Places, Playing, TypeOK
  <2> QED  BY <1>2, <2>4, <2>5, <2>6 DEF Places
<1>16. Noticed'
  <2>1. \A s \in Seats : (fd'[s] # NoFd /\ conn'[peer'[fd'[s]]] = "shut") =>
          s # i /\ fd'[s] = fd[s] /\ fd[s] # NoFd /\ conn[peer[fd[s]]] = "shut"
      BY <1>6, <1>7, <1>8, <1>9
  <2>2. \A s \in Seats : (fd'[s] # NoFd /\ conn'[peer'[fd'[s]]] = "shut") =>
          s >= i + 1 /\ fd'[s] \in testset'
      BY <2>1, <1>1, <1>2 DEF Noticed, Seats
  <2>3. \A s \in Seats : s < SeatCount  BY LobbyAssumption DEF Seats
  <2> QED  BY <2>2, <2>3, <1>5, <1>1 DEF Noticed, Seats
<1> QED  BY <1>11, <1>12, <1>13, <1>14, <1>15, <1>16

\* A seat whose read gives nothing, or fails, is passed over.
LEMMA StaySeatedInv ==
    ASSUME Inv, StaySeated
    PROVE  Inv'
<1> USE DEF Inv
<1>1. /\ pc = "check" /\ i \in Seats /\ ~HasLeft(i)
      /\ fd[i] \in testset => conn[peer[fd[i]]] # "open"
      /\ fd' = fd /\ peer' = peer /\ connection_count' = connection_count
      /\ unread' = unread /\ queue' = queue /\ rset' = rset /\ testset' = testset
      /\ interrupted' = interrupted /\ tables' = tables
    BY DEF StaySeated, TypeOK
<1>2. /\ conn' \in [Clients -> {"away", "open", "fin", "rst", "err", "shut"}]
      /\ \A c \in Clients : conn'[c] = conn[c] \/ (conn[c] = "rst" /\ conn'[c] = "err")
    BY DEF StaySeated, TypeOK
<1>3. /\ i' \in Seats /\ SeatCount \in Nat
      /\ \/ /\ i + 1 = SeatCount /\ i' = 0
            /\ pc' = IF connection_count = SeatCount THEN "start" ELSE "wait"
         \/ i + 1 < SeatCount /\ i' = i + 1 /\ pc' = "check"
    BY <1>1, LobbyAssumption DEF StaySeated, NextSeat, AfterChecks, Seats
<1>4. TypeOK'  BY <1>1, <1>2, <1>3 DEF TypeOK
<1>5. Held'  BY <1>1 DEF Held
<1>6. Numbers'  BY <1>1 DEF Numbers
<1>7. Loops'
  <2>1. connection_count >= SeatCount - i /\ (connection_count = SeatCount => Full)
      BY <1>1 DEF Loops
  <2>2. Full' = Full  BY <1>1 DEF Full
  <2>3. pc' = "check" => connection_count' >= SeatCount - i'
      BY <1>1, <1>3, <2>1 DEF Seats, TypeOK
  <2> QED  BY <2>1, <2>2, <2>3, <1>1, <1>3 DEF Loops
<1>8. Places'
  <2>1. Playing' = Playing  BY <1>1 DEF Playing
  <2>2. \A c \in Clients : conn[c] # "away" => conn'[c] # "away"  BY <1>2
  <2>3. \A k \in DOMAIN queue : queue[k] \in Clients  BY DEF TypeOK
  <2>4. \A k \in DOMAIN queue' : conn'[queue'[k]] # "away" /\ queue'[k] \notin Playing'
      BY <1>1, <2>1, <2>2, <2>3 DEF Places
  <2>5. \A f \in Fds : peer'[f] # Nobody => conn'[peer'[f]] # "away"
      BY <1>1, <2>2 DEF Places, TypeOK
  <2>6. \A t \in tables' : \A x \in t : conn'[x] # "away"
      BY <1>1, <2>2 DEF Places, TypeOK
  <2> QED  BY <1>1, <2>1, <2>4, <2>5, <2>6 DEF Places
<1>9. Noticed'
  <2>1. \A s \in Seats : (fd'[s] # NoFd /\ conn'[peer'[fd'[s]]] = "shut") =>
          fd[s] # NoFd /\ conn[peer[fd[s]]] = "shut"
      BY <1>1, <1>2, SeatClients
  <2>2. (fd[i] # NoFd /\ conn[peer[fd[i]]] = "shut") => FALSE
      BY <1>1 DEF Noticed, HasLeft
  <2>3. \A s \in Seats : (fd'[s] # NoFd /\ conn'[peer'[fd'[s]]] = "shut") =>
          s >= i + 1 /\ fd'[s] \in testset'
      BY <2>1, <2>2, <1>1 DEF Noticed, Seats
  <2>4. \A s \in Seats : s < SeatCount  BY LobbyAssumption DEF Seats
  <2> QED  BY <2>3, <2>4, <1>1, <1>3 DEF Noticed, Seats
<1> QED  BY <1>4, <1>5, <1>6, <1>7, <1>8, <1>9

\* A line to a seat concerns no other seat's connection.
LEMMA SendLineInv ==
    ASSUME Inv, SendLine
    PROVE  Inv'
<1> USE DEF Inv
<1>1. /\ pc \in {"start", "wait"} /\ i \in Seats
      /\ fd' = fd /\ peer' = peer /\ queue' = queue /\ rset' = rset /\ testset' = testset
      /\ interrupted' = interrupted /\ tables' = tables
      /\ connection_count' = IF pc' = "accept" THEN 0 ELSE connection_count
    BY DEF SendLine, TypeOK, CountAfresh
<1>2. /\ i' \in Seats /\ SeatCount \in Nat
      /\ \/ /\ i + 1 = SeatCount /\ i' = 0
            /\ pc' = IF pc = "start" THEN "fork" ELSE "accept"
         \/ i + 1 < SeatCount /\ i' = i + 1 /\ pc' = pc
    BY <1>1, LobbyAssumption DEF SendLine, NextSeat, AfterWrites, Seats
<1>3. /\ conn' \in [Clients -> {"away", "open", "fin", "rst", "err", "shut"}]
      /\ \A c \in Clients : \/ conn'[c] = conn[c]
                            \/ conn'[c] = "shut" /\ fd[i] # NoFd /\ c = peer[fd[i]]
    BY SeatClients, <1>1 DEF SendLine, TypeOK, Written
<1>4. unread' \in [Clients -> BOOLEAN]
  <2>1. CASE fd[i] # NoFd  BY <2>1 DEF SendLine, TypeOK
  <2>2. CASE fd[i] = NoFd  BY <2>2 DEF SendLine, TypeOK
  <2> QED  BY <2>1, <2>2
<1>5. TypeOK'
  <2>1. connection_count' \in 0..SeatCount  BY <1>1, <1>2 DEF TypeOK
  <2>2. pc' \in {"accept", "select", "check", "start", "wait", "fork", "killed", "exited"}
      BY <1>1, <1>2
  <2> QED  BY <1>1, <1>2, <1>3, <1>4, <2>1, <2>2 DEF TypeOK
<1>6. Held'  BY <1>1 DEF Held
<1>7. Numbers'  BY <1>1 DEF Numbers
<1>8. Loops'
  <2>1. Full' = Full  BY <1>1 DEF Full
  <2>2. pc = "start" => Full  BY DEF Loops
  <2>3. \A s \in Seats : ~(s < 0)  BY DEF Seats
  <2> QED  BY <2>1, <2>2, <2>3, <1>1, <1>2 DEF Loops
<1>9. Places'
  <2>1. Playing' = Playing  BY <1>1 DEF Playing
  <2>2. \A c \in Clients : conn[c] # "away" => conn'[c] # "away"  BY <1>3
  <2>3. \A k \in DOMAIN queue : queue[k] \in Clients  BY DEF TypeOK
  <2>4. \A k \in DOMAIN queue' : conn'[queue'[k]] # "away" /\ queue'[k] \notin Playing'
      BY <1>1, <2>1, <2>2, <2>3 DEF Places
  <2>5. \A f \in Fds : peer'[f] # Nobody => conn'[peer'[f]] # "away"
      BY <1>1, <2>2 DEF Places, TypeOK
  <2>6. \A t \in tables' : \A x \in t : conn'[x] # "away"
      BY <1>1, <2>2 DEF Places, TypeOK
  <2> QED  BY <1>1, <2>1, <2>4, <2>5, <2>6 DEF Places
<1>10. Noticed'
  <2>1. \A s \in Seats : (s # i /\ fd[s] # NoFd) =>
          conn'[peer[fd[s]]] = conn[peer[fd[s]]]
      BY <1>1, <1>3, SeatClients
  <2>2. \A s \in Seats : (fd[s] # NoFd /\ s >= i + 1) => conn'[peer[fd[s]]] # "shut"
      BY <2>1, <1>1 DEF Noticed, Seats
  <2> QED  BY <2>2, <1>1, <1>2 DEF Noticed
<1> QED  BY <1>5, <1>6, <1>7, <1>8, <1>9, <1>10

\* The write that ends the process goes to a connection in error.
LEMMA KilledInv ==
    ASSUME Inv, Killed
    PROVE  Inv'
<1> USE DEF Inv
<1>1. TypeOK'  BY DEF TypeOK, Killed
<1>2. Held' /\ Numbers' /\ Loops'  BY DEF Held, Numbers, Loops, Killed
<1>3. Places'  BY DEF Places, Playing, Killed
<1>4. Noticed'
  <2>1. i \in Seats /\ i >= i  BY DEF TypeOK, Seats
  <2> QED  BY <2>1 DEF Noticed, Killed, KillsWriter
<1> QED  BY <1>1, <1>2, <1>3, <1>4

\* A failing accept() ends the process with everything as it was.
LEMMA AcceptFailsInv ==
    ASSUME Inv, AcceptFails
    PROVE  Inv'
<1> USE DEF Inv
<1>1. TypeOK'  BY DEF TypeOK, AcceptFails
<1>2. Held' /\ Numbers' /\ Loops'  BY DEF Held, Numbers, Loops, AcceptFails
<1>3. Places' /\ Noticed'  BY DEF Places, Playing, Noticed, AcceptFails
<1> QED  BY <1>1, <1>2, <1>3

\* main(): a full table takes as many clients as there are seats away, and
\* leaves no descriptor open.
LEMMA ForkInv ==
    ASSUME Inv, Fork
    PROVE  Inv'
<1> USE DEF Inv
<1>1. /\ pc = "fork" /\ i = 0 /\ i' = i /\ pc' = "accept" /\ Full
      /\ conn' = conn /\ unread' = unread /\ queue' = queue /\ rset' = rset
      /\ testset' = testset /\ interrupted' = interrupted /\ connection_count' = 0
      /\ tables' = tables \cup {Seated}
    BY DEF Fork, Loops, CountAfresh
<1>2. fd' = [s \in Seats |-> NoFd]  BY DEF Fork, CleanedUp
<1>3. peer' = [f \in Fds |-> Nobody]
  <2>1. peer' = [f \in Fds |-> IF \E s \in Seats : fd[s] = f THEN Nobody ELSE peer[f]]
      BY DEF Fork, CleanedUp
  <2>2. \A f \in Fds : (~\E s \in Seats : fd[s] = f) => peer[f] = Nobody  BY DEF Held
  <2> QED  BY <2>1, <2>2
<1>4. Seated = {peer[fd[s]] : s \in Seats}
    BY <1>1 DEF Full, Seated
<1>5. \A c \in Seated : /\ c \in Clients /\ c \notin Playing /\ conn[c] # "away"
                        /\ \A k \in DOMAIN queue : queue[k] # c
    BY <1>1, <1>4, SeatClients DEF Full, Places
<1>6. Cardinality(Seated) = SeatCount
  <2> DEFINE client == [s \in Seats |-> peer[fd[s]]]
  <2>1. client \in Bijection(Seats, Seated)
    <3>1. client \in [Seats -> Seated]  BY <1>4
    <3>2. \A s1, s2 \in Seats : client[s1] = client[s2] => s1 = s2
        BY <1>1, SeatClients DEF Full
    <3>3. \A c \in Seated : \E s \in Seats : client[s] = c  BY <1>4
    <3> QED  BY <3>1, <3>2, <3>3 DEF Bijection, Injection, IsInjective, Surjection
  <2>2. ExistsBijection(Seats, Seated)  BY <2>1 DEF ExistsBijection
  <2> QED  BY <2>2, SeatsFinite, FS_Bijection
<1>7. TypeOK'
  <2>1. fd' \in [Seats -> Fds \cup {NoFd}] /\ peer' \in [Fds -> Clients \cup {Nobody}]
      BY <1>2, <1>3
  <2>2. tables' \subseteq SUBSET Clients  BY <1>1, <1>5 DEF TypeOK
  <2>3. connection_count' \in 0..SeatCount  BY <1>1, LobbyAssumption
  <2> QED  BY <1>1, <2>1, <2>2, <2>3 DEF TypeOK
<1>8. Held'  BY <1>2, <1>3 DEF Held
<1>9. Numbers'  BY <1>1 DEF Numbers
<1>10. Loops'
  <2>1. \A s \in Seats : ~(s < 0)  BY DEF Seats
  <2> QED  BY <2>1, <1>1 DEF Loops
<1>11. Places'
  <2>1. Playing' = Playing \cup Seated  BY <1>1 DEF Playing
  <2>2. \A t \in tables : t \cap Seated = {}  BY <1>5 DEF Playing
  <2>3. \A k \in DOMAIN queue' : conn'[queue'[k]] # "away" /\ queue'[k] \notin Playing'
      BY <1>1, <1>5, <2>1 DEF Places
  <2>4. \A f \in Fds : peer'[f] = Nobody  BY <1>3
  <2>5. \A t \in tables' : (\A c \in t : conn'[c] # "away") /\ Cardinality(t) = SeatCount
    <3>1. \A t \in tables : (\A c \in t : conn[c] # "away") /\ Cardinality(t) = SeatCount
        BY DEF Places
    <3>2. \A c \in Seated : conn[c] # "away"  BY <1>5
    <3> QED  BY <3>1, <3>2, <1>1, <1>6
  <2>6. \A t1, t2 \in tables' : t1 # t2 => t1 \cap t2 = {}
      BY <1>1, <2>2 DEF Places
  <2> QED  BY <1>1, <2>3, <2>4, <2>5, <2>6 DEF Places
<1>12. Noticed'  BY <1>1 DEF Noticed
<1> QED  BY <1>7, <1>8, <1>9, <1>10, <1>11, <1>12

\* A fork that fails frees all the seats; whoever waits or plays keeps the
\* place and the connection, and the freed numbers are those of rset.
LEMMA ForkFailsInv ==
    ASSUME Inv, ForkFails
    PROVE  Inv'
<1> USE DEF Inv
<1>1. /\ pc = "fork" /\ i = 0 /\ i' = i /\ pc' = "accept" /\ Full
      /\ unread' = unread /\ queue' = queue /\ rset' = rset /\ testset' = testset
      /\ interrupted' = interrupted /\ connection_count' = 0 /\ tables' = tables
    BY DEF ForkFails, Loops, CountAfresh
<1>2. fd' = [s \in Seats |-> NoFd]  BY DEF ForkFails, CleanedUp
<1>3. peer' = [f \in Fds |-> Nobody]
  <2>1. peer' = [f \in Fds |-> IF \E s \in Seats : fd[s] = f THEN Nobody ELSE peer[f]]
      BY DEF ForkFails, CleanedUp
  <2>2. \A f \in Fds : (~\E s \in Seats : fd[s] = f) => peer[f] = Nobody  BY DEF Held
  <2> QED  BY <2>1, <2>2
<1>4. Seated = {peer[fd[s]] : s \in Seats}
    BY <1>1 DEF Full, Seated
<1>5. \A c \in Seated : c \notin Playing /\ \A k \in DOMAIN queue : queue[k] # c
    BY <1>1, <1>4, SeatClients DEF Full, Places
<1>6. /\ conn' \in [Clients -> {"away", "open", "fin", "rst", "err", "shut"}]
      /\ \A c \in Clients : c \notin Seated => conn'[c] = conn[c]
    BY DEF ForkFails, TypeOK
<1>7. TypeOK'
  <2>1. fd' \in [Seats -> Fds \cup {NoFd}] /\ peer' \in [Fds -> Clients \cup {Nobody}]
      BY <1>2, <1>3
  <2>2. connection_count' \in 0..SeatCount  BY <1>1, LobbyAssumption
  <2> QED  BY <1>1, <1>6, <2>1, <2>2 DEF TypeOK
<1>8. Held'  BY <1>2, <1>3 DEF Held
<1>9. Numbers'  BY <1>1 DEF Numbers
<1>10. Loops'
  <2>1. \A s \in Seats : ~(s < 0)  BY DEF Seats
  <2> QED  BY <2>1, <1>1 DEF Loops
<1>11. Places'
  <2>1. Playing' = Playing  BY <1>1 DEF Playing
  <2>2. \A k \in DOMAIN queue : queue[k] \in Clients /\ queue[k] \notin Seated
      BY <1>5 DEF TypeOK
  <2>3. \A k \in DOMAIN queue' : conn'[queue'[k]] # "away" /\ queue'[k] \notin Playing'
      BY <1>1, <1>6, <2>1, <2>2 DEF Places
  <2>4. \A f \in Fds : peer'[f] = Nobody  BY <1>3
  <2>5. \A t \in tables : \A c \in t : c \in Clients /\ c \notin Seated
      BY <1>5 DEF TypeOK, Playing
  <2>6. \A t \in tables' : \A c \in t : conn'[c] # "away"
      BY <1>1, <1>6, <2>5 DEF Places
  <2> QED  BY <1>1, <2>3, <2>4, <2>6 DEF Places
<1>12. Noticed'  BY <1>1 DEF Noticed
<1> QED  BY <1>7, <1>8, <1>9, <1>10, <1>11, <1>12

-----------------------------------------------------------------------------
(* The theorems                                                            *)

\* Every step of the lobby keeps the invariant.
LEMMA LobbyNext == Inv /\ [Next]_vars => Inv'
<1> SUFFICES ASSUME Inv, [Next]_vars PROVE Inv'
    OBVIOUS
<1>1. CASE AcceptSeat  BY <1>1, AcceptSeatInv
<1>2. CASE KeepSeat  BY <1>2, KeepSeatInv
<1>3. CASE Select  BY <1>3, SelectInv
<1>4. CASE FreeSeat  BY <1>4, FreeSeatInv
<1>5. CASE StaySeated  BY <1>5, StaySeatedInv
<1>6. CASE SendLine  BY <1>6, SendLineInv
<1>7. CASE Killed  BY <1>7, KilledInv
<1>8. CASE Fork  BY <1>8, ForkInv
<1>9. CASE \E c \in Clients : Connect(c) \/ ReadLines(c) \/ Leave(c)
    BY <1>9, ConnectInv, ReadLinesInv, LeaveInv
<1>10. CASE \E t \in tables : TableEnds(t)  BY <1>10, TableEndsInv
<1>11. CASE AcceptFails  BY <1>11, AcceptFailsInv
<1>12. CASE ForkFails  BY <1>12, ForkFailsInv
<1>13. CASE UNCHANGED vars
    BY <1>13 DEF vars, Inv, TypeOK, Held, Numbers, Loops, Full, Places, Playing, Noticed
<1> QED
    BY <1>1, <1>2, <1>3, <1>4, <1>5, <1>6, <1>7, <1>8, <1>9, <1>10, <1>11, <1>12,
       <1>13 DEF Next, Server

\* The invariant holds in every state the lobby reaches.
THEOREM LobbyInvariant == Spec => []Inv
<1>1. Init => Inv  BY LobbyInit
<1>2. Inv /\ [Next]_vars => Inv'  BY LobbyNext
<1> QED  BY <1>1, <1>2, PTL DEF Spec

\* TypeOK: connection_count stays within the seats, and the descriptors
\* within the numbers the listening process can have open.
THEOREM LobbyTypes == Spec => []TypeOK
<1>1. Inv => TypeOK  BY DEF Inv
<1> QED  BY <1>1, LobbyInvariant, PTL

\* RsetIsSeated: although FD_CLR is never called, select() is only ever
\* given the descriptors of the seats, for any number of seats and clients:
\* accept() returns the lowest free number, so that every seat that was
\* emptied is filled under a number rset already has.
THEOREM RsetNeverStale == Spec => []RsetIsSeated
<1>1. Inv => RsetIsSeated
  <2> SUFFICES ASSUME Inv, pc = "select" PROVE rset = {fd[s] : s \in Seats}
      BY DEF RsetIsSeated
  <2>1. Full /\ rset = 4..(3 + SeatCount)  BY DEF Inv, Loops, Numbers
  <2>2. \A s \in Seats : fd[s] \in rset  BY <2>1 DEF Inv, Held, Full
  <2>3. \A s1, s2 \in Seats : fd[s1] = fd[s2] => s1 = s2
      BY <2>1 DEF Inv, Held, Full
  <2>4. fd \in [Seats -> rset]  BY <2>2 DEF Inv, TypeOK
  <2>5. fd \in Injection(Seats, rset)  BY <2>3, <2>4 DEF Injection, IsInjective
  <2>6. fd \in Surjection(Seats, rset)
      BY <2>1, <2>5, SeatsFinite, FS_Injection
  <2>7. \A f \in rset : \E s \in Seats : fd[s] = f  BY <2>6 DEF Surjection
  <2> QED  BY <2>2, <2>7
<1> QED  BY <1>1, LobbyInvariant, PTL

\* OnePlace: a client waits, sits or plays, and in one place only, whatever
\* the order in which clients come and go and tables end.
THEOREM LobbyOnePlace == Spec => []OnePlace
<1>1. Inv => OnePlace
  <2> SUFFICES ASSUME Inv PROVE OnePlace
      OBVIOUS
  <2>1. \A s1, s2 \in Seats : (fd[s1] = fd[s2] /\ fd[s1] # NoFd) => s1 = s2
      BY DEF Inv, Held
  <2>2. ASSUME NEW c \in Clients
        PROVE  Cardinality({k \in DOMAIN queue : queue[k] = c}) <= 1
    <3> DEFINE K == {k \in DOMAIN queue : queue[k] = c}
    <3>1. \A k1, k2 \in K : k1 = k2  BY DEF Inv, Places
    <3>2. CASE K = {}
      <4>1. Cardinality(K) = 0  BY <3>2, FS_EmptySet
      <4> QED  BY <4>1
    <3>3. CASE K # {}
      <4>1. PICK k \in K : TRUE  BY <3>3
      <4>2. K = {k}  BY <3>1, <4>1
      <4>3. Cardinality(K) = 1  BY <4>2, FS_Singleton
      <4> QED  BY <4>3
    <3> QED  BY <3>2, <3>3
  <2>3. \A c \in Seated : c \notin Playing /\ \A k \in DOMAIN queue : queue[k] # c
    <3>1. \A c \in Seated : \E s \in Seats : fd[s] # NoFd /\ c = peer[fd[s]]
        BY DEF Seated
    <3>2. \A s \in Seats : fd[s] # NoFd => fd[s] \in Fds /\ peer[fd[s]] # Nobody
        BY SeatClients DEF Inv
    <3> QED  BY <3>1, <3>2 DEF Inv, Places
  <2>4. \A c \in Playing : \A k \in DOMAIN queue : queue[k] # c
      BY DEF Inv, Places
  <2>5. \A t \in tables : Cardinality(t) = SeatCount  BY DEF Inv, Places
  <2> QED  BY <2>1, <2>2, <2>3, <2>4, <2>5 DEF OnePlace
<1> QED  BY <1>1, LobbyInvariant, PTL

\* OnlyResetsKill: a client that merely closes its connection never ends the
\* listening process, whenever it does so and however many others do.
THEOREM ClosingNeverKills == Spec => []OnlyResetsKill
<1>1. Inv => OnlyResetsKill  BY DEF Inv, Noticed, OnlyResetsKill
<1> QED  BY <1>1, LobbyInvariant, PTL
=============================================================================

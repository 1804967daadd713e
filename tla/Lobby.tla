------------------------------- MODULE Lobby -------------------------------
(***************************************************************************)
(* The listening process of the server: connection_establish() fills the   *)
(* four entries of pre_players with connections, notices clients that      *)
(* leave, sends "start!" or "wait...", and main() forks a child for every  *)
(* full table.                                                             *)
(*                                                                         *)
(* The sockets belong to the kernel and are modelled by what the calls of  *)
(* the server see.  conn[c] is the connection of client c:                 *)
(*   away    none                                                          *)
(*   open    both ends are there (accepted or waiting to be)               *)
(*   fin     closed by the client: read gives 0                            *)
(*   rst     reset (the client went with lines unread): the next call on   *)
(*           it fails with ECONNRESET                                      *)
(*   err     reset, and a read has reported it with -1                     *)
(*   shut    reset, and a write has failed or has been answered by it      *)
(* On err and shut, read gives 0 and write ends the process (SIGPIPE).     *)
(***************************************************************************)
EXTENDS Integers, Sequences, FiniteSets, FiniteSetsExt

CONSTANTS Clients,
          SeatCount      \* entries of pre_players: 4

Nobody == "nobody"

ASSUME LobbyAssumption ==
    IsFiniteSet(Clients) /\ Nobody \notin Clients /\ SeatCount \in Nat \ {0}

Seats == 0..(SeatCount - 1)
NoFd == -1

\* listenfd is 3; connections get the numbers above it.
Fds == 4..(4 + 2 * SeatCount)

VARIABLES
    conn,         \* conn[c]: see above
    unread,       \* unread[c]: a line was sent that the client has not read
    queue,        \* connections the kernel has completed, not yet accepted
    fd,           \* fd[s]: pre_players[s]->fd
    peer,         \* peer[f]: the client at the other end of an open fd
    rset,         \* fds ever put into the set for select
    testset,      \* what the last select left of it
    i,            \* the seat a loop is at
    connection_count,
    interrupted,  \* SIGCHLD came while select was waiting
    tables,       \* clients handed to children that still run
    pc

vars == <<conn, unread, queue, fd, peer, rset, testset, i, connection_count,
          interrupted, tables, pc>>

Seated == {peer[fd[s]] : s \in {x \in Seats : fd[x] # NoFd}}
Playing == UNION tables

Init ==
    /\ conn = [c \in Clients |-> "away"]
    /\ unread = [c \in Clients |-> FALSE]
    /\ queue = <<>>
    /\ fd = [s \in Seats |-> NoFd]
    /\ peer = [f \in Fds |-> Nobody]
    /\ rset = {}
    /\ testset = {}
    /\ i = 0
    /\ connection_count = 0
    /\ interrupted = FALSE
    /\ tables = {}
    /\ pc = "accept"

-----------------------------------------------------------------------------
(* Clients and tables                                                      *)

Connect(c) ==
    /\ conn[c] = "away"
    /\ conn' = [conn EXCEPT ![c] = "open"]
    /\ unread' = [unread EXCEPT ![c] = FALSE]
    /\ queue' = Append(queue, c)
    /\ UNCHANGED <<fd, peer, rset, testset, i, connection_count, interrupted, tables, pc>>

\* The client's connection_establish() takes the lines sent to it.
ReadLines(c) ==
    /\ conn[c] = "open" /\ unread[c]
    /\ unread' = [unread EXCEPT ![c] = FALSE]
    /\ UNCHANGED <<conn, queue, fd, peer, rset, testset, i, connection_count, interrupted,
                   tables, pc>>

\* Ctrl+D, or the process is killed.  Closing a socket with unread lines
\* resets the connection.
Leave(c) ==
    /\ conn[c] = "open" /\ c \notin Playing
    /\ conn' = [conn EXCEPT ![c] = IF unread[c] THEN "rst" ELSE "fin"]
    /\ unread' = [unread EXCEPT ![c] = FALSE]
    /\ UNCHANGED <<queue, fd, peer, rset, testset, i, connection_count, interrupted,
                   tables, pc>>

\* A child exits: its connections are closed, and sig_chld() runs in the
\* listening process.  accept and read are restarted, select is not.
TableEnds(t) ==
    /\ tables' = tables \ {t}
    /\ conn' = [c \in Clients |-> IF c \in t THEN "away" ELSE conn[c]]
    /\ interrupted' = (interrupted \/ pc = "select")
    /\ UNCHANGED <<unread, queue, fd, peer, rset, testset, i, connection_count, pc>>

-----------------------------------------------------------------------------
(* connection_establish()                                                  *)

LowestFree == Min({f \in Fds : peer[f] = Nobody})

\* What a write to a connection leaves it in, unless it ends the process.
Written(state) == IF state \in {"fin", "rst"} THEN "shut" ELSE state
KillsWriter(state) == state \in {"err", "shut"}

NextSeat(after) ==
    IF i + 1 = SeatCount THEN i' = 0 /\ pc' = after ELSE i' = i + 1 /\ UNCHANGED pc

\* accept() for an empty seat; the client is sent its "(join)" line.
AcceptSeat ==
    LET c == Head(queue)
    IN  /\ pc = "accept" /\ fd[i] = NoFd
        /\ queue # <<>>
        /\ queue' = Tail(queue)
        /\ fd' = [fd EXCEPT ![i] = LowestFree]
        /\ peer' = [peer EXCEPT ![LowestFree] = c]
        /\ rset' = rset \cup {LowestFree}
        /\ conn' = [conn EXCEPT ![c] = Written(@)]
        /\ unread' = [unread EXCEPT ![c] = (conn[c] = "open")]
        /\ connection_count' = connection_count + 1
        /\ NextSeat("select")
        /\ UNCHANGED <<testset, interrupted, tables>>

\* accept() fails: the process ends.  (EINTR, after which the loop would go
\* on, does not happen, since sig_chld() is installed to restart accept.)
AcceptFails ==
    /\ pc = "accept" /\ fd[i] = NoFd
    /\ pc' = "exited"
    /\ UNCHANGED <<conn, unread, queue, fd, peer, rset, testset, i, connection_count,
                   interrupted, tables>>

KeepSeat ==
    /\ pc = "accept" /\ fd[i] # NoFd
    /\ connection_count' = connection_count + 1
    /\ NextSeat("select")
    /\ UNCHANGED <<conn, unread, queue, fd, peer, rset, testset, interrupted, tables>>

\* select() with a timeout: the readable fds.  When it fails, because of a
\* signal or of a closed fd in the set, it leaves the set as it was.
Select ==
    /\ pc = "select"
    /\ testset' = IF interrupted \/ \E f \in rset : peer[f] = Nobody THEN rset
                  ELSE {f \in rset : conn[peer[f]] # "open"}
    /\ interrupted' = FALSE
    /\ pc' = "check"
    /\ UNCHANGED <<conn, unread, queue, fd, peer, rset, i, connection_count, tables>>

\* After the loop over the seats: everybody is there, or not.
AfterChecks == IF connection_count' = SeatCount THEN "start" ELSE "wait"

\* A variant in which the end of a connection goes unnoticed.
LeaverUnnoticed(s) == FALSE
\* read() == 0: the client has left.
HasLeft(s) == fd[s] \in testset /\ conn[peer[fd[s]]] \in {"fin", "err", "shut"}

\* close(), free() and player_init(); the fd stays in rset.
FreeSeat ==
    /\ pc = "check" /\ HasLeft(i)
    /\ conn' = [conn EXCEPT ![peer[fd[i]]] = "away"]
    /\ peer' = [peer EXCEPT ![fd[i]] = Nobody]
    /\ fd' = [fd EXCEPT ![i] = NoFd]
    /\ connection_count' = connection_count - 1
    /\ NextSeat(AfterChecks)
    /\ UNCHANGED <<unread, queue, rset, testset, interrupted, tables>>

\* The fd is not in testset, or read() gives -1.  A read from a client that
\* is there waits: clients send nothing before the game.
StaySeated ==
    /\ pc = "check" /\ ~HasLeft(i)
    /\ fd[i] \in testset => conn[peer[fd[i]]] # "open"
    /\ conn' = [c \in Clients |->
                  IF fd[i] \in testset /\ c = peer[fd[i]] /\ conn[c] = "rst"
                  THEN "err" ELSE conn[c]]
    /\ UNCHANGED connection_count
    /\ NextSeat(AfterChecks)
    /\ UNCHANGED <<unread, queue, fd, peer, rset, testset, interrupted, tables>>

\* "start!" or "wait..." to the seat's client; a write to fd -1 does nothing.
AfterWrites == IF pc = "start" THEN "fork" ELSE "accept"

\* A variant in which the count is not taken anew in every pass.
CountKept == connection_count
\* connection_count at the beginning of a pass.
CountAfresh == 0

SendLine ==
    /\ pc \in {"start", "wait"}
    /\ fd[i] # NoFd => ~KillsWriter(conn[peer[fd[i]]])
    /\ IF fd[i] # NoFd
       THEN LET c == peer[fd[i]]
            IN  /\ conn' = [conn EXCEPT ![c] = Written(@)]
                /\ unread' = [unread EXCEPT ![c] = (conn[c] = "open")]
       ELSE UNCHANGED <<conn, unread>>
    /\ NextSeat(AfterWrites)
    /\ connection_count' = IF pc' = "accept" THEN CountAfresh ELSE connection_count
    /\ UNCHANGED <<queue, fd, peer, rset, testset, interrupted, tables>>

Killed ==
    /\ pc \in {"start", "wait"}
    /\ fd[i] # NoFd /\ KillsWriter(conn[peer[fd[i]]])
    /\ pc' = "killed"
    /\ UNCHANGED <<conn, unread, queue, fd, peer, rset, testset, i, connection_count,
                   interrupted, tables>>

\* Variants of main(): the listening process keeps the fds open, or does not
\* clean up at all.
KeptOpen == [fd |-> [s \in Seats |-> NoFd], peer |-> peer]
NotCleanedUp == [fd |-> fd, peer |-> peer]
\* main(): close() and player_init() for every seat.
CleanedUp ==
    [fd   |-> [s \in Seats |-> NoFd],
     peer |-> [f \in Fds |-> IF \E s \in Seats : fd[s] = f THEN Nobody ELSE peer[f]]]

\* main(): the child takes the connections over.
Fork ==
    /\ pc = "fork"
    /\ tables' = tables \cup {Seated}
    /\ peer' = CleanedUp.peer
    /\ fd' = CleanedUp.fd
    /\ connection_count' = CountAfresh
    /\ pc' = "accept"
    /\ UNCHANGED <<conn, unread, queue, rset, testset, i, interrupted>>

\* fork() gives -1, which main() does not tell from a child's number: the
\* clients that were told to start lose their connections.
ForkFails ==
    /\ pc = "fork"
    /\ conn' = [c \in Clients |-> IF c \in Seated THEN "away" ELSE conn[c]]
    /\ peer' = CleanedUp.peer
    /\ fd' = CleanedUp.fd
    /\ connection_count' = CountAfresh
    /\ pc' = "accept"
    /\ UNCHANGED <<unread, queue, rset, testset, i, interrupted, tables>>

Server ==
    \/ AcceptSeat \/ KeepSeat \/ Select \/ FreeSeat \/ StaySeated
    \/ SendLine \/ Killed \/ Fork

Next ==
    \/ Server
    \/ AcceptFails \/ ForkFails
    \/ \E c \in Clients : Connect(c) \/ ReadLines(c) \/ Leave(c)
    \/ \E t \in tables : TableEnds(t)

Spec == Init /\ [][Next]_vars

\* The listening process goes on whenever no call of it has to wait; its
\* calls need not fail.
FairSpec == Spec /\ WF_vars(Server)

-----------------------------------------------------------------------------
(* Properties                                                              *)

\* connection_count never exceeds the seats, descriptors stay within the
\* numbers the process can have open, and testset within rset.
TypeOK ==
    /\ conn \in [Clients -> {"away", "open", "fin", "rst", "err", "shut"}]
    /\ unread \in [Clients -> BOOLEAN]
    /\ queue \in Seq(Clients)
    /\ fd \in [Seats -> Fds \cup {NoFd}]
    /\ peer \in [Fds -> Clients \cup {Nobody}]
    /\ rset \subseteq Fds /\ testset \subseteq rset
    /\ i \in Seats
    /\ connection_count \in 0..SeatCount
    /\ interrupted \in BOOLEAN
    /\ tables \subseteq SUBSET Clients
    /\ pc \in {"accept", "select", "check", "start", "wait", "fork", "killed", "exited"}

\* FD_CLR is never called, yet select never sees the fd of a client that
\* has left or is at a table: its number is taken again before.
RsetIsSeated ==
    pc = "select" => rset = {fd[s] : s \in Seats}

\* A client waits, sits in the lobby or plays, in one place; a table has
\* as many different players as there are seats.
OnePlace ==
    /\ \A s1, s2 \in Seats : (fd[s1] = fd[s2] /\ fd[s1] # NoFd) => s1 = s2
    /\ \A c \in Clients : Cardinality({k \in DOMAIN queue : queue[k] = c}) <= 1
    /\ Seated \cap Playing = {}
    /\ \A c \in Seated \cup Playing : \A k \in DOMAIN queue : queue[k] # c
    /\ \A t \in tables : Cardinality(t) = SeatCount

\* Clients that close their connection never end the listening process,
\* whenever they do it: between a line that goes unanswered and the next
\* one there is always a read that sees them gone.  Only a connection whose
\* reset a read has reported in vain does.
OnlyResetsKill ==
    pc = "killed" => conn[peer[fd[i]]] = "err"

\* "wait until 4 stable connection is present": no table starts with a
\* connection on which a read has failed.
StableStart ==
    pc = "start" => \A s \in Seats : conn[peer[fd[s]]] # "err"

\* "wait until 4 stable connection is present": and no longer, if all the
\* clients stay.
FourStableStart ==
    pc = "select" ~> \/ pc \in {"fork", "killed"}
                     \/ \E c \in Clients : conn[c] \notin {"away", "open"}
=============================================================================

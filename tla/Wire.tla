-------------------------------- MODULE Wire --------------------------------
(***************************************************************************)
(* The lines that a table and its clients exchange, and the vote on        *)
(* another round that they carry.                                          *)
(*                                                                         *)
(* Both programs read with readline(), which keeps what a read() brought   *)
(* beyond the first line in one static buffer, whatever descriptor it came *)
(* from, and serves the next call from there, whatever descriptor that one *)
(* asks for.  A connection is a stream: a read() of it may bring any       *)
(* number of the lines under way.  A read() of the terminal brings the one *)
(* line that was typed.                                                    *)
(*                                                                         *)
(* Of the play the model keeps what matters to the lines: the server tells *)
(* a player something, or asks something after whose answer the client is  *)
(* back in its select loop (a claim declined, a win, a discard).           *)
(***************************************************************************)
EXTENDS Integers, Sequences, FiniteSets

CONSTANTS PlayerCount,    \* 4 in the code
          MaxExchanges,   \* bound: how much of the play is considered
          Restless        \* bound: players who may leave, or type unasked

Players == 0..(PlayerCount - 1)

ASSUME WireAssumption ==
    PlayerCount \in Nat \ {0} /\ MaxExchanges \in Nat /\ Restless \subseteq Players

VARIABLES
    up, down,     \* up[p], down[p]: lines under way from and to client p
    sbuf,         \* readline()'s buffer in the server
    phase,        \* how far the table is
    wants,        \* what the server does next in that phase
    at,           \* the player it is doing it with
    left,         \* exchanges still to come in the play
    temprset,     \* players whose vote is awaited
    testset,      \* players that select() found ready
    newgame_count,
    cbuf,         \* cbuf[p]: readline()'s buffer in client p
    typed,        \* typed[p]: the line waiting in p's terminal, if any
    cpc,          \* where client p is
    vote          \* vote[p]: what p answered about another round

server == <<sbuf, phase, wants, at, left, temprset, testset, newgame_count>>
vars == <<up, down, server, cbuf, typed, cpc, vote>>

\* Clients that have closed their connection, and those that are done.
Closed == {p \in Players : cpc[p] \in {"gone", "stopped"}}
Done == {p \in Players : cpc[p] \in {"gone", "stopped", "again"}}
Asked == {p \in Players : cpc[p] \in {"prompt", "vote", "choose"}}

Init ==
    /\ up = [p \in Players |-> <<>>]
    /\ down = [p \in Players |-> <<>>]
    /\ sbuf = <<>>
    /\ phase = "join" /\ wants = "write" /\ at = 0
    /\ left = MaxExchanges
    /\ temprset = {} /\ testset = {}
    /\ newgame_count = 0
    /\ cbuf = [p \in Players |-> <<>>]
    /\ typed = [p \in Players |-> <<>>]
    /\ cpc = [p \in Players |-> "lobby"]
    /\ vote = [p \in Players |-> "none"]

-----------------------------------------------------------------------------
(* readline()                                                              *)

\* The ways a call can go: a line from the buffer, or else a read() of any
\* number of the lines under way.  There is none while it has to wait.
readline(buf, wire) ==
    IF buf # <<>>
    THEN {[line |-> Head(buf), buf |-> Tail(buf), wire |-> wire]}
    ELSE {[line |-> Head(wire), buf |-> SubSeq(wire, 2, k),
           wire |-> SubSeq(wire, k + 1, Len(wire))] : k \in 1..Len(wire)}

-----------------------------------------------------------------------------
(* The server                                                              *)

Send(p, text) == down' = [down EXCEPT ![p] = Append(@, text)]

\* readline(players[at]->fd) has gone as r.
Receive(r) == sbuf' = r.buf /\ up' = [up EXCEPT ![at] = r.wire]

\* A variant that goes one player too far.
BeyondLast == at = PlayerCount
\* The loops over the players end with this one.
AtLast == at + 1 = PlayerCount

\* connection_establish(): every client is greeted when it is accepted, and
\* once all are there they get "start!".  No answer is awaited.
Join ==
    /\ phase = "join"
    /\ Send(at, "join")
    /\ IF AtLast THEN phase' = "start" /\ at' = 0
       ELSE at' = at + 1 /\ UNCHANGED phase
    /\ UNCHANGED <<up, sbuf, wants, left, temprset, testset, newgame_count, cbuf, typed,
                   cpc, vote>>

Start ==
    /\ phase = "start"
    /\ down' = [p \in Players |-> Append(down[p], "start")]
    /\ phase' = "id"
    /\ UNCHANGED <<up, sbuf, wants, at, left, temprset, testset, newgame_count, cbuf, typed,
                   cpc, vote>>

\* A variant that goes by the majority.
MajorityWants == 2 * newgame_count > PlayerCount
\* game_set_display(): newgame_count == 4
AllWant == newgame_count = PlayerCount

\* What everybody is told, one after the other, in these phases.
Message ==
    [id |-> "id", ask |-> "game", tell |-> IF AllWant THEN "start" ELSE "stop"]

\* write_message_wait_ack(), the first half, with the next player.
Write ==
    /\ phase \in {"id", "ask", "tell"} /\ wants = "write"
    /\ Send(at, Message[phase])
    /\ wants' = "ack"
    /\ UNCHANGED <<up, sbuf, phase, at, left, temprset, testset, newgame_count, cbuf, typed,
                   cpc, vote>>

\* The play: some player is told or asked something.
Exchange(p) ==
    /\ phase = "play" /\ wants = "write" /\ left > 0
    /\ left' = left - 1
    /\ at' = p
    /\ \/ Send(p, "notice") /\ wants' = "ack"
       \/ Send(p, "question") /\ wants' = "ack then answer"
       \/ Send(p, "turn") /\ wants' = "ack then answer"
    /\ UNCHANGED <<up, sbuf, phase, temprset, testset, newgame_count, cbuf, typed, cpc,
                   vote>>

\* The round is over.
GameSet ==
    /\ phase = "play" /\ wants = "write"
    /\ phase' = "ask" /\ at' = 0
    /\ UNCHANGED <<up, down, sbuf, wants, left, temprset, testset, newgame_count, cbuf,
                   typed, cpc, vote>>

\* Where the server goes when its last message has been acknowledged.
After == [id |-> "play", ask |-> "count", tell |-> "over"]
Acknowledged ==
    IF phase = "play"
    THEN /\ wants' = IF wants = "ack" THEN "write" ELSE "answer"
         /\ UNCHANGED <<phase, at, temprset>>
    ELSE /\ IF AtLast THEN phase' = After[phase] /\ at' = 0
            ELSE at' = at + 1 /\ UNCHANGED phase
         /\ wants' = IF phase' = "count" THEN "select" ELSE "write"
         /\ temprset' = IF phase' = "count" THEN Players ELSE temprset

\* The second half of write_message_wait_ack(): anything but an ACK ends
\* the process.
WaitAck ==
    /\ wants \in {"ack", "ack then answer"}
    /\ \E r \in readline(sbuf, up[at]) :
          /\ Receive(r)
          /\ IF r.line = "ACK" THEN Acknowledged
             ELSE wants' = "exit" /\ UNCHANGED <<phase, at, temprset>>
    /\ UNCHANGED <<down, left, testset, newgame_count, cbuf, typed, cpc, vote>>

\* read_and_ack() of an answer given during the play.
ReadAnswer ==
    /\ wants = "answer"
    /\ \E r \in readline(sbuf, up[at]) : Receive(r)
    /\ Send(at, "ACK")
    /\ wants' = "write"
    /\ UNCHANGED <<phase, at, left, temprset, testset, newgame_count, cbuf, typed, cpc,
                   vote>>

\* select() on the players whose vote is awaited.  It knows of what is
\* under way, not of what readline() has kept.
Select ==
    LET ready == {p \in temprset : up[p] # <<>> \/ p \in Closed}
    IN  /\ phase = "count" /\ wants = "select"
        /\ ready # {}
        /\ testset' = ready
        /\ at' = 0
        /\ wants' = "collect"
        /\ UNCHANGED <<up, down, sbuf, phase, left, temprset, newgame_count, cbuf, typed,
                       cpc, vote>>

\* The four tests of FD_ISSET, then select() again or the verdict.
Collected(awaited) ==
    IF ~AtLast THEN at' = at + 1 /\ UNCHANGED <<phase, wants>>
    ELSE /\ at' = 0
         /\ IF awaited = {} THEN phase' = "tell" /\ wants' = "write"
            ELSE wants' = "select" /\ UNCHANGED phase

\* A variant that forgets response_count++ and FD_CLR.
StillAwaited(p) == temprset
\* FD_CLR(players[p]->fd, &temprset), with which response_count goes up: it
\* is 4 when the set is empty.  And what an answer adds to newgame_count.
Cleared(p) == temprset \ {p}
Counted(text) == IF text = "YES" THEN newgame_count + 1 ELSE newgame_count

Collect ==
    /\ phase = "count" /\ wants = "collect" /\ at \in testset
    /\ \E r \in readline(sbuf, up[at]) :
          Receive(r) /\ newgame_count' = Counted(r.line)
    /\ Send(at, "ACK")
    /\ temprset' = Cleared(at)
    /\ Collected(Cleared(at))
    /\ UNCHANGED <<left, testset, cbuf, typed, cpc, vote>>

NotReady ==
    /\ phase = "count" /\ wants = "collect" /\ at \notin testset
    /\ Collected(temprset)
    /\ UNCHANGED <<up, down, sbuf, left, temprset, testset, newgame_count, cbuf, typed,
                   cpc, vote>>

\* "Player has disconnected, exiting...": readline() finds the connection
\* closed (or reset, and then what was under way is lost).
ReadEnd ==
    /\ \/ wants \in {"ack", "ack then answer", "answer"}
       \/ wants = "collect" /\ at \in testset
    /\ sbuf = <<>>
    /\ cpc[at] = "gone" \/ (cpc[at] = "stopped" /\ up[at] = <<>>)
    /\ wants' = "exit"
    /\ UNCHANGED <<up, down, sbuf, phase, at, left, temprset, testset, newgame_count, cbuf,
                   typed, cpc, vote>>

Server ==
    \/ Join \/ Start \/ Write \/ GameSet \/ WaitAck \/ ReadAnswer
    \/ Select \/ Collect \/ NotReady \/ ReadEnd
    \/ \E p \in Players : Exchange(p)

-----------------------------------------------------------------------------
(* The clients                                                             *)

Reply(p, text) == up' = [up EXCEPT ![p] = Append(@, text)]
Goto(p, place) == cpc' = [cpc EXCEPT ![p] = place]

\* readline(fd) has gone as r in client p.
Took(p, r) ==
    /\ cbuf' = [cbuf EXCEPT ![p] = r.buf]
    /\ down' = [down EXCEPT ![p] = r.wire]

\* select() in client p finds the connection readable.
FdReady(p) == down[p] # <<>> \/ wants = "exit"

\* The client's connection_establish(): lines other than "start!" only let
\* it wait on.
LobbyLine(p) ==
    /\ cpc[p] = "lobby" /\ FdReady(p)
    /\ \E r \in readline(cbuf[p], down[p]) :
          /\ Took(p, r)
          /\ IF r.line = "start" THEN Goto(p, "id") ELSE UNCHANGED cpc
    /\ UNCHANGED <<up, server, typed, vote>>

\* What is typed there is taken by fgets() and forgotten.
LobbyTyped(p) ==
    /\ cpc[p] = "lobby" /\ typed[p] # <<>>
    /\ typed' = [typed EXCEPT ![p] = <<>>]
    /\ UNCHANGED <<up, down, server, cbuf, cpc, vote>>

\* receive_id() and get_decks(), whose lines all go the same way.
ReceiveId(p) ==
    /\ cpc[p] = "id"
    /\ \E r \in readline(cbuf[p], down[p]) : Took(p, r)
    /\ Reply(p, "ACK")
    /\ Goto(p, "loop")
    /\ UNCHANGED <<server, typed, vote>>

\* game(): what a line received in the select loop leads to.
Reaction(text) ==
    CASE text = "question" -> "prompt"
      [] text = "turn"     -> "choose"
      [] text = "game"     -> "vote"
      [] OTHER             -> "loop"

LoopLine(p) ==
    /\ cpc[p] = "loop" /\ FdReady(p)
    /\ \E r \in readline(cbuf[p], down[p]) :
          Took(p, r) /\ Goto(p, Reaction(r.line))
    /\ Reply(p, "ACK")
    /\ UNCHANGED <<server, typed, vote>>

\* readline(STDIN_FILENO) has gone as r.
TookTyped(p, r) ==
    /\ cbuf' = [cbuf EXCEPT ![p] = r.buf]
    /\ typed' = [typed EXCEPT ![p] = r.wire]

\* Something was typed in the select loop: readline() into garbage.
LoopTyped(p) ==
    /\ cpc[p] = "loop" /\ typed[p] # <<>>
    /\ \E r \in readline(cbuf[p], typed[p]) : TookTyped(p, r)
    /\ UNCHANGED <<up, down, server, cpc, vote>>

\* The prompts: Y, n, or to be asked again.
Answer ==
    [Y |-> "YES", n |-> "NO"]

Prompted(p) ==
    /\ cpc[p] \in {"prompt", "vote"}
    /\ \E r \in readline(cbuf[p], typed[p]) :
          /\ TookTyped(p, r)
          /\ IF r.line \in DOMAIN Answer
             THEN /\ Reply(p, Answer[r.line])
                  /\ Goto(p, IF cpc[p] = "vote" THEN "voted" ELSE "sent")
                  /\ vote' = IF cpc[p] = "vote"
                             THEN [vote EXCEPT ![p] = Answer[r.line]] ELSE vote
             ELSE UNCHANGED <<up, cpc, vote>>
    /\ UNCHANGED <<down, server>>

\* client_discard(): scanf() takes the index, with a buffer of its own.  A
\* line that is no number it leaves where it is, and is called again at once.
Chosen(p) ==
    /\ cpc[p] = "choose" /\ typed[p] = <<"0">>
    /\ typed' = [typed EXCEPT ![p] = <<>>]
    /\ Reply(p, "0")
    /\ Goto(p, "sent")
    /\ UNCHANGED <<down, server, cbuf, vote>>

\* The client's write_message_wait_ack(), after the write: "Unexpected ACK
\* message" ends it.
Approval(p) ==
    /\ cpc[p] \in {"sent", "voted"}
    /\ \E r \in readline(cbuf[p], down[p]) :
          /\ Took(p, r)
          /\ Goto(p, IF r.line # "ACK" THEN "gone"
                     ELSE IF cpc[p] = "sent" THEN "loop" ELSE "verdict")
    /\ UNCHANGED <<up, server, typed, vote>>

\* client_game_set(): "start!" or not.
Outcome(text) == IF text = "start" THEN "again" ELSE "stopped"

Verdict(p) ==
    /\ cpc[p] = "verdict"
    /\ \E r \in readline(cbuf[p], down[p]) :
          Took(p, r) /\ Goto(p, Outcome(r.line))
    /\ Reply(p, "ACK")
    /\ UNCHANGED <<server, typed, vote>>

\* "Server exited prematurely."
ServerGone(p) ==
    /\ cpc[p] \in {"lobby", "id", "loop", "sent", "voted", "verdict"}
    /\ wants = "exit" /\ cbuf[p] = <<>>
    /\ Goto(p, "gone")
    /\ UNCHANGED <<up, down, server, cbuf, typed, vote>>

Client(p) ==
    \/ LobbyLine(p) \/ ReceiveId(p) \/ LoopLine(p) \/ Prompted(p)
    \/ Chosen(p) \/ Approval(p) \/ Verdict(p) \/ ServerGone(p)

-----------------------------------------------------------------------------
(* The people                                                              *)

\* At most one line waits in a terminal.  An index is typed only when one
\* is asked for.
Type(p) ==
    /\ p \in Asked \cup Restless
    /\ p \notin Done /\ typed[p] = <<>>
    /\ \E t \in DOMAIN Answer \cup (IF cpc[p] = "choose" THEN {"0"} ELSE {}) :
          typed' = [typed EXCEPT ![p] = <<t>>]
    /\ UNCHANGED <<up, down, server, cbuf, cpc, vote>>

\* Ctrl-D at a prompt, or the client is killed.
Leave(p) ==
    /\ p \in Restless \ Done
    /\ Goto(p, "gone")
    /\ UNCHANGED <<up, down, server, cbuf, typed, vote>>

Next ==
    \/ Server
    \/ \E p \in Players :
          Client(p) \/ LobbyTyped(p) \/ LoopTyped(p) \/ Type(p) \/ Leave(p)

\* The programs never idle while they can go on (a turn of the client's
\* loop looks at the connection and at the terminal), and who is asked
\* answers in the end.
Fairness ==
    /\ WF_vars(Server)
    /\ \A p \in Players :
          /\ WF_vars(Client(p))
          /\ WF_vars(LobbyTyped(p) \/ LoopTyped(p))
          /\ WF_vars(p \in Asked /\ Type(p))

Spec == Init /\ [][Next]_vars /\ Fairness

-----------------------------------------------------------------------------
(* Properties                                                              *)

Texts == {"join", "start", "id", "notice", "question", "turn", "game", "stop", "ACK"}

\* Every stream carries the lines its writer has for it, and both programs
\* are where their code can be, with a player who is at the table.
TypeOK ==
    /\ up \in [Players -> Seq({"ACK", "YES", "NO", "0"})]
    /\ down \in [Players -> Seq(Texts)] /\ cbuf \in [Players -> Seq(Texts)]
    /\ sbuf \in Seq({"ACK", "YES", "NO", "0"})
    /\ typed \in [Players -> Seq({"Y", "n", "0"})]
    /\ phase \in {"join", "start", "id", "play", "ask", "count", "tell", "over"}
    /\ wants \in {"write", "ack", "ack then answer", "answer", "select", "collect", "exit"}
    /\ at \in Players
    /\ left \in 0..MaxExchanges
    /\ temprset \subseteq Players /\ testset \subseteq Players
    /\ newgame_count \in 0..PlayerCount
    /\ cpc \in [Players -> {"lobby", "id", "loop", "prompt", "choose", "sent", "vote", "voted",
                            "verdict", "again", "stopped", "gone"}]
    /\ vote \in [Players -> {"none", "YES", "NO"}]

Promise ==
    INSTANCE VoteSpec WITH
        decision <- IF phase \in {"tell", "over"}
                    THEN Message["tell"] ELSE "none",
        heard <- [p \in Players |-> CASE cpc[p] = "again" -> "start"
                                      [] cpc[p] = "stopped" -> "stop"
                                      [] OTHER -> "none"]

\* However acknowledgements, votes and departures are ordered, and whatever
\* readline() has kept or mixed up, game_set_display() decides only when all
\* have voted, on another round only if all voted for it, and every client
\* that hears of the decision hears the same.
KeepsVotePromise == Promise!Spec

\* A line has been kept in a buffer where nobody will ask for it: a vote
\* in the server, a line that select() in the client's loop knows nothing
\* of, the player's number in the client's connection_establish().
Misplaced ==
    \/ sbuf # <<>> /\ phase \in {"ask", "count"}
    \/ \E p \in Players :
          \/ cpc[p] = "loop" /\ cbuf[p] # <<>>
          \/ cpc[p] = "lobby" /\ \E i \in DOMAIN cbuf[p] : cbuf[p][i] = "id"

\* client_discard() is given a line that is no number, and reads it for ever.
Spinning == \E p \in Players : cpc[p] = "choose" /\ typed[p] \notin {<<>>, <<"0">>}

\* Unless a line gets misplaced like that or a client spins, everybody comes
\* to an end, with a verdict or, when somebody leaves at whatever moment,
\* without one: no other order of acknowledgements, answers, votes typed
\* early and departures leaves server or clients waiting for each other.
EverybodyEnds ==
    \/ <>(Done = Players /\ (phase = "over" \/ wants = "exit"))
    \/ <>(Misplaced \/ Spinning)

-----------------------------------------------------------------------------
(* What a comment in the client says of it, and does not hold              *)

\* "sending message in this phase is not allowed, so we just clear it": the
\* line that game() throws away in its select loop is one that was typed.
\* (A line of the server that readline() has kept is thrown away instead.)
ClearsTyped ==
    \A p \in Players : (cpc[p] = "loop" /\ typed[p] # <<>>) => cbuf[p] = <<>>
=============================================================================

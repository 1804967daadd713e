# A verification of the online mahjong server

TLA+ modules for `src/UIED_Mahjong_server.c` and `src/UIED_Mahjong_client.c`, with model checking (TLC) and
machine-checked proofs (TLAPS). `PROJECT.json` lists components, runs, mutants,
findings, hazards, theorems, and for every definition the source lines it models.
Line numbers below are those of the server unless marked `client:`.

## 1. The system

A listening process seats clients at a table of four, forks a child for every
full table, and the child plays up to four rounds of Taiwanese mahjong (sixteen
tiles) with its clients over a line protocol.

| component | state | operations | interacts with |
|---|---|---|---|
| lobby (`connection_establish` 195-273, `main` 1692-1737) | `pre_players[4]`, `rset`, `testset`, `connection_count` | accept, select, free a seat, `start!`/`wait...`, fork | clients over sockets; children through `fork` and `SIGCHLD` |
| table (`game` 1641-1690 and what it calls) | wall `shuffled_mjs`, `take_index`, four hands with door, sea and flowers, `discarded_mj`, `winner`, turn | deal, replace flowers, draw, win, gang, pong, eat, discard, next round | four clients, one exchange at a time |
| winning-hand and claim tests (700-805, 980-1085) | counters of 34 kinds | `hu_check`, `is_add_hu_possible`, `is_gang/pong/eat_possible` | called by the table |
| hand update (404-437, loops in 893-956 and 1124-1465) | one `decks` array | empty, compact, sort | called by the table; repeated by the client |
| line protocol (99-158, `client:41-102`, `unpv13e/lib/readline.c`) | one static buffer per process | write and wait for `ACK`, read and `ACK` | table and client |
| client | copy of hand, door, flowers; which call it is in | `client_draw`, `client_is_hu`, `client_quiet_gang`, `client_discard`, claims, vote | table |
| shuffle (284-386) | priorities | sort by random priority | table |
| display, `point_count.c`, `UItest*.c`, `testground.c` | none of the game's | | |

**What is hard here.** The table is sequential, but its state is five arrays and
five indices per player that claims move in different amounts; damage done by one
claim shows turns later. Server and client run the same protocol from two
programs that must agree on where they are and on what is in each hand, over
streams that may deliver several lines at once into one shared buffer. The lobby races with clients that
leave or reset, with signals, and with the tables it has started.

**What makes the parts correct.** *Table*: no tile is created or lost; indices
stay within arrays and agree with each other; no flower is in play; hands stay
sorted and tidy; a win ends the round; every round ends. *Tests*: they accept
exactly the complete hands and offer exactly the claims that can be carried out.
*Hand update*: the loops remove the claimed tiles and leave the rest in order.
*Line protocol and vote*: no order of lines leaves two programs waiting for each
other; another round starts only if all four want it, and all hear the same.
*Client*: its copy of the hand is the server's. *Shuffle*: the wall is complete.
*Lobby*: nobody is in two places, select never sees a stale descriptor, four
present clients get a table, and no client can end the listening process by
leaving.

## 2. Modules

| module | models | kind |
|---|---|---|
| `Tiles` | tiles, the `decks` array, sort, swap, removal of a pong or gang | operators |
| `HuCheck` (extends `Tiles`) | the winning-hand and claim tests | operators |
| `MahjongTable` (extends `HuCheck`) | one table, deal to vote | specification |
| `HandUpdateSpec` | what a hand update promises | abstract specification |
| `HandUpdate` | the loops and the quicksort, one step per turn of a loop | specification, refines `HandUpdateSpec` |
| `Lobby` | the listening process, its clients and tables | specification |
| `ClientMirror` (extends `MahjongTable`) | the table composed with the four clients' own copies | specification |
| `VoteSpec` | what the vote on another round promises | abstract specification |
| `Wire` | the lines between a child and its clients, `readline`, the vote | specification, refines `VoteSpec` |
| `Shuffle` (extends `Tiles`) | `shuffle` and the sort by priority | operators |
| `MCMahjongTable`, `MCFullHand`, `MCHuCheck`, `MCHandUpdate`, `MCLobby`, `MCWire` | small instances | for TLC |
| `TilesProofs` | lemmas about one hand, the claim tests and counting tiles | for TLAPS |
| `MahjongTableProofs`, `AccountingProofs` (extends it) | theorems about the table | for TLAPS |
| `HuCheckProofs` | theorems about the winning-hand and claim tests | for TLAPS |
| `MirrorProofs`, `LobbyProofs`, `WireProofs` | theorems about clients, lobby, lines and vote | for TLAPS |
| `HandUpdateProofs` | theorems about the hand update and the shuffle | for TLAPS |

### Tiles

A tile is its sort key `type*10 + number`, the value the code orders tiles by; the
null tile is 0. `priority` only serves the shuffle. A hand is a function on the
slots `0..HandSize`: slots below `nc` (`normal_capacity`) are concealed tiles,
slot `nc` is the tile just taken. The code's array has 20 entries, of which
those above `HandSize` are never written.

### The table

The server asks one player at a time and waits, so a step is one exchange with one
player and all the server does until the next. `pc` is where the server is,
`client` the call the client of the player at turn is in; both must fit for an
exchange to happen, which is how a disagreement of the two programs shows.

| action | code |
|---|---|
| `Deal`, `has_flower`, `StartPlay` | `deal` 440-489, `has_flower` 389-401 |
| `draw`, `DrawPastEnd` | `draw` 686-698, beyond the wall the sanitizer of the build ends the process |
| `HuAccept`, `HuPass` | `is_hu` 782-805, `client_is_hu` |
| `QuietGang`, `QuietPass` | `quiet_gang` 893-956, `client_quiet_gang` |
| `discard(index)` | `discard` 874-891, `client_discard` |
| `CountNull`, `Pass`, `HuClaim`, `GangClaim`, `PongClaim`, `EatYes`, `Eat`, `Unclaimed` | `othersreaction` 1087-1540 |
| `NextRound`, `GameOver` | outcome of `game_set_display` 1542-1627, `game` |
| `Disconnect` | `exit(1)` in `write_message_wait_ack`, `read_and_ack` |

`othersreaction` asks ten questions in a fixed order (three players hu, three
gang, three pong, one eat); `ask` counts them. It calls itself after a claim, as
its last action, and drops the result: `claimed` says that the running turn began
with a claim, `nested` that the running call is such an inner one.

The build uses `-O2 -fsanitize=address` (`src/my.defines`). The two accesses
outside of an array that the model reaches, `shuffled_mjs[144]` and `count[-10]`
in the claim tests, end the process there. In `hu_check` the compiled code does
not trap, and the null tile simply counts for no kind; `Counts` says the same.

Input is what the clients of this repository send. One thing a player can type
is not modelled: indices outside the deck at the eat prompt, which neither
program checks. (A word at the discard prompt is a case of `Wire`.)

### The clients' copies

After the deal the server never sends a hand again. `ClientMirror` conjoins each
action of the table with what the client concerned does in the same exchange, by
its own code and on its own arrays: `get_decks`, `client_draw`, `client_discard`,
`client_quiet_gang`, the branches of the client's `game` for pong, gang, eat and
"no one wants it.". The discarded tile reaches the other clients only as the
line `broadcast_discard_mj` words, of which they look at three characters;
`Announced` and `Heard` model that pair of conversions on these characters.

### Lines and the vote

`up[p]` and `down[p]` are the lines under way between the child and client `p`.
`readline(buf, wire)` is the set of ways a call can go: a line from the buffer,
whatever descriptor that came from, or else a `read` of any number of the lines
under way, the first of which is returned and the others kept. `select` sees
`up` and `down`, never `sbuf` and `cbuf`. Lines travel whole.

| action | code |
|---|---|
| `Join`, `Start` | lobby lines, 200-233 and 251-261: written without waiting for an answer |
| `Write`, `WaitAck`, `ReadEnd` | `write_message_wait_ack` 99-134, the two halves and the `exit` |
| `Exchange`, `ReadAnswer` | the play, seen as lines: a notice, a question, or a turn, and `read_and_ack` 136-158 |
| `GameSet`, `Select`, `Collect`, `NotReady` | `game_set_display` 1542-1627 |
| `LobbyLine`, `LobbyTyped` | `client:105-159` |
| `ReceiveId`, `LoopLine`, `LoopTyped` | `client:713-730`, the select loop `client:754-1207` |
| `Prompted`, `Chosen`, `Approval`, `Verdict`, `ServerGone` | the prompts, `scanf` at `client:478`, `write_message_wait_ack`, `client_game_set` |
| `Type`, `Leave` | what people do: answer, type unasked, close the client |

The play is reduced to exchanges after which the client is back in its select
loop; which exchange follows which is the table's matter. The two models meet
in `game_set_display`: `NextRound` and `GameOver` of the table are the two
decisions of `VoteSpec`.

### Shuffle

`Made(i)` is the tile that the loops of `shuffle` put at index `i`; `Orders` are
the rearrangements that are sorted by priority, all of them, since the sort is
not stable. That `priority_quick_sort` sorts is taken from `HandUpdate`, which
follows the same loops for `decks_quick_sort` and about which that is proved; the
two functions differ in the key and in nothing else.

### Hand update

`HandUpdate` runs the code's loops and its recursive quicksort (the recursion as
a stack of ranges) on a set of jobs. `KeepsPromise` says that it implements
`HandUpdateSpec`, whose only step is the `Remove` of `Tiles`; with it, the table
may treat a removal and a sort as one step. `JobsAssumption` says which jobs there
are: any hand may be sorted, but tiles are only taken from a sorted hand without
an empty slot that has them. The table's `HandsTidy`, and its claim tests that end
the process at a null tile, are why.

### Lobby

Sockets are the kernel's; `conn[c]` is what the calls of the server can see of a
connection (open, closed, reset, reset and reported, ...), and `Written`,
`KillsWriter`, `LowestFree` and `Fds` are marked external. `accept` and `read` are restarted
after a signal (`signal` of glibc sets `SA_RESTART`), `select` is not: when it
fails, the set it was given stays as it was. `timeout` is one second and is
counted down by `select`, so how long `select` waits is left open.

| action | code |
|---|---|
| `AcceptSeat`, `KeepSeat`, `AcceptFails` | the loop over the seats 200-233; a failing `accept` ends the process |
| `Select`, `FreeSeat`, `StaySeated` | 234-250 |
| `SendLine`, `Killed` | `start!` and `wait...` 251-270; a write to a connection in error raises `SIGPIPE` |
| `Fork`, `ForkFails` | `main` 1702-1734; -1 from `fork` is taken for a child, so the seats are freed and no table plays |
| `TableEnds` | end of a child, `sig_chld` 22-31 |
| `Connect`, `ReadLines`, `Leave` | the client's side, `client:105-159` |

`AcceptFails` and `ForkFails` may happen at any time and are under no fairness.

## 3. Runs

| run | properties | instance |
|---|---|---|
| `table` | `TypeOK` `TileConservation` `Accounting` `DoorMatchesHand` `FlowersOnce` `RegrabInWall` `NoFlowerInPlay` `HandsTidy` `EatHasChoice` `QuietGangCountsReal` `WinnerEndsRound`, `RoundEnds` (liveness) | hands of 4, walls of 21, three shuffles, 2 rounds |
| `full_hand` | `DoorMatchesHand` `TileConservation` `HandsTidy` `MirrorsServer` | hands of 16, two walls of 69, 2 rounds, table and clients |
| `hu_check` | `HuCheckExact` `AddHuExact` `EatOfferExact` | all hands of up to 8 tiles over 9 kinds |
| `hand_update` | `PartitionInRange`, `KeepsPromise` (refinement) | all arrangements of up to 5 tiles over 4 keys, all sorted hands of 4 and 7 over 3 keys |
| `lobby` | `TypeOK` `RsetIsSeated` `OnePlace` `OnlyResetsKill` | 5 clients, 2 seats, symmetry |
| `wire` | `TypeOK`, `KeepsVotePromise` (refinement), `EverybodyEnds` (liveness) | 3 players, 2 exchanges before the vote, one restless player |
| `wall_overrun` | `DrawsWithinWall`, violated | as `table`, 1 round |
| `counted_null` | `CountsRealTiles`, violated | as `table`, 1 round |
| `game_ends` | `GameEnds`, violated | as `table`, 4 rounds |
| `lobby_reset` | `StableStart`, violated | 4 clients, 4 seats |
| `lobby_signal` | `FourStableStart`, violated | 4 clients, 2 seats |
| `wire_cleared` | `ClearsTyped`, violated | as `wire` |

**Bounds.** A hand of four is the smallest with `HandSize % 4 = 0` (the deal) and
`HandSize % 3 = 1` (a pair and groups, one tile to come); it still holds a
complete hand of a pair and a group, and one claim of each kind. The three walls
are arranged so that each claim, a flower in the deal that is replaced by a
flower, a flower as the last tile, and a gang on the last discard are in reach;
between them the passing runs fire every action. `full_hand` repeats the layout
questions with the code's own sixteen tiles, where the deal goes round four
times, and adds what hands of four cannot show, several claims by one player.
Its wall `Mixed` brings a pong, a gang, a quiet gang, an eat and flowers, in hands
that fit little. In `Chained` the wall is empty after the first draw and the round
lives on claims: one player makes up to five (four pongs and an eat, in any
order), down to one tile and a win with the pair that is left; the top of that
hand is suited, so that the eat may damage it, as the first claim or after three
others. In both, a second round follows, in which the copies must have been
cleared. A `normal_capacity` that is wrong only from the second claim on is caught
here and not in `table`. Five gangs, which fill `door[20]` to the last entry, are
not in reach of this instance; the theorem `DoorsMatch` covers them. In `wire` three players are the smallest table with one
before, at and after the player being asked; two exchanges let a refused offer be
followed by another line to the same player; the last player is the one who may
also type unasked and leave (`Restless`), the others answer when asked. Eight tiles, a pair and two groups, are enough for the winning-hand test
to need backtracking; the kinds lie on both sides of a suit boundary and of the
boundary to the honours. Two seats and five clients let a table play, a second
one fill, and a leaver be replaced, all at once; the counter-example of
`lobby_reset` is found with the code's four seats. The number of rounds
(`Rounds`), the walls (`Walls`, `WallSize`), `PlayerCount`, `MaxExchanges`,
`Restless` and one typed line per terminal, `MaxTiles`, `SortSizes` and
`HandSizes` are the bounds, all of them constants.

**Deadlock** is not checked in the runs of the table, of the lobby and of the
wire: a table ends, may hang after a quiet gang (finding 3), and a lobby without
clients waits. `RoundEnds`, `GameEnds` and `EverybodyEnds` ask the question that
deadlock checking would.

**Fairness.** `FairSpec` of the table is weak fairness of `Step`: the server goes
on when it can, and a player who is asked answers. That is what the code relies on
(there is no timeout in a game); a player who leaves is `Disconnect`, which is not
fair. `FairSpec` of the lobby is weak fairness of the server alone: clients need
not come. `Wire` has weak fairness of the server, of each client and of the
turn of its loop that looks at the terminal (a process that can go on is
scheduled, and TCP delivers what was written), and of a player's typing while he
is asked; typing unasked and leaving are never forced. `HandUpdate` is sequential
code.

### What the passing runs show

* `TileConservation`: of every kind there are as many tiles in wall, decks, doors,
  seas, flowers and on offer as were shuffled, also when an eat has damaged a hand
  (the tile is stranded, not lost).
* `Accounting`, `DoorMatchesHand`, `FlowersOnce`: the indices agree, and so
  `door[20]`, `flowers[8]` and `decks[20]` are large enough and a hand keeps at
  least one tile. (`TypeOK` alone bounds `take_index`, `normal_capacity`, the turn
  and the question, and says what kind of entries the arrays have.)
* `RegrabInWall`, `NoFlowerInPlay`: replacing flowers terminates within the wall
  and leaves none behind.
* `HandsTidy`: hands are sorted, and nothing stays above the live tiles of an undamaged hand.
* `EatHasChoice`, `EatOfferExact`: the loop that asks for two tiles can be left.
* `QuietGangCountsReal`: a damaged hand never reaches `quiet_gang`, whose counters it would index out of range.
* `WinnerEndsRound`: dropping the nested result is harmless, because the loop of `game` looks at `winner`.
* `RsetIsSeated`: although no descriptor is ever removed from `rset`, its number is in use again whenever `select` runs.
* `MirrorsServer`: from the deal to the end of the round every client's arrays
  equal the server's, slot by slot, a damaged hand included, and every tile read
  from a discard line is the right one. An index means the same to both.
* `KeepsVotePromise`: whatever is mixed up in a buffer, the server decides only
  after all have voted, for another round only if all said so, and no two clients
  hear different verdicts. A vote that is read in place of an acknowledgement ends
  the child, and one that is read in place of another player's leaves the server
  waiting; neither leads to a wrong decision.
* `EverybodyEnds`: everybody comes to an end, also when a player leaves at any
  point. The property names what the code does not survive: a line kept in a
  buffer where nobody asks for it (`Misplaced`: a vote that came with its
  acknowledgement, a server's line that came with an `ACK`, the player's number
  that came with the lobby lines) and a word for `scanf` (`Spinning`). Nothing
  else hangs. So it says nothing for these cases: the number kept with the lobby
  lines (`client:114`) and the word for `scanf` (`client:478`) leave the table
  standing still, and no property covers them; of the buffered lines, `ClearsTyped`
  is about one that is thrown away (finding 6), and `KeepsVotePromise` shows that a
  misplaced vote leads to no wrong decision, though it may leave the server waiting.
* `OnlyResetsKill`: a client that closes in order never ends the server, whenever it does it.

### Findings

1. `wall_overrun`: `draw` reads `shuffled_mjs[144]` when the last tile is a flower
   or a gang is claimed on the last discard (line 693).
2. `counted_null`: an eat with the last tile of the hand as the second choice and
   one below the last two as the first leaves an empty slot (lines 1501-1502).
3. `game_ends`: after an accepted quiet gang server and client wait for each other
   (lines 948 and `client:623`).
4. `lobby_reset`: a reset connection keeps its seat (line 240).
5. `lobby_signal`: an interrupted `select` leaves the server in a `read` that
   nobody will answer (line 235).
6. `wire_cleared`: a line typed in the client's select loop makes it throw away a
   line of the server that `readline` had kept (`client:766`).

The comment at line 54 gives `winner` the value -2 after a drawn round; the code
leaves it at -1, and `game_set_display` goes by that.

## 4. Proofs

The theorems about the table hold for every hand size with `HandSizeAssumption`,
every wall size and set of shuffles with `WallAssumption` (each tile at most four
times, each flower once, and more tiles than are dealt and flowers there are) and
every number of rounds from one to four; `ShuffleIsSound` discharges
`WallAssumption` for the code's constants. Those about the lobby hold for every
finite set of clients and every positive number of seats (`LobbyAssumption`, which
also says that `Nobody` is no client), those about the hand update for every set
of jobs with `JobsAssumption`, those about the tests for hands of every size and
any tiles (`DealtAssumption`), and those about the lines for every positive number of
players, every length of play and every set of restless players
(`WireAssumption`).

| theorem | statement | argument |
|---|---|---|
| `MahjongTableProofs!TypeCorrect` | `Spec => []TypeOK` | `TypeOK` is not inductive: a claim could take `nc` below zero. `Shape` adds that `nc % 3 = 1`, so a hand with two or three tiles to give has four, that the deal's hands are still full, that `ask`, `client` and `pc` fit, and that the tile a quiet gang lays down is a real one. |
| `MahjongTableProofs!WinnerEnds` | `Spec => []WinnerEndsRound` | a conjunct of `Shape`: a win sets `winner`, and `RoundGoesOn` is false whatever is returned |
| `MahjongTableProofs!QuietGangSafe` | `Spec => []QuietGangCountsReal` | `Whole`: the hand of a player whose turn comes without a claim is full, because that player was the first to be asked about the discard before, and a null tile there ends the process |
| `MahjongTableProofs!FlowersStayAside` | `Spec => []NoFlowerInPlay` | `FlowersAside`: during the deal the last `no_flower_count` hands looked through have no flower, so none is left when it reaches four; later only the tile just drawn can be one, and the draw goes on until it is not |
| `MahjongTableProofs!EatCanBeAnswered` | `Spec => []EatHasChoice` | the test that offered the eat found the two neighbours among the first `nc` slots, and nothing moves until the answer |
| `MahjongTableProofs!HandsStayTidy` | `Spec => []HandsTidy` | `Tidy`: hands are in order; above a hand without a null tile there is none, nor above the tile in slot `nc` of the player at turn; who eats has a hand without a null tile, since it was scanned for the offer. Only a damaged hand keeps something above its live tiles. |
| `AccountingProofs!DoorsMatch` | `Spec => []DoorMatchesHand` | every claim is an instance of `Laid(p, k)`: the hand shrinks by three, the door grows by `k` in 3..4 |
| `AccountingProofs!IndicesAddUp` | `Spec => []Accounting` | `Balanced` with sums over the four players; one lemma per kind of step |
| `AccountingProofs!TilesConserved` | `Spec => []TileConservation` | `Ledger` = `TypeOK`, `Shape`, `Whole`, `Tidy`, `Bare` (nothing in the hands before the deal) and `Kept` (of every tile, what is left of the wall, the four players' stakes and the tile on offer make up the wall). Not inductive without `Tidy`: a discard would overwrite a tile above the live ones. Each action moves one tile between two places (`OneStake`), rests on the tally of a sort, a swap or a `Remove`, or is the deal (`DealtPlaces`). |
| `AccountingProofs!FlowersCountedOnce` | `Spec => []FlowersOnce` | from conservation: a flower is once in the wall, so one found in a hand is not already aside |
| `AccountingProofs!RegrabStaysInWall` | `Spec => []RegrabInWall` | `Taken`: while flowers are replaced, `take_index` is what was dealt plus the flowers aside; with those still in hands these are at most the eight, and the wall has more |
| `MirrorProofs!ClientsAgree` | `MSpec => []MirrorsServer` | `MInv`: before the hands are sent both sides are as cleared; in play the copies are equal; and while a tile is on offer every client has read it (`Heard(Announced(t)) = t` on playable tiles, for which `FlowersAside` is needed) |
| `HandUpdateProofs!PartitionStaysInRange` | `Spec => []PartitionInRange` | `Ranges`: the ranges on the stack lie one behind the other below the sorted size, the one being partitioned before them, and `left` is at most one above `right` |
| `HandUpdateProofs!UpdateIsRight` | `Spec => Promise!Safety` | `Progress` = `Ranges`, `Emptied`, `Sorting`. `Emptied`: the first loop has emptied the claimed tiles below `i`; these form a block since the hand is sorted (`GoneBlock`), and the second loop has swapped the first `c` of it to the end, which is right also where block and end overlap. `Sorting`: the slots to be sorted have, of every value, as many tiles at most that value as the tiles that stay; pairs of slots are in order unless one range still to be sorted has both; the partition's sides are at most and at least the pivot. With an empty stack only `Remove` is left. |
| `LobbyProofs!LobbyTypes`, `RsetNeverStale`, `LobbyOnePlace`, `ClosingNeverKills` | `Spec => []TypeOK`, `[]RsetIsSeated`, `[]OnePlace`, `[]OnlyResetsKill` | one invariant `Inv`: seats and open descriptors correspond one to one (`Held`); `rset` is `4..(3 + SeatCount)` once the seats have been filled, and lowest free numbers keep it so (`Numbers`); what the loops have counted (`Loops`); a connected client is in one place (`Places`); a connection a write has found closed is noticed before the next write (`Noticed`) |
| `HandUpdateProofs!ShuffleIsSound` | every wall in `shuffle(priority)` meets `WallAssumption` for sixteen tiles | the order is injective, so at most as many places hold a tile as `Made` gives it: four in a row for a kind, one for a flower |
| `HuCheckProofs!HuCheckIsExact`, `AddHuIsExact` | `Spec => []HuCheckExact`, `[]AddHuExact` | see below |
| `HuCheckProofs!EatOfferIsExact` | `Spec => []EatOfferExact` | a counted kind next to the discard's, in its suit, belongs to the tile next to it, so what is offered can be chosen; and three consecutive tiles of a suit have consecutive kinds, so what can be chosen is offered |
| `WireProofs!WireTypes` | `Spec => []TypeOK` | `TypeOK` is not inductive: that `newgame_count` stays in range needs that it counts no more than the players no longer awaited, and so all of `Inv`, below |
| `WireProofs!VoteIsKept` | `Spec => KeepsVotePromise` | refinement of `VoteSpec` from `Inv`, below |

**The winning-hand test.** `UsedUp(c, k)` says that the counts `c` have the tiles of
some `k` groups. A group can be taken first or last, so `UsedUp` satisfies the
equation that defines `hu_recursive_check` (`UsedStep`, `CallTakesGroup`,
`MeaningIsCall`). Hence the equation has a solution, and the function, which TLA+
defines as *some* solution, satisfies it (`CheckUnfolds`). Two solutions
agree, since there is no smallest call on which they differ (`CheckMeans`). The
test only asks that the counts have a pair and the groups; that nothing is left
over follows because a hand has just as many tiles (`NothingLeft`: of two
collections of the same size, one that has every tile at least as often as the
other has it exactly as often). `NothingLeft` and `CheckMeans` are inductions,
written as the absence of a least counter-example.

**The lines.** `Inv` of `WireProofs` says, of each player, what its client can still
read in each place of its code (`Talk`, which also holds after the server has
exited), and, while the server is there, where the two are in their exchange
(`Stage`). `Buffered`: the server's buffer holds nothing, the answer it is about
to read, or the vote of the player just asked or of the last one. `Mixed`: the last
player's vote has been read in place of another's; that one is then awaited for
ever, and no decision is reached. `Tally`: the count is at most the number of players
heard, and counts those who want to go on exactly unless votes are mixed up. `Ready` and `Steps`
tie the server's loops to these. Under the refinement mapping a client's answer to
the vote is `Cast`, the last vote collected is `Decide`, a verdict read is `Hear`,
and every other step stutters.

`TilesProofs` has the facts about one hand that they share: `Nth`, the sort and
`Remove` yield the entries of the hand they are given, in order, and as often;
what a swap, a write or the deal does to the number of tiles of a kind.

Only model-checked:

* liveness (`RoundEnds`, `GameEnds`, `FourStableStart`, `EverybodyEnds`, and the
  fairness of `HandUpdateSpec` in `KeepsPromise`, whose safety part is
  `UpdateIsRight`), since the prover does not do fairness.

Every safety invariant that a passing run checks, and the safety part of both
refinements, is also proved. What stays with TLC is liveness, and the six
violations, which are counter-examples.

## 5. Not modelled

* Display and wording: `print_deck`, `print_single_card` and the texts on the
  terminal, in both programs. They change no state of the game.
* `point_count.c`, which is not built and which nothing calls; `UItest*.c` and
  `testground.c`, experiments.
* `unpv13e`, the example code of a textbook, which makes up nine tenths of the
  repository's lines. The two programs take `readline` from it, which `Wire`
  models, and a header; its hundreds of other programs (ping, routing sockets,
  SCTP, name resolution...) are no part of this system, and modelling them would
  say nothing of it.
* The set-up of sockets (`connection_preparation` and the start of the two
  `main`s): straight-line calls before there is any state.
* Lines longer than the buffer and lines split between two `read`s: `readline`
  waits for the rest, and every line of the protocol is far below `MAXLINE`.
* Indices outside the deck at the eat prompt (section 2).

## 6. Plan

Done, in this order: `Tiles`, `HuCheck`, `MahjongTable` and its runs; `HandUpdate`;
`Lobby`; the first theorems about the table; `Wire` with `VoteSpec`;
`ClientMirror`; `Shuffle` with its theorem; the theorems about flowers, tidy hands
and conservation, the lobby, the clients' copies and the hand update; those about
the lines and the vote, and about the winning-hand and claim tests. Of what the
runs check, the liveness properties are the only ones without a theorem, since
the prover does not do fairness.

----------------------------- MODULE WireProofs -----------------------------
(***************************************************************************)
(* The lines between a table and its clients, for any number of players    *)
(* and however long the play: both programs stay where their code can be,  *)
(* and the vote on another round keeps its promise whatever readline() has *)
(* kept or mixed up.                                                       *)
(***************************************************************************)
EXTENDS Wire, SequenceTheorems, FiniteSetTheorems, TLAPS

\* One, two or three lines.
One(a) == <<a>>
Two(a, b) == <<a, b>>
Three(a, b, c) == <<a, b, c>>

\* What client p has still to read.
Whole(buf, wire) == buf \o wire
Pipe(p) == Whole(cbuf[p], down[p])

Final == PlayerCount - 1
Offers == {"notice", "question", "turn", "game"}
Questions == {"question", "turn"}
Answers == {"YES", "NO", "0"}
Voting == phase \in {"ask", "count"}
Decided == phase \in {"tell", "over"}
Ruling == IF AllWant THEN "start" ELSE "stop"

\* What a client meets in its part of the exchange, whether or not the
\* server is still there.
Talk(p) ==
    /\ cpc[p] = "lobby" =>
          Pipe(p) \in {<<>>, One("join"), One("start"), Two("join", "start"),
                       Two("start", "id"), Three("join", "start", "id")}
    /\ cpc[p] = "id" => Pipe(p) \in {<<>>, One("id")}
    /\ cpc[p] = "loop" =>
          Pipe(p) = <<>> \/ \E x \in Offers : Pipe(p) = One(x) /\ (x = "game" => Voting)
    /\ cpc[p] \in {"prompt", "choose", "vote"} => Pipe(p) = <<>>
    /\ cpc[p] = "vote" => Voting
    /\ cpc[p] = "sent" =>
          \/ Pipe(p) \in {<<>>, One("ACK")}
          \/ \E x \in Offers : Pipe(p) = Two("ACK", x) /\ (x = "game" => Voting)
    /\ cpc[p] = "voted" =>
          Pipe(p) \in {<<>>, One("ACK")} \/ (Decided /\ Pipe(p) = Two("ACK", Ruling))
    /\ cpc[p] = "verdict" => Pipe(p) = <<>> \/ (Decided /\ Pipe(p) = One(Ruling))
    /\ cpc[p] \in {"again", "stopped"} => Decided
    /\ cpc[p] \in {"voted", "verdict", "again", "stopped"} => vote[p] # "none"
    /\ cpc[p] \notin {"voted", "verdict", "again", "stopped", "gone"} => vote[p] = "none"

\* The server has not come to p yet in the loop it is in.
NotYet(p) == p > at \/ (p = at /\ wants = "write")

Meets(p, place, in, out) == cpc[p] = place /\ Pipe(p) = in /\ up[p] = out
Left(p, out) == cpc[p] = "gone" /\ up[p] = out

\* Before the player's number is sent.
Unserved(p) ==
    \/ Left(p, <<>>)
    \/ /\ up[p] = <<>> /\ cpc[p] = "lobby"
       /\ phase = "join" /\ p >= at => Pipe(p) = <<>>
       /\ phase = "start" \/ (phase = "join" /\ p < at) => Pipe(p) \in {<<>>, One("join")}
       /\ phase = "id" => Pipe(p) \in {One("start"), Two("join", "start")}
    \/ phase = "id" /\ Meets(p, "id", <<>>, <<>>)

\* The number has been sent and not been acknowledged.
Numbered(p) ==
    \/ Left(p, <<>>) \/ Left(p, One("ACK"))
    \/ /\ up[p] = <<>> /\ cpc[p] = "lobby"
       /\ Pipe(p) \in {Two("start", "id"), Three("join", "start", "id")}
    \/ Meets(p, "id", One("id"), <<>>)
    \/ Meets(p, "loop", <<>>, One("ACK"))

\* Nothing is open between server and player, but for the ACK of an answer.
Idle(p) ==
    \/ Left(p, <<>>)
    \/ Meets(p, "loop", <<>>, <<>>)
    \/ Meets(p, "sent", One("ACK"), <<>>)

\* A line has been sent and is not read yet, or thrown away.
Unread(p, x) ==
    \/ Left(p, <<>>)
    \/ Meets(p, "loop", One(x), <<>>)
    \/ Meets(p, "sent", Two("ACK", x), <<>>)
    \/ Meets(p, "loop", <<>>, <<>>)

Noticed(p) ==
    \/ Unread(p, "notice")
    \/ Left(p, One("ACK"))
    \/ Meets(p, "loop", <<>>, One("ACK"))

Questioned(p) ==
    \/ \E x \in Questions : Unread(p, x)
    \/ Left(p, One("ACK"))
    \/ Meets(p, "prompt", <<>>, One("ACK")) \/ Meets(p, "choose", <<>>, One("ACK"))
    \/ \E a \in Answers : Left(p, Two("ACK", a)) \/ Meets(p, "sent", <<>>, Two("ACK", a))

\* The acknowledgement has been read, and perhaps the answer with it.
Answering(p) ==
    \/ /\ sbuf = <<>>
       /\ \/ Left(p, <<>>)
          \/ Meets(p, "prompt", <<>>, <<>>) \/ Meets(p, "choose", <<>>, <<>>)
    \/ \E a \in Answers :
          \/ sbuf = One(a) /\ (Left(p, <<>>) \/ Meets(p, "sent", <<>>, <<>>))
          \/ sbuf = <<>> /\ (Left(p, One(a)) \/ Meets(p, "sent", <<>>, One(a)))

\* The question about another round has been sent, and not acknowledged.
Polled(p) ==
    \/ vote[p] = "none" /\ \/ Unread(p, "game")
                           \/ Left(p, One("ACK"))
                           \/ Meets(p, "vote", <<>>, One("ACK"))
    \/ vote[p] # "none" /\ \/ Left(p, Two("ACK", vote[p]))
                           \/ Meets(p, "voted", <<>>, Two("ACK", vote[p]))

\* It has been acknowledged, and the vote is awaited.  A vote that was cast
\* is under way, unless it was read in place of something else.
Awaited(p) ==
    \/ vote[p] = "none" /\ (Left(p, <<>>) \/ Meets(p, "vote", <<>>, <<>>))
    \/ /\ vote[p] # "none" /\ up[p] \in {<<>>, One(vote[p])}
       /\ cpc[p] = "gone" \/ (cpc[p] = "voted" /\ Pipe(p) = <<>>)

\* A vote has been read from p, and no verdict sent.
Collecting(p) ==
    /\ cpc[p] \in {"voted", "verdict", "gone"}
    /\ cpc[p] = "voted" => Pipe(p) = One("ACK")
    /\ cpc[p] = "verdict" => Pipe(p) = <<>>

\* Where the server and player p are in their exchange, while the server is
\* there.
Stage(p) ==
    /\ phase \in {"join", "start"} \/ (phase = "id" /\ NotYet(p)) => Unserved(p)
    /\ phase = "id" /\ p = at /\ wants = "ack" => Numbered(p)
    /\ \/ phase = "id" /\ p < at
       \/ phase = "play" /\ (p # at \/ wants = "write")
       \/ phase = "ask" /\ NotYet(p)
       => Idle(p)
    /\ phase = "play" /\ p = at =>
          /\ wants = "ack" => Noticed(p)
          /\ wants = "ack then answer" => Questioned(p)
          /\ wants = "answer" => Answering(p)
    /\ phase = "ask" /\ p = at /\ wants = "ack" => Polled(p)
    /\ (phase = "ask" /\ p < at) \/ (phase = "count" /\ p \in temprset) => Awaited(p)
    /\ (phase = "count" /\ p \notin temprset) \/ (phase = "tell" /\ NotYet(p))
       => Collecting(p)
    /\ phase \in {"join", "start", "id", "play"} \/ (phase = "ask" /\ NotYet(p))
       => vote[p] = "none"

\* The vote of p is in readline()'s buffer.
Kept(p) == vote[p] # "none" /\ sbuf = One(vote[p]) /\ up[p] = <<>>

\* What readline() has kept in the server.
Buffered ==
    /\ phase \in {"join", "start", "id"} => sbuf = <<>>
    /\ phase = "play" /\ wants # "answer" => sbuf = <<>>
    /\ phase = "ask" => sbuf = <<>> \/ \E p \in Players : p + 1 = at /\ Kept(p)
    /\ phase = "count" => sbuf = <<>> \/ (Final \in temprset /\ Kept(Final))

\* The last player's vote was taken for another's: it will be awaited for
\* ever.
Mixed ==
    /\ Final \in temprset /\ vote[Final] # "none"
    /\ up[Final] = <<>> /\ sbuf = <<>>

\* Who has been counted.
Heard == Players \ temprset
ForIt(S) == {p \in S : vote[p] = "YES"}

Tallied ==
    /\ newgame_count <= Cardinality(Heard)
    /\ \/ Mixed
       \/ newgame_count = Cardinality(ForIt(Heard)) /\ \A p \in Heard : vote[p] # "none"

Tally ==
    /\ phase \in {"join", "start", "id", "play", "ask"} => newgame_count = 0
    /\ phase = "count" => Tallied

\* The players that select() found ready still are, and are still awaited.
Ready ==
    wants = "collect" =>
        \A p \in testset : p >= at => p \in temprset /\ (up[p] # <<>> \/ cpc[p] = "gone")

\* Nothing is read while the table fills.
Opening == phase \in {"join", "start"} => wants = "write"

\* What the server wants in which phase.
Steps ==
    /\ phase = "start" => at = 0
    /\ phase \in {"join", "start", "over"} => wants = "write"
    /\ phase \in {"id", "ask", "tell"} => wants \in {"write", "ack"}
    /\ phase = "play" => wants \in {"write", "ack", "ack then answer", "answer"}
    /\ phase = "count" => wants \in {"select", "collect"}

\* At most one line waits in a terminal.
Terminals == \A p \in Players : typed[p] \in {<<>>, One("Y"), One("n"), One("0")}

Serving == Steps /\ Buffered /\ Tally /\ Ready /\ \A p \in Players : Stage(p)

Inv ==
    /\ TypeOK /\ Terminals /\ Opening
    /\ \A p \in Players : Talk(p)
    /\ wants # "exit" => Serving

-----------------------------------------------------------------------------
(* Sequences of a few lines                                                *)

\* Sequences of one, two and three lines differ, and have the elements they
\* are written with.
LEMMA Lines ==
    /\ \A a : One(a) # <<>> /\ One(a)[1] = a /\ Len(One(a)) = 1
    /\ \A a, b : /\ Two(a, b) # <<>> /\ Two(a, b)[1] = a /\ Two(a, b)[2] = b
                 /\ Len(Two(a, b)) = 2
    /\ \A a, b, c : /\ Three(a, b, c) # <<>> /\ Three(a, b, c)[1] = a
                    /\ Three(a, b, c)[2] = b /\ Three(a, b, c)[3] = c
                    /\ Len(Three(a, b, c)) = 3
<1>1. ASSUME NEW a PROVE One(a) # <<>> /\ One(a)[1] = a /\ Len(One(a)) = 1
  BY DEF One
<1>2. ASSUME NEW a, NEW b
      PROVE  Two(a, b) # <<>> /\ Two(a, b)[1] = a /\ Two(a, b)[2] = b /\ Len(Two(a, b)) = 2
  BY DEF Two
<1>3. ASSUME NEW a, NEW b, NEW c
      PROVE  /\ Three(a, b, c) # <<>> /\ Three(a, b, c)[1] = a
             /\ Three(a, b, c)[2] = b /\ Three(a, b, c)[3] = c
             /\ Len(Three(a, b, c)) = 3
  BY DEF Three
<1> QED
  BY <1>1, <1>2, <1>3

\* One line is a sequence, and is what is appended to nothing.
LEMMA OneLine ==
    ASSUME NEW T, NEW a \in T
    PROVE  One(a) \in Seq(T) /\ Append(<<>>, a) = One(a)
           /\ Head(One(a)) = a /\ Tail(One(a)) = <<>>
<1>1. One(a) \in Seq(T) /\ Head(One(a)) = a
  BY DEF One
<1>2. <<>> \in Seq(T) /\ Len(<<>>) = 0
  BY EmptySeq
<1>3. Append(<<>>, a) = One(a)
  <2>1. Append(<<>>, a) = <<>> \o <<a>>
    BY <1>2, AppendIsConcat
  <2>2. <<>> \o One(a) = One(a)
    BY <1>1, ConcatEmptySeq
  <2> QED
    BY <2>1, <2>2 DEF One
<1>4. Tail(One(a)) = <<>>
  <2>1. Tail(Append(<<>>, a)) = <<>>
    BY <1>2, HeadTailAppend
  <2> QED
    BY <2>1, <1>3
<1> QED
  BY <1>1, <1>3, <1>4

\* Two lines are one and another.
LEMMA TwoLines ==
    ASSUME NEW T, NEW a \in T, NEW b \in T
    PROVE  Two(a, b) \in Seq(T) /\ Append(One(a), b) = Two(a, b)
           /\ Head(Two(a, b)) = a /\ Tail(Two(a, b)) = One(b)
<1>1. One(a) \in Seq(T) /\ Append(<<>>, a) = One(a) /\ One(a) # <<>>
      /\ Head(One(a)) = a /\ Tail(One(a)) = <<>> /\ Append(<<>>, b) = One(b)
  BY OneLine, Lines
<1>2. Append(One(a), b) = Two(a, b)
  <2>0. PICK s : s = Append(One(a), b)
    OBVIOUS
  <2>1. /\ s \in Seq(T) /\ Len(s) = Len(One(a)) + 1
        /\ \A i \in 1..Len(One(a)) : s[i] = One(a)[i]
        /\ s[Len(One(a)) + 1] = b
    BY <1>1, <2>0, AppendProperties
  <2>2. Two(a, b) \in Seq(T)
    BY DEF Two
  <2>3. Len(s) = 2 /\ s[1] = a /\ s[2] = b
    BY <2>1, Lines
  <2>4. \A i \in 1..Len(s) : s[i] = Two(a, b)[i]
    BY <2>3, Lines
  <2>5. s = Two(a, b)
    BY <2>1, <2>2, <2>3, <2>4, SeqEqual, Lines
  <2> QED
    BY <2>0, <2>5
<1>3. Two(a, b) \in Seq(T)
  BY DEF Two
<1>4. Head(Two(a, b)) = a /\ Tail(Two(a, b)) = One(b)
  <2>1. /\ Head(Append(One(a), b)) = IF One(a) = <<>> THEN b ELSE Head(One(a))
        /\ Tail(Append(One(a), b)) =
              IF One(a) = <<>> THEN <<>> ELSE Append(Tail(One(a)), b)
    BY <1>1, HeadTailAppend
  <2> QED
    BY <2>1, <1>1, <1>2
<1> QED
  BY <1>2, <1>3, <1>4

\* Three lines are two and another.
LEMMA ThreeLines ==
    ASSUME NEW T, NEW a \in T, NEW b \in T, NEW c \in T
    PROVE  Three(a, b, c) \in Seq(T) /\ Append(Two(a, b), c) = Three(a, b, c)
           /\ Head(Three(a, b, c)) = a /\ Tail(Three(a, b, c)) = Two(b, c)
<1>1. Two(a, b) \in Seq(T) /\ Two(a, b) # <<>> /\ Head(Two(a, b)) = a
      /\ Tail(Two(a, b)) = One(b) /\ Append(One(b), c) = Two(b, c)
  BY TwoLines, Lines
<1>2. Append(Two(a, b), c) = Three(a, b, c)
  <2>1. /\ Append(Two(a, b), c) \in Seq(T) /\ Len(Append(Two(a, b), c)) = Len(Two(a, b)) + 1
        /\ \A i \in 1..Len(Two(a, b)) : Append(Two(a, b), c)[i] = Two(a, b)[i]
        /\ Append(Two(a, b), c)[Len(Two(a, b)) + 1] = c
    BY <1>1, AppendProperties
  <2>2. Three(a, b, c) \in Seq(T)
    BY DEF Three
  <2>3. /\ Len(Append(Two(a, b), c)) = 3 /\ Append(Two(a, b), c)[1] = a
        /\ Append(Two(a, b), c)[2] = b /\ Append(Two(a, b), c)[3] = c
    BY <2>1, Lines
  <2>4. \A i \in 1..Len(Append(Two(a, b), c)) : Append(Two(a, b), c)[i] = Three(a, b, c)[i]
    BY <2>3, Lines
  <2> QED
    BY <2>1, <2>2, <2>3, <2>4, SeqEqual, Lines
<1>3. Three(a, b, c) \in Seq(T)
  BY DEF Three
<1>4. Head(Three(a, b, c)) = a /\ Tail(Three(a, b, c)) = Two(b, c)
  <2>1. /\ Head(Append(Two(a, b), c)) = IF Two(a, b) = <<>> THEN c ELSE Head(Two(a, b))
        /\ Tail(Append(Two(a, b), c)) =
              IF Two(a, b) = <<>> THEN <<>> ELSE Append(Tail(Two(a, b)), c)
    BY <1>1, HeadTailAppend
  <2> QED
    BY <2>1, <1>1, <1>2
<1> QED
  BY <1>2, <1>3, <1>4

\* One line is on one side or on the other.
LEMMA SplitOne ==
    ASSUME NEW T, NEW a \in T, NEW s \in Seq(T), NEW t \in Seq(T), Whole(s, t) = One(a)
    PROVE  (s = <<>> /\ t = One(a)) \/ (s = One(a) /\ t = <<>>)
<1>1. Len(s) \in Nat /\ Len(t) \in Nat /\ Len(s) + Len(t) = 1
  BY ConcatProperties, LenProperties, Lines DEF Whole
<1>2. s = <<>> \/ t = <<>>
  BY <1>1, EmptySeq
<1>3. <<>> \o t = t /\ s \o <<>> = s
  BY ConcatEmptySeq
<1> QED
  BY <1>2, <1>3 DEF Whole

\* Players are numbers, and there is a last one.
LEMMA Numbers ==
    /\ PlayerCount \in Int /\ PlayerCount >= 1
    /\ \A p \in Players : p \in Int /\ 0 <= p /\ p < PlayerCount
    /\ \A p \in Int : 0 <= p /\ p < PlayerCount => p \in Players
    /\ Final \in Players /\ Final + 1 = PlayerCount /\ 0 \in Players
    /\ \A p \in Players : p + 1 = PlayerCount => p = Final
BY WireAssumption DEF Players, Final

-----------------------------------------------------------------------------
(* readline()                                                              *)

\* What follows the first line of the buffer follows it in the whole.
LEMMA TailOfConcat ==
    ASSUME NEW T, NEW s \in Seq(T), NEW t \in Seq(T), s # <<>>
    PROVE  s \o t # <<>> /\ Head(s \o t) = Head(s) /\ Tail(s \o t) = Tail(s) \o t
<1>1. PICK u : u = s \o t
  OBVIOUS
<1>2. /\ u \in Seq(T) /\ Len(u) = Len(s) + Len(t)
      /\ \A i \in 1..(Len(s) + Len(t)) : u[i] = IF i <= Len(s) THEN s[i] ELSE t[i - Len(s)]
  BY <1>1, ConcatProperties
<1>3. PICK m \in Nat : m = Len(s)
  BY LenProperties
<1>4. PICK n \in Nat : n = Len(t)
  BY LenProperties
<1>5. m >= 1
  BY <1>3, EmptySeq
<1>6. u # <<>>
  BY <1>2, <1>3, <1>4, <1>5, EmptySeq
<1>7. Head(u) = Head(s)
  BY <1>2, <1>3, <1>4, <1>5, <1>6
<1>8. PICK v : v = Tail(u)
  OBVIOUS
<1>9. v \in Seq(T) /\ Len(v) = m + n - 1 /\ \A i \in 1..(m + n - 1) : v[i] = u[i + 1]
  BY <1>2, <1>3, <1>4, <1>6, <1>8, HeadTailProperties
<1>10. PICK x : x = Tail(s)
  OBVIOUS
<1>11. x \in Seq(T) /\ Len(x) = m - 1 /\ \A i \in 1..(m - 1) : x[i] = s[i + 1]
  BY <1>3, <1>10, HeadTailProperties
<1>12. PICK y : y = x \o t
  OBVIOUS
<1>13. /\ y \in Seq(T) /\ Len(y) = m - 1 + n
       /\ \A i \in 1..(m - 1 + n) : y[i] = IF i <= m - 1 THEN x[i] ELSE t[i - (m - 1)]
  <2>1. PICK l \in Int : l = m - 1
    OBVIOUS
  <2>2. /\ y \in Seq(T) /\ Len(y) = l + n
        /\ \A i \in 1..(l + n) : y[i] = IF i <= l THEN x[i] ELSE t[i - l]
    <3>1. Len(x) = l
      BY <1>11, <2>1
    <3>2. /\ y \in Seq(T) /\ Len(y) = Len(x) + Len(t)
          /\ \A i \in 1..(Len(x) + Len(t)) :
                y[i] = IF i <= Len(x) THEN x[i] ELSE t[i - Len(x)]
      BY <1>11, <1>12, ConcatProperties
    <3> QED
      BY <1>4, <3>1, <3>2
  <2> QED
    BY <2>1, <2>2
<1>14. ASSUME NEW i \in 1..(m + n - 1) PROVE v[i] = y[i]
  <2>1. v[i] = IF i + 1 <= m THEN s[i + 1] ELSE t[i + 1 - m]
    BY <1>2, <1>3, <1>4, <1>9
  <2>2. y[i] = IF i <= m - 1 THEN s[i + 1] ELSE t[i - (m - 1)]
    BY <1>5, <1>11, <1>13
  <2> QED
    BY <2>1, <2>2
<1>15. v = y
  BY <1>9, <1>13, <1>14, SeqEqual
<1> QED
  BY <1>1, <1>6, <1>7, <1>8, <1>10, <1>12, <1>15

\* A call returns the first of the lines that are in the buffer or under
\* way, and loses none of the others.
Reads(T, buf, wire, r) ==
    /\ r.line \in T /\ r.buf \in Seq(T) /\ r.wire \in Seq(T)
    /\ Whole(buf, wire) # <<>>
    /\ r.line = Head(Whole(buf, wire)) /\ Whole(r.buf, r.wire) = Tail(Whole(buf, wire))
    /\ buf # <<>> => r.line = Head(buf) /\ r.buf = Tail(buf) /\ r.wire = wire

\* Every way that readline() can go is such a call.
LEMMA ReadLine ==
    ASSUME NEW T, NEW buf \in Seq(T), NEW wire \in Seq(T), NEW r \in readline(buf, wire)
    PROVE  Reads(T, buf, wire, r)
<1>1. CASE buf # <<>>
  <2>1. r = [line |-> Head(buf), buf |-> Tail(buf), wire |-> wire]
    BY <1>1 DEF readline
  <2>2. r.line = Head(buf) /\ r.buf = Tail(buf) /\ r.wire = wire
    BY <2>1
  <2> QED
    BY <1>1, <2>2, TailOfConcat, HeadTailProperties DEF Reads, Whole
<1>2. CASE buf = <<>>
  <2>1. PICK k \in 1..Len(wire) :
           r = [line |-> Head(wire), buf |-> SubSeq(wire, 2, k),
                wire |-> SubSeq(wire, k + 1, Len(wire))]
    BY <1>2 DEF readline
  <2>2. /\ r.line = Head(wire) /\ r.buf = SubSeq(wire, 2, k)
        /\ r.wire = SubSeq(wire, k + 1, Len(wire))
    BY <2>1
  <2>3. Len(wire) \in Nat /\ \A i \in 1..Len(wire) : wire[i] \in T
    BY LenProperties, ElementOfSeq
  <2>4. wire # <<>> /\ buf \o wire = wire
    BY <1>2, <2>3, EmptySeq, ConcatEmptySeq
  <2>5. r.buf \in Seq(T)
    BY <2>2, <2>3, SubSeqProperties
  <2>6. r.wire \in Seq(T)
    BY <2>2, <2>3, SubSeqProperties
  <2>7. r.buf \o r.wire = SubSeq(wire, 2, Len(wire))
    <3>1. PICK n \in Nat : n = Len(wire)
      BY <2>3
    <3>2. 2 \in 1..n + 1 /\ k \in 2 - 1..n /\ n \in k..n
      BY <3>1
    <3>3. SubSeq(wire, 2, k) \o SubSeq(wire, k + 1, n) = SubSeq(wire, 2, n)
      BY <3>1, <3>2, ConcatAdjacentSubSeq, Zenon
    <3> QED
      BY <2>2, <3>1, <3>3, Zenon
  <2>8. SubSeq(wire, 2, Len(wire)) = Tail(wire) /\ Head(wire) \in T
    BY <2>4, TailIsSubSeq, HeadTailProperties
  <2> QED
    BY <1>2, <2>2, <2>4, <2>5, <2>6, <2>7, <2>8 DEF Reads, Whole
<1> QED
  BY <1>1, <1>2

\* The types of what a call returns, and that it does not return where
\* there is nothing.
LEMMA ReadTypes ==
    ASSUME NEW T, NEW buf \in Seq(T), NEW wire \in Seq(T), NEW r \in readline(buf, wire)
    PROVE  /\ r.line \in T /\ r.buf \in Seq(T) /\ r.wire \in Seq(T)
           /\ Whole(buf, wire) # <<>>
<1>1. Reads(T, buf, wire, r)
  BY ReadLine
<1> QED
  BY <1>1, Zenon DEF Reads

\* Nothing is left of nothing.
LEMMA WholeNone ==
    ASSUME NEW T, NEW buf \in Seq(T), NEW wire \in Seq(T)
    PROVE  /\ Whole(buf, wire) = <<>> <=> buf = <<>> /\ wire = <<>>
           /\ Whole(<<>>, wire) = wire
BY ConcatEqualIffEmpty, ConcatEmptySeq DEF Whole

\* One line: it is read, and nothing is left.
LEMMA ReadOne ==
    ASSUME NEW T, NEW buf \in Seq(T), NEW wire \in Seq(T), NEW r \in readline(buf, wire),
           NEW a \in T, Whole(buf, wire) = One(a)
    PROVE  r.line = a /\ r.buf = <<>> /\ r.wire = <<>> /\ Whole(r.buf, r.wire) = <<>>
<1>1. Reads(T, buf, wire, r)
  BY ReadLine
<1>2. Head(One(a)) = a /\ Tail(One(a)) = <<>>
  BY OneLine
<1>3. r.line = a /\ Whole(r.buf, r.wire) = <<>> /\ r.buf \in Seq(T) /\ r.wire \in Seq(T)
  BY <1>1, <1>2, Zenon DEF Reads
<1> QED
  BY <1>3, WholeNone

\* Two lines: the first is read.
LEMMA ReadTwo ==
    ASSUME NEW T, NEW buf \in Seq(T), NEW wire \in Seq(T), NEW r \in readline(buf, wire),
           NEW a \in T, NEW b \in T, Whole(buf, wire) = Two(a, b)
    PROVE  r.line = a /\ Whole(r.buf, r.wire) = One(b)
<1>1. Reads(T, buf, wire, r)
  BY ReadLine
<1>2. Head(Two(a, b)) = a /\ Tail(Two(a, b)) = One(b)
  BY TwoLines
<1> QED
  BY <1>1, <1>2, Zenon DEF Reads

\* Three lines: the first is read.
LEMMA ReadThree ==
    ASSUME NEW T, NEW buf \in Seq(T), NEW wire \in Seq(T), NEW r \in readline(buf, wire),
           NEW a \in T, NEW b \in T, NEW c \in T, Whole(buf, wire) = Three(a, b, c)
    PROVE  r.line = a /\ Whole(r.buf, r.wire) = Two(b, c)
<1>1. Reads(T, buf, wire, r)
  BY ReadLine
<1>2. Head(Three(a, b, c)) = a /\ Tail(Three(a, b, c)) = Two(b, c)
  BY ThreeLines
<1> QED
  BY <1>1, <1>2, Zenon DEF Reads

\* A line that was kept is read first, whatever is under way.
LEMMA ReadKept ==
    ASSUME NEW T, NEW wire \in Seq(T), NEW a \in T, NEW r \in readline(One(a), wire)
    PROVE  r.line = a /\ r.buf = <<>> /\ r.wire = wire
<1>1. Head(One(a)) = a /\ Tail(One(a)) = <<>> /\ One(a) \in Seq(T) /\ One(a) # <<>>
  BY OneLine, Lines
<1>2. Reads(T, One(a), wire, r)
  BY <1>1, ReadLine
<1> QED
  BY <1>1, <1>2, Zenon DEF Reads

\* Into an empty buffer two lines come at once or one after the other.
LEMMA FreshTwo ==
    ASSUME NEW T, NEW a \in T, NEW b \in T, NEW r \in readline(<<>>, Two(a, b))
    PROVE  /\ r.line = a
           /\ (r.buf = <<>> /\ r.wire = One(b)) \/ (r.buf = One(b) /\ r.wire = <<>>)
<1>1. PICK buf, wire : buf = <<>> /\ wire = Two(a, b)
  OBVIOUS
<1>2. buf \in Seq(T) /\ wire \in Seq(T) /\ r \in readline(buf, wire)
  BY <1>1, EmptySeq, TwoLines
<1>3. Whole(buf, wire) = Two(a, b)
  BY <1>1, <1>2, WholeNone
<1>4. r.line = a /\ Whole(r.buf, r.wire) = One(b)
  BY <1>2, <1>3, ReadTwo
<1>5. r.buf \in Seq(T) /\ r.wire \in Seq(T)
  BY <1>2, ReadTypes
<1> QED
  BY <1>4, <1>5, SplitOne

\* Into an empty buffer, one line.
LEMMA FreshOne ==
    ASSUME NEW T, NEW a \in T, NEW r \in readline(<<>>, One(a))
    PROVE  r.line = a /\ r.buf = <<>> /\ r.wire = <<>>
<1>1. PICK buf, wire : buf = <<>> /\ wire = One(a)
  OBVIOUS
<1>2. buf \in Seq(T) /\ wire \in Seq(T) /\ r \in readline(buf, wire)
  BY <1>1, EmptySeq, OneLine
<1>3. Whole(buf, wire) = One(a)
  BY <1>1, <1>2, WholeNone
<1> QED
  BY <1>2, <1>3, ReadOne

\* Into an empty buffer nothing can be read where there is nothing.
LEMMA FreshNone ==
    ASSUME NEW r \in readline(<<>>, <<>>)
    PROVE  FALSE
<1>1. <<>> \in Seq({}) /\ Whole(<<>>, <<>>) = <<>>
  BY EmptySeq, WholeNone
<1> QED
  BY <1>1, ReadTypes

-----------------------------------------------------------------------------
(* What the steps of a client have in common                               *)

Ups == {"ACK", "YES", "NO", "0"}

\* Client p has read a line of the server, the first of those it had still
\* to read.
Consumes(p, r) ==
    /\ cbuf' \in [Players -> Seq(Texts)] /\ down' \in [Players -> Seq(Texts)]
    /\ r.line \in Texts /\ Pipe(p) # <<>>
    /\ \A a \in Texts : Pipe(p) = One(a) => r.line = a /\ Pipe(p)' = <<>>
    /\ \A a, b \in Texts : Pipe(p) = Two(a, b) => r.line = a /\ Pipe(p)' = One(b)
    /\ \A a, b, c \in Texts :
          Pipe(p) = Three(a, b, c) => r.line = a /\ Pipe(p)' = Two(b, c)
    /\ \A q \in Players : q # p => Pipe(q)' = Pipe(q)

\* That is what readline() does in a client.
LEMMA TookConsumes ==
    ASSUME TypeOK, NEW p \in Players, NEW r \in readline(cbuf[p], down[p]), Took(p, r)
    PROVE  Consumes(p, r)
<1>1. /\ cbuf \in [Players -> Seq(Texts)] /\ down \in [Players -> Seq(Texts)]
      /\ cbuf' = [cbuf EXCEPT ![p] = r.buf] /\ down' = [down EXCEPT ![p] = r.wire]
  BY DEF TypeOK, Took
<1>2. PICK buf, wire : buf = cbuf[p] /\ wire = down[p]
  OBVIOUS
<1>3. /\ buf \in Seq(Texts) /\ wire \in Seq(Texts) /\ r \in readline(buf, wire)
      /\ Pipe(p) = Whole(buf, wire)
  BY <1>1, <1>2 DEF Pipe
<1>4. r.line \in Texts /\ r.buf \in Seq(Texts) /\ r.wire \in Seq(Texts) /\ Pipe(p) # <<>>
  BY <1>3, ReadTypes
<1>5. cbuf' \in [Players -> Seq(Texts)] /\ down' \in [Players -> Seq(Texts)]
  BY <1>1, <1>4
<1>6. cbuf'[p] = r.buf /\ down'[p] = r.wire
  BY <1>1
<1>7. Pipe(p)' = Whole(r.buf, r.wire)
  BY <1>6 DEF Pipe
<1>8. ASSUME NEW q \in Players, q # p PROVE Pipe(q)' = Pipe(q)
  <2>1. cbuf'[q] = cbuf[q] /\ down'[q] = down[q]
    BY <1>1, <1>8
  <2> QED
    BY <2>1 DEF Pipe
<1>9. ASSUME NEW a \in Texts, Pipe(p) = One(a) PROVE r.line = a /\ Pipe(p)' = <<>>
  <2>1. Whole(buf, wire) = One(a)
    BY <1>3, <1>9
  <2>2. r.line = a /\ Whole(r.buf, r.wire) = <<>>
    BY <1>3, <2>1, ReadOne
  <2> QED
    BY <1>7, <2>2
<1>10. ASSUME NEW a \in Texts, NEW b \in Texts, Pipe(p) = Two(a, b)
       PROVE  r.line = a /\ Pipe(p)' = One(b)
  <2>1. Whole(buf, wire) = Two(a, b)
    BY <1>3, <1>10
  <2>2. r.line = a /\ Whole(r.buf, r.wire) = One(b)
    BY <1>3, <2>1, ReadTwo
  <2> QED
    BY <1>7, <2>2
<1>11. ASSUME NEW a \in Texts, NEW b \in Texts, NEW c \in Texts, Pipe(p) = Three(a, b, c)
       PROVE  r.line = a /\ Pipe(p)' = Two(b, c)
  <2>1. Whole(buf, wire) = Three(a, b, c)
    BY <1>3, <1>11
  <2>2. r.line = a /\ Whole(r.buf, r.wire) = Two(b, c)
    BY <1>3, <2>1, ReadThree
  <2> QED
    BY <1>7, <2>2
<1> QED
  BY <1>4, <1>5, <1>8, <1>9, <1>10, <1>11 DEF Consumes

\* The connection of client p carries one line more.
Says(p, x) ==
    /\ up' \in [Players -> Seq(Ups)]
    /\ up'[p] # <<>>
    /\ up[p] = <<>> => up'[p] = One(x)
    /\ \A a \in Ups : up[p] = One(a) => up'[p] = Two(a, x)
    /\ \A q \in Players : q # p => up'[q] = up[q]

\* That is what writing does in a client.
LEMMA ReplySays ==
    ASSUME TypeOK, NEW p \in Players, NEW x \in Ups, Reply(p, x)
    PROVE  Says(p, x)
<1>1. up \in [Players -> Seq(Ups)] /\ up' = [up EXCEPT ![p] = Append(up[p], x)]
  BY DEF TypeOK, Reply, Ups
<1>2. PICK s : s = up[p]
  OBVIOUS
<1>3. PICK t : t = Append(s, x)
  OBVIOUS
<1>4. s \in Seq(Ups) /\ t \in Seq(Ups) /\ t # <<>>
  BY <1>1, <1>2, <1>3, AppendProperties
<1>5. up' = [up EXCEPT ![p] = t]
  BY <1>1, <1>2, <1>3
<1>6. up' \in [Players -> Seq(Ups)] /\ up'[p] = t /\ \A q \in Players : q # p => up'[q] = up[q]
  BY <1>1, <1>4, <1>5
<1>7. s = <<>> => t = One(x)
  BY <1>3, OneLine
<1>8. \A a \in Ups : s = One(a) => t = Two(a, x)
  BY <1>3, TwoLines
<1> QED
  BY <1>2, <1>4, <1>6, <1>7, <1>8 DEF Says

\* What the server and the others know of player q has not changed.
Calm(q) == Pipe(q)' = Pipe(q) /\ cpc'[q] = cpc[q] /\ vote'[q] = vote[q]
Same(q) ==
    up'[q] = up[q] /\ Pipe(q)' = Pipe(q) /\ cpc'[q] = cpc[q] /\ vote'[q] = vote[q]

\* Then q is where it was in its part of the exchange.
LEMMA TalkFrame ==
    ASSUME NEW q \in Players, Talk(q), Calm(q),
           Voting => Voting', Decided => Decided' /\ Ruling' = Ruling
    PROVE  Talk(q)'
<1> USE DEF Calm
<1>1. cpc'[q] = "lobby" =>
          Pipe(q)' \in {<<>>, One("join"), One("start"), Two("join", "start"),
                        Two("start", "id"), Three("join", "start", "id")}
  BY DEF Talk
<1>2. cpc'[q] = "id" => Pipe(q)' \in {<<>>, One("id")}
  BY DEF Talk
<1>3. cpc'[q] = "loop" =>
          Pipe(q)' = <<>> \/ \E x \in Offers : Pipe(q)' = One(x) /\ (x = "game" => Voting')
  BY DEF Talk
<1>4. /\ cpc'[q] \in {"prompt", "choose", "vote"} => Pipe(q)' = <<>>
      /\ cpc'[q] = "vote" => Voting'
  BY DEF Talk
<1>5. cpc'[q] = "sent" =>
          \/ Pipe(q)' \in {<<>>, One("ACK")}
          \/ \E x \in Offers : Pipe(q)' = Two("ACK", x) /\ (x = "game" => Voting')
  BY DEF Talk
<1>6. /\ cpc'[q] = "voted" =>
            Pipe(q)' \in {<<>>, One("ACK")} \/ (Decided' /\ Pipe(q)' = Two("ACK", Ruling'))
      /\ cpc'[q] = "verdict" => Pipe(q)' = <<>> \/ (Decided' /\ Pipe(q)' = One(Ruling'))
      /\ cpc'[q] \in {"again", "stopped"} => Decided'
  BY DEF Talk
<1>7. /\ cpc'[q] \in {"voted", "verdict", "again", "stopped"} => vote'[q] # "none"
      /\ cpc'[q] \notin {"voted", "verdict", "again", "stopped", "gone"} => vote'[q] = "none"
  BY DEF Talk
<1> QED
  BY <1>1, <1>2, <1>3, <1>4, <1>5, <1>6, <1>7 DEF Talk

\* The parts of the exchange that only the player's state is in do not
\* change, and the others not unless what they look at does.
PartsKept(q) ==
    /\ UNCHANGED <<phase, at>> \/ (phase = "id" /\ phase' = "id") => Unserved(q)' = Unserved(q)
    /\ Numbered(q)' = Numbered(q) /\ Idle(q)' = Idle(q)
    /\ Noticed(q)' = Noticed(q) /\ Questioned(q)' = Questioned(q)
    /\ UNCHANGED sbuf => Answering(q)' = Answering(q)
    /\ Polled(q)' = Polled(q) /\ Awaited(q)' = Awaited(q) /\ Collecting(q)' = Collecting(q)

\* So it is for a player of whom nothing has changed.
LEMMA PartsFrame ==
    ASSUME NEW q \in Players, Same(q)
    PROVE  PartsKept(q)
<1> USE DEF Same, Meets, Left
<1>1. UNCHANGED <<phase, at>> \/ (phase = "id" /\ phase' = "id") => Unserved(q)' = Unserved(q)
  BY DEF Unserved
<1>2. Numbered(q)' = Numbered(q) /\ Idle(q)' = Idle(q)
  BY DEF Numbered, Idle
<1>3. Noticed(q)' = Noticed(q) /\ Questioned(q)' = Questioned(q)
  BY DEF Noticed, Questioned, Unread
<1>4. UNCHANGED sbuf => Answering(q)' = Answering(q)
  BY DEF Answering
<1>5. Polled(q)' = Polled(q) /\ Awaited(q)' = Awaited(q) /\ Collecting(q)' = Collecting(q)
  BY DEF Polled, Awaited, Collecting, Unread
<1> QED
  BY <1>1, <1>2, <1>3, <1>4, <1>5 DEF PartsKept

\* If the server has not moved either, the exchange between the two is where
\* it was.
LEMMA StageFrame ==
    ASSUME NEW q \in Players, Stage(q), Same(q), UNCHANGED server
    PROVE  Stage(q)'
<1>1. PartsKept(q)
  BY PartsFrame
<1>2. NotYet(q)' = NotYet(q)
  BY DEF NotYet, server
<1>3. vote'[q] = vote[q]
  BY DEF Same
<1> QED
  BY <1>1, <1>2, <1>3 DEF Stage, PartsKept, server

\* What a step of client p leaves alone: the server and the other clients, a
\* vote and the connection on which it was cast, until there is a verdict.
Moves(p) ==
    /\ UNCHANGED server
    /\ \A q \in Players : q # p => Same(q)
    /\ vote[p] # "none" /\ ~Decided => vote'[p] = vote[p] /\ up'[p] = up[p]
    /\ up[p] # <<>> => up'[p] # <<>>
    /\ cpc[p] = "gone" => cpc'[p] = "gone"

\* Such a step does not disturb what holds while the server is there.
LEMMA ClientServing ==
    ASSUME TypeOK, NEW p \in Players, Serving, Moves(p), Stage(p)'
    PROVE  Serving'
<1>1. /\ UNCHANGED <<sbuf, phase, wants, at, temprset, testset, newgame_count>>
      /\ \A q \in Players : q # p => Same(q)
      /\ vote[p] # "none" /\ ~Decided => vote'[p] = vote[p] /\ up'[p] = up[p]
      /\ up[p] # <<>> => up'[p] # <<>>
      /\ cpc[p] = "gone" => cpc'[p] = "gone"
      /\ UNCHANGED server
  BY DEF Moves, server
<1>2. Steps /\ Buffered /\ Tally /\ Ready /\ \A q \in Players : Stage(q)
  BY DEF Serving
<1>3. \A q \in Players : Stage(q)'
  BY <1>1, <1>2, StageFrame
<1>4. Steps'
  BY <1>1, <1>2 DEF Steps
<1>5. ASSUME NEW q \in Players, vote[q] # "none", ~Decided
      PROVE  vote'[q] = vote[q] /\ up'[q] = up[q]
  BY <1>1, <1>5 DEF Same
<1>6. ASSUME NEW q \in Players, Kept(q), ~Decided PROVE Kept(q)'
  BY <1>1, <1>5, <1>6 DEF Kept
<1>7. Buffered'
  <2>1. phase = "ask" => sbuf = <<>> \/ \E q \in Players : q + 1 = at /\ Kept(q)'
    BY <1>2, <1>6 DEF Buffered, Decided
  <2>2. phase = "count" => sbuf = <<>> \/ (Final \in temprset /\ Kept(Final)')
    <3>1. Final \in Players
      BY WireAssumption DEF Final, Players
    <3> QED
      BY <1>2, <1>6, <3>1 DEF Buffered, Decided
  <2> QED
    BY <1>1, <1>2, <2>1, <2>2 DEF Buffered, Final
<1>8. Tally'
  <2>1. ASSUME phase = "count", Mixed PROVE Mixed'
    <3>1. Final \in Players
      BY WireAssumption DEF Final, Players
    <3> QED
      BY <1>1, <1>5, <2>1, <3>1 DEF Mixed, Decided, Final
  <2>2. ASSUME phase = "count", \A q \in Heard : vote[q] # "none"
        PROVE  ForIt(Heard)' = ForIt(Heard) /\ \A q \in Heard : vote'[q] = vote[q]
    <3>1. Heard' = Heard /\ Heard \subseteq Players
      BY <1>1 DEF Heard
    <3>2. \A q \in Heard : vote'[q] = vote[q]
      BY <1>5, <2>2, <3>1 DEF Decided
    <3> QED
      BY <3>1, <3>2 DEF ForIt
  <2>3. Heard' = Heard
    BY <1>1 DEF Heard
  <2>4. CASE phase # "count"
    BY <1>1, <1>2, <2>4 DEF Tally
  <2>5. CASE phase = "count"
    <3>1. newgame_count <= Cardinality(Heard)
      BY <1>2, <2>5 DEF Tally, Tallied
    <3>2. \/ Mixed
          \/ newgame_count = Cardinality(ForIt(Heard)) /\ \A q \in Heard : vote[q] # "none"
      BY <1>2, <2>5 DEF Tally, Tallied
    <3>3. \/ Mixed'
          \/ /\ newgame_count' = Cardinality(ForIt(Heard)')
             /\ \A q \in Heard' : vote'[q] # "none"
      BY <1>1, <2>1, <2>2, <2>3, <2>5, <3>2
    <3>4. newgame_count' <= Cardinality(Heard')
      BY <1>1, <2>3, <3>1
    <3> QED
      BY <1>1, <2>5, <3>3, <3>4 DEF Tally, Tallied
  <2> QED
    BY <2>4, <2>5
<1>9. Ready'
  <2>1. ASSUME wants = "collect", NEW q \in testset, q >= at
        PROVE  q \in temprset /\ (up'[q] # <<>> \/ cpc'[q] = "gone")
    <3>1. q \in temprset /\ (up[q] # <<>> \/ cpc[q] = "gone")
      BY <1>2, <2>1 DEF Ready
    <3>2. q \in Players
      BY <2>1 DEF TypeOK
    <3> QED
      BY <1>1, <3>1, <3>2 DEF Same
  <2> QED
    BY <1>1, <2>1 DEF Ready
<1> QED
  BY <1>3, <1>4, <1>7, <1>8, <1>9 DEF Serving

\* A step of client p preserves the invariant if it does so for p.
LEMMA ClientInv ==
    ASSUME Inv, NEW p \in Players, Moves(p), TypeOK', Terminals', Talk(p)',
           wants # "exit" => Stage(p)'
    PROVE  Inv'
<1>1. UNCHANGED <<phase, wants, newgame_count>> /\ \A q \in Players : q # p => Same(q)
  BY DEF Moves, server
<1>2. Voting' = Voting /\ Decided' = Decided /\ Ruling' = Ruling
  BY <1>1 DEF Voting, Decided, Ruling, AllWant
<1>3. ASSUME NEW q \in Players, q # p PROVE Talk(q)'
  <2>1. Talk(q) /\ Calm(q)
    BY <1>1, <1>3 DEF Inv, Same, Calm
  <2> QED
    BY <1>2, <2>1, TalkFrame
<1>4. wants' # "exit" => Serving'
  BY <1>1, ClientServing DEF Inv
<1>5. Opening'
  BY <1>1 DEF Inv, Opening
<1> QED
  BY <1>3, <1>4, <1>5 DEF Inv

-----------------------------------------------------------------------------
(* The steps of a client                                                   *)

\* LoopLine(p) keeps the invariant: the one line is read and acknowledged.
LEMMA LoopLineStep ==
    ASSUME Inv, NEW p \in Players, LoopLine(p)
    PROVE  Inv'
<1>1. TypeOK /\ Terminals /\ Talk(p) /\ (wants # "exit" => Stage(p))
  BY DEF Inv, Serving
<1>2. PICK r \in readline(cbuf[p], down[p]) : Took(p, r) /\ Goto(p, Reaction(r.line))
  BY DEF LoopLine
<1>3. /\ cpc[p] = "loop" /\ Reply(p, "ACK") /\ UNCHANGED <<server, typed, vote>>
      /\ cpc' = [cpc EXCEPT ![p] = Reaction(r.line)]
  BY <1>2 DEF LoopLine, Goto
<1>4. Consumes(p, r)
  BY <1>1, <1>2, TookConsumes
<1>5. Says(p, "ACK")
  BY <1>1, <1>3, ReplySays DEF Ups
<1>6. Pipe(p) # <<>>
  BY <1>4 DEF Consumes
<1>7. PICK x \in Offers : Pipe(p) = One(x) /\ (x = "game" => Voting)
  BY <1>1, <1>3, <1>6 DEF Talk
<1>8. r.line = x /\ Pipe(p)' = <<>>
  BY <1>4, <1>7 DEF Consumes, Offers, Texts
<1>9. /\ x = "notice" => Reaction(r.line) = "loop"
      /\ x = "question" => Reaction(r.line) = "prompt"
      /\ x = "turn" => Reaction(r.line) = "choose"
      /\ x = "game" => Reaction(r.line) = "vote"
  BY <1>8 DEF Reaction
<1>10. cpc'[p] = Reaction(r.line) /\ \A q \in Players : q # p => cpc'[q] = cpc[q]
  BY <1>1, <1>3 DEF TypeOK
<1>11. TypeOK'
  <2>1. cbuf' \in [Players -> Seq(Texts)] /\ down' \in [Players -> Seq(Texts)]
    BY <1>4 DEF Consumes
  <2>2. up' \in [Players -> Seq(Ups)]
    BY <1>5 DEF Says
  <2>3. Reaction(r.line) \in {"loop", "prompt", "choose", "vote"}
    BY <1>9 DEF Offers
  <2> QED
    BY <1>1, <1>3, <2>1, <2>2, <2>3 DEF TypeOK, server, Ups
<1>12. Terminals'
  BY <1>1, <1>3 DEF Terminals
<1>13. vote[p] = "none" /\ vote' = vote
  BY <1>1, <1>3 DEF Talk
<1>14. Moves(p)
  <2>1. \A q \in Players : q # p => Same(q)
    BY <1>4, <1>5, <1>10, <1>13 DEF Same, Consumes, Says
  <2> QED
    BY <1>3, <1>5, <1>13, <2>1 DEF Moves, Says
<1>15. Voting' = Voting
  BY <1>3 DEF server, Voting
<1>16. Talk(p)'
  BY <1>7, <1>8, <1>9, <1>10, <1>13, <1>15 DEF Talk, Offers
<1>17. ASSUME wants # "exit" PROVE Stage(p)'
  <2>1. ~Unserved(p) /\ ~Numbered(p) /\ ~Idle(p)
    BY <1>3, <1>7, Lines DEF Unserved, Numbered, Idle, Meets, Left
  <2>2. ASSUME Noticed(p) PROVE Noticed(p)'
    BY <1>3, <1>5, <1>7, <1>8, <1>9, <1>10, <2>2, Lines DEF Noticed, Unread, Meets, Left, Says
  <2>3. ASSUME Questioned(p) PROVE Questioned(p)'
    BY <1>3, <1>5, <1>7, <1>8, <1>9, <1>10, <2>3, Lines
       DEF Questioned, Questions, Unread, Meets, Left, Says
  <2>4. ~Answering(p)
    BY <1>3, <1>7, Lines DEF Answering, Meets, Left
  <2>5. ASSUME Polled(p) PROVE Polled(p)'
    BY <1>3, <1>5, <1>7, <1>8, <1>9, <1>10, <1>13, <2>5, Lines
       DEF Polled, Unread, Meets, Left, Says
  <2>6. ~Awaited(p) /\ ~Collecting(p)
    BY <1>3, <1>7, Lines DEF Awaited, Collecting, Meets, Left
  <2>7. Stage(p)
    BY <1>1, <1>17
  <2>8. NotYet(p)' = NotYet(p) /\ vote'[p] = vote[p]
    BY <1>3 DEF NotYet, server
  <2> QED
    BY <1>3, <2>1, <2>2, <2>3, <2>4, <2>5, <2>6, <2>7, <2>8 DEF Stage, server
<1> QED
  BY <1>11, <1>12, <1>14, <1>16, <1>17, ClientInv

\* What is typed matters to nobody but the client: a step that changes only
\* terminals keeps the invariant.
LEMMA TypingStep ==
    ASSUME Inv, NEW p \in Players, Terminals', typed' \in [Players -> Seq({"Y", "n", "0"})],
           UNCHANGED <<up, down, server, cbuf, cpc, vote>>
    PROVE  Inv'
<1>1. TypeOK /\ Talk(p) /\ (wants # "exit" => Stage(p))
  BY DEF Inv, Serving
<1>2. \A q \in Players : Same(q)
  BY DEF Same, Pipe
<1>3. TypeOK'
  BY <1>1 DEF TypeOK, server
<1>4. Moves(p)
  BY <1>2 DEF Moves
<1>5. Voting' = Voting /\ Decided' = Decided /\ Ruling' = Ruling
  BY DEF Voting, Decided, Ruling, AllWant, server
<1>6. Talk(p)'
  <2>1. Calm(p)
    BY <1>2 DEF Same, Calm
  <2> QED
    BY <1>1, <1>5, <2>1, TalkFrame
<1>7. wants # "exit" => Stage(p)'
  BY <1>1, <1>2, StageFrame
<1> QED
  BY <1>3, <1>4, <1>6, <1>7, ClientInv

\* LobbyTyped(p) keeps the invariant.
LEMMA LobbyTypedStep ==
    ASSUME Inv, NEW p \in Players, LobbyTyped(p)
    PROVE  Inv'
<1>1. /\ typed \in [Players -> Seq({"Y", "n", "0"})] /\ Terminals
      /\ typed' = [typed EXCEPT ![p] = <<>>]
      /\ UNCHANGED <<up, down, server, cbuf, cpc, vote>>
  BY DEF Inv, TypeOK, LobbyTyped
<1>2. typed' \in [Players -> Seq({"Y", "n", "0"})]
  BY <1>1, EmptySeq
<1>3. Terminals'
  BY <1>1 DEF Terminals
<1> QED
  BY <1>1, <1>2, <1>3, TypingStep

\* Type(p) keeps the invariant.
LEMMA TypeStep ==
    ASSUME Inv, NEW p \in Players, Type(p)
    PROVE  Inv'
<1>1. /\ typed \in [Players -> Seq({"Y", "n", "0"})] /\ Terminals
      /\ UNCHANGED <<up, down, server, cbuf, cpc, vote>>
  BY DEF Inv, TypeOK, Type
<1>2. PICK t \in {"Y", "n", "0"} : typed' = [typed EXCEPT ![p] = <<t>>]
  BY DEF Type, Answer
<1>3. typed' = [typed EXCEPT ![p] = One(t)] /\ One(t) \in Seq({"Y", "n", "0"})
  BY <1>2, OneLine DEF One
<1>4. typed' \in [Players -> Seq({"Y", "n", "0"})]
  BY <1>1, <1>3
<1>5. Terminals'
  BY <1>1, <1>3 DEF Terminals
<1> QED
  BY <1>1, <1>4, <1>5, TypingStep

\* A client may end at any moment before it has the verdict.
LEMMA GoneStep ==
    ASSUME Inv, NEW p \in Players, Goto(p, "gone"), cpc[p] \notin {"again", "stopped"},
           UNCHANGED <<up, down, server, cbuf, typed, vote>>
    PROVE  Inv'
<1>1. TypeOK /\ Terminals /\ Talk(p) /\ (wants # "exit" => Stage(p))
  BY DEF Inv, Serving
<1>2. cpc'[p] = "gone" /\ \A q \in Players : q # p => cpc'[q] = cpc[q]
  BY <1>1 DEF TypeOK, Goto
<1>3. up' = up /\ vote' = vote /\ \A q \in Players : Pipe(q)' = Pipe(q)
  BY DEF Pipe
<1>4. TypeOK'
  BY <1>1 DEF TypeOK, server, Goto
<1>5. Terminals'
  BY <1>1 DEF Terminals
<1>6. Moves(p)
  BY <1>2, <1>3 DEF Moves, Same
<1>7. Talk(p)'
  BY <1>2 DEF Talk
<1>8. ASSUME wants # "exit" PROVE Stage(p)'
  <2> USE <1>2, <1>3 DEF Meets, Left
  <2>1. ASSUME Unserved(p) PROVE Unserved(p)'
    BY <2>1 DEF Unserved
  <2>2. ASSUME Numbered(p) PROVE Numbered(p)'
    BY <2>2 DEF Numbered
  <2>3. ASSUME Idle(p) PROVE Idle(p)'
    BY <2>3 DEF Idle
  <2>4. ASSUME Noticed(p) PROVE Noticed(p)'
    BY <2>4 DEF Noticed, Unread
  <2>5. ASSUME Questioned(p) PROVE Questioned(p)'
    <3>1. CASE \E x \in Questions : Unread(p, x)
      BY <3>1 DEF Questioned, Unread, Questions
    <3>2. CASE up[p] = One("ACK")
      BY <3>2 DEF Questioned
    <3>3. CASE \E a \in Answers : up[p] = Two("ACK", a)
      BY <3>3 DEF Questioned
    <3> QED
      BY <2>5, <3>1, <3>2, <3>3 DEF Questioned
  <2>6. ASSUME Answering(p) PROVE Answering(p)'
    BY <2>6 DEF Answering, server
  <2>7. ASSUME Polled(p) PROVE Polled(p)'
    BY <2>7 DEF Polled, Unread
  <2>8. ASSUME Awaited(p) PROVE Awaited(p)'
    BY <2>8 DEF Awaited
  <2>9. Collecting(p)'
    BY DEF Collecting
  <2>10. Stage(p)
    BY <1>1, <1>8
  <2>11. NotYet(p)' = NotYet(p) /\ vote'[p] = vote[p]
    BY DEF NotYet, server
  <2> QED
    BY <2>1, <2>2, <2>3, <2>4, <2>5, <2>6, <2>7, <2>8, <2>9, <2>10, <2>11 DEF Stage, server
<1> QED
  BY <1>4, <1>5, <1>6, <1>7, <1>8, ClientInv

\* Leave(p) keeps the invariant.
LEMMA LeaveStep ==
    ASSUME Inv, NEW p \in Players, Leave(p)
    PROVE  Inv'
<1>1. cpc[p] \notin {"again", "stopped"}
  BY DEF Leave, Done
<1> QED
  BY <1>1, GoneStep DEF Leave

\* ServerGone(p) keeps the invariant.
LEMMA ServerGoneStep ==
    ASSUME Inv, NEW p \in Players, ServerGone(p)
    PROVE  Inv'
<1>1. cpc[p] \notin {"again", "stopped"}
  BY DEF ServerGone
<1> QED
  BY <1>1, GoneStep DEF ServerGone

\* LobbyLine(p) keeps the invariant: "start!" and what comes before it.
LEMMA LobbyLineStep ==
    ASSUME Inv, NEW p \in Players, LobbyLine(p)
    PROVE  Inv'
<1>1. TypeOK /\ Terminals /\ Talk(p) /\ (wants # "exit" => Stage(p))
  BY DEF Inv, Serving
<1>2. PICK r \in readline(cbuf[p], down[p]) :
         Took(p, r) /\ IF r.line = "start" THEN Goto(p, "id") ELSE UNCHANGED cpc
  BY DEF LobbyLine
<1>3. cpc[p] = "lobby" /\ UNCHANGED <<up, server, typed, vote>>
  BY DEF LobbyLine
<1>4. Consumes(p, r)
  BY <1>1, <1>2, TookConsumes
<1>5. /\ cpc'[p] = IF r.line = "start" THEN "id" ELSE "lobby"
      /\ \A q \in Players : q # p => cpc'[q] = cpc[q]
  BY <1>1, <1>2, <1>3 DEF TypeOK, Goto
<1>6. \/ Pipe(p) = One("join") /\ Pipe(p)' = <<>> /\ cpc'[p] = "lobby"
      \/ Pipe(p) = One("start") /\ Pipe(p)' = <<>> /\ cpc'[p] = "id"
      \/ Pipe(p) = Two("join", "start") /\ Pipe(p)' = One("start") /\ cpc'[p] = "lobby"
      \/ Pipe(p) = Two("start", "id") /\ Pipe(p)' = One("id") /\ cpc'[p] = "id"
      \/ /\ Pipe(p) = Three("join", "start", "id") /\ Pipe(p)' = Two("start", "id")
         /\ cpc'[p] = "lobby"
  <2>1. Pipe(p) # <<>>
    BY <1>4 DEF Consumes
  <2>2. Pipe(p) \in {One("join"), One("start"), Two("join", "start"),
                     Two("start", "id"), Three("join", "start", "id")}
    BY <1>1, <1>3, <2>1 DEF Talk
  <2>3. "join" \in Texts /\ "start" \in Texts /\ "id" \in Texts
    BY DEF Texts
  <2> QED
    BY <1>4, <1>5, <2>2, <2>3 DEF Consumes
<1>7. TypeOK'
  <2>1. cbuf' \in [Players -> Seq(Texts)] /\ down' \in [Players -> Seq(Texts)]
    BY <1>4 DEF Consumes
  <2> QED
    BY <1>1, <1>2, <1>3, <2>1 DEF TypeOK, server, Goto
<1>8. Terminals'
  BY <1>1, <1>3 DEF Terminals
<1>9. vote[p] = "none" /\ vote' = vote
  BY <1>1, <1>3 DEF Talk
<1>10. Moves(p)
  <2>1. \A q \in Players : q # p => Same(q)
    BY <1>3, <1>4, <1>5 DEF Same, Consumes
  <2> QED
    BY <1>3, <1>9, <2>1 DEF Moves
<1>11. Talk(p)'
  BY <1>6, <1>9 DEF Talk
<1>12. ASSUME wants # "exit" PROVE Stage(p)'
  <2>1. ASSUME Unserved(p), phase \in {"join", "start", "id"} PROVE Unserved(p)'
    <3>1. p >= at \/ p < at
      <4>1. p \in Int /\ at \in Int
        BY <1>1, Numbers DEF TypeOK
      <4> QED
        BY <4>1
    <3> QED
      BY <1>3, <1>6, <2>1, <3>1, Lines DEF Unserved, Meets, Left, server
  <2>2. ASSUME Numbered(p) PROVE Numbered(p)'
    BY <1>3, <1>6, <2>2, Lines DEF Numbered, Meets, Left
  <2>3. ~Idle(p) /\ ~Noticed(p) /\ ~Polled(p)
    BY <1>3, <1>9 DEF Idle, Noticed, Polled, Unread, Meets, Left
  <2>4. ~Questioned(p) /\ ~Answering(p) /\ ~Awaited(p) /\ ~Collecting(p)
    BY <1>3 DEF Questioned, Answering, Awaited, Collecting, Unread, Meets, Left
  <2>5. Stage(p)
    BY <1>1, <1>12
  <2>6. NotYet(p)' = NotYet(p) /\ vote'[p] = vote[p]
    BY <1>3 DEF NotYet, server
  <2> QED
    BY <1>3, <2>1, <2>2, <2>3, <2>4, <2>5, <2>6 DEF Stage, server
<1> QED
  BY <1>7, <1>8, <1>10, <1>11, <1>12, ClientInv

\* ReceiveId(p) keeps the invariant: the number is read and acknowledged.
LEMMA ReceiveIdStep ==
    ASSUME Inv, NEW p \in Players, ReceiveId(p)
    PROVE  Inv'
<1>1. TypeOK /\ Terminals /\ Talk(p) /\ (wants # "exit" => Stage(p))
  BY DEF Inv, Serving
<1>2. PICK r \in readline(cbuf[p], down[p]) : Took(p, r)
  BY DEF ReceiveId
<1>3. /\ cpc[p] = "id" /\ Reply(p, "ACK") /\ UNCHANGED <<server, typed, vote>>
      /\ cpc' = [cpc EXCEPT ![p] = "loop"]
  BY DEF ReceiveId, Goto
<1>4. Consumes(p, r)
  BY <1>1, <1>2, TookConsumes
<1>5. Says(p, "ACK")
  BY <1>1, <1>3, ReplySays DEF Ups
<1>6. Pipe(p) = One("id") /\ Pipe(p)' = <<>>
  <2>1. Pipe(p) = One("id")
    BY <1>1, <1>3, <1>4 DEF Talk, Consumes
  <2>2. "id" \in Texts
    BY DEF Texts
  <2> QED
    BY <1>4, <2>1, <2>2 DEF Consumes
<1>7. cpc'[p] = "loop" /\ \A q \in Players : q # p => cpc'[q] = cpc[q]
  BY <1>1, <1>3 DEF TypeOK
<1>8. TypeOK'
  <2>1. cbuf' \in [Players -> Seq(Texts)] /\ down' \in [Players -> Seq(Texts)]
    BY <1>4 DEF Consumes
  <2>2. up' \in [Players -> Seq(Ups)]
    BY <1>5 DEF Says
  <2> QED
    BY <1>1, <1>3, <2>1, <2>2 DEF TypeOK, server, Ups
<1>9. Terminals'
  BY <1>1, <1>3 DEF Terminals
<1>10. vote[p] = "none" /\ vote' = vote
  BY <1>1, <1>3 DEF Talk
<1>11. Moves(p)
  <2>1. \A q \in Players : q # p => Same(q)
    BY <1>4, <1>5, <1>7, <1>10 DEF Same, Consumes, Says
  <2> QED
    BY <1>3, <1>5, <1>10, <2>1 DEF Moves, Says
<1>12. Talk(p)'
  BY <1>6, <1>7, <1>10 DEF Talk
<1>13. ASSUME wants # "exit" PROVE Stage(p)'
  <2>1. ~Unserved(p)
    BY <1>3, <1>6, Lines DEF Unserved, Meets, Left
  <2>2. ASSUME Numbered(p) PROVE Numbered(p)'
    BY <1>3, <1>5, <1>6, <1>7, <2>2, Lines DEF Numbered, Meets, Left, Says
  <2>3. ~Idle(p) /\ ~Noticed(p) /\ ~Polled(p)
    BY <1>3, <1>10 DEF Idle, Noticed, Polled, Unread, Meets, Left
  <2>4. ~Questioned(p) /\ ~Answering(p) /\ ~Awaited(p) /\ ~Collecting(p)
    BY <1>3 DEF Questioned, Answering, Awaited, Collecting, Unread, Meets, Left
  <2>5. Stage(p)
    BY <1>1, <1>13
  <2>6. NotYet(p)' = NotYet(p) /\ vote'[p] = vote[p]
    BY <1>3 DEF NotYet, server
  <2> QED
    BY <1>3, <2>1, <2>2, <2>3, <2>4, <2>5, <2>6 DEF Stage, server
<1> QED
  BY <1>8, <1>9, <1>11, <1>12, <1>13, ClientInv

\* Approval(p) keeps the invariant: the line is always the ACK, and the
\* client is back in its loop or waits for the verdict.
LEMMA ApprovalStep ==
    ASSUME Inv, NEW p \in Players, Approval(p)
    PROVE  Inv'
<1>1. TypeOK /\ Terminals /\ Talk(p) /\ (wants # "exit" => Stage(p))
  BY DEF Inv, Serving
<1>2. PICK r \in readline(cbuf[p], down[p]) :
         /\ Took(p, r)
         /\ Goto(p, IF r.line # "ACK" THEN "gone"
                    ELSE IF cpc[p] = "sent" THEN "loop" ELSE "verdict")
  BY DEF Approval
<1>3. cpc[p] \in {"sent", "voted"} /\ UNCHANGED <<up, server, typed, vote>>
  BY DEF Approval
<1>4. Consumes(p, r)
  BY <1>1, <1>2, TookConsumes
<1>5. /\ r.line = "ACK" => cpc'[p] = IF cpc[p] = "sent" THEN "loop" ELSE "verdict"
      /\ \A q \in Players : q # p => cpc'[q] = cpc[q]
  BY <1>1, <1>2 DEF TypeOK, Goto
<1>6. Pipe(p) # <<>> /\ "ACK" \in Texts /\ Offers \subseteq Texts /\ Ruling \in Texts
  BY <1>4 DEF Consumes, Texts, Offers, Ruling
<1>7. \/ Pipe(p) = One("ACK") /\ Pipe(p)' = <<>> /\ r.line = "ACK"
      \/ \E x \in Offers : /\ cpc[p] = "sent" /\ Pipe(p) = Two("ACK", x)
                           /\ Pipe(p)' = One(x) /\ r.line = "ACK"
                           /\ x = "game" => Voting
      \/ /\ cpc[p] = "voted" /\ Decided /\ Pipe(p) = Two("ACK", Ruling)
         /\ Pipe(p)' = One(Ruling) /\ r.line = "ACK"
  <2>1. CASE Pipe(p) = One("ACK")
    BY <1>4, <1>6, <2>1 DEF Consumes
  <2>2. CASE cpc[p] = "sent" /\ Pipe(p) # One("ACK")
    <3>1. PICK x \in Offers : Pipe(p) = Two("ACK", x) /\ (x = "game" => Voting)
      BY <1>1, <1>6, <2>2 DEF Talk
    <3>2. r.line = "ACK" /\ Pipe(p)' = One(x)
      BY <1>4, <1>6, <3>1 DEF Consumes
    <3> QED
      BY <2>2, <3>1, <3>2
  <2>3. CASE cpc[p] = "voted" /\ Pipe(p) # One("ACK")
    <3>1. Decided /\ Pipe(p) = Two("ACK", Ruling)
      BY <1>1, <1>6, <2>3 DEF Talk
    <3>2. r.line = "ACK" /\ Pipe(p)' = One(Ruling)
      BY <1>4, <1>6, <3>1 DEF Consumes
    <3> QED
      BY <2>3, <3>1, <3>2
  <2> QED
    BY <1>3, <2>1, <2>2, <2>3
<1>8. cpc'[p] = IF cpc[p] = "sent" THEN "loop" ELSE "verdict"
  BY <1>5, <1>7
<1>9. TypeOK'
  <2>1. cbuf' \in [Players -> Seq(Texts)] /\ down' \in [Players -> Seq(Texts)]
    BY <1>4 DEF Consumes
  <2> QED
    BY <1>1, <1>2, <1>3, <2>1 DEF TypeOK, server, Goto
<1>10. Terminals'
  BY <1>1, <1>3 DEF Terminals
<1>11. Moves(p)
  <2>1. \A q \in Players : q # p => Same(q)
    BY <1>3, <1>4, <1>5 DEF Same, Consumes
  <2> QED
    BY <1>3, <2>1 DEF Moves
<1>12. Voting' = Voting /\ Decided' = Decided /\ Ruling' = Ruling
  BY <1>3 DEF server, Voting, Decided, Ruling, AllWant
<1>13. Talk(p)'
  <2>1. cpc[p] = "sent" => vote'[p] = "none"
    BY <1>1, <1>3 DEF Talk
  <2>2. cpc[p] = "voted" => vote'[p] # "none"
    BY <1>1, <1>3 DEF Talk
  <2>3. CASE cpc[p] = "sent"
    <3>1. Pipe(p)' = <<>> \/ \E x \in Offers : Pipe(p)' = One(x) /\ (x = "game" => Voting')
      BY <1>7, <1>12, <2>3
    <3>2. cpc'[p] = "loop"
      BY <1>8, <2>3
    <3> QED
      BY <2>1, <2>3, <3>1, <3>2 DEF Talk
  <2>4. CASE cpc[p] = "voted"
    <3>1. Pipe(p)' = <<>> \/ (Decided' /\ Pipe(p)' = One(Ruling'))
      BY <1>7, <1>12, <2>4
    <3>2. cpc'[p] = "verdict"
      BY <1>8, <2>4
    <3> QED
      BY <2>2, <2>4, <3>1, <3>2 DEF Talk
  <2> QED
    BY <1>3, <2>3, <2>4
<1>14. ASSUME wants # "exit" PROVE Stage(p)'
  <2>1. ~Unserved(p) /\ ~Numbered(p)
    BY <1>3 DEF Unserved, Numbered, Meets, Left
  <2>2. ASSUME Idle(p) PROVE Idle(p)'
    BY <1>3, <1>7, <1>8, <2>2, Lines DEF Idle, Meets, Left
  <2>3. ASSUME NEW x \in Offers, Unread(p, x) PROVE Unread(p, x)'
    <3>1. Pipe(p) = Two("ACK", x) /\ cpc[p] = "sent" /\ up[p] = <<>>
      BY <1>3, <2>3 DEF Unread, Meets, Left
    <3>2. Pipe(p)' = One(x)
      BY <1>7, <3>1, Lines
    <3> QED
      BY <1>3, <1>8, <3>1, <3>2 DEF Unread, Meets
  <2>4. ASSUME Noticed(p) PROVE Noticed(p)'
    <3>1. Unread(p, "notice")
      BY <1>3, <2>4 DEF Noticed, Meets, Left
    <3> QED
      BY <2>3, <3>1 DEF Noticed, Offers
  <2>5. ASSUME Questioned(p) PROVE Questioned(p)'
    <3>1. \E x \in Questions : Unread(p, x)
      BY <1>3, <1>6, <2>5 DEF Questioned, Meets, Left
    <3>2. Questions \subseteq Offers
      BY DEF Questions, Offers
    <3> QED
      BY <2>3, <3>1, <3>2 DEF Questioned
  <2>6. ~Answering(p)
    BY <1>3, <1>6 DEF Answering, Meets, Left
  <2>7. ASSUME Polled(p) PROVE Polled(p)'
    <3>1. vote[p] = "none" /\ Unread(p, "game")
      BY <1>3, <1>6, <2>7 DEF Polled, Meets, Left
    <3> QED
      BY <1>3, <2>3, <3>1 DEF Polled, Offers
  <2>8. ~Awaited(p)
    BY <1>3, <1>6 DEF Awaited, Meets, Left
  <2>9. ASSUME Collecting(p) PROVE Collecting(p)'
    <3>1. cpc[p] = "voted" /\ Pipe(p) = One("ACK")
      BY <1>3, <2>9 DEF Collecting
    <3>2. Pipe(p)' = <<>>
      BY <1>7, <3>1, Lines
    <3> QED
      BY <1>8, <3>1, <3>2 DEF Collecting
  <2>10. Stage(p)
    BY <1>1, <1>14
  <2>11. NotYet(p)' = NotYet(p) /\ vote'[p] = vote[p]
    BY <1>3 DEF NotYet, server
  <2> QED
    BY <1>3, <2>1, <2>2, <2>4, <2>5, <2>6, <2>7, <2>8, <2>9, <2>10, <2>11 DEF Stage, server
<1> QED
  BY <1>9, <1>10, <1>11, <1>13, <1>14, ClientInv

\* What client p is told in the end, and that the tables agree on it.
LEMMA VerdictRead ==
    ASSUME Inv, NEW p \in Players, Verdict(p)
    PROVE  /\ Decided /\ cpc[p] = "verdict" /\ Pipe(p) = One(Ruling) /\ Pipe(p)' = <<>>
           /\ cpc' = [cpc EXCEPT ![p] = Outcome(Ruling)]
           /\ cbuf' \in [Players -> Seq(Texts)] /\ down' \in [Players -> Seq(Texts)]
           /\ \A q \in Players : q # p => Pipe(q)' = Pipe(q)
<1>1. TypeOK /\ Talk(p)
  BY DEF Inv
<1>2. PICK r \in readline(cbuf[p], down[p]) : Took(p, r) /\ Goto(p, Outcome(r.line))
  BY DEF Verdict
<1>3. cpc[p] = "verdict"
  BY DEF Verdict
<1>4. Consumes(p, r)
  BY <1>1, <1>2, TookConsumes
<1>5. Decided /\ Pipe(p) = One(Ruling) /\ Ruling \in Texts
  BY <1>1, <1>3, <1>4 DEF Talk, Consumes, Ruling, Texts
<1>6. r.line = Ruling /\ Pipe(p)' = <<>>
  BY <1>4, <1>5 DEF Consumes
<1> QED
  BY <1>2, <1>3, <1>4, <1>5, <1>6 DEF Consumes, Goto

\* Verdict(p) keeps the invariant.
LEMMA VerdictStep ==
    ASSUME Inv, NEW p \in Players, Verdict(p)
    PROVE  Inv'
<1>1. TypeOK /\ Terminals /\ Talk(p) /\ (wants # "exit" => Stage(p))
  BY DEF Inv, Serving
<1>2. /\ Decided /\ cpc[p] = "verdict" /\ Pipe(p) = One(Ruling) /\ Pipe(p)' = <<>>
      /\ cpc' = [cpc EXCEPT ![p] = Outcome(Ruling)]
      /\ cbuf' \in [Players -> Seq(Texts)] /\ down' \in [Players -> Seq(Texts)]
      /\ \A q \in Players : q # p => Pipe(q)' = Pipe(q)
  BY VerdictRead
<1>3. Reply(p, "ACK") /\ UNCHANGED <<server, typed, vote>>
  BY DEF Verdict
<1>4. Says(p, "ACK")
  BY <1>1, <1>3, ReplySays DEF Ups
<1>5. cpc'[p] \in {"again", "stopped"} /\ \A q \in Players : q # p => cpc'[q] = cpc[q]
  BY <1>1, <1>2 DEF TypeOK, Outcome
<1>6. TypeOK'
  <2>1. up' \in [Players -> Seq(Ups)]
    BY <1>4 DEF Says
  <2>2. Outcome(Ruling) \in {"again", "stopped"}
    BY DEF Outcome
  <2> QED
    BY <1>1, <1>2, <1>3, <2>1, <2>2 DEF TypeOK, server, Ups
<1>7. Terminals'
  BY <1>1, <1>3 DEF Terminals
<1>8. Moves(p)
  <2>1. \A q \in Players : q # p => Same(q)
    BY <1>2, <1>3, <1>4, <1>5 DEF Same, Says
  <2> QED
    BY <1>2, <1>3, <1>4, <2>1 DEF Moves, Says
<1>9. Talk(p)'
  <2>1. vote'[p] # "none" /\ Decided'
    BY <1>1, <1>2, <1>3 DEF Talk, Decided, server
  <2> QED
    BY <1>5, <2>1 DEF Talk
<1>10. ASSUME wants # "exit" PROVE Stage(p)'
  <2>1. ~Collecting(p)
    BY <1>2, Lines DEF Collecting
  <2>2. Stage(p) /\ phase \in {"tell", "over"} /\ phase' = phase
    BY <1>1, <1>2, <1>3, <1>10 DEF Decided, server
  <2>3. NotYet(p)' = NotYet(p)
    BY <1>3 DEF NotYet, server
  <2> QED
    BY <2>1, <2>2, <2>3 DEF Stage
<1> QED
  BY <1>6, <1>7, <1>8, <1>9, <1>10, ClientInv

\* LoopTyped(p) keeps the invariant: it is the line that was typed that is
\* thrown away or, if the buffer is not empty, the line of the server.
LEMMA LoopTypedStep ==
    ASSUME Inv, NEW p \in Players, LoopTyped(p)
    PROVE  Inv'
<1>1. TypeOK /\ Terminals /\ Talk(p) /\ (wants # "exit" => Stage(p))
  BY DEF Inv, Serving
<1>2. PICK r \in readline(cbuf[p], typed[p]) : TookTyped(p, r)
  BY DEF LoopTyped
<1>3. /\ cpc[p] = "loop" /\ typed[p] # <<>> /\ UNCHANGED <<up, down, server, cpc, vote>>
      /\ cbuf' = [cbuf EXCEPT ![p] = r.buf] /\ typed' = [typed EXCEPT ![p] = r.wire]
  BY <1>2 DEF LoopTyped, TookTyped
<1>4. /\ cbuf \in [Players -> Seq(Texts)] /\ down \in [Players -> Seq(Texts)]
      /\ typed \in [Players -> Seq({"Y", "n", "0"})]
  BY <1>1 DEF TypeOK
<1>5. CASE cbuf[p] = <<>>
  <2>1. PICK t \in {"Y", "n", "0"} : typed[p] = One(t)
    BY <1>1, <1>3 DEF Terminals
  <2>2. r \in readline(<<>>, One(t))
    BY <1>5, <2>1
  <2>3. r.buf = <<>> /\ r.wire = <<>>
    BY <2>2, FreshOne
  <2>4. cbuf' = cbuf
    BY <1>3, <1>4, <1>5, <2>3
  <2>5. typed' \in [Players -> Seq({"Y", "n", "0"})]
    BY <1>3, <1>4, <2>3, EmptySeq
  <2>6. Terminals'
    BY <1>1, <1>3, <1>4, <2>3 DEF Terminals
  <2> QED
    BY <1>3, <2>4, <2>5, <2>6, TypingStep
<1>6. CASE cbuf[p] # <<>>
  <2>1. Pipe(p) # <<>>
    BY <1>4, <1>6, WholeNone DEF Pipe
  <2>2. PICK x \in Offers : Pipe(p) = One(x) /\ (x = "game" => Voting)
    BY <1>1, <1>3, <2>1 DEF Talk
  <2>3. cbuf[p] = One(x) /\ down[p] = <<>>
    <3>1. x \in Texts /\ Whole(cbuf[p], down[p]) = One(x)
      BY <2>2 DEF Pipe, Offers, Texts
    <3> QED
      BY <1>4, <1>6, <3>1, SplitOne
  <2>4. r = [line |-> Head(cbuf[p]), buf |-> Tail(cbuf[p]), wire |-> typed[p]]
    BY <1>6 DEF readline
  <2>5. Tail(One(x)) = <<>>
    BY OneLine
  <2>6. r.buf = <<>> /\ r.wire = typed[p]
    BY <2>3, <2>4, <2>5
  <2>7. typed' = typed /\ cbuf' = [cbuf EXCEPT ![p] = <<>>]
    BY <1>3, <1>4, <2>6
  <2>8. cbuf' \in [Players -> Seq(Texts)]
    BY <1>4, <2>7, EmptySeq
  <2>9. Pipe(p)' = <<>>
    <3>1. cbuf'[p] = <<>> /\ down'[p] = <<>>
      BY <1>3, <1>4, <2>3, <2>7
    <3>2. Whole(<<>>, <<>>) = <<>>
      BY EmptySeq, WholeNone
    <3> QED
      BY <3>1, <3>2 DEF Pipe
  <2>10. ASSUME NEW q \in Players, q # p PROVE Same(q)
    BY <1>3, <1>4, <2>7, <2>10 DEF Same, Pipe
  <2>11. TypeOK'
    BY <1>1, <1>3, <2>7, <2>8 DEF TypeOK, server
  <2>12. Terminals'
    BY <1>1, <2>7 DEF Terminals
  <2>13. Moves(p)
    BY <1>3, <2>10 DEF Moves
  <2>14. Talk(p)'
    BY <1>1, <1>3, <2>9 DEF Talk
  <2>15. ASSUME wants # "exit" PROVE Stage(p)'
    <3>1. ~Unserved(p) /\ ~Numbered(p) /\ ~Idle(p)
      BY <1>3, <2>2, Lines DEF Unserved, Numbered, Idle, Meets, Left
    <3>2. ASSUME Noticed(p) PROVE Noticed(p)'
      BY <1>3, <2>2, <2>9, <3>2, Lines DEF Noticed, Unread, Meets, Left
    <3>3. ASSUME Questioned(p) PROVE Questioned(p)'
      BY <1>3, <2>2, <2>9, <3>3, Lines DEF Questioned, Questions, Unread, Meets, Left
    <3>4. ~Answering(p)
      BY <1>3, <2>2, Lines DEF Answering, Meets, Left
    <3>5. ASSUME Polled(p) PROVE Polled(p)'
      BY <1>3, <2>2, <2>9, <3>5, Lines DEF Polled, Unread, Meets, Left
    <3>6. ~Awaited(p) /\ ~Collecting(p)
      BY <1>3, <2>2, Lines DEF Awaited, Collecting, Meets, Left
    <3>7. Stage(p)
      BY <1>1, <2>15
    <3>8. NotYet(p)' = NotYet(p) /\ vote'[p] = vote[p]
      BY <1>3 DEF NotYet, server
    <3> QED
      BY <1>3, <3>1, <3>2, <3>3, <3>4, <3>5, <3>6, <3>7, <3>8 DEF Stage, server
  <2> QED
    BY <2>11, <2>12, <2>13, <2>14, <2>15, ClientInv
<1> QED
  BY <1>5, <1>6

\* What is answered at a prompt was typed: the buffer is empty there.
LEMMA PromptedRead ==
    ASSUME Inv, NEW p \in Players, Prompted(p)
    PROVE  /\ UNCHANGED <<down, server, cbuf>>
           /\ typed' \in [Players -> Seq({"Y", "n", "0"})] /\ Terminals'
           /\ \/ UNCHANGED <<up, cpc, vote>>
              \/ \E a \in {"YES", "NO"} :
                    /\ Reply(p, a)
                    /\ cpc' = [cpc EXCEPT ![p] = IF cpc[p] = "vote" THEN "voted" ELSE "sent"]
                    /\ vote' = IF cpc[p] = "vote" THEN [vote EXCEPT ![p] = a] ELSE vote
<1>1. TypeOK /\ Terminals /\ Talk(p)
  BY DEF Inv
<1>2. PICK r \in readline(cbuf[p], typed[p]) :
         /\ TookTyped(p, r)
         /\ IF r.line \in DOMAIN Answer
            THEN /\ Reply(p, Answer[r.line])
                 /\ Goto(p, IF cpc[p] = "vote" THEN "voted" ELSE "sent")
                 /\ vote' = IF cpc[p] = "vote"
                            THEN [vote EXCEPT ![p] = Answer[r.line]] ELSE vote
            ELSE UNCHANGED <<up, cpc, vote>>
  BY DEF Prompted
<1>3. /\ cpc[p] \in {"prompt", "vote"} /\ UNCHANGED <<down, server>>
      /\ cbuf' = [cbuf EXCEPT ![p] = r.buf] /\ typed' = [typed EXCEPT ![p] = r.wire]
  BY <1>2 DEF Prompted, TookTyped
<1>4. /\ cbuf \in [Players -> Seq(Texts)] /\ down \in [Players -> Seq(Texts)]
      /\ typed \in [Players -> Seq({"Y", "n", "0"})]
  BY <1>1 DEF TypeOK
<1>5. cbuf[p] = <<>>
  <2>1. Pipe(p) = <<>>
    BY <1>1, <1>3 DEF Talk
  <2> QED
    BY <1>4, <2>1, WholeNone DEF Pipe
<1>6. typed[p] # <<>>
  BY <1>2, <1>5, FreshNone
<1>7. PICK t \in {"Y", "n", "0"} : typed[p] = One(t)
  BY <1>1, <1>6 DEF Terminals
<1>8. r \in readline(<<>>, One(t))
  BY <1>2, <1>5, <1>7
<1>9. r.line = t /\ r.buf = <<>> /\ r.wire = <<>>
  BY <1>8, FreshOne
<1>10. cbuf' = cbuf
  BY <1>3, <1>4, <1>5, <1>9
<1>11. typed' \in [Players -> Seq({"Y", "n", "0"})]
  BY <1>3, <1>4, <1>9, EmptySeq
<1>12. Terminals'
  BY <1>1, <1>3, <1>4, <1>9 DEF Terminals
<1>13. /\ DOMAIN Answer = {"Y", "n"} /\ Answer["Y"] = "YES" /\ Answer["n"] = "NO"
  BY DEF Answer
<1>14. CASE t = "0"
  <2>1. UNCHANGED <<up, cpc, vote>>
    BY <1>2, <1>9, <1>13, <1>14
  <2> QED
    BY <1>3, <1>10, <1>11, <1>12, <2>1
<1>15. CASE t \in {"Y", "n"}
  <2>1. PICK a : a = Answer[t]
    OBVIOUS
  <2>2. a \in {"YES", "NO"}
    BY <1>13, <1>15, <2>1
  <2>3. /\ Reply(p, a)
        /\ cpc' = [cpc EXCEPT ![p] = IF cpc[p] = "vote" THEN "voted" ELSE "sent"]
        /\ vote' = IF cpc[p] = "vote" THEN [vote EXCEPT ![p] = a] ELSE vote
    BY <1>2, <1>9, <1>13, <1>15, <2>1 DEF Goto
  <2> QED
    BY <1>3, <1>10, <1>11, <1>12, <2>2, <2>3
<1> QED
  BY <1>14, <1>15

\* An answer to a question of the play keeps the invariant.
LEMMA AnswerStep ==
    ASSUME Inv, NEW p \in Players, NEW a \in Answers, cpc[p] \in {"prompt", "choose"},
           Reply(p, a), Goto(p, "sent"), UNCHANGED <<down, server, cbuf, vote>>,
           typed' \in [Players -> Seq({"Y", "n", "0"})], Terminals'
    PROVE  Inv'
<1>1. TypeOK /\ Talk(p) /\ (wants # "exit" => Stage(p)) /\ a \in Ups
  BY DEF Inv, Serving, Answers, Ups
<1>2. Says(p, a)
  BY <1>1, ReplySays
<1>3. cpc'[p] = "sent" /\ \A q \in Players : q # p => cpc'[q] = cpc[q]
  BY <1>1 DEF TypeOK, Goto
<1>4. Pipe(p) = <<>> /\ Pipe(p)' = <<>> /\ \A q \in Players : Pipe(q)' = Pipe(q)
  <2>1. \A q \in Players : Pipe(q)' = Pipe(q)
    BY DEF Pipe
  <2> QED
    BY <1>1, <2>1 DEF Talk
<1>5. vote[p] = "none" /\ vote' = vote
  BY <1>1 DEF Talk
<1>6. TypeOK'
  <2>1. up' \in [Players -> Seq(Ups)]
    BY <1>2 DEF Says
  <2> QED
    BY <1>1, <2>1 DEF TypeOK, server, Ups, Goto
<1>7. Moves(p)
  BY <1>2, <1>3, <1>4, <1>5 DEF Moves, Same, Says
<1>8. Talk(p)'
  BY <1>3, <1>4, <1>5 DEF Talk
<1>9. ASSUME wants # "exit" PROVE Stage(p)'
  <2>1. ~Unserved(p) /\ ~Numbered(p) /\ ~Idle(p) /\ ~Noticed(p)
    BY DEF Unserved, Numbered, Idle, Noticed, Unread, Meets, Left
  <2>2. ASSUME Questioned(p) PROVE Questioned(p)'
    <3>1. up[p] = One("ACK")
      BY <2>2 DEF Questioned, Unread, Meets, Left
    <3>2. up'[p] = Two("ACK", a)
      BY <1>2, <3>1 DEF Says, Ups
    <3> QED
      BY <1>3, <1>4, <3>2 DEF Questioned, Meets
  <2>3. ASSUME Answering(p) PROVE Answering(p)'
    <3>1. up[p] = <<>> /\ sbuf = <<>>
      BY <2>3 DEF Answering, Meets, Left
    <3>2. up'[p] = One(a) /\ sbuf' = <<>>
      BY <1>2, <3>1 DEF Says, server
    <3> QED
      BY <1>3, <1>4, <3>2 DEF Answering, Meets
  <2>4. ~Polled(p) /\ ~Awaited(p) /\ ~Collecting(p)
    BY DEF Polled, Awaited, Collecting, Unread, Meets, Left
  <2>5. Stage(p)
    BY <1>1, <1>9
  <2>6. NotYet(p)' = NotYet(p) /\ vote'[p] = vote[p]
    BY DEF NotYet, server
  <2> QED
    BY <2>1, <2>2, <2>3, <2>4, <2>5, <2>6 DEF Stage, server
<1> QED
  BY <1>6, <1>7, <1>8, <1>9, ClientInv

\* Casting a vote keeps the invariant.
LEMMA VoteStep ==
    ASSUME Inv, NEW p \in Players, NEW a \in {"YES", "NO"}, cpc[p] = "vote",
           Reply(p, a), Goto(p, "voted"), vote' = [vote EXCEPT ![p] = a],
           UNCHANGED <<down, server, cbuf>>,
           typed' \in [Players -> Seq({"Y", "n", "0"})], Terminals'
    PROVE  Inv'
<1>1. TypeOK /\ Talk(p) /\ (wants # "exit" => Stage(p)) /\ a \in Ups
  BY DEF Inv, Serving, Ups
<1>2. Says(p, a)
  BY <1>1, ReplySays
<1>3. cpc'[p] = "voted" /\ \A q \in Players : q # p => cpc'[q] = cpc[q]
  BY <1>1 DEF TypeOK, Goto
<1>4. Pipe(p) = <<>> /\ Pipe(p)' = <<>> /\ \A q \in Players : Pipe(q)' = Pipe(q)
  <2>1. \A q \in Players : Pipe(q)' = Pipe(q)
    BY DEF Pipe
  <2> QED
    BY <1>1, <2>1 DEF Talk
<1>5. vote[p] = "none" /\ vote'[p] = a /\ a # "none"
      /\ \A q \in Players : q # p => vote'[q] = vote[q]
  BY <1>1 DEF Talk, TypeOK
<1>6. TypeOK'
  <2>1. up' \in [Players -> Seq(Ups)]
    BY <1>2 DEF Says
  <2> QED
    BY <1>1, <2>1 DEF TypeOK, server, Ups, Goto
<1>7. Moves(p)
  <2>1. \A q \in Players : q # p => Same(q)
    BY <1>2, <1>3, <1>4, <1>5 DEF Same, Says
  <2> QED
    BY <1>2, <1>5, <2>1 DEF Moves, Says
<1>8. Talk(p)'
  BY <1>3, <1>4, <1>5 DEF Talk
<1>9. ASSUME wants # "exit" PROVE Stage(p)'
  <2>1. ~Unserved(p) /\ ~Numbered(p) /\ ~Idle(p) /\ ~Noticed(p) /\ ~Collecting(p)
    BY DEF Unserved, Numbered, Idle, Noticed, Unread, Meets, Left, Collecting
  <2>2. ~Questioned(p) /\ ~Answering(p)
    BY DEF Questioned, Answering, Unread, Meets, Left
  <2>3. ASSUME Polled(p) PROVE Polled(p)'
    <3>1. up[p] = One("ACK")
      BY <2>3 DEF Polled, Unread, Meets, Left
    <3>2. up'[p] = Two("ACK", a)
      BY <1>2, <3>1 DEF Says, Ups
    <3> QED
      BY <1>3, <1>4, <1>5, <3>2 DEF Polled, Meets
  <2>4. ASSUME Awaited(p) PROVE Awaited(p)'
    <3>1. up[p] = <<>>
      BY <1>5, <2>4 DEF Awaited, Meets, Left
    <3>2. up'[p] = One(a)
      BY <1>2, <3>1 DEF Says
    <3> QED
      BY <1>3, <1>4, <1>5, <3>2 DEF Awaited, Meets
  <2>5. Stage(p) /\ phase \in {"ask", "count"}
    BY <1>1, <1>9 DEF Talk, Voting
  <2>6. ~(phase = "ask" /\ NotYet(p))
    BY <2>1, <2>5 DEF Stage
  <2>7. NotYet(p)' = NotYet(p)
    BY DEF NotYet, server
  <2> QED
    BY <2>1, <2>2, <2>3, <2>4, <2>5, <2>6, <2>7 DEF Stage, server
<1> QED
  BY <1>6, <1>7, <1>8, <1>9, ClientInv

\* Prompted(p) keeps the invariant.
LEMMA PromptedStep ==
    ASSUME Inv, NEW p \in Players, Prompted(p)
    PROVE  Inv'
<1>1. /\ UNCHANGED <<down, server, cbuf>>
      /\ typed' \in [Players -> Seq({"Y", "n", "0"})] /\ Terminals'
      /\ cpc[p] \in {"prompt", "vote"}
  BY PromptedRead DEF Prompted
<1>2. CASE UNCHANGED <<up, cpc, vote>>
  BY <1>1, <1>2, TypingStep
<1>3. ASSUME NEW a \in {"YES", "NO"}, Reply(p, a),
             cpc' = [cpc EXCEPT ![p] = IF cpc[p] = "vote" THEN "voted" ELSE "sent"],
             vote' = IF cpc[p] = "vote" THEN [vote EXCEPT ![p] = a] ELSE vote
      PROVE  Inv'
  <2>1. CASE cpc[p] = "vote"
    <3>1. Goto(p, "voted") /\ vote' = [vote EXCEPT ![p] = a]
      BY <1>3, <2>1 DEF Goto
    <3> QED
      BY <1>1, <1>3, <2>1, <3>1, VoteStep
  <2>2. CASE cpc[p] = "prompt"
    <3>1. Goto(p, "sent") /\ vote' = vote /\ a \in Answers
      BY <1>3, <2>2 DEF Goto, Answers
    <3> QED
      BY <1>1, <1>3, <2>2, <3>1, AnswerStep
  <2> QED
    BY <1>1, <2>1, <2>2
<1> QED
  BY <1>2, <1>3, PromptedRead

\* Chosen(p) keeps the invariant.
LEMMA ChosenStep ==
    ASSUME Inv, NEW p \in Players, Chosen(p)
    PROVE  Inv'
<1>1. /\ TypeOK /\ Terminals /\ cpc[p] = "choose" /\ typed' = [typed EXCEPT ![p] = <<>>]
      /\ Reply(p, "0") /\ Goto(p, "sent") /\ UNCHANGED <<down, server, cbuf, vote>>
  BY DEF Inv, Chosen
<1>2. typed \in [Players -> Seq({"Y", "n", "0"})]
  BY <1>1 DEF TypeOK
<1>3. typed' \in [Players -> Seq({"Y", "n", "0"})]
  BY <1>1, <1>2, EmptySeq
<1>4. Terminals'
  BY <1>1, <1>2 DEF Terminals
<1>5. "0" \in Answers
  BY DEF Answers
<1> QED
  BY <1>1, <1>3, <1>4, <1>5, AnswerStep

\* Every step of a client, and of the person at it, keeps the invariant.
LEMMA ClientsStep ==
    ASSUME Inv, NEW p \in Players,
           Client(p) \/ LobbyTyped(p) \/ LoopTyped(p) \/ Type(p) \/ Leave(p)
    PROVE  Inv'
BY LobbyLineStep, ReceiveIdStep, LoopLineStep, PromptedStep, ChosenStep, ApprovalStep,
   VerdictStep, ServerGoneStep, LobbyTypedStep, LoopTypedStep, TypeStep, LeaveStep DEF Client

-----------------------------------------------------------------------------
(* The first state, and what the steps of the server have in common        *)

\* The invariant holds at first.
LEMMA InvInit ==
    ASSUME Init
    PROVE  Inv
<1> USE DEF Init
<1>1. ASSUME NEW p \in Players PROVE Pipe(p) = <<>>
  <2>1. Whole(<<>>, <<>>) = <<>>
    BY EmptySeq, WholeNone
  <2> QED
    BY <1>1, <2>1 DEF Pipe
<1>2. TypeOK
  <2>1. /\ <<>> \in Seq({"ACK", "YES", "NO", "0"}) /\ <<>> \in Seq(Texts)
        /\ <<>> \in Seq({"Y", "n", "0"})
    BY EmptySeq
  <2>2. at \in Players /\ left \in 0..MaxExchanges /\ newgame_count \in 0..PlayerCount
    BY Numbers, WireAssumption
  <2> QED
    BY <2>1, <2>2 DEF TypeOK
<1>3. Terminals /\ Opening
  BY DEF Terminals, Opening
<1>4. \A p \in Players : Talk(p)
  BY <1>1 DEF Talk
<1>5. Serving
  <2>1. Steps /\ Buffered /\ Tally /\ Ready
    BY DEF Steps, Buffered, Tally, Ready
  <2>2. ASSUME NEW p \in Players PROVE Stage(p)
    <3>1. p >= at
      BY Numbers
    <3>2. Unserved(p)
      BY <1>1, <3>1 DEF Unserved
    <3> QED
      BY <3>2 DEF Stage
  <2> QED
    BY <2>1, <2>2 DEF Serving
<1> QED
  BY <1>2, <1>3, <1>4, <1>5 DEF Inv

\* Player p has one line more to read.
Sends(p, x) ==
    /\ down' \in [Players -> Seq(Texts)]
    /\ Pipe(p) = <<>> => Pipe(p)' = One(x)
    /\ \A a \in Texts : Pipe(p) = One(a) => Pipe(p)' = Two(a, x)
    /\ \A a, b \in Texts : Pipe(p) = Two(a, b) => Pipe(p)' = Three(a, b, x)

\* What is appended to the connection is appended to all there is to read.
LEMMA AppendSends ==
    ASSUME TypeOK, NEW p \in Players, NEW x \in Texts, UNCHANGED cbuf,
           down' \in [Players -> Seq(Texts)], down'[p] = Append(down[p], x)
    PROVE  Sends(p, x)
<1>1. PICK buf, wire : buf = cbuf[p] /\ wire = down[p]
  OBVIOUS
<1>2. buf \in Seq(Texts) /\ wire \in Seq(Texts)
  BY <1>1 DEF TypeOK
<1>3. PICK s : s = Whole(buf, wire)
  OBVIOUS
<1>4. Pipe(p) = s
  BY <1>1, <1>3 DEF Pipe
<1>5. s \in Seq(Texts)
  BY <1>2, <1>3, ConcatProperties DEF Whole
<1>6. Pipe(p)' = Append(s, x)
  <2>1. Pipe(p)' = buf \o Append(wire, x)
    BY <1>1 DEF Pipe, Whole
  <2>2. PICK e : e = <<x>>
    OBVIOUS
  <2>3. e \in Seq(Texts)
    BY <2>2
  <2>4. Append(wire, x) = wire \o e
    BY <1>2, <2>2, AppendIsConcat
  <2>5. Append(s, x) = s \o e
    BY <1>5, <2>2, AppendIsConcat
  <2>6. (buf \o wire) \o e = buf \o (wire \o e)
    BY <1>2, <2>3, ConcatAssociative
  <2>7. s = buf \o wire
    BY <1>3 DEF Whole
  <2> QED
    BY <2>1, <2>4, <2>5, <2>6, <2>7, Zenon
<1>7. s = <<>> => Append(s, x) = One(x)
  BY OneLine
<1>8. \A a \in Texts : s = One(a) => Append(s, x) = Two(a, x)
  BY TwoLines
<1>9. \A a, b \in Texts : s = Two(a, b) => Append(s, x) = Three(a, b, x)
  <2>1. ASSUME NEW a \in Texts, NEW b \in Texts, s = Two(a, b)
        PROVE  Append(s, x) = Three(a, b, x)
    <3>1. Append(Two(a, b), x) = Three(a, b, x)
      BY ThreeLines
    <3> QED
      BY <2>1, <3>1
  <2> QED
    BY <2>1
<1> QED
  BY <1>4, <1>6, <1>7, <1>8, <1>9, Zenon DEF Sends

\* That is what writing does in the server.
LEMMA SendSends ==
    ASSUME TypeOK, NEW p \in Players, NEW x \in Texts, Send(p, x), UNCHANGED cbuf
    PROVE  Sends(p, x) /\ \A q \in Players : q # p => Pipe(q)' = Pipe(q)
<1>1. down \in [Players -> Seq(Texts)] /\ down' = [down EXCEPT ![p] = Append(down[p], x)]
  BY DEF TypeOK, Send
<1>2. PICK t : t = Append(down[p], x)
  OBVIOUS
<1>3. t \in Seq(Texts)
  BY <1>1, <1>2, AppendProperties
<1>4. down' = [down EXCEPT ![p] = t]
  BY <1>1, <1>2
<1>5. /\ down' \in [Players -> Seq(Texts)] /\ down'[p] = t
      /\ \A q \in Players : q # p => down'[q] = down[q]
  BY <1>1, <1>3, <1>4
<1>6. Sends(p, x)
  BY <1>2, <1>5, AppendSends
<1>7. \A q \in Players : q # p => Pipe(q)' = Pipe(q)
  BY <1>5 DEF Pipe
<1> QED
  BY <1>6, <1>7

\* Join keeps the invariant.
LEMMA JoinStep ==
    ASSUME Inv, Join
    PROVE  Inv'
<1>1. /\ TypeOK /\ Terminals /\ phase = "join" /\ wants = "write" /\ Serving
      /\ \A q \in Players : Talk(q) /\ Stage(q)
  BY DEF Inv, Join, Opening, Serving
<1>2. /\ Send(at, "join")
      /\ UNCHANGED <<up, sbuf, wants, left, temprset, testset, newgame_count, cbuf, typed,
                     cpc, vote>>
      /\ IF AtLast THEN phase' = "start" /\ at' = 0 ELSE at' = at + 1 /\ UNCHANGED phase
  BY DEF Join
<1>3. PICK w \in Players : w = at
  BY <1>1 DEF TypeOK
<1>4. Sends(w, "join") /\ \A q \in Players : q # w => Pipe(q)' = Pipe(q)
  <2>1. Send(w, "join") /\ "join" \in Texts
    BY <1>2, <1>3 DEF Texts
  <2> QED
    BY <1>1, <1>2, <2>1, SendSends
<1>5. at' \in Players /\ (AtLast => \A q \in Players : q <= at)
  BY <1>2, <1>3, Numbers DEF AtLast
<1>6. TypeOK'
  <2>1. down' \in [Players -> Seq(Texts)]
    BY <1>4 DEF Sends
  <2> QED
    BY <1>1, <1>2, <1>5, <2>1 DEF TypeOK
<1>7. Terminals' /\ Opening'
  BY <1>1, <1>2 DEF Terminals, Opening
<1>8. ASSUME NEW q \in Players PROVE Unserved(q)' /\ vote'[q] = "none" /\ Talk(q)'
  <2>1. Unserved(q) /\ vote[q] = "none"
    BY <1>1 DEF Stage
  <2>2. CASE cpc[q] = "gone"
    BY <1>2, <2>1, <2>2 DEF Unserved, Left, Meets, Talk
  <2>3. CASE cpc[q] # "gone"
    <3>1. /\ cpc[q] = "lobby" /\ up[q] = <<>> /\ (q >= at => Pipe(q) = <<>>)
          /\ q < at => Pipe(q) \in {<<>>, One("join")}
      BY <1>1, <2>1, <2>3 DEF Unserved, Left, Meets
    <3>2. ASSUME q = w PROVE Pipe(q)' = One("join")
      <4>1. q >= at
        BY <1>3, <3>2, Numbers
      <4>2. Pipe(q) = <<>>
        BY <3>1, <4>1
      <4> QED
        BY <1>4, <3>2, <4>2 DEF Sends
    <3>3. /\ (q < at /\ q # w) \/ q = w \/ (q >= at /\ q # w)
          /\ q > at => q >= at /\ q # w
      BY <1>3, Numbers
    <3>4. Pipe(q)' \in {<<>>, One("join")} /\ (q > at => Pipe(q)' = <<>>)
      BY <1>3, <1>4, <3>1, <3>2, <3>3
    <3>5. Unserved(q)'
      <4>1. CASE AtLast
        BY <1>2, <3>1, <3>4, <4>1 DEF Unserved
      <4>2. CASE ~AtLast
        <5>1. q >= at + 1 => q > at
          BY <1>3, Numbers
        <5> QED
          BY <1>1, <1>2, <3>1, <3>4, <4>2, <5>1 DEF Unserved
      <4> QED
        BY <4>1, <4>2
    <3>6. Talk(q)'
      BY <1>2, <2>1, <3>1, <3>4 DEF Talk
    <3> QED
      BY <1>2, <2>1, <3>5, <3>6
  <2> QED
    BY <2>2, <2>3
<1>9. Serving'
  <2>1. phase' \in {"join", "start"} /\ (phase' = "start" => at' = 0)
    BY <1>1, <1>2
  <2>2. sbuf = <<>> /\ newgame_count = 0
    BY <1>1 DEF Serving, Buffered, Tally
  <2>3. Steps' /\ Buffered' /\ Tally' /\ Ready'
    BY <1>1, <1>2, <2>1, <2>2 DEF Steps, Buffered, Tally, Ready
  <2>4. \A q \in Players : Stage(q)'
    BY <1>8, <2>1 DEF Stage
  <2> QED
    BY <2>3, <2>4 DEF Serving
<1> QED
  BY <1>6, <1>7, <1>8, <1>9 DEF Inv

\* Start keeps the invariant.
LEMMA StartStep ==
    ASSUME Inv, Start
    PROVE  Inv'
<1>1. /\ TypeOK /\ Terminals /\ phase = "start" /\ wants = "write" /\ Serving
      /\ \A q \in Players : Talk(q) /\ Stage(q)
  BY DEF Inv, Start, Opening, Serving
<1>2. /\ down' = [p \in Players |-> Append(down[p], "start")] /\ phase' = "id"
      /\ UNCHANGED <<up, sbuf, wants, at, left, temprset, testset, newgame_count, cbuf,
                     typed, cpc, vote>>
  BY DEF Start
<1>3. at = 0 /\ sbuf = <<>> /\ newgame_count = 0
  BY <1>1 DEF Serving, Steps, Buffered, Tally
<1>4. down' \in [Players -> Seq(Texts)]
  <2>1. \A q \in Players : Append(down[q], "start") \in Seq(Texts)
    <3>1. ASSUME NEW q \in Players PROVE Append(down[q], "start") \in Seq(Texts)
      <4>1. down[q] \in Seq(Texts) /\ "start" \in Texts
        BY <1>1 DEF TypeOK, Texts
      <4> QED
        BY <4>1, AppendProperties
    <3> QED
      BY <3>1
  <2> QED
    BY <1>2, <2>1
<1>5. ASSUME NEW q \in Players PROVE Sends(q, "start")
  <2>1. down'[q] = Append(down[q], "start") /\ "start" \in Texts
    BY <1>2 DEF Texts
  <2> QED
    BY <1>1, <1>2, <1>4, <2>1, AppendSends
<1>6. TypeOK'
  BY <1>1, <1>2, <1>4 DEF TypeOK
<1>7. Terminals' /\ Opening'
  BY <1>1, <1>2 DEF Terminals, Opening
<1>8. ASSUME NEW q \in Players PROVE Unserved(q)' /\ vote'[q] = "none" /\ Talk(q)'
  <2>1. Unserved(q) /\ vote[q] = "none"
    BY <1>1 DEF Stage
  <2>2. CASE cpc[q] = "gone"
    BY <1>2, <2>1, <2>2 DEF Unserved, Left, Meets, Talk
  <2>3. CASE cpc[q] # "gone"
    <3>1. cpc[q] = "lobby" /\ up[q] = <<>> /\ Pipe(q) \in {<<>>, One("join")}
      BY <1>1, <2>1, <2>3 DEF Unserved, Left, Meets
    <3>2. "join" \in Texts
      BY DEF Texts
    <3>3. Pipe(q)' \in {One("start"), Two("join", "start")}
      BY <1>5, <3>1, <3>2 DEF Sends
    <3>4. Unserved(q)'
      BY <1>2, <3>1, <3>3 DEF Unserved
    <3>5. Talk(q)'
      BY <1>2, <2>1, <3>1, <3>3 DEF Talk
    <3> QED
      BY <1>2, <2>1, <3>4, <3>5
  <2> QED
    BY <2>2, <2>3
<1>9. Serving'
  <2>1. Steps' /\ Buffered' /\ Tally' /\ Ready'
    BY <1>1, <1>2, <1>3 DEF Steps, Buffered, Tally, Ready
  <2>2. ASSUME NEW q \in Players PROVE Stage(q)'
    <3>1. ~(q < at')
      BY <1>2, <1>3, Numbers
    <3> QED
      BY <1>1, <1>2, <1>8, <3>1 DEF Stage
  <2> QED
    BY <2>1, <2>2 DEF Serving
<1> QED
  BY <1>6, <1>7, <1>8, <1>9 DEF Inv

\* Write keeps the invariant: the next player gets its number, is asked
\* about another round, or is told.
LEMMA WriteStep ==
    ASSUME Inv, Write
    PROVE  Inv'
<1>1. /\ TypeOK /\ Terminals /\ wants = "write" /\ phase \in {"id", "ask", "tell"} /\ Serving
      /\ \A q \in Players : Talk(q) /\ Stage(q)
  BY DEF Inv, Write, Serving
<1>2. /\ Send(at, Message[phase]) /\ wants' = "ack"
      /\ UNCHANGED <<up, sbuf, phase, at, left, temprset, testset, newgame_count, cbuf,
                     typed, cpc, vote>>
  BY DEF Write
<1>3. PICK w \in Players : w = at
  BY <1>1 DEF TypeOK
<1>4. PICK m : m = Message[phase]
  OBVIOUS
<1>5. /\ phase = "id" => m = "id"
      /\ phase = "ask" => m = "game"
      /\ phase = "tell" => m = Ruling
  BY <1>4 DEF Message, Ruling
<1>6. m \in Texts
  BY <1>1, <1>5 DEF Texts, Ruling
<1>7. Sends(w, m) /\ \A q \in Players : q # w => Pipe(q)' = Pipe(q)
  <2>1. Send(w, m)
    BY <1>2, <1>3, <1>4
  <2> QED
    BY <1>1, <1>2, <1>6, <2>1, SendSends
<1>8. TypeOK'
  <2>1. down' \in [Players -> Seq(Texts)]
    BY <1>7 DEF Sends
  <2> QED
    BY <1>1, <1>2, <2>1 DEF TypeOK
<1>9. Terminals' /\ Opening'
  BY <1>1, <1>2 DEF Terminals, Opening
<1>10. Voting' = Voting /\ Decided' = Decided /\ Ruling' = Ruling
  BY <1>2 DEF Voting, Decided, Ruling, AllWant
<1>11. ASSUME NEW q \in Players, q # w PROVE Talk(q)' /\ Stage(q)'
  <2>1. Same(q) /\ Calm(q)
    BY <1>2, <1>7, <1>11 DEF Same, Calm
  <2>2. PartsKept(q)
    BY <2>1, PartsFrame
  <2>3. Talk(q)'
    BY <1>1, <1>10, <2>1, TalkFrame
  <2>4. q # at /\ (NotYet(q)' <=> NotYet(q)) /\ vote'[q] = vote[q]
    BY <1>2, <1>3, <1>11 DEF NotYet
  <2>5. Stage(q)'
    BY <1>1, <1>2, <2>2, <2>4 DEF Stage, PartsKept
  <2> QED
    BY <2>3, <2>5
<1>12. NotYet(w) /\ ~NotYet(w)' /\ ~(w < at) /\ ~(w < at')
  BY <1>1, <1>2, <1>3, Numbers DEF NotYet
<1>13. "start" \in Texts /\ "join" \in Texts /\ "ACK" \in Texts
  BY DEF Texts
<1>14. Talk(w) /\ Stage(w)
  BY <1>1
<1>15. ASSUME phase = "id" PROVE Talk(w)' /\ Stage(w)'
  <2>1. Unserved(w) /\ vote[w] = "none"
    BY <1>12, <1>14, <1>15 DEF Stage
  <2>2. ASSUME Numbered(w)' PROVE Stage(w)'
    BY <1>2, <1>12, <1>15, <2>1, <2>2 DEF Stage
  <2>3. CASE cpc[w] = "gone"
    BY <1>2, <2>1, <2>2, <2>3 DEF Unserved, Numbered, Left, Meets, Talk
  <2>4. CASE cpc[w] = "lobby"
    <3>1. up[w] = <<>> /\ Pipe(w) \in {One("start"), Two("join", "start")}
      BY <1>15, <2>1, <2>4 DEF Unserved, Left, Meets
    <3>2. Pipe(w)' \in {Two("start", "id"), Three("join", "start", "id")}
      BY <1>5, <1>7, <1>13, <1>15, <3>1 DEF Sends
    <3> QED
      BY <1>2, <2>1, <2>2, <2>4, <3>1, <3>2 DEF Numbered, Talk
  <2>5. CASE cpc[w] = "id"
    <3>1. up[w] = <<>> /\ Pipe(w) = <<>>
      BY <2>1, <2>5 DEF Unserved, Left, Meets
    <3>2. Pipe(w)' = One("id")
      BY <1>5, <1>7, <1>15, <3>1 DEF Sends
    <3> QED
      BY <1>2, <2>1, <2>2, <2>5, <3>1, <3>2 DEF Numbered, Meets, Talk
  <2> QED
    BY <2>1, <2>3, <2>4, <2>5 DEF Unserved, Left, Meets
<1>16. ASSUME phase = "ask" PROVE Talk(w)' /\ Stage(w)'
  <2>1. Idle(w) /\ vote[w] = "none" /\ Voting'
    BY <1>2, <1>12, <1>14, <1>16 DEF Stage, Voting
  <2>2. ASSUME Polled(w)' PROVE Stage(w)'
    BY <1>2, <1>12, <1>16, <2>2 DEF Stage
  <2>3. CASE cpc[w] = "gone"
    BY <1>2, <2>1, <2>2, <2>3 DEF Idle, Polled, Unread, Left, Meets, Talk
  <2>4. CASE cpc[w] = "loop"
    <3>1. up[w] = <<>> /\ Pipe(w) = <<>>
      BY <2>1, <2>4 DEF Idle, Left, Meets
    <3>2. Pipe(w)' = One("game")
      BY <1>5, <1>7, <1>16, <3>1 DEF Sends
    <3> QED
      BY <1>2, <2>1, <2>2, <2>4, <3>1, <3>2 DEF Polled, Unread, Meets, Talk, Offers
  <2>5. CASE cpc[w] = "sent"
    <3>1. up[w] = <<>> /\ Pipe(w) = One("ACK")
      BY <2>1, <2>5 DEF Idle, Left, Meets
    <3>2. Pipe(w)' = Two("ACK", "game")
      BY <1>5, <1>7, <1>13, <1>16, <3>1 DEF Sends
    <3> QED
      BY <1>2, <2>1, <2>2, <2>5, <3>1, <3>2 DEF Polled, Unread, Meets, Talk, Offers
  <2> QED
    BY <2>1, <2>3, <2>4, <2>5 DEF Idle, Left, Meets
<1>17. ASSUME phase = "tell" PROVE Talk(w)' /\ Stage(w)'
  <2>1. Collecting(w) /\ Decided'
    BY <1>2, <1>12, <1>14, <1>17 DEF Stage, Decided
  <2>2. Stage(w)'
    BY <1>2, <1>12, <1>17 DEF Stage
  <2>3. CASE cpc[w] = "gone"
    BY <1>2, <2>2, <2>3 DEF Talk
  <2>4. CASE cpc[w] = "voted"
    <3>1. Pipe(w) = One("ACK") /\ vote[w] # "none"
      BY <1>14, <2>1, <2>4 DEF Collecting, Talk
    <3>2. Pipe(w)' = Two("ACK", Ruling')
      BY <1>5, <1>7, <1>10, <1>13, <1>17, <3>1 DEF Sends
    <3> QED
      BY <1>2, <2>1, <2>2, <2>4, <3>1, <3>2 DEF Talk
  <2>5. CASE cpc[w] = "verdict"
    <3>1. Pipe(w) = <<>> /\ vote[w] # "none"
      BY <1>14, <2>1, <2>5 DEF Collecting, Talk
    <3>2. Pipe(w)' = One(Ruling')
      BY <1>5, <1>7, <1>10, <1>17, <3>1 DEF Sends
    <3> QED
      BY <1>2, <2>1, <2>2, <2>5, <3>1, <3>2 DEF Talk
  <2> QED
    BY <2>1, <2>3, <2>4, <2>5 DEF Collecting
<1>18. Serving'
  <2>1. Steps /\ Buffered /\ Tally
    BY <1>1 DEF Serving
  <2>2. Steps'
    BY <1>1, <1>2, <2>1 DEF Steps
  <2>3. \A q \in Players : Kept(q)' = Kept(q)
    BY <1>2 DEF Kept
  <2>4. Buffered'
    BY <1>1, <1>2, <2>1, <2>3 DEF Buffered
  <2>5. Tally' /\ Ready'
    BY <1>1, <1>2, <2>1 DEF Tally, Ready
  <2> QED
    BY <1>1, <1>11, <1>15, <1>16, <1>17, <2>2, <2>4, <2>5 DEF Serving
<1> QED
  BY <1>1, <1>8, <1>9, <1>11, <1>15, <1>16, <1>17, <1>18 DEF Inv

\* Exchange(p) keeps the invariant: it finds every player idle.
LEMMA ExchangeStep ==
    ASSUME Inv, NEW p \in Players, Exchange(p)
    PROVE  Inv'
<1>1. /\ TypeOK /\ Terminals /\ wants = "write" /\ phase = "play" /\ Serving
      /\ \A q \in Players : Talk(q) /\ Stage(q)
  BY DEF Inv, Exchange, Serving
<1>2. /\ left > 0 /\ left' = left - 1 /\ at' = p
      /\ UNCHANGED <<up, sbuf, phase, temprset, testset, newgame_count, cbuf, typed, cpc,
                     vote>>
  BY DEF Exchange
<1>3. PICK m \in {"notice", "question", "turn"} :
         Send(p, m) /\ wants' = IF m = "notice" THEN "ack" ELSE "ack then answer"
  BY DEF Exchange
<1>4. m \in Texts /\ "ACK" \in Texts
  BY DEF Texts
<1>5. Sends(p, m) /\ \A q \in Players : q # p => Pipe(q)' = Pipe(q)
  BY <1>1, <1>2, <1>3, <1>4, SendSends
<1>6. TypeOK'
  <2>1. down' \in [Players -> Seq(Texts)]
    BY <1>5 DEF Sends
  <2>2. left' \in 0..MaxExchanges
    <3>1. MaxExchanges \in Nat /\ left \in 0..MaxExchanges
      BY <1>1, WireAssumption DEF TypeOK
    <3> QED
      BY <1>2, <3>1
  <2> QED
    BY <1>1, <1>2, <1>3, <2>1, <2>2 DEF TypeOK
<1>7. Terminals' /\ Opening'
  BY <1>1, <1>2 DEF Terminals, Opening
<1>8. Voting' = Voting /\ Decided' = Decided /\ Ruling' = Ruling
  BY <1>2 DEF Voting, Decided, Ruling, AllWant
<1>9. ASSUME NEW q \in Players PROVE Idle(q) /\ vote[q] = "none"
  BY <1>1 DEF Stage
<1>10. ASSUME NEW q \in Players, q # p PROVE Talk(q)' /\ Stage(q)'
  <2>1. Same(q) /\ Calm(q)
    BY <1>2, <1>5, <1>10 DEF Same, Calm
  <2>2. Idle(q)'
    BY <1>9, <2>1, PartsFrame DEF PartsKept
  <2>3. Talk(q)'
    BY <1>1, <1>8, <2>1, TalkFrame
  <2>4. Stage(q)'
    BY <1>1, <1>2, <1>9, <1>10, <2>2 DEF Stage
  <2> QED
    BY <2>3, <2>4
<1>11. Talk(p)' /\ Unread(p, m)'
  <2>1. CASE cpc[p] = "gone"
    BY <1>2, <1>9, <2>1 DEF Idle, Unread, Left, Meets, Talk
  <2>2. CASE cpc[p] = "loop"
    <3>1. up[p] = <<>> /\ Pipe(p) = <<>>
      BY <1>9, <2>2 DEF Idle, Left, Meets
    <3>2. Pipe(p)' = One(m)
      BY <1>5, <3>1 DEF Sends
    <3> QED
      BY <1>2, <1>9, <2>2, <3>1, <3>2 DEF Unread, Meets, Talk, Offers
  <2>3. CASE cpc[p] = "sent"
    <3>1. up[p] = <<>> /\ Pipe(p) = One("ACK")
      BY <1>9, <2>3 DEF Idle, Left, Meets
    <3>2. Pipe(p)' = Two("ACK", m)
      BY <1>4, <1>5, <3>1 DEF Sends
    <3> QED
      BY <1>2, <1>9, <2>3, <3>1, <3>2 DEF Unread, Meets, Talk, Offers
  <2> QED
    BY <1>9, <2>1, <2>2, <2>3 DEF Idle, Left, Meets
<1>12. Stage(p)'
  <2>1. CASE m = "notice"
    <3>1. Noticed(p)'
      BY <1>11, <2>1 DEF Noticed
    <3> QED
      BY <1>1, <1>2, <1>3, <1>9, <2>1, <3>1 DEF Stage
  <2>2. CASE m # "notice"
    <3>1. Questioned(p)'
      BY <1>11, <2>2 DEF Questioned, Questions
    <3> QED
      BY <1>1, <1>2, <1>3, <1>9, <2>2, <3>1 DEF Stage
  <2> QED
    BY <2>1, <2>2
<1>13. Serving'
  <2>1. Steps /\ Buffered /\ Tally
    BY <1>1 DEF Serving
  <2>2. Steps' /\ Buffered' /\ Tally' /\ Ready'
    BY <1>1, <1>2, <1>3, <2>1 DEF Steps, Buffered, Tally, Ready
  <2> QED
    BY <1>10, <1>12, <2>2 DEF Serving
<1> QED
  BY <1>6, <1>7, <1>10, <1>11, <1>13 DEF Inv

\* GameSet keeps the invariant.
LEMMA GameSetStep ==
    ASSUME Inv, GameSet
    PROVE  Inv'
<1>1. /\ TypeOK /\ Terminals /\ wants = "write" /\ phase = "play" /\ Serving
      /\ \A q \in Players : Talk(q) /\ Stage(q)
  BY DEF Inv, GameSet, Serving
<1>2. /\ phase' = "ask" /\ at' = 0
      /\ UNCHANGED <<up, down, sbuf, wants, left, temprset, testset, newgame_count, cbuf,
                     typed, cpc, vote>>
  BY DEF GameSet
<1>3. TypeOK'
  BY <1>1, <1>2, Numbers DEF TypeOK
<1>4. Terminals' /\ Opening'
  BY <1>1, <1>2 DEF Terminals, Opening
<1>5. (Voting => Voting') /\ ~Decided
  BY <1>1, <1>2 DEF Voting, Decided
<1>6. ASSUME NEW q \in Players PROVE Talk(q)' /\ Stage(q)'
  <2>1. Same(q) /\ Calm(q)
    BY <1>2 DEF Same, Calm, Pipe
  <2>2. Idle(q) /\ vote[q] = "none"
    BY <1>1 DEF Stage
  <2>3. Idle(q)'
    BY <2>1, <2>2, PartsFrame DEF PartsKept
  <2>4. Talk(q)'
    BY <1>1, <1>5, <2>1, TalkFrame
  <2>5. NotYet(q)' /\ ~(q < at')
    BY <1>1, <1>2, Numbers DEF NotYet
  <2>6. Stage(q)'
    BY <1>1, <1>2, <2>2, <2>3, <2>5 DEF Stage
  <2> QED
    BY <2>4, <2>6
<1>7. Serving'
  <2>1. Steps /\ Buffered /\ Tally
    BY <1>1 DEF Serving
  <2>2. Steps' /\ Buffered' /\ Tally' /\ Ready'
    BY <1>1, <1>2, <2>1 DEF Steps, Buffered, Tally, Ready
  <2> QED
    BY <1>6, <2>2 DEF Serving
<1> QED
  BY <1>3, <1>4, <1>6, <1>7 DEF Inv

\* The server may give up whenever it reads.
LEMMA ExitStep ==
    ASSUME Inv, wants # "write", wants' = "exit", UNCHANGED <<phase, newgame_count>>,
           UNCHANGED <<down, cbuf, typed, cpc, vote>>, TypeOK'
    PROVE  Inv'
<1>1. \A q \in Players : Calm(q) /\ Talk(q)
  BY DEF Inv, Calm, Pipe
<1>2. Voting' = Voting /\ Decided' = Decided /\ Ruling' = Ruling
  BY DEF Voting, Decided, Ruling, AllWant
<1>3. \A q \in Players : Talk(q)'
  BY <1>1, <1>2, TalkFrame
<1>4. Terminals' /\ Opening'
  BY DEF Inv, Terminals, Opening
<1> QED
  BY <1>3, <1>4 DEF Inv

\* ReadEnd keeps the invariant.
LEMMA ReadEndStep ==
    ASSUME Inv, ReadEnd
    PROVE  Inv'
<1>1. wants # "write" /\ wants' = "exit"
      /\ UNCHANGED <<up, down, sbuf, phase, at, left, temprset, testset, newgame_count, cbuf,
                     typed, cpc, vote>>
  BY DEF ReadEnd
<1>2. TypeOK'
  BY <1>1 DEF Inv, TypeOK
<1> QED
  BY <1>1, <1>2, ExitStep

-----------------------------------------------------------------------------
(* WaitAck                                                                 *)

\* The server has read an ACK from player w.
AckRead(w, r) ==
    /\ w = at /\ wants \in {"ack", "ack then answer"}
    /\ r \in readline(sbuf, up[w]) /\ r.line = "ACK"
    /\ sbuf' = r.buf /\ up'[w] = r.wire
    /\ \A q \in Players : q # w => up'[q] = up[q]
    /\ Acknowledged
    /\ UNCHANGED <<down, left, testset, newgame_count, cbuf, typed, cpc, vote>>

\* What that leaves alone.
LEMMA AckFrame ==
    ASSUME Inv, NEW w \in Players, NEW r, AckRead(w, r)
    PROVE  /\ Serving /\ Steps /\ Buffered /\ Tally
           /\ Stage(w)
           /\ \A q \in Players : Calm(q) /\ Talk(q) /\ Stage(q)
           /\ \A q \in Players : q # w => PartsKept(q) /\ Same(q)
<1>1. Serving
  BY DEF Inv, AckRead
<1>2. \A q \in Players : Calm(q)
  BY DEF AckRead, Calm, Pipe
<1>3. \A q \in Players : q # w => Same(q)
  BY <1>2 DEF AckRead, Same, Calm
<1> QED
  BY <1>1, <1>2, <1>3, PartsFrame DEF Inv, Serving

\* The next player, or the next phase.
LEMMA NextPlayer ==
    ASSUME Inv, NEW w \in Players, NEW r, AckRead(w, r), phase \in {"id", "ask", "tell"}
    PROVE  /\ \/ /\ phase' = phase /\ at' = w + 1 /\ at' \in Players
                 /\ wants' = "write" /\ temprset' = temprset
              \/ /\ phase' = After[phase] /\ at' = 0 /\ w = Final
                 /\ wants' = IF phase = "ask" THEN "select" ELSE "write"
                 /\ temprset' = IF phase = "ask" THEN Players ELSE temprset
           /\ After["id"] = "play" /\ After["ask"] = "count" /\ After["tell"] = "over"
<1>1. After["id"] = "play" /\ After["ask"] = "count" /\ After["tell"] = "over"
  BY DEF After
<1>2. /\ IF AtLast THEN phase' = After[phase] /\ at' = 0 ELSE at' = at + 1 /\ UNCHANGED phase
      /\ wants' = IF phase' = "count" THEN "select" ELSE "write"
      /\ temprset' = IF phase' = "count" THEN Players ELSE temprset
      /\ w = at
  BY DEF AckRead, Acknowledged
<1>3. CASE AtLast
  <2>1. w = Final
    BY <1>2, <1>3, Numbers DEF AtLast
  <2> QED
    BY <1>1, <1>2, <1>3, <2>1
<1>4. CASE ~AtLast
  <2>1. w + 1 \in Players
    BY <1>2, <1>4, Numbers DEF AtLast
  <2> QED
    BY <1>1, <1>2, <1>4, <2>1
<1> QED
  BY <1>3, <1>4

\* What has to hold after the ACK was read.
Onward == (\A q \in Players : Talk(q) /\ Stage(q)) /\ Steps /\ Buffered /\ Tally /\ Ready

\* The number was acknowledged: the player is idle.
LEMMA AckId ==
    ASSUME Inv, NEW w \in Players, NEW r, AckRead(w, r), phase = "id"
    PROVE  Onward'
<1>1. /\ Steps /\ Buffered /\ Tally /\ Stage(w)
      /\ \A q \in Players : Calm(q) /\ Talk(q) /\ Stage(q)
      /\ \A q \in Players : q # w => PartsKept(q)
  BY AckFrame
<1>2. /\ w = at /\ wants = "ack" /\ sbuf = <<>> /\ newgame_count = 0
      /\ r \in readline(<<>>, up[w]) /\ sbuf' = r.buf /\ up'[w] = r.wire
      /\ UNCHANGED <<newgame_count, cpc, vote, testset>>
  BY <1>1 DEF AckRead, Steps, Buffered, Tally
<1>3. Numbered(w) /\ vote[w] = "none"
  BY <1>1, <1>2 DEF Stage
<1>4. up[w] # <<>>
  BY <1>2, FreshNone
<1>5. up[w] = One("ACK")
  BY <1>3, <1>4 DEF Numbered, Meets, Left
<1>6. sbuf' = <<>> /\ up'[w] = <<>>
  <2>1. r \in readline(<<>>, One("ACK")) /\ "ACK" \in Ups
    BY <1>2, <1>5 DEF Ups
  <2> QED
    BY <1>2, <2>1, FreshOne
<1>7. Pipe(w)' = Pipe(w) /\ cpc'[w] = cpc[w]
  BY <1>1 DEF Calm
<1>8. Idle(w)'
  BY <1>3, <1>4, <1>6, <1>7 DEF Numbered, Idle, Meets, Left
<1>9. \/ phase' = "id" /\ at' = w + 1 /\ wants' = "write"
      \/ phase' = "play" /\ w = Final /\ wants' = "write"
  BY NextPlayer
<1>10. (Voting => Voting') /\ ~Decided
  BY DEF Voting, Decided
<1>11. ASSUME NEW q \in Players PROVE Talk(q)' /\ Stage(q)'
  <2>1. Talk(q)'
    BY <1>1, <1>10, TalkFrame
  <2>2. vote'[q] = "none"
    BY <1>1, <1>2 DEF Stage
  <2>3. CASE q <= w
    <3>1. Idle(q)'
      <4>1. CASE q = w
        BY <1>8, <4>1
      <4>2. CASE q # w
        <5>1. q < w
          BY <2>3, <4>2, Numbers
        <5> QED
          BY <1>1, <1>2, <4>2, <5>1 DEF Stage, PartsKept
      <4> QED
        BY <4>1, <4>2
    <3>2. phase' = "id" => q < at' /\ ~NotYet(q)' /\ q # at'
      BY <1>9, <2>3, Numbers DEF NotYet
    <3>3. Stage(q)'
      BY <1>9, <2>2, <3>1, <3>2 DEF Stage
    <3> QED
      BY <2>1, <3>3
  <2>4. CASE ~(q <= w)
    <3>2. w # Final /\ phase' = "id" /\ at' = w + 1
      BY <1>9, <2>4, Numbers
    <3>3. NotYet(q) /\ q # w
      BY <1>2, <2>4, Numbers DEF NotYet
    <3>4. Unserved(q)'
      BY <1>1, <3>2, <3>3 DEF Stage, PartsKept
    <3>5. ~(q < at') /\ wants' = "write"
      BY <1>9, <2>4, <3>2, Numbers
    <3>6. Stage(q)'
      BY <2>2, <3>2, <3>4, <3>5 DEF Stage
    <3> QED
      BY <2>1, <3>6
  <2> QED
    BY <2>3, <2>4
<1>12. Steps' /\ Buffered' /\ Tally' /\ Ready'
  BY <1>2, <1>6, <1>9 DEF Steps, Buffered, Tally, Ready
<1> QED
  BY <1>11, <1>12 DEF Onward

\* What was said or asked in the play was acknowledged.
LEMMA AckPlay ==
    ASSUME Inv, NEW w \in Players, NEW r, AckRead(w, r), phase = "play"
    PROVE  Onward'
<1>1. /\ Steps /\ Buffered /\ Tally /\ Stage(w)
      /\ \A q \in Players : Calm(q) /\ Talk(q) /\ Stage(q)
      /\ \A q \in Players : q # w => PartsKept(q)
  BY AckFrame
<1>2. /\ w = at /\ wants \in {"ack", "ack then answer"} /\ sbuf = <<>> /\ newgame_count = 0
      /\ r \in readline(<<>>, up[w]) /\ sbuf' = r.buf /\ up'[w] = r.wire
      /\ UNCHANGED <<newgame_count, cpc, vote, testset, phase, at, temprset>>
      /\ wants' = IF wants = "ack" THEN "write" ELSE "answer"
  BY <1>1 DEF AckRead, Acknowledged, Buffered, Tally
<1>3. up[w] # <<>> /\ Pipe(w)' = Pipe(w) /\ cpc'[w] = cpc[w] /\ "ACK" \in Ups
  BY <1>1, <1>2, FreshNone DEF Calm, Ups
<1>4. ASSUME wants = "ack" PROVE Idle(w)' /\ sbuf' = <<>>
  <2>1. Noticed(w)
    BY <1>1, <1>2, <1>4 DEF Stage
  <2>2. up[w] = One("ACK")
    BY <1>3, <2>1 DEF Noticed, Unread, Meets, Left
  <2>3. r \in readline(<<>>, One("ACK"))
    BY <1>2, <2>2
  <2>4. sbuf' = <<>> /\ up'[w] = <<>>
    BY <1>2, <1>3, <2>3, FreshOne
  <2> QED
    BY <1>3, <2>1, <2>4 DEF Noticed, Unread, Idle, Meets, Left
<1>5. ASSUME wants = "ack then answer" PROVE Answering(w)'
  <2>1. Questioned(w)
    BY <1>1, <1>2, <1>5 DEF Stage
  <2>2. CASE up[w] = One("ACK")
    <3>1. r \in readline(<<>>, One("ACK"))
      BY <1>2, <2>2
    <3>2. sbuf' = <<>> /\ up'[w] = <<>>
      BY <1>2, <1>3, <3>1, FreshOne
    <3>3. \/ cpc[w] = "gone"
          \/ cpc[w] \in {"prompt", "choose"} /\ Pipe(w) = <<>>
      BY <1>3, <2>1, <2>2, Lines DEF Questioned, Unread, Meets, Left
    <3> QED
      BY <1>3, <3>2, <3>3 DEF Answering, Meets, Left
  <2>3. CASE up[w] # One("ACK")
    <3>1. PICK a \in Answers :
             up[w] = Two("ACK", a) /\ (cpc[w] = "gone" \/ (cpc[w] = "sent" /\ Pipe(w) = <<>>))
      BY <1>3, <2>1, <2>3 DEF Questioned, Unread, Meets, Left
    <3>2. r \in readline(<<>>, Two("ACK", a)) /\ a \in Ups
      BY <1>2, <3>1 DEF Answers, Ups
    <3>3. (r.buf = <<>> /\ r.wire = One(a)) \/ (r.buf = One(a) /\ r.wire = <<>>)
      BY <1>3, <3>2, FreshTwo
    <3>4. (sbuf' = <<>> /\ up'[w] = One(a)) \/ (sbuf' = One(a) /\ up'[w] = <<>>)
      BY <1>2, <3>3
    <3> QED
      BY <1>3, <3>1, <3>4 DEF Answering, Meets, Left
  <2> QED
    BY <2>2, <2>3
<1>6. Voting' = Voting /\ ~Decided
  BY <1>2 DEF Voting, Decided
<1>7. ASSUME NEW q \in Players PROVE Talk(q)' /\ Stage(q)'
  <2>1. Talk(q)'
    BY <1>1, <1>6, TalkFrame
  <2>2. vote'[q] = "none"
    BY <1>1, <1>2 DEF Stage
  <2>3. CASE q = w
    <3>1. CASE wants = "ack"
      BY <1>2, <1>4, <2>1, <2>2, <2>3, <3>1 DEF Stage
    <3>2. CASE wants = "ack then answer"
      BY <1>2, <1>5, <2>1, <2>2, <2>3, <3>2 DEF Stage
    <3> QED
      BY <1>2, <3>1, <3>2
  <2>4. CASE q # w
    <3>1. Idle(q)'
      BY <1>1, <1>2, <2>4 DEF Stage, PartsKept
    <3>2. Stage(q)'
      BY <1>2, <2>2, <2>4, <3>1 DEF Stage
    <3> QED
      BY <2>1, <3>2
  <2> QED
    BY <2>3, <2>4
<1>8. Steps' /\ Buffered' /\ Tally' /\ Ready'
  BY <1>2, <1>4 DEF Steps, Buffered, Tally, Ready
<1> QED
  BY <1>7, <1>8 DEF Onward

\* The question about another round was acknowledged: the vote is awaited,
\* and may have come with the ACK.
LEMMA AckAsk ==
    ASSUME Inv, NEW w \in Players, NEW r, AckRead(w, r), phase = "ask"
    PROVE  Onward'
<1>1. /\ Steps /\ Buffered /\ Tally /\ Stage(w) /\ TypeOK
      /\ \A q \in Players : Calm(q) /\ Talk(q) /\ Stage(q)
      /\ \A q \in Players : q # w => PartsKept(q)
  BY AckFrame DEF Inv
<1>2. /\ w = at /\ wants = "ack" /\ newgame_count = 0
      /\ r \in readline(sbuf, up[w]) /\ r.line = "ACK" /\ sbuf' = r.buf /\ up'[w] = r.wire
      /\ UNCHANGED <<newgame_count, cpc, vote, testset>>
  BY <1>1 DEF AckRead, Steps, Tally
<1>3. vote \in [Players -> {"none", "YES", "NO"}] /\ up \in [Players -> Seq(Ups)]
  BY <1>1 DEF TypeOK, Ups
<1>4. sbuf = <<>>
  <2>1. SUFFICES ASSUME sbuf # <<>> PROVE FALSE
    OBVIOUS
  <2>2. PICK p \in Players : Kept(p)
    BY <1>1, <2>1 DEF Buffered
  <2>3. PICK v : v = vote[p]
    OBVIOUS
  <2>4. v \in Ups /\ v # "ACK" /\ sbuf = One(v)
    BY <1>3, <2>2, <2>3 DEF Kept, Ups
  <2>5. r \in readline(One(v), up[w]) /\ up[w] \in Seq(Ups)
    BY <1>2, <1>3, <2>4
  <2>6. r.line = v
    BY <2>4, <2>5, ReadKept
  <2> QED
    BY <1>2, <2>4, <2>6
<1>5. Polled(w)
  BY <1>1, <1>2 DEF Stage
<1>6. r \in readline(<<>>, up[w]) /\ up[w] # <<>> /\ "ACK" \in Ups
  BY <1>2, <1>4, FreshNone DEF Ups
<1>7. Pipe(w)' = Pipe(w) /\ cpc'[w] = cpc[w] /\ vote'[w] = vote[w]
  BY <1>1 DEF Calm
<1>8. Awaited(w)' /\ (sbuf' = <<>> \/ Kept(w)')
  <2>1. CASE vote[w] = "none"
    <3>1. /\ up[w] = One("ACK")
          /\ cpc[w] = "gone" \/ (cpc[w] = "vote" /\ Pipe(w) = <<>>)
      BY <1>5, <1>6, <2>1 DEF Polled, Unread, Meets, Left
    <3>2. r \in readline(<<>>, One("ACK"))
      BY <1>6, <3>1
    <3>3. sbuf' = <<>> /\ up'[w] = <<>>
      BY <1>2, <1>6, <3>2, FreshOne
    <3> QED
      BY <1>7, <2>1, <3>1, <3>3 DEF Awaited, Meets, Left
  <2>2. CASE vote[w] # "none"
    <3>1. PICK v : v = vote[w]
      OBVIOUS
    <3>2. /\ up[w] = Two("ACK", v) /\ v \in Ups
          /\ cpc[w] = "gone" \/ (cpc[w] = "voted" /\ Pipe(w) = <<>>)
      BY <1>3, <1>5, <2>2, <3>1 DEF Polled, Unread, Meets, Left, Ups
    <3>3. r \in readline(<<>>, Two("ACK", v))
      BY <1>6, <3>2
    <3>4. (r.buf = <<>> /\ r.wire = One(v)) \/ (r.buf = One(v) /\ r.wire = <<>>)
      BY <1>6, <3>2, <3>3, FreshTwo
    <3>5. (sbuf' = <<>> /\ up'[w] = One(v)) \/ (sbuf' = One(v) /\ up'[w] = <<>>)
      BY <1>2, <3>4
    <3> QED
      BY <1>7, <2>2, <3>1, <3>2, <3>5 DEF Awaited, Kept
  <2> QED
    BY <2>1, <2>2
<1>9. \/ phase' = "ask" /\ at' = w + 1 /\ wants' = "write"
      \/ phase' = "count" /\ w = Final /\ wants' = "select" /\ temprset' = Players
  BY NextPlayer
<1>10. (Voting => Voting') /\ ~Decided
  BY <1>9 DEF Voting, Decided
<1>11. ASSUME NEW q \in Players PROVE Talk(q)' /\ Stage(q)'
  <2>1. Talk(q)'
    BY <1>1, <1>10, TalkFrame
  <2>2. CASE q <= w
    <3>1. Awaited(q)'
      <4>1. CASE q = w
        BY <1>8, <4>1
      <4>2. CASE q # w
        <5>1. q < w
          BY <2>2, <4>2, Numbers
        <5> QED
          BY <1>1, <1>2, <4>2, <5>1 DEF Stage, PartsKept
      <4> QED
        BY <4>1, <4>2
    <3>2. phase' = "ask" => q < at' /\ ~NotYet(q)' /\ q # at'
      BY <1>9, <2>2, Numbers DEF NotYet
    <3>3. Stage(q)'
      BY <1>9, <3>1, <3>2 DEF Stage
    <3> QED
      BY <2>1, <3>3
  <2>3. CASE ~(q <= w)
    <3>1. w # Final /\ phase' = "ask" /\ at' = w + 1
      BY <1>9, <2>3, Numbers
    <3>2. NotYet(q) /\ q # w
      BY <1>2, <2>3, Numbers DEF NotYet
    <3>3. Idle(q)' /\ vote'[q] = "none"
      BY <1>1, <1>2, <3>2 DEF Stage, PartsKept
    <3>4. ~(q < at') /\ wants' = "write"
      BY <1>9, <2>3, <3>1, Numbers
    <3>5. Stage(q)'
      BY <3>1, <3>3, <3>4 DEF Stage
    <3> QED
      BY <2>1, <3>5
  <2> QED
    BY <2>2, <2>3
<1>12. Steps' /\ Ready'
  BY <1>9 DEF Steps, Ready
<1>13. Buffered'
  <2>1. CASE phase' = "ask"
    <3>1. w + 1 = at'
      BY <1>9, <2>1
    <3> QED
      BY <1>8, <2>1, <3>1 DEF Buffered
  <2>2. CASE phase' = "count"
    <3>1. w = Final /\ Final \in Players /\ temprset' = Players
      BY <1>9, <2>2, Numbers
    <3>2. sbuf' = <<>> \/ (Final \in temprset' /\ Kept(Final)')
      BY <1>8, <3>1
    <3> QED
      BY <2>2, <3>2 DEF Buffered, Final
  <2> QED
    BY <1>9, <2>1, <2>2
<1>14. Tally'
  <2>1. CASE phase' = "ask"
    BY <1>2, <2>1 DEF Tally
  <2>2. CASE phase' = "count"
    <3>1. Heard' = {} /\ ForIt(Heard)' = {}
      BY <1>9, <2>2 DEF Heard, ForIt
    <3>2. Cardinality({}) = 0
      BY FS_EmptySet
    <3>3. Tallied'
      BY <1>2, <3>1, <3>2 DEF Tallied
    <3> QED
      BY <2>2, <3>3 DEF Tally
  <2> QED
    BY <1>9, <2>1, <2>2
<1> QED
  BY <1>11, <1>12, <1>13, <1>14 DEF Onward

\* The decision was acknowledged.
LEMMA AckTell ==
    ASSUME Inv, NEW w \in Players, NEW r, AckRead(w, r), phase = "tell"
    PROVE  Onward'
<1>1. /\ \A q \in Players : Calm(q) /\ Talk(q) /\ Stage(q)
      /\ \A q \in Players : q # w => PartsKept(q)
  BY AckFrame
<1>2. w = at /\ UNCHANGED <<newgame_count, cpc, vote, testset>>
  BY DEF AckRead
<1>3. \/ phase' = "tell" /\ at' = w + 1 /\ wants' = "write"
      \/ phase' = "over" /\ w = Final /\ wants' = "write"
  BY NextPlayer
<1>4. ~Voting /\ Decided' /\ Ruling' = Ruling
  BY <1>2, <1>3 DEF Voting, Decided, Ruling, AllWant
<1>5. ASSUME NEW q \in Players PROVE Talk(q)' /\ Stage(q)'
  <2>1. Talk(q)'
    BY <1>1, <1>4, TalkFrame
  <2>2. ASSUME phase' = "tell", NotYet(q)' PROVE Collecting(q)'
    <3>1. q > w /\ q # w
      BY <1>3, <2>2, Numbers DEF NotYet
    <3>2. NotYet(q)
      BY <1>2, <3>1 DEF NotYet
    <3> QED
      BY <1>1, <3>1, <3>2 DEF Stage, PartsKept
  <2>3. Stage(q)'
    BY <1>3, <2>2 DEF Stage
  <2> QED
    BY <2>1, <2>3
<1>6. Steps' /\ Buffered' /\ Tally' /\ Ready'
  BY <1>3 DEF Steps, Buffered, Tally, Ready
<1> QED
  BY <1>5, <1>6 DEF Onward

\* What the server reads from player w.
LEMMA ReceiveTypes ==
    ASSUME TypeOK, NEW w \in Players, w = at, NEW r \in readline(sbuf, up[at]), Receive(r)
    PROVE  /\ r \in readline(sbuf, up[w]) /\ r.line \in Ups
           /\ sbuf' = r.buf /\ sbuf' \in Seq(Ups) /\ up' \in [Players -> Seq(Ups)]
           /\ up'[w] = r.wire /\ \A q \in Players : q # w => up'[q] = up[q]
<1>1. up \in [Players -> Seq(Ups)] /\ sbuf \in Seq(Ups)
  BY DEF TypeOK, Ups
<1>2. /\ r \in readline(sbuf, up[w]) /\ sbuf' = r.buf
      /\ up' = [up EXCEPT ![w] = r.wire]
  BY DEF Receive
<1>3. up[w] \in Seq(Ups)
  BY <1>1
<1>4. r.line \in Ups /\ r.buf \in Seq(Ups) /\ r.wire \in Seq(Ups)
  BY <1>1, <1>2, <1>3, ReadTypes
<1> QED
  BY <1>1, <1>2, <1>4

\* WaitAck keeps the invariant.
LEMMA WaitAckStep ==
    ASSUME Inv, WaitAck
    PROVE  Inv'
<1>1. TypeOK /\ Terminals /\ Opening /\ wants \in {"ack", "ack then answer"} /\ Serving
  BY DEF Inv, WaitAck
<1>2. PICK r \in readline(sbuf, up[at]) :
         /\ Receive(r)
         /\ IF r.line = "ACK" THEN Acknowledged
            ELSE wants' = "exit" /\ UNCHANGED <<phase, at, temprset>>
  BY DEF WaitAck
<1>3. UNCHANGED <<down, left, testset, newgame_count, cbuf, typed, cpc, vote>>
  BY DEF WaitAck
<1>4. PICK w \in Players : w = at
  BY <1>1 DEF TypeOK
<1>5. /\ r \in readline(sbuf, up[w])
      /\ sbuf' = r.buf /\ sbuf' \in Seq(Ups) /\ up' \in [Players -> Seq(Ups)]
      /\ up'[w] = r.wire /\ \A q \in Players : q # w => up'[q] = up[q]
  BY <1>1, <1>2, <1>4, ReceiveTypes
<1>6. CASE r.line # "ACK"
  <2>1. wants' = "exit" /\ UNCHANGED <<phase, at, temprset>>
    BY <1>2, <1>6
  <2>2. TypeOK'
    BY <1>1, <1>3, <1>5, <2>1 DEF TypeOK, Ups
  <2> QED
    BY <1>1, <1>3, <2>1, <2>2, ExitStep
<1>7. CASE r.line = "ACK"
  <2>1. AckRead(w, r)
    BY <1>1, <1>2, <1>3, <1>4, <1>5, <1>7 DEF AckRead
  <2>2. phase \in {"id", "ask", "tell", "play"}
    BY <1>1 DEF Serving, Steps, TypeOK
  <2>3. Onward'
    BY <2>1, <2>2, AckId, AckPlay, AckAsk, AckTell
  <2>4. /\ phase' \in {"id", "ask", "tell", "play", "count", "over"} /\ at' \in Players
        /\ wants' \in {"write", "answer", "select"} /\ temprset' \subseteq Players
    <3>1. CASE phase = "play"
      BY <1>1, <2>1, <3>1 DEF AckRead, Acknowledged, TypeOK
    <3>2. CASE phase # "play"
      <4>1. temprset \subseteq Players /\ 0 \in Players
        BY <1>1, Numbers DEF TypeOK
      <4> QED
        BY <2>1, <2>2, <3>2, <4>1, NextPlayer
    <3> QED
      BY <3>1, <3>2
  <2>5. TypeOK'
    BY <1>1, <1>3, <1>5, <2>4 DEF TypeOK, Ups
  <2>6. Terminals' /\ Opening'
    BY <1>1, <1>3, <2>4 DEF Terminals, Opening
  <2> QED
    BY <2>3, <2>5, <2>6 DEF Onward, Inv, Serving
<1> QED
  BY <1>6, <1>7

\* ReadAnswer keeps the invariant: the answer is in the buffer or under way.
LEMMA ReadAnswerStep ==
    ASSUME Inv, ReadAnswer
    PROVE  Inv'
<1>1. /\ TypeOK /\ Terminals /\ wants = "answer" /\ Serving
      /\ \A q \in Players : Talk(q) /\ Stage(q)
  BY DEF Inv, ReadAnswer, Serving
<1>2. PICK r \in readline(sbuf, up[at]) : Receive(r)
  BY DEF ReadAnswer
<1>3. /\ Send(at, "ACK") /\ wants' = "write"
      /\ UNCHANGED <<phase, at, left, temprset, testset, newgame_count, cbuf, typed, cpc,
                     vote>>
  BY DEF ReadAnswer
<1>4. PICK w \in Players : w = at
  BY <1>1 DEF TypeOK
<1>5. /\ r \in readline(sbuf, up[w])
      /\ sbuf' = r.buf /\ sbuf' \in Seq(Ups) /\ up' \in [Players -> Seq(Ups)]
      /\ up'[w] = r.wire /\ \A q \in Players : q # w => up'[q] = up[q]
  BY <1>1, <1>2, <1>4, ReceiveTypes
<1>6. "ACK" \in Texts /\ Send(w, "ACK")
  BY <1>3, <1>4 DEF Texts
<1>7. Sends(w, "ACK") /\ \A q \in Players : q # w => Pipe(q)' = Pipe(q)
  BY <1>1, <1>3, <1>6, SendSends
<1>8. phase = "play" /\ newgame_count = 0
  BY <1>1 DEF Serving, Steps, TypeOK, Tally
<1>9. Answering(w) /\ Talk(w) /\ vote[w] = "none"
  BY <1>1, <1>4, <1>8 DEF Stage
<1>10. /\ sbuf' = <<>> /\ up'[w] = <<>>
       /\ cpc[w] = "gone" \/ (cpc[w] = "sent" /\ Pipe(w) = <<>>)
  <2>1. CASE sbuf = <<>>
    <3>1. r \in readline(<<>>, up[w]) /\ up[w] # <<>>
      BY <1>5, <2>1, FreshNone
    <3>2. PICK a \in Answers :
             up[w] = One(a) /\ (cpc[w] = "gone" \/ (cpc[w] = "sent" /\ Pipe(w) = <<>>))
      BY <1>9, <2>1, <3>1, Lines DEF Answering, Meets, Left
    <3>3. r \in readline(<<>>, One(a)) /\ a \in Ups
      BY <3>1, <3>2 DEF Answers, Ups
    <3>4. r.buf = <<>> /\ r.wire = <<>>
      BY <3>3, FreshOne
    <3> QED
      BY <1>5, <3>2, <3>4
  <2>2. CASE sbuf # <<>>
    <3>1. PICK a \in Answers :
             /\ sbuf = One(a) /\ up[w] = <<>>
             /\ cpc[w] = "gone" \/ (cpc[w] = "sent" /\ Pipe(w) = <<>>)
      BY <1>9, <2>2 DEF Answering, Meets, Left
    <3>2. r \in readline(One(a), up[w]) /\ a \in Ups /\ up[w] \in Seq(Ups)
      BY <1>1, <1>5, <3>1 DEF Answers, Ups, TypeOK
    <3>3. r.buf = <<>> /\ r.wire = up[w]
      BY <3>2, ReadKept
    <3> QED
      BY <1>5, <3>1, <3>3
  <2> QED
    BY <2>1, <2>2
<1>11. Idle(w)' /\ Talk(w)'
  <2>1. CASE cpc[w] = "gone"
    BY <1>3, <1>10, <2>1 DEF Idle, Left, Talk
  <2>2. CASE cpc[w] = "sent" /\ Pipe(w) = <<>>
    <3>1. Pipe(w)' = One("ACK")
      BY <1>7, <2>2 DEF Sends
    <3> QED
      BY <1>3, <1>9, <1>10, <2>2, <3>1 DEF Idle, Meets, Talk
  <2> QED
    BY <1>10, <2>1, <2>2
<1>12. Voting' = Voting /\ ~Decided
  BY <1>3, <1>8 DEF Voting, Decided
<1>13. ASSUME NEW q \in Players PROVE Talk(q)' /\ Stage(q)'
  <2>1. vote'[q] = "none"
    BY <1>1, <1>3, <1>8 DEF Stage
  <2>2. CASE q = w
    BY <1>3, <1>8, <1>11, <2>1, <2>2 DEF Stage
  <2>3. CASE q # w
    <3>1. Same(q) /\ Calm(q)
      BY <1>3, <1>5, <1>7, <2>3 DEF Same, Calm
    <3>2. Idle(q)
      BY <1>1, <1>4, <1>8, <2>3 DEF Stage
    <3>3. Idle(q)'
      BY <3>1, <3>2, PartsFrame DEF PartsKept
    <3>4. Talk(q)'
      BY <1>1, <1>12, <3>1, TalkFrame
    <3>5. Stage(q)'
      BY <1>3, <1>8, <2>1, <3>3 DEF Stage
    <3> QED
      BY <3>4, <3>5
  <2> QED
    BY <2>2, <2>3
<1>14. TypeOK'
  <2>1. down' \in [Players -> Seq(Texts)]
    BY <1>7 DEF Sends
  <2> QED
    BY <1>1, <1>3, <1>5, <2>1 DEF TypeOK, Ups
<1>15. Terminals' /\ Opening'
  BY <1>1, <1>3 DEF Terminals, Opening
<1>16. Steps' /\ Buffered' /\ Tally' /\ Ready'
  BY <1>3, <1>8, <1>10 DEF Steps, Buffered, Tally, Ready
<1> QED
  BY <1>13, <1>14, <1>15, <1>16 DEF Inv, Serving

-----------------------------------------------------------------------------
(* The votes                                                               *)

\* Some of the players are at most all of them.
LEMMA Headcount ==
    ASSUME NEW S, S \subseteq Players
    PROVE  /\ IsFiniteSet(S) /\ Cardinality(S) \in Nat /\ Cardinality(S) <= PlayerCount
           /\ Cardinality(S) = PlayerCount <=> S = Players
<1>1. IsFiniteSet(Players) /\ Cardinality(Players) = PlayerCount
  <2>1. PICK f \in Int : f = PlayerCount - 1
    BY Numbers
  <2>2. PICK z \in Int : z = 0
    OBVIOUS
  <2>3. IsFiniteSet(z..f) /\ Cardinality(z..f) = IF z > f THEN 0 ELSE f - z + 1
    BY FS_Interval
  <2>4. Players = z..f
    BY <2>1, <2>2 DEF Players
  <2>5. (IF z > f THEN 0 ELSE f - z + 1) = PlayerCount
    BY <2>1, <2>2, Numbers
  <2> QED
    BY <2>3, <2>4, <2>5
<1>2. IsFiniteSet(S) /\ Cardinality(S) <= PlayerCount /\ (Cardinality(S) = PlayerCount => S = Players)
  <2>1. S \in SUBSET Players
    OBVIOUS
  <2> QED
    BY <1>1, <2>1, FS_Subset
<1> QED
  BY <1>1, <1>2, FS_CardinalityType

\* Select keeps the invariant: who is ready is awaited, and has sent
\* something or is gone.
LEMMA SelectStep ==
    ASSUME Inv, Select
    PROVE  Inv'
<1>1. /\ TypeOK /\ Terminals /\ wants = "select" /\ phase = "count" /\ Serving
      /\ \A q \in Players : Talk(q) /\ Stage(q)
  BY DEF Inv, Select, Serving
<1>2. /\ testset' = {p \in temprset : up[p] # <<>> \/ p \in Closed}
      /\ at' = 0 /\ wants' = "collect"
      /\ UNCHANGED <<up, down, sbuf, phase, left, temprset, newgame_count, cbuf, typed,
                     cpc, vote>>
  BY DEF Select
<1>3. TypeOK'
  BY <1>1, <1>2, Numbers DEF TypeOK
<1>4. Terminals' /\ Opening'
  BY <1>1, <1>2 DEF Terminals, Opening
<1>5. Voting' = Voting /\ ~Decided
  BY <1>1, <1>2 DEF Voting, Decided
<1>6. ASSUME NEW q \in Players PROVE Talk(q)' /\ Stage(q)'
  <2>1. Same(q) /\ Calm(q)
    BY <1>2 DEF Same, Calm, Pipe
  <2>2. PartsKept(q)
    BY <2>1, PartsFrame
  <2>3. Talk(q)'
    BY <1>1, <1>5, <2>1, TalkFrame
  <2>4. Stage(q)'
    BY <1>1, <1>2, <2>2 DEF Stage, PartsKept
  <2> QED
    BY <2>3, <2>4
<1>7. Steps /\ Buffered /\ Tally
  BY <1>1 DEF Serving
<1>8. Steps'
  BY <1>1, <1>2, <1>7 DEF Steps
<1>9. Buffered'
  <2>1. Kept(Final)' = Kept(Final)
    BY <1>2 DEF Kept, Final
  <2> QED
    BY <1>1, <1>2, <1>7, <2>1 DEF Buffered, Final
<1>10. Tally'
  <2>1. Heard' = Heard /\ Mixed' = Mixed /\ ForIt(Heard)' = ForIt(Heard)
    BY <1>2 DEF Heard, Mixed, ForIt, Final
  <2> QED
    BY <1>1, <1>2, <1>7, <2>1 DEF Tally, Tallied
<1>11. Ready'
  <2>1. ASSUME NEW q \in testset' PROVE q \in temprset /\ (up[q] # <<>> \/ cpc[q] = "gone")
    <3>1. q \in temprset /\ (up[q] # <<>> \/ q \in Closed) /\ q \in Players
      BY <1>1, <1>2, <2>1 DEF TypeOK
    <3>2. cpc[q] # "stopped"
      BY <1>1, <1>5, <3>1 DEF Talk
    <3> QED
      BY <3>1, <3>2 DEF Closed
  <2> QED
    BY <1>2, <2>1 DEF Ready
<1> QED
  BY <1>3, <1>4, <1>6, <1>8, <1>9, <1>10, <1>11 DEF Inv, Serving

\* From one player to the next, to select() again, or to the verdict.
Advances ==
    IF ~AtLast THEN at' = at + 1 /\ UNCHANGED <<phase, wants>>
    ELSE /\ at' = 0
         /\ IF temprset' = {} THEN phase' = "tell" /\ wants' = "write"
            ELSE wants' = "select" /\ UNCHANGED phase

\* What one of the four tests has to leave behind.
Tested(w) ==
    /\ \A q \in Players :
          /\ q \in temprset => Awaited(q)
          /\ q \notin temprset => Collecting(q)
          /\ phase = "count" => Talk(q)
    /\ sbuf = <<>> \/ (Final \in temprset /\ Kept(Final))
    /\ Tallied
    /\ \A q \in testset : q > w => q \in temprset /\ (up[q] # <<>> \/ cpc[q] = "gone")

\* Then the invariant holds, whichever way the server goes.
LEMMA AdvanceStep ==
    ASSUME Inv, phase = "count", wants = "collect", NEW w \in Players, w = at,
           Advances, Tested(w)', TypeOK', UNCHANGED <<typed, cpc, vote, testset>>
    PROVE  Inv'
<1>1. Terminals' /\ TypeOK /\ \A q \in Players : Talk(q)
  BY DEF Inv, Terminals
<1>2. \/ at' = w + 1 /\ phase' = "count" /\ wants' = "collect"
      \/ at' = 0 /\ phase' = "count" /\ wants' = "select"
      \/ at' = 0 /\ phase' = "tell" /\ wants' = "write" /\ temprset' = {}
  BY DEF Advances
<1>3. Opening' /\ Steps'
  BY <1>2 DEF Opening, Steps
<1>4. Buffered' /\ Tally'
  BY <1>2 DEF Buffered, Tally, Tested
<1>5. Ready'
  <2>1. testset \subseteq Players
    BY <1>1 DEF TypeOK
  <2>2. ASSUME wants' = "collect", NEW q \in testset', q >= at'
        PROVE  q \in temprset' /\ (up'[q] # <<>> \/ cpc'[q] = "gone")
    <3>1. q > w
      BY <1>2, <2>1, <2>2, Numbers
    <3> QED
      BY <2>2, <3>1 DEF Tested
  <2> QED
    BY <2>2 DEF Ready
<1>6. ASSUME NEW q \in Players PROVE Talk(q)' /\ Stage(q)'
  <2>1. /\ q \in temprset' => Awaited(q)'
        /\ q \notin temprset' => Collecting(q)'
        /\ phase' = "count" => Talk(q)'
    BY DEF Tested
  <2>2. Stage(q)'
    BY <1>2, <2>1 DEF Stage
  <2>3. CASE phase' = "count"
    BY <2>1, <2>2, <2>3
  <2>4. CASE phase' = "tell"
    <3>1. Collecting(q)'
      BY <1>2, <2>1, <2>4
    <3>2. cpc[q] \in {"voted", "verdict"} => vote'[q] # "none"
      BY <1>1 DEF Talk
    <3>3. Talk(q)'
      BY <3>1, <3>2 DEF Collecting, Talk
    <3> QED
      BY <2>2, <3>3
  <2> QED
    BY <1>2, <2>3, <2>4
<1> QED
  BY <1>1, <1>3, <1>4, <1>5, <1>6 DEF Inv, Serving

\* NotReady looks at the next player.
LEMMA NotReadyTests ==
    ASSUME Inv, NotReady
    PROVE  Inv' /\ Tallied' /\ Advances
<1>1. /\ TypeOK /\ wants = "collect" /\ phase = "count" /\ at \notin testset /\ Serving
      /\ \A q \in Players : Talk(q) /\ Stage(q)
  BY DEF Inv, NotReady, Serving
<1>2. UNCHANGED <<up, down, sbuf, left, temprset, testset, newgame_count, cbuf, typed,
                  cpc, vote>>
  BY DEF NotReady
<1>3. Advances
  BY <1>2 DEF NotReady, Collected, Advances
<1>4. PICK w \in Players : w = at
  BY <1>1 DEF TypeOK
<1>5. at' \in Players /\ phase' \in {"count", "tell"} /\ wants' \in {"collect", "select", "write"}
  BY <1>1, <1>3, <1>4, Numbers DEF Advances, AtLast
<1>6. TypeOK'
  BY <1>1, <1>2, <1>5 DEF TypeOK
<1>7. ASSUME NEW q \in Players
      PROVE  /\ q \in temprset' => Awaited(q)'
             /\ q \notin temprset' => Collecting(q)'
             /\ phase' = "count" => Talk(q)'
  <2>1. Same(q) /\ Calm(q)
    BY <1>2 DEF Same, Calm, Pipe
  <2>2. PartsKept(q)
    BY <2>1, PartsFrame
  <2>3. /\ q \in temprset' => Awaited(q)'
        /\ q \notin temprset' => Collecting(q)'
    BY <1>1, <1>2, <2>2 DEF Stage, PartsKept
  <2>4. ASSUME phase' = "count" PROVE Talk(q)'
    <3>1. Voting' /\ ~Decided
      BY <1>1, <2>4 DEF Voting, Decided
    <3> QED
      BY <1>1, <2>1, <3>1, TalkFrame
  <2> QED
    BY <2>3, <2>4
<1>8. sbuf' = <<>> \/ (Final \in temprset' /\ Kept(Final)')
  <2>1. Kept(Final)' = Kept(Final)
    BY <1>2 DEF Kept, Final
  <2> QED
    BY <1>1, <1>2, <2>1 DEF Serving, Buffered
<1>9. Tallied'
  <2>1. Heard' = Heard /\ Mixed' = Mixed /\ ForIt(Heard)' = ForIt(Heard) /\ Tallied
    BY <1>1, <1>2 DEF Heard, Mixed, ForIt, Final, Serving, Tally
  <2> QED
    BY <1>2, <2>1 DEF Tallied
<1>10. ASSUME NEW q \in testset, q > w
       PROVE  q \in temprset /\ (up[q] # <<>> \/ cpc[q] = "gone")
  <2>1. q >= at
    <3>1. q \in Players
      BY <1>1 DEF TypeOK
    <3> QED
      BY <1>4, <1>10, <3>1, Numbers
  <2> QED
    BY <1>1, <2>1 DEF Serving, Ready
<1>11. Tested(w)'
  BY <1>2, <1>7, <1>8, <1>9, <1>10 DEF Tested, Final
<1>12. Inv'
  BY <1>1, <1>2, <1>3, <1>4, <1>6, <1>11, AdvanceStep
<1> QED
  BY <1>3, <1>9, <1>12

\* What Collect reads is the vote of the player, unless readline() had kept
\* that of the last one, which is then taken for it.
LEMMA CollectReads ==
    ASSUME Inv, Collect, NEW w \in Players, w = at
    PROVE  /\ w \in temprset
           /\ cpc[w] = "gone" \/ (cpc[w] = "voted" /\ Pipe(w) = <<>>)
           /\ sbuf' = <<>> /\ up' \in [Players -> Seq(Ups)]
           /\ \A q \in Players : q # w => up'[q] = up[q]
           /\ Mixed => Mixed'
           /\ \E v \in {"YES", "NO"} :
                 /\ newgame_count' = Counted(v)
                 /\ Mixed' \/ v = vote[w]
<1>1. /\ TypeOK /\ wants = "collect" /\ phase = "count" /\ at \in testset /\ Serving
      /\ \A q \in Players : Stage(q)
  BY DEF Inv, Collect, Serving
<1>2. PICK r \in readline(sbuf, up[at]) : Receive(r) /\ newgame_count' = Counted(r.line)
  BY DEF Collect
<1>3. temprset' = temprset \ {w} /\ UNCHANGED <<cpc, vote>>
  BY DEF Collect, Cleared
<1>4. /\ r \in readline(sbuf, up[w])
      /\ sbuf' = r.buf /\ up' \in [Players -> Seq(Ups)]
      /\ up'[w] = r.wire /\ \A q \in Players : q # w => up'[q] = up[q]
  BY <1>1, <1>2, ReceiveTypes
<1>5. w \in temprset /\ (up[w] # <<>> \/ cpc[w] = "gone")
  <2>1. w >= at
    BY Numbers
  <2> QED
    BY <1>1, <2>1 DEF Serving, Ready
<1>6. Awaited(w)
  BY <1>1, <1>5 DEF Stage
<1>7. cpc[w] = "gone" \/ (cpc[w] = "voted" /\ Pipe(w) = <<>>)
  BY <1>5, <1>6 DEF Awaited, Meets, Left
<1>8. vote \in [Players -> {"none", "YES", "NO"}] /\ up \in [Players -> Seq(Ups)]
  BY <1>1 DEF TypeOK, Ups
<1>9. CASE sbuf = <<>>
  <2>1. r \in readline(<<>>, up[w]) /\ up[w] # <<>>
    BY <1>4, <1>9, FreshNone
  <2>2. PICK v : v = vote[w]
    OBVIOUS
  <2>3. v \in {"YES", "NO"} /\ v \in Ups /\ up[w] = One(v)
    BY <1>6, <1>8, <2>1, <2>2 DEF Awaited, Meets, Left, Ups
  <2>4. r \in readline(<<>>, One(v))
    BY <2>1, <2>3
  <2>5. r.line = v /\ r.buf = <<>> /\ r.wire = <<>>
    BY <2>3, <2>4, FreshOne
  <2>6. ASSUME Mixed PROVE Mixed'
    <3>1. w # Final
      BY <2>1, <2>6 DEF Mixed
    <3>2. up'[Final] = up[Final]
      BY <1>4, <3>1, Numbers
    <3> QED
      BY <1>3, <1>4, <2>5, <2>6, <3>1, <3>2 DEF Mixed, Final
  <2> QED
    BY <1>2, <1>4, <1>5, <1>7, <2>2, <2>3, <2>5, <2>6
<1>10. CASE sbuf # <<>>
  <2>1. Final \in temprset /\ Kept(Final) /\ Final \in Players
    BY <1>1, <1>10, Numbers DEF Serving, Buffered
  <2>2. PICK v : v = vote[Final]
    OBVIOUS
  <2>3. v \in {"YES", "NO"} /\ v \in Ups /\ sbuf = One(v) /\ up[Final] = <<>>
    BY <1>8, <2>1, <2>2 DEF Kept, Ups
  <2>4. r \in readline(One(v), up[w]) /\ up[w] \in Seq(Ups)
    BY <1>4, <1>8, <2>3
  <2>5. r.line = v /\ r.buf = <<>> /\ r.wire = up[w]
    BY <2>3, <2>4, ReadKept
  <2>6. ~Mixed
    BY <1>10 DEF Mixed
  <2>7. ASSUME w # Final PROVE Mixed'
    <3>1. up'[Final] = <<>> /\ Final \in temprset' /\ vote'[Final] # "none"
      BY <1>3, <1>4, <2>1, <2>2, <2>3, <2>7
    <3> QED
      BY <1>4, <2>5, <3>1 DEF Mixed, Final
  <2>8. Mixed' \/ v = vote[w]
    BY <2>2, <2>7
  <2> QED
    BY <1>2, <1>4, <1>5, <1>7, <2>3, <2>5, <2>6, <2>8
<1> QED
  BY <1>9, <1>10

\* The count is right, or will never be used.
LEMMA CollectTallies ==
    ASSUME Inv, Collect
    PROVE  Tallied'
<1>1. TypeOK /\ phase = "count" /\ Tallied
  BY DEF Inv, Collect, Serving, Tally
<1>2. PICK w \in Players : w = at
  BY <1>1 DEF TypeOK
<1>3. temprset' = temprset \ {w} /\ UNCHANGED vote
  BY <1>2 DEF Collect, Cleared
<1>4. w \in temprset /\ (Mixed => Mixed')
  BY <1>2, CollectReads
<1>5. PICK v \in {"YES", "NO"} : newgame_count' = Counted(v) /\ (Mixed' \/ v = vote[w])
  BY <1>2, CollectReads
<1>6. PICK H : H = Heard
  OBVIOUS
<1>7. H \subseteq Players /\ w \notin H /\ Heard' = H \cup {w}
  BY <1>3, <1>4, <1>6 DEF Heard
<1>8. IsFiniteSet(H) /\ Cardinality(H) \in Nat
  BY <1>7, Headcount
<1>9. Cardinality(H \cup {w}) = Cardinality(H) + 1
  BY <1>7, <1>8, FS_AddElement
<1>10. PICK n \in Int : n = newgame_count
  <2>1. newgame_count \in 0..PlayerCount
    BY <1>1 DEF TypeOK
  <2> QED
    BY <2>1, Numbers
<1>11. newgame_count' = (IF v = "YES" THEN n + 1 ELSE n) /\ n <= Cardinality(H)
  BY <1>1, <1>5, <1>6, <1>10 DEF Counted, Tallied
<1>12. newgame_count' <= Cardinality(Heard')
  <2>1. newgame_count' <= Cardinality(H) + 1
    BY <1>8, <1>11
  <2> QED
    BY <1>7, <1>9, <2>1
<1>13. ASSUME ~Mixed'
       PROVE  /\ newgame_count' = Cardinality(ForIt(Heard)')
              /\ \A p \in Heard' : vote'[p] # "none"
  <2>1. ~Mixed /\ v = vote[w]
    BY <1>4, <1>5, <1>13
  <2>2. n = Cardinality(ForIt(H)) /\ \A p \in H : vote[p] # "none"
    BY <1>1, <1>6, <1>10, <2>1 DEF Tallied
  <2>3. \A p \in Heard' : vote'[p] # "none"
    BY <1>3, <1>7, <2>1, <2>2
  <2>4. PICK F : F = ForIt(H)
    OBVIOUS
  <2>5. F \subseteq Players /\ w \notin F
    BY <1>7, <2>4 DEF ForIt
  <2>6. ForIt(Heard)' = IF v = "YES" THEN F \cup {w} ELSE F
    BY <1>3, <1>7, <2>1, <2>4 DEF ForIt
  <2>7. IsFiniteSet(F) /\ Cardinality(F) \in Nat
    BY <2>5, Headcount
  <2>8. Cardinality(F \cup {w}) = Cardinality(F) + 1
    BY <2>5, <2>7, FS_AddElement
  <2>9. newgame_count' = Cardinality(ForIt(Heard)')
    BY <1>11, <2>2, <2>4, <2>6, <2>8
  <2> QED
    BY <2>3, <2>9
<1> QED
  BY <1>12, <1>13 DEF Tallied

\* Collect takes one vote and looks at the next player.
LEMMA CollectTests ==
    ASSUME Inv, Collect
    PROVE  Inv' /\ Tallied' /\ Advances
<1>1. /\ TypeOK /\ wants = "collect" /\ phase = "count" /\ Serving
      /\ \A q \in Players : Talk(q) /\ Stage(q)
  BY DEF Inv, Collect, Serving
<1>2. PICK w \in Players : w = at
  BY <1>1 DEF TypeOK
<1>3. /\ w \in temprset
      /\ cpc[w] = "gone" \/ (cpc[w] = "voted" /\ Pipe(w) = <<>>)
      /\ sbuf' = <<>> /\ up' \in [Players -> Seq(Ups)]
      /\ \A q \in Players : q # w => up'[q] = up[q]
  BY <1>2, CollectReads
<1>4. /\ temprset' = temprset \ {w} /\ Send(w, "ACK")
      /\ UNCHANGED <<left, testset, cbuf, typed, cpc, vote>>
  BY <1>2 DEF Collect, Cleared
<1>5. Advances
  <2>1. Collected(Cleared(at)) /\ temprset' = Cleared(at)
    BY DEF Collect
  <2> QED
    BY <2>1 DEF Collected, Advances
<1>6. Tallied'
  BY CollectTallies
<1>7. "ACK" \in Texts
  BY DEF Texts
<1>8. Sends(w, "ACK") /\ \A q \in Players : q # w => Pipe(q)' = Pipe(q)
  BY <1>1, <1>4, <1>7, SendSends
<1>9. at' \in Players /\ phase' \in {"count", "tell"} /\ wants' \in {"collect", "select", "write"}
  BY <1>1, <1>2, <1>5, Numbers DEF Advances, AtLast
<1>10. TypeOK'
  <2>1. down' \in [Players -> Seq(Texts)]
    BY <1>8 DEF Sends
  <2>2. newgame_count' \in 0..PlayerCount
    <3>1. PICK c : c = Cardinality(Heard')
      OBVIOUS
    <3>2. c \in Nat /\ c <= PlayerCount
      <4>1. Heard' \subseteq Players
        BY DEF Heard
      <4> QED
        BY <3>1, <4>1, Headcount
    <3>3. newgame_count' <= c
      BY <1>6, <3>1 DEF Tallied
    <3>4. newgame_count \in 0..PlayerCount
      BY <1>1 DEF TypeOK
    <3>5. newgame_count' \in {newgame_count, newgame_count + 1}
      <4>1. PICK v \in {"YES", "NO"} : newgame_count' = Counted(v)
        BY <1>2, CollectReads
      <4> QED
        BY <4>1 DEF Counted
    <3> QED
      BY <3>2, <3>3, <3>4, <3>5, Numbers
  <2>3. temprset' \subseteq Players /\ sbuf' \in Seq(Ups)
    BY <1>1, <1>3, <1>4, EmptySeq DEF TypeOK
  <2> QED
    BY <1>1, <1>3, <1>4, <1>9, <2>1, <2>2, <2>3 DEF TypeOK, Ups
<1>11. ASSUME NEW q \in Players
       PROVE  /\ q \in temprset' => Awaited(q)'
              /\ q \notin temprset' => Collecting(q)'
              /\ phase' = "count" => Talk(q)'
  <2>1. CASE q = w
    <3>1. cpc[w] = "voted" => Pipe(w)' = One("ACK") /\ vote[w] # "none"
      BY <1>1, <1>3, <1>8 DEF Sends, Talk
    <3>2. Collecting(w)'
      BY <1>3, <1>4, <3>1 DEF Collecting
    <3>3. Talk(w)'
      BY <1>3, <1>4, <3>1 DEF Talk
    <3> QED
      BY <1>4, <2>1, <3>2, <3>3
  <2>2. CASE q # w
    <3>1. Same(q) /\ Calm(q)
      BY <1>3, <1>4, <1>8, <2>2 DEF Same, Calm
    <3>2. PartsKept(q)
      BY <3>1, PartsFrame
    <3>3. /\ q \in temprset' => Awaited(q)'
          /\ q \notin temprset' => Collecting(q)'
      BY <1>1, <1>4, <2>2, <3>2 DEF Stage, PartsKept
    <3>4. ASSUME phase' = "count" PROVE Talk(q)'
      <4>1. Voting' /\ ~Decided
        BY <1>1, <3>4 DEF Voting, Decided
      <4> QED
        BY <1>1, <3>1, <4>1, TalkFrame
    <3> QED
      BY <3>3, <3>4
  <2> QED
    BY <2>1, <2>2
<1>12. ASSUME NEW q \in testset, q > w
       PROVE  q \in temprset' /\ (up'[q] # <<>> \/ cpc'[q] = "gone")
  <2>1. q \in Players
    BY <1>1 DEF TypeOK
  <2>2. q >= at /\ q # w
    BY <1>2, <1>12, <2>1, Numbers
  <2>3. q \in temprset /\ (up[q] # <<>> \/ cpc[q] = "gone")
    BY <1>1, <2>2 DEF Serving, Ready
  <2> QED
    BY <1>3, <1>4, <2>1, <2>2, <2>3
<1>13. Tested(w)'
  BY <1>3, <1>4, <1>6, <1>11, <1>12 DEF Tested
<1>14. Inv'
  BY <1>1, <1>2, <1>4, <1>5, <1>10, <1>13, AdvanceStep
<1> QED
  BY <1>5, <1>6, <1>14

\* Every step keeps the invariant.
LEMMA InvNext ==
    ASSUME Inv, [Next]_vars
    PROVE  Inv'
<1>1. CASE Server
  <2>1. CASE Join \/ Start \/ Write \/ GameSet \/ WaitAck
    BY <2>1, JoinStep, StartStep, WriteStep, GameSetStep, WaitAckStep
  <2>2. CASE ReadAnswer \/ Select \/ Collect \/ NotReady \/ ReadEnd
    BY <2>2, ReadAnswerStep, SelectStep, CollectTests, NotReadyTests, ReadEndStep
  <2>3. CASE \E p \in Players : Exchange(p)
    BY <2>3, ExchangeStep
  <2> QED
    BY <1>1, <2>1, <2>2, <2>3 DEF Server
<1>2. ASSUME NEW p \in Players,
             Client(p) \/ LobbyTyped(p) \/ LoopTyped(p) \/ Type(p) \/ Leave(p)
      PROVE  Inv'
  BY <1>2, ClientsStep
<1>3. CASE UNCHANGED vars
  <2>1. UNCHANGED <<up, down, server, cbuf, cpc, vote, typed>>
    BY <1>3 DEF vars
  <2>2. Terminals' /\ typed' \in [Players -> Seq({"Y", "n", "0"})]
    BY <2>1 DEF Inv, Terminals, TypeOK
  <2>3. 0 \in Players
    BY Numbers
  <2> QED
    BY <2>1, <2>2, <2>3, TypingStep
<1> QED
  BY <1>1, <1>2, <1>3 DEF Next

\* The lines stay lines, both programs stay where their code can be, and
\* newgame_count never exceeds the number of players, for any number of
\* players, any length of the play and whoever leaves or types unasked.
THEOREM WireTypes == Spec => []TypeOK
<1>1. Init => Inv
  BY InvInit
<1>2. Inv /\ [Next]_vars => Inv'
  BY InvNext
<1>3. Inv => TypeOK
  BY DEF Inv
<1> QED
  BY <1>1, <1>2, <1>3, PTL DEF Spec

-----------------------------------------------------------------------------
(* The promise                                                             *)

\* What the variables of VoteSpec stand for.
Decision == IF phase \in {"tell", "over"} THEN Message["tell"] ELSE "none"
Told == [p \in Players |-> CASE cpc[p] = "again" -> "start"
                             [] cpc[p] = "stopped" -> "stop"
                             [] OTHER -> "none"]

\* They do not change while nobody reaches a verdict.
LEMMA TellsNothing ==
    ASSUME UNCHANGED vote, Decided' <=> Decided,
           Decided => UNCHANGED newgame_count,
           \A p \in Players : \/ cpc'[p] = cpc[p]
                              \/ {cpc[p], cpc'[p]} \cap {"again", "stopped"} = {}
    PROVE  UNCHANGED <<vote, Decision, Told>>
<1>1. Decision' = Decision
  BY DEF Decision, Decided, Message, AllWant
<1>2. Told' = Told
  BY DEF Told
<1> QED
  BY <1>1, <1>2

\* The server decides when all have voted, and on what they voted.
LEMMA Decides ==
    ASSUME Inv, phase = "count", phase' = "tell", temprset' = {}, Tallied',
           UNCHANGED <<vote, cpc>>
    PROVE  Promise!Decide
<1>1. ~Mixed' /\ Heard' = Players
  BY DEF Mixed, Heard
<1>2. newgame_count' = Cardinality(ForIt(Heard)') /\ \A p \in Players : vote[p] # "none"
  BY <1>1 DEF Tallied
<1>3. PICK F : F = {p \in Players : vote[p] = "YES"}
  OBVIOUS
<1>4. ForIt(Heard)' = F
  BY <1>1, <1>3 DEF ForIt
<1>5. Cardinality(F) = PlayerCount <=> F = Players
  <2>1. F \subseteq Players
    BY <1>3
  <2> QED
    BY <2>1, Headcount
<1>6. AllWant' <=> \A p \in Players : vote[p] = "YES"
  BY <1>2, <1>3, <1>4, <1>5 DEF AllWant
<1>7. Decision = "none"
  BY DEF Decision
<1>8. Decision' = IF \A p \in Players : vote[p] = "YES" THEN "start" ELSE "stop"
  BY <1>6 DEF Decision, Message
<1>9. Told' = Told
  BY DEF Told
<1> QED
  BY <1>2, <1>7, <1>8, <1>9 DEF Promise!Decide, Decision, Told

\* A step of the server decides, or tells nothing.
LEMMA ServerKeeps ==
    ASSUME Inv, Server
    PROVE  Promise!Decide \/ UNCHANGED <<vote, Decision, Told>>
<1>1. UNCHANGED <<vote, cpc>>
  BY DEF Server, Join, Start, Write, GameSet, WaitAck, ReadAnswer, Select, Collect, NotReady,
         ReadEnd, Exchange
<1>2. CASE Collect \/ NotReady
  <2>1. Tallied' /\ Advances /\ phase = "count"
    BY <1>2, CollectTests, NotReadyTests DEF Collect, NotReady
  <2>2. CASE phase' = "tell"
    <3>1. temprset' = {}
      BY <2>1, <2>2 DEF Advances
    <3> QED
      BY <1>1, <2>1, <2>2, <3>1, Decides
  <2>3. CASE phase' # "tell"
    <3>1. ~Decided /\ ~Decided'
      BY <2>1, <2>3 DEF Advances, Decided
    <3> QED
      BY <1>1, <3>1, TellsNothing
  <2> QED
    BY <2>2, <2>3
<1>3. CASE WaitAck
  <2>1. UNCHANGED newgame_count
    BY <1>3 DEF WaitAck
  <2>2. phase \in {"id", "ask", "tell", "play"}
    BY <1>3 DEF Inv, WaitAck, Serving, Steps, TypeOK
  <2>3. phase' = phase \/ (phase # "play" /\ phase' = After[phase])
    BY <1>3 DEF WaitAck, Acknowledged
  <2>4. After["id"] = "play" /\ After["ask"] = "count" /\ After["tell"] = "over"
    BY DEF After
  <2>5. Decided' <=> Decided
    BY <2>2, <2>3, <2>4 DEF Decided
  <2> QED
    BY <1>1, <2>1, <2>5, TellsNothing
<1>4. CASE Join \/ Start \/ Write \/ GameSet \/ ReadAnswer \/ Select \/ ReadEnd
           \/ \E p \in Players : Exchange(p)
  <2>1. UNCHANGED newgame_count
    BY <1>4 DEF Join, Start, Write, GameSet, ReadAnswer, Select, ReadEnd, Exchange
  <2>2. Decided' <=> Decided
    BY <1>4 DEF Join, Start, Write, GameSet, ReadAnswer, Select, ReadEnd, Exchange, Decided
  <2> QED
    BY <1>1, <2>1, <2>2, TellsNothing
<1> QED
  BY <1>2, <1>3, <1>4 DEF Server

\* A client that hears of the decision hears that one.
LEMMA VerdictHears ==
    ASSUME Inv, NEW p \in Players, Verdict(p)
    PROVE  Promise!Hear(p)
<1>1. Decided /\ cpc[p] = "verdict" /\ cpc' = [cpc EXCEPT ![p] = Outcome(Ruling)]
  BY VerdictRead
<1>2. UNCHANGED <<phase, newgame_count, vote>> /\ TypeOK
  BY DEF Verdict, server, Inv
<1>3. Decision' = Decision /\ Decision = Ruling
  BY <1>1, <1>2 DEF Decision, Decided, Message, AllWant, Ruling
<1>4. Ruling \in {"start", "stop"}
  BY DEF Ruling
<1>5. cpc \in [Players -> {"lobby", "id", "loop", "prompt", "choose", "sent", "vote", "voted",
                           "verdict", "again", "stopped", "gone"}]
  BY <1>2 DEF TypeOK
<1>6. Told[p] = "none" /\ Told' = [Told EXCEPT ![p] = Ruling]
  <2>1. Told[p] = "none"
    BY <1>1 DEF Told
  <2>2. ASSUME NEW q \in Players PROVE Told'[q] = [Told EXCEPT ![p] = Ruling][q]
    <3>1. CASE q = p
      <4>1. cpc'[p] = IF Ruling = "start" THEN "again" ELSE "stopped"
        BY <1>1, <1>5 DEF Outcome
      <4>2. Told'[p] = Ruling
        BY <1>4, <4>1 DEF Told
      <4>3. [Told EXCEPT ![p] = Ruling][p] = Ruling
        BY DEF Told
      <4> QED
        BY <3>1, <4>2, <4>3
    <3>2. CASE q # p
      <4>1. cpc'[q] = cpc[q]
        BY <1>1, <1>5, <3>2
      <4> QED
        BY <3>2, <4>1 DEF Told
    <3> QED
      BY <3>1, <3>2
  <2>3. DOMAIN Told' = Players /\ DOMAIN [Told EXCEPT ![p] = Ruling] = Players
    BY DEF Told
  <2>4. Told' = [q \in Players |-> Told'[q]]
    BY DEF Told
  <2>5. [Told EXCEPT ![p] = Ruling] = [q \in Players |-> [Told EXCEPT ![p] = Ruling][q]]
    BY DEF Told
  <2> QED
    BY <2>1, <2>2, <2>4, <2>5
<1>7. Decision # "none" /\ Told' = [Told EXCEPT ![p] = Decision]
  BY <1>3, <1>4, <1>6
<1> QED
  BY <1>2, <1>3, <1>6, <1>7 DEF Promise!Hear, Decision, Told

\* An answer to the question about another round is a vote.
LEMMA PromptedCasts ==
    ASSUME Inv, NEW p \in Players, Prompted(p)
    PROVE  Promise!Cast(p) \/ UNCHANGED <<vote, Decision, Told>>
<1>1. cpc[p] \in {"prompt", "vote"} /\ TypeOK /\ Talk(p)
  BY DEF Prompted, Inv
<1>2. UNCHANGED <<phase, newgame_count>>
  BY DEF Prompted, server
<1>3. \/ UNCHANGED <<cpc, vote>>
      \/ \E a \in {"YES", "NO"} :
            /\ cpc' = [cpc EXCEPT ![p] = IF cpc[p] = "vote" THEN "voted" ELSE "sent"]
            /\ vote' = IF cpc[p] = "vote" THEN [vote EXCEPT ![p] = a] ELSE vote
  BY PromptedRead
<1>4. \A q \in Players : \/ cpc'[q] = cpc[q]
                         \/ {cpc[q], cpc'[q]} \cap {"again", "stopped"} = {}
  BY <1>1, <1>3 DEF TypeOK
<1>5. Told' = Told /\ Decision' = Decision
  <2>1. Told' = Told
    BY <1>4 DEF Told
  <2> QED
    BY <1>2, <2>1 DEF Decision, Message, AllWant
<1>6. CASE vote' = vote
  BY <1>5, <1>6
<1>7. CASE vote' # vote
  <2>1. cpc[p] = "vote" /\ \E a \in {"YES", "NO"} : vote' = [vote EXCEPT ![p] = a]
    BY <1>3, <1>7
  <2>2. vote[p] = "none" /\ Decision = "none"
    BY <1>1, <2>1 DEF Talk, Voting, Decision
  <2> QED
    BY <1>5, <2>1, <2>2 DEF Promise!Cast, Decision, Told
<1> QED
  BY <1>6, <1>7

\* The other steps of a client tell nothing.
LEMMA ClientKeeps ==
    ASSUME Inv, NEW p \in Players,
           \/ LobbyLine(p) \/ ReceiveId(p) \/ LoopLine(p) \/ Chosen(p) \/ Approval(p)
           \/ ServerGone(p) \/ LobbyTyped(p) \/ LoopTyped(p) \/ Type(p) \/ Leave(p)
    PROVE  UNCHANGED <<vote, Decision, Told>>
<1>1. UNCHANGED <<vote, phase, newgame_count>>
  BY DEF LobbyLine, ReceiveId, LoopLine, Chosen, Approval, ServerGone, LobbyTyped, LoopTyped,
         Type, Leave, server
<1>2. cpc \in [Players -> {"lobby", "id", "loop", "prompt", "choose", "sent", "vote", "voted",
                           "verdict", "again", "stopped", "gone"}]
  BY DEF Inv, TypeOK
<1>3. \/ UNCHANGED cpc
      \/ \E place \in {"id", "loop", "prompt", "choose", "vote", "sent", "verdict", "gone"} :
            cpc' = [cpc EXCEPT ![p] = place] /\ cpc[p] \notin {"again", "stopped"}
  <2>1. CASE LobbyTyped(p) \/ LoopTyped(p) \/ Type(p)
    BY <2>1 DEF LobbyTyped, LoopTyped, Type
  <2>2. CASE LobbyLine(p) \/ ReceiveId(p) \/ Chosen(p) \/ ServerGone(p)
    BY <2>2 DEF LobbyLine, ReceiveId, Chosen, ServerGone, Goto
  <2>3. CASE Leave(p)
    BY <2>3 DEF Leave, Done, Goto
  <2>4. CASE LoopLine(p)
    <3>1. PICK r \in readline(cbuf[p], down[p]) : Goto(p, Reaction(r.line))
      BY <2>4 DEF LoopLine
    <3>2. Reaction(r.line) \in {"loop", "prompt", "choose", "vote"}
      BY DEF Reaction
    <3> QED
      BY <2>4, <3>1, <3>2 DEF LoopLine, Goto
  <2>5. CASE Approval(p)
    BY <2>5 DEF Approval, Goto
  <2> QED
    BY <2>1, <2>2, <2>3, <2>4, <2>5
<1>4. \A q \in Players : \/ cpc'[q] = cpc[q]
                         \/ {cpc[q], cpc'[q]} \cap {"again", "stopped"} = {}
  BY <1>2, <1>3
<1>5. Decided' <=> Decided
  BY <1>1 DEF Decided
<1> QED
  BY <1>1, <1>4, <1>5, TellsNothing

\* Whatever readline() has kept or mixed up, in which order ever lines, votes
\* and departures come: game_set_display() decides only when all have voted,
\* on another round only if all voted for it, and every client that hears of
\* the decision hears the same.  For any number of players.
THEOREM VoteIsKept == Spec => KeepsVotePromise
<1>1. Init => Inv
  BY InvInit
<1>2. Inv /\ [Next]_vars => Inv'
  BY InvNext
<1>3. Init => Promise!Init
  <2>1. ASSUME Init PROVE Decision = "none" /\ Told = [p \in Players |-> "none"]
    BY <2>1 DEF Init, Decision, Told
  <2> QED
    BY <2>1 DEF Init, Promise!Init, Decision, Told
<1>4. Inv /\ [Next]_vars => [Promise!Next]_<<vote, Decision, Told>>
  <2>1. SUFFICES ASSUME Inv, [Next]_vars
                 PROVE  Promise!Next \/ UNCHANGED <<vote, Decision, Told>>
    OBVIOUS
  <2>2. CASE Server
    BY <2>1, <2>2, ServerKeeps DEF Promise!Next
  <2>3. ASSUME NEW p \in Players,
               Client(p) \/ LobbyTyped(p) \/ LoopTyped(p) \/ Type(p) \/ Leave(p)
        PROVE  Promise!Next \/ UNCHANGED <<vote, Decision, Told>>
    <3>1. CASE Verdict(p)
      BY <2>1, <3>1, VerdictHears DEF Promise!Next
    <3>2. CASE Prompted(p)
      BY <2>1, <3>2, PromptedCasts DEF Promise!Next
    <3>3. CASE ~Verdict(p) /\ ~Prompted(p)
      BY <2>1, <2>3, <3>3, ClientKeeps DEF Client
    <3> QED
      BY <3>1, <3>2, <3>3
  <2>4. CASE UNCHANGED vars
    BY <2>4 DEF vars, server, Decision, Told, Message, AllWant
  <2> QED
    BY <2>1, <2>2, <2>3, <2>4 DEF Next
<1> QED
  BY <1>1, <1>2, <1>3, <1>4, PTL DEF Spec, KeepsVotePromise, Promise!Spec, Decision, Told
=============================================================================

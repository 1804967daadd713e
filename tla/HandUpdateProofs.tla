-------------------------- MODULE HandUpdateProofs --------------------------
(***************************************************************************)
(* The loops that update a hand, for every hand size and every hand: the   *)
(* partition of decks_quick_sort() stays in its range, the sort sorts, and *)
(* a claim leaves the hand that the table's model says.  The same sort, by *)
(* another key, is what shuffle() relies on: at the end of the module,     *)
(* whatever numbers rand() gives, it makes a wall that the table's model   *)
(* assumes.                                                                *)
(***************************************************************************)
EXTENDS HandUpdate, Shuffle, TilesProofs, SequenceTheorems

\* The slots that are sorted in the end.
Size == job.n - job.need
Partitioning == pc \in {"left", "right", "place"}

\* The ranges still to be sorted lie one behind the other in the first m
\* slots.
Chain(s, m) ==
    /\ \A x \in 1..Len(s) : 0 <= s[x][1] /\ s[x][1] <= s[x][2] + 1 /\ s[x][2] < m
    /\ \A x, y \in 1..Len(s) : x < y => s[x][2] < s[y][1]

\* They lie above slot top.
Above(s, top) == \A x \in 1..Len(s) : top < s[x][1]

\* Where the loops are.
Ranges ==
    /\ job \in Jobs
    /\ deck \in [Slots -> Entry]
    /\ stack \in Seq(Int \X Int) /\ Chain(stack, Size)
    /\ pc \in {"mark", "compact", "sort", "left", "right", "place", "done"}
    /\ pc \in {"mark", "compact"} => i \in 0..(job.n - 1) /\ need \in 1..job.need
    /\ Partitioning =>
          /\ start \in Nat /\ end \in Nat /\ start < end /\ end < Size /\ Above(stack, end)
          /\ left \in (start + 1)..(end + 1) /\ right \in start..end /\ left <= right + 1
    /\ pc = "place" => left = right + 1

-----------------------------------------------------------------------------
(* The updated hand                                                        *)

\* The number of slots in R that hold at most v.
Rank(d, R, v) == Cardinality(AtMost(d, R, v))

\* Both j and k belong to one range that is still to be sorted.
Together(s, j, k) == \E x \in 1..Len(s) : s[x][1] <= j /\ k <= s[x][2]

\* The first m slots are in order, but for those ranges; and but for the
\* range from b to e.
Ordered(d, s, m) ==
    \A j, k \in 0..(m - 1) : j < k => d[j] <= d[k] \/ Together(s, j, k)
OrderedBut(d, s, m, b, e) ==
    \A j, k \in 0..(m - 1) :
        j < k => d[j] <= d[k] \/ Together(s, j, k) \/ (b <= j /\ k <= e)

\* The slots below l and above r are on the right side of the pivot in b.
Low(d, b, l) == \A k \in (b + 1)..(l - 1) : d[k] <= d[b]
High(d, b, r, e) == \A k \in (r + 1)..e : d[b] <= d[k]

Gone == FirstSlots(job.hand, job.n, job.t, job.need)
Rest == (0..(job.n - 1)) \ Gone

\* The claimed tiles lie next to each other, from slot a on.
Block(a) == Gone = a..(a + job.need - 1) /\ a + job.need <= job.n

\* The hand with the claimed tiles before slot b emptied, and with all of
\* them emptied.
Marked(b) == [k \in Slots |-> IF k < b /\ job.hand[k] = job.t THEN Null ELSE job.hand[k]]
AllMarked == [k \in Slots |-> IF k \in Gone THEN Null ELSE job.hand[k]]

\* The hand after c turns of the second loop that found an empty slot.
Moved(a, c) ==
    LET s1 == swap(AllMarked, a, job.n - 1)
        s2 == swap(s1, a + 1, job.n - 2)
        s3 == swap(s2, a + 2, job.n - 3)
    IN  IF c = 0 THEN AllMarked ELSE IF c = 1 THEN s1 ELSE IF c = 2 THEN s2 ELSE s3

\* The second loop looks at slot x after c turns that found one.
Reached(a, c, x) == x = a + c \/ (c = 0 /\ x < a)

\* All of the first m slots are still to be sorted.
AllTogether(s, m) == \A j, k \in 0..(m - 1) : Together(s, j, k)

\* What the two loops have done.
Emptied ==
    /\ pc = "mark" =>
          /\ need = job.need - Count(job.hand, i, job.t)
          /\ deck = Marked(i)
    /\ pc = "compact" =>
          \A a \in Nat : Block(a) =>
              \E c \in 0..(job.need - 1) :
                  need = job.need - c /\ Reached(a, c, i) /\ deck = Moved(a, c)
    /\ pc \in {"mark", "compact"} => job.need > 0 /\ AllTogether(stack, Size)

\* The first m slots of d hold the tiles of h on R, and the others are as
\* they will be.
SameTiles(d, m, h, R) == \A v \in -1..58 : Rank(d, 0..(m - 1), v) = Rank(h, R, v)
Settled(d, m) == \A k \in Slots : k >= m => d[k] = IF k < job.n THEN Null ELSE job.hand[k]

\* What the sort has done.
Sorting ==
    pc \notin {"mark", "compact"} =>
        /\ SameTiles(deck, Size, job.hand, Rest)
        /\ Settled(deck, Size)
        /\ IF Partitioning
           THEN /\ OrderedBut(deck, stack, Size, start, end)
                /\ Low(deck, start, left) /\ High(deck, start, right, end)
           ELSE Ordered(deck, stack, Size)
        /\ pc = "right" => left > right \/ deck[left] > deck[start]
        /\ pc = "done" => stack = <<>>

-----------------------------------------------------------------------------
(* The loops stay in their ranges                                          *)

\* What is assumed of a job.
LEMMA JobFacts ==
    ASSUME job \in Jobs
    PROVE  /\ HandSize \in Nat /\ job.n \in Nat /\ job.n >= 1 /\ job.n <= HandSize
           /\ job.need \in {0, 2, 3} /\ job.need <= job.n /\ Size \in Nat /\ Size <= job.n
           /\ job.hand \in [Slots -> Entry] /\ job.t \in Entry
           /\ job.need > 0 =>
                 /\ Count(job.hand, job.n, job.t) >= job.need
                 /\ \A k \in 0..(job.n - 1) : job.hand[k] # Null
                 /\ \A k, l \in 0..(job.n - 1) : k <= l => job.hand[k] <= job.hand[l]
<1>1. HandSize \in Nat  BY HandSizeAssumption
<1>2. /\ job.n \in 1..HandSize /\ job.need \in {0, 2, 3}
      /\ job.hand \in [Slots -> Entry] /\ job.t \in Entry
      /\ job.need > 0 =>
                 /\ Count(job.hand, job.n, job.t) >= job.need
                 /\ \A k \in 0..(job.n - 1) : job.hand[k] # Null
                 /\ \A k, l \in 0..(job.n - 1) : k <= l => job.hand[k] <= job.hand[l]
    BY JobsAssumption
<1>3. job.n \in Nat  BY <1>1, <1>2
<1>4. /\ Count(job.hand, job.n, job.t) \in Nat
      /\ Count(job.hand, job.n, job.t) <= job.n
    BY <1>3, CountBound
<1>5. job.need <= job.n  BY <1>2, <1>3, <1>4
<1> QED  BY <1>1, <1>2, <1>3, <1>5 DEF Size

\* The first range is taken off the stack.
LEMMA Popped ==
    ASSUME NEW s \in Seq(Int \X Int), s # <<>>, NEW m, Chain(s, m)
    PROVE  /\ Tail(s) \in Seq(Int \X Int) /\ Chain(Tail(s), m) /\ Above(Tail(s), s[1][2])
           /\ s[1] \in Int \X Int /\ 0 <= s[1][1] /\ s[1][1] <= s[1][2] + 1 /\ s[1][2] < m
           /\ \A j, k : Together(s, j, k) =>
                 Together(Tail(s), j, k) \/ (s[1][1] <= j /\ k <= s[1][2])
<1>1. PICK u : u = Tail(s)  OBVIOUS
<1>2. /\ u \in Seq(Int \X Int) /\ Len(s) \in Nat /\ Len(s) >= 1 /\ Len(u) = Len(s) - 1
      /\ \A x \in 1..Len(u) : u[x] = s[x + 1] /\ x + 1 \in 1..Len(s)
    BY <1>1
<1>3. 1 \in 1..Len(s) /\ s[1] \in Int \X Int  BY <1>2
<1>4. Chain(u, m)
  <2>1. \A x \in 1..Len(u) : 0 <= u[x][1] /\ u[x][1] <= u[x][2] + 1 /\ u[x][2] < m
      BY <1>2 DEF Chain
  <2>2. \A x, y \in 1..Len(u) : x < y => u[x][2] < u[y][1]
    <3> SUFFICES ASSUME NEW x \in 1..Len(u), NEW y \in 1..Len(u), x < y
                 PROVE  u[x][2] < u[y][1]
        OBVIOUS
    <3>0. x \in Nat /\ y \in Nat /\ x + 1 < y + 1  BY <1>2
    <3>1. PICK b, c : b = x + 1 /\ c = y + 1  OBVIOUS
    <3>2. b \in 1..Len(s) /\ c \in 1..Len(s) /\ b < c /\ u[x] = s[b] /\ u[y] = s[c]
        BY <1>2, <3>0, <3>1
    <3> QED  BY <3>2 DEF Chain
  <2> QED  BY <2>1, <2>2 DEF Chain
<1>5. Above(u, s[1][2])
  <2> SUFFICES ASSUME NEW x \in 1..Len(u) PROVE s[1][2] < u[x][1]
      BY DEF Above
  <2>1. PICK b : b = x + 1  OBVIOUS
  <2>2. b \in 1..Len(s) /\ 1 < b /\ u[x] = s[b]  BY <1>2, <2>1
  <2> QED  BY <1>3, <2>2 DEF Chain
<1>6. ASSUME NEW j, NEW k, Together(s, j, k)
      PROVE  Together(u, j, k) \/ (s[1][1] <= j /\ k <= s[1][2])
  <2>1. PICK x \in 1..Len(s) : s[x][1] <= j /\ k <= s[x][2]  BY <1>6 DEF Together
  <2>2. CASE x = 1  BY <2>1, <2>2
  <2>3. CASE x # 1
    <3>1. PICK b : b = x - 1  OBVIOUS
    <3>2. b \in 1..Len(u) /\ b + 1 = x  BY <1>2, <2>3, <3>1
    <3>3. u[b] = s[x]  BY <1>2, <3>2
    <3> QED  BY <2>1, <3>2, <3>3 DEF Together
  <2> QED  BY <2>2, <2>3
<1> QED  BY <1>1, <1>2, <1>3, <1>4, <1>5, <1>6 DEF Chain

\* The two halves of the range from b to e, without slot r, before s.
Halves(s, b, r, e) == << <<b, r - 1>>, <<r + 1, e>> >> \o s

\* The two halves of a range are put on the stack.
LEMMA Pushed ==
    ASSUME NEW s \in Seq(Int \X Int), NEW m \in Int, Chain(s, m),
           NEW b \in Nat, NEW e \in Int, NEW r \in Int, b <= r, r <= e, e < m, Above(s, e),
           NEW u, u = Halves(s, b, r, e)
    PROVE  /\ u \in Seq(Int \X Int) /\ Chain(u, m)
           /\ \A j, k : Together(s, j, k) => Together(u, j, k)
           /\ \A j, k \in Int : (b <= j /\ k <= r - 1) \/ (r + 1 <= j /\ k <= e)
                => Together(u, j, k)
<1>1. PICK p, q : p = <<b, r - 1>> /\ q = <<r + 1, e>>  OBVIOUS
<1>2. /\ p \in Int \X Int /\ q \in Int \X Int
      /\ p[1] = b /\ p[2] = r - 1 /\ q[1] = r + 1 /\ q[2] = e
    BY <1>1
<1>3. PICK h : h = <<p, q>>  OBVIOUS
<1>4. h \in Seq(Int \X Int) /\ Len(h) = 2 /\ h[1] = p /\ h[2] = q  BY <1>2, <1>3
<1>5. u = h \o s  BY <1>1, <1>3 DEF Halves
<1>6. /\ u \in Seq(Int \X Int) /\ Len(s) \in Nat /\ Len(u) = Len(s) + 2
      /\ u[1] = p /\ u[2] = q /\ \A x \in 1..Len(s) : u[x + 2] = s[x]
  <2>1. /\ u \in Seq(Int \X Int) /\ Len(s) \in Nat /\ Len(u) = Len(h) + Len(s)
        /\ \A x \in 1..Len(u) : u[x] = IF x <= Len(h) THEN h[x] ELSE s[x - Len(h)]
    <3>1. PICK S : S = Int \X Int  OBVIOUS
    <3>2. h \in Seq(S) /\ s \in Seq(S)  BY <1>4, <3>1
    <3>3. /\ h \o s \in Seq(S) /\ Len(h \o s) = Len(h) + Len(s)
          /\ \A x \in 1..(Len(h) + Len(s)) :
                (h \o s)[x] = IF x <= Len(h) THEN h[x] ELSE s[x - Len(h)]
        BY <3>2, ConcatProperties
    <3>4. Len(s) \in Nat  BY <3>2, LenProperties
    <3> QED  BY <1>5, <3>1, <3>3, <3>4
  <2>2. u[1] = p /\ u[2] = q  BY <1>4, <2>1
  <2>3. ASSUME NEW x \in 1..Len(s) PROVE u[x + 2] = s[x]
    <3>1. PICK y : y = x + 2  OBVIOUS
    <3>2. y \in 1..Len(u) /\ ~(y <= Len(h)) /\ y - Len(h) = x  BY <1>4, <2>1, <3>1
    <3>3. u[y] = s[y - Len(h)]  BY <2>1, <3>2
    <3> QED  BY <3>1, <3>2, <3>3
  <2> QED  BY <1>4, <2>1, <2>2, <2>3
<1>7. \A x \in 1..Len(u) : x = 1 \/ x = 2 \/ \E y \in 1..Len(s) : x = y + 2 /\ u[x] = s[y]
  <2> SUFFICES ASSUME NEW x \in 1..Len(u), x # 1, x # 2
               PROVE  \E y \in 1..Len(s) : x = y + 2 /\ u[x] = s[y]
      OBVIOUS
  <2>1. PICK y : y = x - 2  OBVIOUS
  <2>2. y \in 1..Len(s) /\ x = y + 2  BY <1>6, <2>1
  <2> QED  BY <1>6, <2>2
<1>8. \A y \in 1..Len(s) : s[y] \in Int \X Int  BY ElementOfSeq
<1>9. \A y \in 1..Len(s) : s[y][1] \in Int /\ s[y][2] \in Int  BY <1>8
<1>10. ASSUME NEW x \in 1..Len(u)
       PROVE  0 <= u[x][1] /\ u[x][1] <= u[x][2] + 1 /\ u[x][2] < m
  <2>1. CASE x = 1  BY <1>2, <1>6, <2>1
  <2>2. CASE x = 2  BY <1>2, <1>6, <2>2
  <2>3. ASSUME NEW y \in 1..Len(s), u[x] = s[y]
        PROVE  0 <= u[x][1] /\ u[x][1] <= u[x][2] + 1 /\ u[x][2] < m
      BY <2>3 DEF Chain
  <2> QED  BY <1>7, <2>1, <2>2, <2>3
<1>11. ASSUME NEW x \in 1..Len(u), NEW z \in 1..Len(u), x < z PROVE u[x][2] < u[z][1]
  <2>1. CASE x = 1 /\ z = 2  BY <1>2, <1>6, <2>1
  <2>2. CASE x \in {1, 2} /\ z \notin {1, 2}
    <3>1. PICK y \in 1..Len(s) : u[z] = s[y]  BY <1>7, <2>2
    <3>2. e < s[y][1] /\ s[y][1] \in Int  BY <1>9 DEF Above
    <3>3. u[x] = p \/ u[x] = q  BY <1>6, <2>2
    <3>4. p[2] <= e /\ q[2] <= e /\ p[2] \in Int /\ q[2] \in Int  BY <1>2
    <3>5. PICK o \in Int : o = u[x][2] /\ o <= e  BY <3>3, <3>4
    <3> QED  BY <3>1, <3>2, <3>5
  <2>3. CASE x \notin {1, 2} /\ z \notin {1, 2}
    <3>1. PICK y \in 1..Len(s) : x = y + 2 /\ u[x] = s[y]  BY <1>7, <2>3
    <3>2. PICK w \in 1..Len(s) : z = w + 2 /\ u[z] = s[w]  BY <1>7, <2>3
    <3>3. y < w  BY <1>11, <3>1, <3>2
    <3> QED  BY <3>1, <3>2, <3>3 DEF Chain
  <2>4. x \in Nat /\ z \in Nat /\ x >= 1 /\ x < z  BY <1>6, <1>11
  <2> QED  BY <2>1, <2>2, <2>3, <2>4
<1>12. Chain(u, m)  BY <1>10, <1>11 DEF Chain
<1>13. ASSUME NEW j, NEW k, Together(s, j, k) PROVE Together(u, j, k)
  <2>1. PICK y \in 1..Len(s) : s[y][1] <= j /\ k <= s[y][2]  BY <1>13 DEF Together
  <2>2. PICK x : x = y + 2  OBVIOUS
  <2>3. x \in 1..Len(u) /\ u[x] = s[y]  BY <1>6, <2>2
  <2> QED  BY <2>1, <2>3 DEF Together
<1>14. ASSUME NEW j \in Int, NEW k \in Int,
              (b <= j /\ k <= r - 1) \/ (r + 1 <= j /\ k <= e)
       PROVE  Together(u, j, k)
  <2>1. 1 \in 1..Len(u) /\ 2 \in 1..Len(u)  BY <1>6
  <2>2. CASE b <= j /\ k <= r - 1
    <3>1. u[1][1] <= j /\ k <= u[1][2]  BY <1>2, <1>6, <2>2
    <3> QED  BY <2>1, <3>1 DEF Together
  <2>3. CASE r + 1 <= j /\ k <= e
    <3>1. u[2][1] <= j /\ k <= u[2][2]  BY <1>2, <1>6, <2>3
    <3> QED  BY <2>1, <3>1 DEF Together
  <2> QED  BY <1>14, <2>2, <2>3
<1> QED  BY <1>6, <1>12, <1>13, <1>14

\* The loops begin in their ranges.
LEMMA RangesInit == Init => Ranges
<1> SUFFICES ASSUME Init PROVE Ranges
    OBVIOUS
<1>1. job \in Jobs  BY DEF Init
<1>2. PICK e \in Int : e = Size - 1 /\ -1 <= e  BY <1>1, JobFacts
<1>3. PICK p : p = <<0, e>>  OBVIOUS
<1>4. p \in Int \X Int /\ p[1] = 0 /\ p[2] = e  BY <1>3
<1>5. stack = <<p>>  BY <1>2, <1>3 DEF Init, Size
<1>6. stack \in Seq(Int \X Int) /\ Len(stack) = 1 /\ stack[1] = p  BY <1>4, <1>5
<1>7. e < Size  BY <1>1, <1>2, JobFacts
<1>8. Chain(stack, Size)
  <2>1. 1..Len(stack) = {1}  BY <1>6
  <2>2. 0 <= stack[1][1] /\ stack[1][1] <= stack[1][2] + 1 /\ stack[1][2] < Size
      BY <1>2, <1>4, <1>6, <1>7
  <2> QED  BY <2>1, <2>2 DEF Chain
<1>9. deck \in [Slots -> Entry]  BY <1>1, JobFacts DEF Init
<1>10. pc \in {"mark", "sort"} /\ (pc = "mark" => i = 0 /\ need = job.need /\ job.need > 0)
    BY <1>1, JobFacts DEF Init
<1>11. i \in 0..(job.n - 1) /\ (job.need > 0 => job.need \in 1..job.need)
    BY <1>1, JobFacts DEF Init
<1> QED  BY <1>1, <1>6, <1>8, <1>9, <1>10, <1>11 DEF Ranges, Partitioning

\* A swap keeps a hand a hand.
LEMMA Swapped ==
    ASSUME NEW d \in [Slots -> Entry], NEW x \in Slots, NEW y \in Slots
    PROVE  /\ swap(d, x, y) \in [Slots -> Entry]
           /\ swap(d, x, y)[y] = d[x] /\ swap(d, x, y)[x] = d[y]
           /\ \A k \in Slots : k # x /\ k # y => swap(d, x, y)[k] = d[k]
    BY DEF swap

\* No turn of a loop leaves its range.
LEMMA RangesNext == Ranges /\ [Next]_vars => Ranges'
<1> SUFFICES ASSUME Ranges, [Next]_vars PROVE Ranges'
    OBVIOUS
<1>1. job \in Jobs /\ deck \in [Slots -> Entry]  BY DEF Ranges
<1>2. /\ HandSize \in Nat /\ job.n \in Nat /\ job.n >= 1 /\ job.n <= HandSize
      /\ job.need \in {0, 2, 3} /\ job.need <= job.n /\ Size \in Nat /\ Size <= job.n
    BY <1>1, JobFacts
<1>3. PICK m \in Nat : m = Size  BY <1>2
<1>4. job' = job => Size' = m  BY <1>3 DEF Size
<1>5. \A k \in 0..(job.n - 1) : k \in Slots  BY <1>2 DEF Slots
<1>6. Null \in Entry  BY DEF Entry
<1>7. CASE Mark \/ Compact
  <2>1. /\ pc \in {"mark", "compact"} /\ job' = job /\ stack' = stack
        /\ i \in 0..(job.n - 1) /\ need \in 1..job.need
      BY <1>7 DEF Mark, Compact, Ranges
  <2>2. deck' \in [Slots -> Entry]
    <3>1. CASE Mark  BY <1>1, <1>5, <1>6, <2>1, <3>1 DEF Mark
    <3>2. CASE Compact
      <4>1. Target \in 0..(job.n - 1)  BY <1>2, <2>1 DEF Target
      <4>2. i \in Slots /\ Target \in Slots  BY <1>5, <2>1, <4>1
      <4>3. swap(deck, i, Target) \in [Slots -> Entry]  BY <1>1, <4>2, Swapped
      <4> QED  BY <1>1, <3>2, <4>3 DEF Compact
    <3> QED  BY <1>7, <3>1, <3>2
  <2>3. \/ pc' = "sort"
        \/ pc' \in {"mark", "compact"} /\ i' \in 0..(job.n - 1) /\ need' \in 1..job.need
    <3>1. CASE LastTurn(deck[i] = job.t) /\ Mark  BY <1>2, <2>1, <3>1 DEF Mark
    <3>2. CASE ~LastTurn(deck[i] = job.t) /\ Mark
        BY <1>2, <2>1, <3>2 DEF Mark, LastTurn
    <3>3. CASE Compact  BY <1>2, <2>1, <3>3 DEF Compact, LastTurn
    <3> QED  BY <1>7, <3>1, <3>2, <3>3
  <2> QED  BY <1>1, <1>3, <1>4, <2>1, <2>2, <2>3 DEF Ranges, Partitioning
<1>8. CASE Call
  <2>1. PICK s : s = stack  OBVIOUS
  <2>2. /\ s \in Seq(Int \X Int) /\ s # <<>> /\ Chain(s, m)
      BY <1>3, <1>8, <2>1 DEF Call, Ranges
  <2>3. /\ Tail(s) \in Seq(Int \X Int) /\ Chain(Tail(s), m) /\ Above(Tail(s), s[1][2])
        /\ s[1] \in Int \X Int /\ 0 <= s[1][1] /\ s[1][2] < m
      BY <2>2, Popped
  <2>4. PICK b \in Int, e \in Int : b = s[1][1] /\ e = s[1][2]  BY <2>3
  <2>5. /\ pc = "sort" /\ stack' = Tail(s) /\ job' = job /\ deck' = deck
        /\ \/ b >= e /\ pc' = "sort"
           \/ b < e /\ start' = b /\ end' = e /\ left' = b + 1 /\ right' = e /\ pc' = "left"
      BY <1>8, <2>1, <2>4 DEF Call, range
  <2>6. CASE pc' = "sort"
      BY <1>1, <1>3, <1>4, <2>3, <2>5, <2>6 DEF Ranges, Partitioning
  <2>7. CASE pc' = "left"
    <3>1. /\ start' \in Nat /\ end' \in Nat /\ start' < end' /\ end' < m
          /\ left' \in (start' + 1)..(end' + 1) /\ right' \in start'..end'
          /\ left' <= right' + 1
        BY <2>3, <2>4, <2>5, <2>7
    <3>2. Above(stack', end')  BY <2>3, <2>4, <2>5, <2>7
    <3> QED  BY <1>1, <1>3, <1>4, <2>3, <2>5, <2>7, <3>1, <3>2 DEF Ranges, Partitioning
  <2> QED  BY <2>5, <2>6, <2>7
<1>9. CASE MoveLeft \/ MoveRight \/ Place
  <2>1. /\ Partitioning /\ start \in Nat /\ end \in Nat /\ start < end /\ end < m
        /\ Above(stack, end) /\ stack \in Seq(Int \X Int) /\ Chain(stack, m)
        /\ left \in (start + 1)..(end + 1) /\ right \in start..end /\ left <= right + 1
        /\ job' = job /\ start' = start /\ end' = end
      BY <1>3, <1>9 DEF MoveLeft, MoveRight, Place, Partitioning, Ranges, range
  <2>2. \A k \in start..end : k \in Slots  BY <1>2, <1>3, <2>1 DEF Slots
  <2>3. CASE MoveLeft
    <3>1. /\ right' = right /\ deck' = deck /\ stack' = stack /\ pc' \in {"left", "right"}
          /\ \/ left' = left
             \/ left <= right /\ left' = left + 1
        BY <2>3 DEF MoveLeft, LeftInOrder
    <3>2. left' \in (start + 1)..(end + 1) /\ left' <= right + 1  BY <2>1, <3>1
    <3> QED  BY <1>1, <1>3, <1>4, <2>1, <3>1, <3>2 DEF Ranges, Partitioning
  <2>4. CASE MoveRight
    <3>1. /\ left' = left /\ stack' = stack /\ pc' \in {"left", "right", "place"}
          /\ \/ left <= right /\ right' = right - 1 /\ deck' = deck /\ pc' = "right"
             \/ /\ right' = right
                /\ \/ deck' = deck
                   \/ left < right /\ deck' = swap(deck, left, right)
                /\ pc' = "place" => left > right
        BY <2>1, <2>4 DEF MoveRight
    <3>2. right' \in start..end /\ left <= right' + 1 /\ (pc' = "place" => left = right' + 1)
        BY <2>1, <3>1
    <3>3. deck' \in [Slots -> Entry]
      <4>1. left < right => left \in Slots /\ right \in Slots  BY <2>1, <2>2
      <4> QED  BY <1>1, <3>1, <4>1, Swapped
    <3> QED  BY <1>1, <1>3, <1>4, <2>1, <3>1, <3>2, <3>3 DEF Ranges, Partitioning
  <2>5. CASE Place
    <3>1. deck' = swap(deck, start, right) /\ pc' = "sort"
          /\ stack' = Halves(stack, start, right, end)
        BY <2>5 DEF Place, Halves
    <3>2. start \in Slots /\ right \in Slots  BY <2>1, <2>2
    <3>3. deck' \in [Slots -> Entry]  BY <1>1, <3>1, <3>2, Swapped
    <3>4. start <= right /\ right <= end /\ right \in Int /\ end \in Int /\ m \in Int  BY <2>1
    <3>5. stack' \in Seq(Int \X Int) /\ Chain(stack', m)
        BY <2>1, <3>1, <3>4, Pushed
    <3> QED  BY <1>1, <1>3, <1>4, <2>1, <3>1, <3>3, <3>5 DEF Ranges, Partitioning
  <2> QED  BY <1>9, <2>3, <2>4, <2>5
<1>10. CASE Return
  <2>1. pc' = "done" /\ UNCHANGED <<job, deck, stack>>  BY <1>10 DEF Return
  <2> QED  BY <1>1, <1>3, <1>4, <2>1 DEF Ranges, Partitioning
<1>11. CASE UNCHANGED vars
  <2>1. UNCHANGED <<job, deck, i, need, stack, start, end, left, right, pc>>
      BY <1>11 DEF vars
  <2> QED  BY <2>1 DEF Ranges, Partitioning, Size
<1> QED  BY <1>7, <1>8, <1>9, <1>10, <1>11 DEF Next

\* Whatever hand is sorted, and whatever equal tiles it has, the partition
\* of decks_quick_sort() reads and moves no tile outside of its range.
THEOREM PartitionStaysInRange == Spec => []PartitionInRange
<1>1. Ranges => PartitionInRange
  <2> SUFFICES ASSUME Ranges, Partitioning
               PROVE  /\ left \in (start + 1)..(end + 1) /\ right \in start..end
                      /\ end < job.n
      BY DEF PartitionInRange, Partitioning
  <2>1. job \in Jobs /\ end \in Nat /\ end < Size  BY DEF Ranges
  <2>2. Size \in Nat /\ Size <= job.n /\ job.n \in Nat  BY <2>1, JobFacts
  <2> QED  BY <2>1, <2>2 DEF Ranges
<1>2. Spec => []Ranges  BY RangesInit, RangesNext, PTL DEF Spec
<1> QED  BY <1>1, <1>2, PTL

-----------------------------------------------------------------------------
(* The sort sorts                                                          *)

\* Tiles that only change places have the same ranks.
LEMMA RankMoved ==
    ASSUME NEW S, IsFiniteSet(S), NEW T, NEW f \in [S -> T],
           \A x, y \in S : f[x] = f[y] => x = y,
           \A k \in T : \E x \in S : f[x] = k,
           NEW e, NEW w, \A x \in S : e[x] = w[f[x]], NEW v
    PROVE  Rank(e, S, v) = Rank(w, T, v)
<1> DEFINE A == {x \in S : e[x] <= v}
           B == {k \in T : w[k] <= v}
           g == [x \in A |-> f[x]]
<1>1. IsFiniteSet(A)  BY PartSize
<1>2. g \in [A -> B]  OBVIOUS
<1>3. \A x, y \in A : g[x] = g[y] => x = y  OBVIOUS
<1>4. \A k \in B : \E x \in A : g[x] = k  OBVIOUS
<1> HIDE DEF A, B, g
<1>5. g \in Bijection(A, B)
    BY <1>2, <1>3, <1>4 DEF Bijection, Injection, Surjection, IsInjective
<1>6. ExistsBijection(A, B)  BY <1>5 DEF ExistsBijection
<1>7. Cardinality(A) = Cardinality(B)  BY <1>1, <1>6, FS_Bijection
<1> QED  BY <1>7 DEF A, B, Rank, AtMost

\* A swap changes no rank.
LEMMA SwapRank ==
    ASSUME NEW d \in [Slots -> Entry], NEW S, S \subseteq Slots, NEW x \in S, NEW y \in S,
           NEW v
    PROVE  Rank(swap(d, x, y), S, v) = Rank(d, S, v)
<1>1. IsFiniteSet(S)  BY SlotsFinite
<1>2. PICK e : e = swap(d, x, y)  OBVIOUS
<1>3. x \in Slots /\ y \in Slots  OBVIOUS
<1>4. e[x] = d[y] /\ e[y] = d[x] /\ \A k \in Slots : k # x /\ k # y => e[k] = d[k]
    BY <1>2, <1>3, Swapped
<1> DEFINE f == [k \in S |-> IF k = x THEN y ELSE IF k = y THEN x ELSE k]
<1>5. f \in [S -> S] /\ \A k \in S : e[k] = d[f[k]]  BY <1>4
<1>6. \A k, l \in S : f[k] = f[l] => k = l  OBVIOUS
<1>7. \A l \in S : \E k \in S : f[k] = l
  <2> SUFFICES ASSUME NEW l \in S PROVE \E k \in S : f[k] = l
      OBVIOUS
  <2>1. f[f[l]] = l /\ f[l] \in S  OBVIOUS
  <2> QED  BY <2>1
<1> HIDE DEF f
<1>8. Rank(e, S, v) = Rank(d, S, v)  BY <1>1, <1>5, <1>6, <1>7, RankMoved
<1> QED  BY <1>2, <1>8

\* A swap among the first m slots keeps what is known of the tiles.
LEMMA SwapKeepsTiles ==
    ASSUME NEW d \in [Slots -> Entry], NEW m \in Nat, m <= HandSize, HandSize \in Nat,
           NEW x \in 0..(m - 1), NEW y \in 0..(m - 1), NEW h, NEW R,
           SameTiles(d, m, h, R), Settled(d, m)
    PROVE  SameTiles(swap(d, x, y), m, h, R) /\ Settled(swap(d, x, y), m)
<1>1. PICK S : S = 0..(m - 1)  OBVIOUS
<1>2. S \subseteq Slots /\ x \in S /\ y \in S  BY <1>1 DEF Slots
<1>3. \A v : Rank(swap(d, x, y), S, v) = Rank(d, S, v)  BY <1>2, SwapRank
<1>4. SameTiles(swap(d, x, y), m, h, R)  BY <1>1, <1>3 DEF SameTiles
<1>5. PICK e : e = swap(d, x, y)  OBVIOUS
<1>6. \A k \in Slots : k # x /\ k # y => e[k] = d[k]  BY <1>2, <1>5, Swapped
<1>7. \A k \in Slots : k >= m => k # x /\ k # y  BY DEF Slots
<1>8. Settled(e, m)  BY <1>6, <1>7 DEF Settled
<1> QED  BY <1>4, <1>5, <1>8

\* The first range is taken from the stack.
LEMMA OrderedPopped ==
    ASSUME NEW s \in Seq(Int \X Int), s # <<>>, NEW m \in Nat, Chain(s, m), NEW d,
           Ordered(d, s, m), NEW b \in Int, NEW e \in Int, b = s[1][1], e = s[1][2]
    PROVE  /\ OrderedBut(d, Tail(s), m, b, e)
           /\ b >= e => Ordered(d, Tail(s), m)
<1>1. PICK u : u = Tail(s)  OBVIOUS
<1>2. \A j, k : Together(s, j, k) => Together(u, j, k) \/ (b <= j /\ k <= e)
    BY <1>1, Popped
<1>3. OrderedBut(d, u, m, b, e)  BY <1>2 DEF Ordered, OrderedBut
<1>4. b >= e => Ordered(d, u, m)
  <2> SUFFICES ASSUME b >= e, NEW j \in 0..(m - 1), NEW k \in 0..(m - 1), j < k
               PROVE  d[j] <= d[k] \/ Together(u, j, k)
      BY DEF Ordered
  <2>1. ~(b <= j /\ k <= e)  OBVIOUS
  <2> QED  BY <1>3, <2>1 DEF OrderedBut
<1> QED  BY <1>1, <1>3, <1>4

\* A range is in order with the slots on both sides of it.
LEMMA Between ==
    ASSUME NEW s \in Seq(Int \X Int), NEW m \in Nat, NEW d, NEW b \in Nat, NEW e \in Nat,
           e < m, OrderedBut(d, s, m, b, e), Above(s, e)
    PROVE  /\ \A j \in 0..(b - 1), k \in b..e : d[j] <= d[k]
           /\ \A j \in b..e, k \in (e + 1)..(m - 1) : d[j] <= d[k]
<1>1. \A x \in 1..Len(s) : s[x][1] \in Int /\ e < s[x][1]
  <2>1. \A x \in 1..Len(s) : s[x] \in Int \X Int  BY ElementOfSeq
  <2> QED  BY <2>1 DEF Above
<1>2. \A j \in 0..e : \A k : ~Together(s, j, k)  BY <1>1 DEF Together
<1>3. ASSUME NEW j \in 0..(b - 1), NEW k \in b..e PROVE d[j] <= d[k]
  <2>1. j \in 0..(m - 1) /\ k \in 0..(m - 1) /\ j < k /\ ~(b <= j)  OBVIOUS
  <2>2. ~Together(s, j, k)
    <3>1. j \in 0..e  OBVIOUS
    <3> QED  BY <1>2, <3>1
  <2> QED  BY <2>1, <2>2 DEF OrderedBut
<1>4. ASSUME NEW j \in b..e, NEW k \in (e + 1)..(m - 1) PROVE d[j] <= d[k]
  <2>1. j \in 0..(m - 1) /\ k \in 0..(m - 1) /\ j < k /\ ~(k <= e)  OBVIOUS
  <2>2. ~Together(s, j, k)
    <3>1. j \in 0..e  OBVIOUS
    <3> QED  BY <1>2, <3>1
  <2> QED  BY <2>1, <2>2 DEF OrderedBut
<1> QED  BY <1>3, <1>4

\* A swap inside a range disturbs nothing outside of it.
LEMMA SwapInside ==
    ASSUME NEW s \in Seq(Int \X Int), NEW m \in Nat, m <= HandSize, HandSize \in Nat,
           NEW d \in [Slots -> Entry], NEW b \in Nat, NEW e \in Nat, e < m,
           OrderedBut(d, s, m, b, e), Above(s, e), NEW x \in b..e, NEW y \in b..e
    PROVE  OrderedBut(swap(d, x, y), s, m, b, e)
<1>1. PICK f : f = swap(d, x, y)  OBVIOUS
<1>2. x \in Slots /\ y \in Slots  BY DEF Slots
<1>3. f[x] = d[y] /\ f[y] = d[x] /\ \A k \in Slots : k # x /\ k # y => f[k] = d[k]
    BY <1>1, <1>2, Swapped
<1>4. \A k \in 0..(m - 1) : k \in Slots  BY DEF Slots
<1>5. \A k \in b..e : \E l \in b..e : f[k] = d[l]
  <2> SUFFICES ASSUME NEW k \in b..e PROVE \E l \in b..e : f[k] = d[l]
      OBVIOUS
  <2>1. k \in 0..(m - 1)  OBVIOUS
  <2> QED  BY <1>3, <1>4, <2>1
<1>6. \A k \in 0..(m - 1) : k \notin b..e => f[k] = d[k]  BY <1>3, <1>4
<1>7. /\ \A j \in 0..(b - 1), k \in b..e : d[j] <= d[k]
      /\ \A j \in b..e, k \in (e + 1)..(m - 1) : d[j] <= d[k]
    BY Between
<1>8. ASSUME NEW j \in 0..(m - 1), NEW k \in 0..(m - 1), j < k
      PROVE  f[j] <= f[k] \/ Together(s, j, k) \/ (b <= j /\ k <= e)
  <2>1. CASE j \in b..e /\ k \in b..e  BY <2>1
  <2>2. CASE j \in b..e /\ k \notin b..e
    <3>1. PICK l \in b..e : f[j] = d[l]  BY <1>5, <2>2
    <3>2. k \in (e + 1)..(m - 1)  BY <1>8, <2>2
    <3> QED  BY <1>6, <1>7, <2>2, <3>1, <3>2
  <2>3. CASE j \notin b..e /\ k \in b..e
    <3>1. PICK l \in b..e : f[k] = d[l]  BY <1>5, <2>3
    <3>2. j \in 0..(b - 1)  BY <1>8, <2>3
    <3> QED  BY <1>6, <1>7, <2>3, <3>1, <3>2
  <2>4. CASE j \notin b..e /\ k \notin b..e
    <3>1. f[j] = d[j] /\ f[k] = d[k]  BY <1>6, <2>4
    <3> QED  BY <1>8, <3>1 DEF OrderedBut
  <2> QED  BY <2>1, <2>2, <2>3, <2>4
<1> QED  BY <1>1, <1>8 DEF OrderedBut

\* With the pivot in its place, only the two halves are left to be sorted.
LEMMA OrderedSplit ==
    ASSUME NEW s \in Seq(Int \X Int), NEW m \in Nat, Chain(s, m),
           NEW d, \A k \in 0..(m - 1) : d[k] \in Int,
           NEW b \in Nat, NEW e \in Nat, e < m, OrderedBut(d, s, m, b, e), Above(s, e),
           NEW r \in b..e,
           \A k \in b..(r - 1) : d[k] <= d[r], \A k \in (r + 1)..e : d[r] <= d[k]
    PROVE  Ordered(d, Halves(s, b, r, e), m)
<1>1. PICK u : u = Halves(s, b, r, e)  OBVIOUS
<1>2. b <= r /\ r <= e /\ r \in Int /\ m \in Int /\ e \in Int  OBVIOUS
<1>3. /\ \A j, k : Together(s, j, k) => Together(u, j, k)
      /\ \A j, k \in Int : (b <= j /\ k <= r - 1) \/ (r + 1 <= j /\ k <= e)
            => Together(u, j, k)
    BY <1>1, <1>2, Pushed
<1>4. ASSUME NEW j \in 0..(m - 1), NEW k \in 0..(m - 1), j < k, b <= j, k <= e
      PROVE  d[j] <= d[k] \/ Together(u, j, k)
  <2>1. j \in Int /\ k \in Int /\ r \in 0..(m - 1)  OBVIOUS
  <2>2. CASE k <= r - 1  BY <1>3, <1>4, <2>1, <2>2
  <2>3. CASE r + 1 <= j  BY <1>3, <1>4, <2>1, <2>3
  <2>4. CASE j <= r /\ r <= k
    <3>1. d[j] \in Int /\ d[k] \in Int /\ d[r] \in Int  BY <2>1
    <3>2. d[j] <= d[r]
      <4>1. j = r \/ j \in b..(r - 1)  BY <1>4, <2>1, <2>4
      <4> QED  BY <3>1, <4>1
    <3>3. d[r] <= d[k]
      <4>1. k = r \/ k \in (r + 1)..e  BY <1>4, <2>1, <2>4
      <4> QED  BY <3>1, <4>1
    <3> QED  BY <3>1, <3>2, <3>3
  <2> QED  BY <2>1, <2>2, <2>3, <2>4
<1>5. ASSUME NEW j \in 0..(m - 1), NEW k \in 0..(m - 1), j < k
      PROVE  d[j] <= d[k] \/ Together(u, j, k)
  <2>1. d[j] <= d[k] \/ Together(s, j, k) \/ (b <= j /\ k <= e)
      BY <1>5 DEF OrderedBut
  <2> QED  BY <1>3, <1>4, <1>5, <2>1
<1> QED  BY <1>1, <1>5 DEF Ordered

\* A call of decks_quick_sort() takes its range from the stack.
LEMMA SortingCall == ASSUME Ranges, Sorting, Call PROVE Sorting'
<1>1. job \in Jobs /\ deck \in [Slots -> Entry]  BY DEF Ranges
<1>2. PICK m \in Nat : m = Size  BY <1>1, JobFacts
<1>3. PICK s : s = stack  OBVIOUS
<1>4. pc = "sort" /\ job' = job /\ deck' = deck /\ stack' = Tail(s) /\ s # <<>>
    BY <1>3 DEF Call
<1>5. s \in Seq(Int \X Int) /\ Chain(s, m)  BY <1>2, <1>3 DEF Ranges
<1>6. s[1] \in Int \X Int  BY <1>4, <1>5, Popped
<1>7. PICK b \in Int, e \in Int : b = s[1][1] /\ e = s[1][2]  BY <1>6
<1>8. Ordered(deck, s, m)  BY <1>2, <1>3, <1>4 DEF Sorting, Partitioning
<1>9. OrderedBut(deck, Tail(s), m, b, e) /\ (b >= e => Ordered(deck, Tail(s), m))
    BY <1>4, <1>5, <1>7, <1>8, OrderedPopped
<1>10. \/ b >= e /\ pc' = "sort"
       \/ b < e /\ start' = b /\ end' = e /\ left' = b + 1 /\ right' = e /\ pc' = "left"
    BY <1>3, <1>7 DEF Call
<1>11. /\ SameTiles(deck, m, job.hand, Rest) /\ Settled(deck, m)
       /\ SameTiles(deck', m, job'.hand, Rest') /\ Settled(deck, m)' /\ Size' = m
    BY <1>2, <1>4 DEF Sorting, Rest, Gone, Settled, Size
<1>13. CASE pc' = "sort"
  <2>1. Ordered(deck', stack', m)  BY <1>4, <1>9, <1>10, <1>13
  <2> QED  BY <1>11, <1>13, <2>1 DEF Sorting, Partitioning
<1>14. CASE pc' = "left"
  <2>1. OrderedBut(deck', stack', m, start', end')  BY <1>4, <1>9, <1>10, <1>14
  <2>2. Low(deck', start', left') /\ High(deck', start', right', end')
      BY <1>10, <1>14 DEF Low, High
  <2> QED  BY <1>11, <1>14, <2>1, <2>2 DEF Sorting, Partitioning
<1> QED  BY <1>10, <1>13, <1>14

\* Turns of the inner loops move no tile to the wrong side of the pivot.
LEMMA SortingPartition ==
    ASSUME Ranges, Sorting, MoveLeft \/ MoveRight \/ Place PROVE Sorting'
<1>1. job \in Jobs /\ deck \in [Slots -> Entry]  BY DEF Ranges
<1>2. PICK m \in Nat : m = Size /\ m <= HandSize /\ HandSize \in Nat  BY <1>1, JobFacts
<1>3. /\ Partitioning /\ job' = job /\ start' = start /\ end' = end
    BY DEF MoveLeft, MoveRight, Place, Partitioning, range
<1>4. PICK b \in Nat, e \in Nat, l \in Int, r \in Int :
          b = start /\ e = end /\ l = left /\ r = right
    BY <1>3 DEF Ranges
<1>5. /\ b < e /\ e < m /\ Above(stack, e) /\ stack \in Seq(Int \X Int) /\ Chain(stack, m)
      /\ b + 1 <= l /\ l <= e + 1 /\ b <= r /\ r <= e /\ l <= r + 1
      /\ pc = "place" => l = r + 1
    BY <1>2, <1>3, <1>4 DEF Ranges
<1>6. /\ SameTiles(deck, m, job.hand, Rest) /\ Settled(deck, m)
      /\ OrderedBut(deck, stack, m, b, e) /\ Low(deck, b, l) /\ High(deck, b, r, e)
      /\ pc = "right" => l > r \/ deck[l] > deck[b]
    BY <1>2, <1>3, <1>4 DEF Sorting, Partitioning
<1>7. \A k \in b..e : k \in Slots /\ k \in 0..(m - 1) /\ deck[k] \in Int
  <2>1. \A k \in b..e : k \in Slots /\ k \in 0..(m - 1)  BY <1>2, <1>5 DEF Slots
  <2>2. \A k \in Slots : deck[k] \in 0..58  BY <1>1, EntryBound
  <2> QED  BY <2>1, <2>2
<1>8. Size' = m /\ Rest' = Rest /\ job'.hand = job.hand
      /\ \A d : Settled(d, m)' <=> Settled(d, m)
    BY <1>2, <1>3 DEF Size, Rest, Gone, Settled
<1>9. CASE MoveLeft
  <2>1. /\ pc = "left" /\ right' = right /\ deck' = deck /\ stack' = stack
        /\ \/ l <= r /\ deck[l] <= deck[b] /\ left' = l + 1 /\ pc' = "left"
           \/ ~(l <= r /\ deck[l] <= deck[b]) /\ left' = l /\ pc' = "right"
      BY <1>4, <1>9 DEF MoveLeft, LeftInOrder
  <2>2. Low(deck, b, left')
    <3>1. CASE left' = l  BY <1>6, <3>1
    <3>2. CASE left' = l + 1 /\ deck[l] <= deck[b]
      <4>1. \A k \in (b + 1)..(left' - 1) : k = l \/ k \in (b + 1)..(l - 1)
          BY <1>5, <3>2
      <4> QED  BY <1>6, <3>2, <4>1 DEF Low
    <3> QED  BY <2>1, <3>1, <3>2
  <2>3. pc' = "right" => left' > right' \/ deck[left'] > deck[b]
    <3>1. b \in b..e /\ (l <= r => l \in b..e)  BY <1>5
    <3>2. deck[b] \in Int /\ (l <= r => deck[l] \in Int)  BY <1>7, <3>1
    <3> QED  BY <1>4, <2>1, <3>2
  <2>4. /\ SameTiles(deck', Size', job'.hand, Rest') /\ Settled(deck, m)'
        /\ OrderedBut(deck', stack', Size', start', end') /\ Low(deck', start', left')
        /\ High(deck', start', right', end')
      BY <1>3, <1>4, <1>6, <1>8, <2>1, <2>2
  <2> QED  BY <1>3, <1>4, <1>8, <2>1, <2>3, <2>4 DEF Sorting, Partitioning
<1>10. CASE MoveRight
  <2>1. /\ pc = "right" /\ left' = left /\ stack' = stack
        /\ \/ /\ l <= r /\ deck[r] >= deck[b]
              /\ right' = r - 1 /\ deck' = deck /\ pc' = "right"
           \/ /\ ~(l <= r /\ deck[r] >= deck[b]) /\ right' = right
              /\ deck' = IF l < r THEN swap(deck, l, r) ELSE deck
              /\ pc' \in {"left", "place"}
      BY <1>4, <1>10 DEF MoveRight
  <2>2. CASE right' = r - 1 /\ deck' = deck /\ pc' = "right" /\ l <= r /\ deck[r] >= deck[b]
    <3>1. \A k \in (right' + 1)..e : k = r \/ k \in (r + 1)..e  BY <2>2
    <3>2. b \in b..e /\ r \in b..e  BY <1>5
    <3>3. deck[b] <= deck[r]  BY <1>7, <2>2, <3>2
    <3>4. High(deck, b, right', e)  BY <1>6, <3>1, <3>3 DEF High
    <3>5. left' > right' \/ deck'[left'] > deck'[start']
        BY <1>3, <1>4, <1>6, <2>1, <2>2
    <3>6. /\ SameTiles(deck', Size', job'.hand, Rest') /\ Settled(deck, m)'
          /\ OrderedBut(deck', stack', Size', start', end') /\ Low(deck', start', left')
          /\ High(deck', start', right', end')
        BY <1>3, <1>4, <1>6, <1>8, <2>1, <2>2, <3>4
    <3> QED  BY <1>8, <2>2, <3>5, <3>6 DEF Sorting, Partitioning
  <2>3. CASE /\ right' = right /\ deck' = IF l < r THEN swap(deck, l, r) ELSE deck
             /\ pc' \in {"left", "place"}
    <3>1. PICK f : f = deck'  OBVIOUS
    <3>2. /\ SameTiles(f, m, job.hand, Rest) /\ Settled(f, m)
          /\ OrderedBut(f, stack, m, b, e) /\ Low(f, b, l) /\ High(f, b, r, e)
      <4>1. CASE ~(l < r)  BY <1>6, <2>3, <3>1, <4>1
      <4>2. CASE l < r
        <5>1. f = swap(deck, l, r)  BY <2>3, <3>1, <4>2
        <5>2. l \in b..e /\ r \in b..e /\ b \in b..e  BY <1>5, <4>2
        <5>3. l \in 0..(m - 1) /\ r \in 0..(m - 1) /\ l \in Slots /\ r \in Slots
            BY <1>7, <5>2
        <5>4. SameTiles(f, m, job.hand, Rest) /\ Settled(f, m)
            BY <1>1, <1>2, <1>6, <5>1, <5>3, SwapKeepsTiles
        <5>5. OrderedBut(f, stack, m, b, e)
            BY <1>1, <1>2, <1>5, <1>6, <5>1, <5>2, SwapInside
        <5>6. \A k \in Slots : k # l /\ k # r => f[k] = deck[k]  BY <1>1, <5>1, <5>3, Swapped
        <5>7. f[b] = deck[b]
          <6>1. b # l /\ b # r  BY <1>5, <4>2
          <6>2. b \in Slots  BY <1>7, <5>2
          <6> QED  BY <5>6, <6>1, <6>2
        <5>8. \A k \in (b + 1)..(l - 1) : f[k] = deck[k]
          <6> SUFFICES ASSUME NEW k \in (b + 1)..(l - 1) PROVE f[k] = deck[k]
              OBVIOUS
          <6>1. k \in b..e /\ k # l /\ k # r  BY <1>5, <4>2
          <6> QED  BY <1>7, <5>6, <6>1
        <5>9. \A k \in (r + 1)..e : f[k] = deck[k]
          <6> SUFFICES ASSUME NEW k \in (r + 1)..e PROVE f[k] = deck[k]
              OBVIOUS
          <6>1. k \in b..e /\ k # l /\ k # r  BY <1>5, <4>2
          <6> QED  BY <1>7, <5>6, <6>1
        <5>10. Low(f, b, l)  BY <1>6, <5>7, <5>8 DEF Low
        <5>11. High(f, b, r, e)  BY <1>6, <5>7, <5>9 DEF High
        <5> QED  BY <5>4, <5>5, <5>10, <5>11
      <4> QED  BY <4>1, <4>2
    <3>3. /\ SameTiles(deck', Size', job'.hand, Rest') /\ Settled(f, m)'
          /\ OrderedBut(deck', stack', Size', start', end') /\ Low(deck', start', left')
          /\ High(deck', start', right', end')
        BY <1>3, <1>4, <1>8, <2>1, <2>3, <3>1, <3>2
    <3> QED  BY <1>8, <2>3, <3>1, <3>3 DEF Sorting, Partitioning
  <2> QED  BY <2>1, <2>2, <2>3
<1>11. CASE Place
  <2>1. /\ pc = "place" /\ pc' = "sort" /\ deck' = swap(deck, b, r)
        /\ stack' = Halves(stack, b, r, e)
      BY <1>4, <1>11 DEF Place, Halves
  <2>2. PICK f : f = swap(deck, b, r)  OBVIOUS
  <2>3. b \in b..e /\ r \in b..e /\ l = r + 1  BY <1>5, <2>1
  <2>4. b \in 0..(m - 1) /\ r \in 0..(m - 1) /\ b \in Slots /\ r \in Slots  BY <1>7, <2>3
  <2>5. SameTiles(f, m, job.hand, Rest) /\ Settled(f, m)
      BY <1>1, <1>2, <1>6, <2>2, <2>4, SwapKeepsTiles
  <2>6. OrderedBut(f, stack, m, b, e)  BY <1>1, <1>2, <1>5, <1>6, <2>2, <2>3, SwapInside
  <2>7. /\ f \in [Slots -> Entry] /\ f[r] = deck[b] /\ f[b] = deck[r]
        /\ \A k \in Slots : k # b /\ k # r => f[k] = deck[k]
      BY <1>1, <2>2, <2>4, Swapped
  <2>8. \A k \in 0..(m - 1) : f[k] \in Int
    <3>1. \A k \in 0..(m - 1) : k \in Slots  BY <1>2 DEF Slots
    <3>2. \A k \in Slots : f[k] \in 0..58  BY <2>7, EntryBound
    <3> QED  BY <3>1, <3>2
  <2>9. \A k \in b..(r - 1) : f[k] <= f[r]
    <3> SUFFICES ASSUME NEW k \in b..(r - 1) PROVE f[k] <= f[r]
        OBVIOUS
    <3>1. k \in b..e /\ k # r  BY <1>5
    <3>2. CASE k = b
      <4>1. r \in (b + 1)..(l - 1)  BY <1>5, <2>3, <3>1, <3>2
      <4> QED  BY <1>6, <2>7, <3>2, <4>1 DEF Low
    <3>3. CASE k # b
      <4>1. k \in (b + 1)..(l - 1)  BY <1>5, <2>3, <3>3
      <4>2. f[k] = deck[k]  BY <1>7, <2>7, <3>1, <3>3
      <4> QED  BY <1>6, <2>7, <4>1, <4>2 DEF Low
    <3> QED  BY <3>2, <3>3
  <2>10. \A k \in (r + 1)..e : f[r] <= f[k]
    <3> SUFFICES ASSUME NEW k \in (r + 1)..e PROVE f[r] <= f[k]
        OBVIOUS
    <3>1. k \in b..e /\ k # r /\ k # b  BY <1>5
    <3>2. f[k] = deck[k]  BY <1>7, <2>7, <3>1
    <3> QED  BY <1>6, <2>7, <3>2 DEF High
  <2>11. Ordered(f, Halves(stack, b, r, e), m)
      BY <1>5, <2>3, <2>6, <2>8, <2>9, <2>10, OrderedSplit
  <2>12. /\ SameTiles(deck', Size', job'.hand, Rest') /\ Settled(f, m)'
         /\ Ordered(deck', stack', Size') /\ deck' = f
      BY <1>8, <2>1, <2>2, <2>5, <2>11
  <2> QED  BY <1>8, <2>1, <2>12 DEF Sorting, Partitioning
<1> QED  BY <1>9, <1>10, <1>11

\* The i-th smallest of a hand in order is the i-th.
LEMMA SortedNth ==
    ASSUME NEW m \in Nat, NEW d, \A k \in 0..(m - 1) : d[k] \in 0..58,
           \A j, k \in 0..(m - 1) : j < k => d[j] <= d[k], NEW x \in 0..(m - 1)
    PROVE  Nth(d, 0..(m - 1), x) = d[x]
<1>1. PICK R : R = 0..(m - 1)  OBVIOUS
<1>2. IsFiniteSet(R) /\ Cardinality(R) = m  BY <1>1, SlotRange
<1>3. x \in Nat /\ x < Cardinality(R) /\ (\A k \in R : d[k] \in 0..58)  BY <1>1, <1>2
<1>4. PICK v \in 0..58 : v = d[x]  OBVIOUS
<1>5. PICK n \in 0..58 : n = Nth(d, R, x)
  <2>1. 0 \in -1..58  OBVIOUS
  <2> QED  BY <1>2, <1>3, <2>1, NthAtMost
<1>6. n <= v
  <2>1. v \in -1..58  OBVIOUS
  <2>2. n <= v <=> Cardinality(AtMost(d, R, v)) > x
      BY <1>2, <1>3, <1>5, <2>1, NthAtMost
  <2>3. 0..x \subseteq AtMost(d, R, v)
    <3> SUFFICES ASSUME NEW k \in 0..x PROVE k \in R /\ d[k] <= v
        BY DEF AtMost
    <3>1. k \in 0..(m - 1) /\ (k = x \/ k < x)  OBVIOUS
    <3> QED  BY <1>1, <1>4, <3>1
  <2>4. PICK A : A = AtMost(d, R, v)  OBVIOUS
  <2>5. A \subseteq R  BY <2>4 DEF AtMost
  <2>6. IsFiniteSet(A)  BY <1>2, <2>5, PartSize
  <2>7. Cardinality(0..x) = x + 1
    <3>1. PICK y \in Nat : y = x + 1  BY <1>3
    <3>2. 0..(y - 1) = 0..x  BY <1>3, <3>1
    <3> QED  BY <3>1, <3>2, SlotRange
  <2>8. Cardinality(0..x) <= Cardinality(A) /\ Cardinality(A) \in Nat
      BY <2>3, <2>4, <2>6, PartSize, FS_CardinalityType
  <2> QED  BY <1>3, <2>2, <2>4, <2>7, <2>8
<1>7. v <= n
  <2>1. SUFFICES ASSUME n < v PROVE FALSE  BY <1>4, <1>5
  <2>2. n \in -1..58  OBVIOUS
  <2>3. Cardinality(AtMost(d, R, n)) > x
      BY <1>2, <1>3, <1>5, <2>2, NthAtMost
  <2>4. AtMost(d, R, n) \subseteq 0..(x - 1)
    <3> SUFFICES ASSUME NEW k \in R, d[k] <= n PROVE k \in 0..(x - 1)
        BY DEF AtMost
    <3>1. k \in 0..(m - 1) /\ d[k] \in 0..58  BY <1>1
    <3>2. ~(d[x] <= d[k])  BY <1>4, <2>1, <3>1
    <3>3. k # x /\ ~(x < k)  BY <1>4, <3>1, <3>2
    <3> QED  BY <3>1, <3>3
  <2>5. IsFiniteSet(0..(x - 1)) /\ Cardinality(0..(x - 1)) = x  BY <1>3, SlotRange
  <2>6. Cardinality(AtMost(d, R, n)) <= x /\ Cardinality(AtMost(d, R, n)) \in Nat
      BY <2>4, <2>5, PartSize
  <2> QED  BY <1>3, <2>3, <2>6
<1> QED  BY <1>1, <1>4, <1>5, <1>6, <1>7

\* The slots in S hold entries.
Tiled(d, S) == \A k \in S : d[k] \in 0..58

\* The i-th smallest depends only on the ranks.
LEMMA NthByRank ==
    ASSUME NEW m \in Nat, NEW d, Tiled(d, 0..(m - 1)),
           NEW R, IsFiniteSet(R), NEW h, Tiled(h, R),
           SameTiles(d, m, h, R), NEW x \in 0..(m - 1)
    PROVE  Nth(d, 0..(m - 1), x) = Nth(h, R, x)
<1>1. PICK Q : Q = 0..(m - 1)  OBVIOUS
<1>a. \A k \in R : h[k] \in 0..58  BY DEF Tiled
<1>2. IsFiniteSet(Q) /\ Cardinality(Q) = m /\ (\A k \in Q : d[k] \in 0..58)
    BY <1>1, SlotRange DEF Tiled
<1>3. \A v \in -1..58 : Cardinality(AtMost(d, Q, v)) = Cardinality(AtMost(h, R, v))
    BY <1>1 DEF SameTiles, Rank
<1>4. Cardinality(R) = m
  <2>a. \A y \in 0..58 : y <= 58  OBVIOUS
  <2>1. AtMost(d, Q, 58) = Q /\ AtMost(h, R, 58) = R  BY <1>2, <1>a, <2>a DEF AtMost
  <2>2. 58 \in -1..58  OBVIOUS
  <2> QED  BY <1>2, <1>3, <2>1, <2>2
<1>5. x \in Nat /\ x < Cardinality(Q) /\ x < Cardinality(R)  BY <1>2, <1>4
<1>6. 0 \in -1..58  OBVIOUS
<1>7. PICK n \in 0..58 : n = Nth(d, Q, x)  BY <1>2, <1>5, <1>6, NthAtMost
<1>8. PICK o \in 0..58 : o = Nth(h, R, x)  BY <1>5, <1>6, <1>a, NthAtMost
<1>9. n \in -1..58 /\ o \in -1..58  OBVIOUS
<1>10. n <= o
  <2>1. Nth(d, Q, x) <= o <=> Cardinality(AtMost(d, Q, o)) > x
      BY <1>2, <1>5, <1>9, NthAtMost
  <2>2. Nth(h, R, x) <= o <=> Cardinality(AtMost(h, R, o)) > x
      BY <1>5, <1>9, <1>a, NthAtMost
  <2>3. Cardinality(AtMost(d, Q, o)) = Cardinality(AtMost(h, R, o))  BY <1>3, <1>9
  <2>4. Nth(h, R, x) <= o  BY <1>8
  <2> QED  BY <1>7, <2>1, <2>2, <2>3, <2>4
<1>11. o <= n
  <2>1. Nth(d, Q, x) <= n <=> Cardinality(AtMost(d, Q, n)) > x
      BY <1>2, <1>5, <1>9, NthAtMost
  <2>2. Nth(h, R, x) <= n <=> Cardinality(AtMost(h, R, n)) > x
      BY <1>5, <1>9, <1>a, NthAtMost
  <2>3. Cardinality(AtMost(d, Q, n)) = Cardinality(AtMost(h, R, n))  BY <1>3, <1>9
  <2>4. Nth(d, Q, x) <= n  BY <1>7
  <2> QED  BY <1>8, <2>1, <2>2, <2>3, <2>4
<1> QED  BY <1>1, <1>7, <1>8, <1>10, <1>11

\* When all is done the hand is the one that Remove describes.
LEMMA DoneIsRemoved ==
    ASSUME Ranges, Sorting, pc \in {"sort", "done"}, stack = <<>>
    PROVE  deck = Remove(job.hand, job.n, job.t, job.need)
<1>1. job \in Jobs /\ deck \in [Slots -> Entry]  BY DEF Ranges
<1>2. PICK m \in Nat : m = Size /\ m <= HandSize /\ HandSize \in Nat  BY <1>1, JobFacts
<1>3. job.hand \in [Slots -> Entry] /\ job.n \in Nat /\ job.n <= HandSize /\ m <= job.n
    BY <1>1, <1>2, JobFacts
<1>4. PICK d, h, R : d = deck /\ h = job.hand /\ R = Rest  OBVIOUS
<1>5. SameTiles(d, m, h, R) /\ Settled(d, m) /\ Ordered(d, stack, m)
    BY <1>2, <1>4 DEF Sorting, Partitioning
<1>6. \A j, k \in 0..(m - 1) : j < k => d[j] <= d[k]
  <2>1. Len(stack) = 0  OBVIOUS
  <2>2. \A j, k : ~Together(stack, j, k)  BY <2>1 DEF Together
  <2> QED  BY <1>5, <2>2 DEF Ordered
<1>7. (\A k \in Slots : d[k] \in 0..58) /\ (\A k \in Slots : h[k] \in 0..58)
    BY <1>1, <1>3, <1>4, EntryBound
<1>8. R \subseteq Slots /\ IsFiniteSet(R)
  <2>1. R \subseteq Slots  BY <1>2, <1>3, <1>4 DEF Rest, Slots
  <2> QED  BY <2>1, SlotsFinite
<1>9. \A k \in 0..(m - 1) : d[k] \in 0..58  BY <1>2, <1>7 DEF Slots
<1>10. \A k \in R : h[k] \in 0..58  BY <1>7, <1>8
<1>11. ASSUME NEW x \in 0..(m - 1) PROVE d[x] = Nth(h, R, x)
  <2>1. Nth(d, 0..(m - 1), x) = d[x]  BY <1>6, <1>9, SortedNth
  <2>2. Tiled(d, 0..(m - 1)) /\ Tiled(h, R)  BY <1>9, <1>10 DEF Tiled
  <2>3. Nth(d, 0..(m - 1), x) = Nth(h, R, x)  BY <1>5, <1>8, <2>2, NthByRank
  <2> QED  BY <2>1, <2>3
<1>12. PICK r : r = Remove(job.hand, job.n, job.t, job.need)  OBVIOUS
<1>13. r = [x \in Slots |-> IF x < m THEN Nth(h, R, x)
                            ELSE IF x < job.n THEN Null ELSE h[x]]
    BY <1>2, <1>3, <1>4, <1>12 DEF Remove, Rest, Gone, Size
<1>14. ASSUME NEW x \in Slots PROVE d[x] = r[x]
  <2>1. CASE x < m
    <3>1. x \in 0..(m - 1)  BY <1>2, <2>1 DEF Slots
    <3> QED  BY <1>11, <1>13, <2>1, <3>1
  <2>2. CASE ~(x < m)
    <3>1. x >= m  BY <1>2, <2>2 DEF Slots
    <3> QED  BY <1>4, <1>5, <1>13, <2>2, <3>1 DEF Settled
  <2> QED  BY <2>1, <2>2
<1>15. d = [x \in Slots |-> d[x]]  BY <1>1, <1>4
<1>16. r = [x \in Slots |-> r[x]]  BY <1>13
<1> QED  BY <1>4, <1>12, <1>14, <1>15, <1>16

-----------------------------------------------------------------------------
(* The claimed tiles are emptied                                           *)

\* How many there are up to the next slot.
LEMMA CountNext ==
    ASSUME NEW d, NEW m \in Nat, NEW t
    PROVE  /\ Count(d, m, t) \in Nat
           /\ Count(d, m + 1, t) = Count(d, m, t) + (IF d[m] = t THEN 1 ELSE 0)
<1>1. PICK S, A : S = 0..m /\ A = 0..(m - 1)  OBVIOUS
<1>2. PICK q \in Nat : q = m + 1  OBVIOUS
<1>3. 0..(q - 1) = S  BY <1>1, <1>2
<1>4. IsFiniteSet(S)  BY <1>2, <1>3, SlotRange
<1>5. m \in S /\ \A x : x \in A <=> x \in S /\ x # m  BY <1>1
<1>6. Tally(d, S, t) = Tally(d, A, t) + One(d[m], t) /\ Tally(d, A, t) \in Nat
    BY <1>4, <1>5, TallyWithout
<1>7. Count(d, m, t) = Tally(d, A, t)  BY <1>1 DEF Count, Tally
<1>8. Count(d, m + 1, t) = Tally(d, S, t)  BY <1>2, <1>3 DEF Count, Tally
<1> QED  BY <1>6, <1>7, <1>8 DEF One

\* There are no fewer further up.
LEMMA CountGrows ==
    ASSUME NEW d, NEW p \in Nat, NEW q \in Nat, p <= q, NEW t
    PROVE  Count(d, p, t) <= Count(d, q, t) /\ Count(d, p, t) \in Nat /\ Count(d, q, t) \in Nat
<1>1. PICK A, B : A = {j \in 0..(p - 1) : d[j] = t} /\ B = {j \in 0..(q - 1) : d[j] = t}
    OBVIOUS
<1>2. \A j \in 0..(p - 1) : j \in 0..(q - 1)  OBVIOUS
<1>3. A \subseteq B /\ B \subseteq 0..(q - 1)  BY <1>1, <1>2
<1>4. IsFiniteSet(B) /\ Cardinality(B) \in Nat  BY <1>3, SlotRange, PartSize
<1>5. Cardinality(A) <= Cardinality(B) /\ Cardinality(A) \in Nat  BY <1>3, <1>4, PartSize
<1> QED  BY <1>1, <1>4, <1>5 DEF Count

\* In a sorted hand the claimed tiles lie next to each other.
LEMMA GoneBlock ==
    ASSUME job \in Jobs, job.need > 0
    PROVE  \E a \in Nat : Block(a)
<1>1. PICK n \in Nat, w \in Nat : n = job.n /\ w = job.need /\ w > 0 /\ n <= HandSize
    BY JobFacts
<1>2. PICK h, t : h = job.hand /\ t = job.t  OBVIOUS
<1>3. \A k \in 0..(n - 1) : h[k] \in Int
  <2>1. \A k \in 0..(n - 1) : k \in Slots  BY <1>1, JobFacts DEF Slots
  <2>2. \A k \in Slots : h[k] \in 0..58  BY <1>2, JobFacts, EntryBound
  <2> QED  BY <2>1, <2>2
<1>4. /\ Count(h, n, t) >= w
      /\ \A k, l \in 0..(n - 1) : k <= l => h[k] <= h[l]
    BY <1>1, <1>2, JobFacts
<1>5. PICK T : T = {j \in 0..(n - 1) : h[j] = t}  OBVIOUS
<1>6. Count(h, n, t) = Cardinality(T)  BY <1>5 DEF Count
<1>7. T # {}
  <2>1. SUFFICES ASSUME T = {} PROVE FALSE  OBVIOUS
  <2>2. Cardinality(T) = 0  BY <2>1, FS_EmptySet
  <2> QED  BY <1>1, <1>4, <1>6, <2>2
<1>8. T \in SUBSET Nat  BY <1>5
<1>9. PICK a \in Nat : a \in T /\ \A y \in T : a <= y  BY <1>7, <1>8, MinExists
<1>10. ASSUME NEW k \in T PROVE Count(h, k, t) = k - a
  <2>1. k \in 0..(n - 1) /\ k \in Nat /\ h[k] = t /\ a <= k /\ h[a] = t /\ a \in 0..(n - 1)
      BY <1>5, <1>9, <1>10
  <2>2. ASSUME NEW j \in 0..(k - 1) PROVE h[j] = t <=> a <= j
    <3>1. j \in 0..(n - 1) /\ j <= k /\ h[j] \in Int  BY <1>3, <2>1
    <3>2. ASSUME h[j] = t PROVE a <= j  BY <1>5, <1>9, <3>1, <3>2
    <3>3. ASSUME a <= j PROVE h[j] = t
      <4>1. h[a] <= h[j] /\ h[j] <= h[k]  BY <1>4, <2>1, <3>1, <3>3
      <4>2. t \in Int  BY <1>3, <2>1
      <4> QED  BY <2>1, <3>1, <4>1, <4>2
    <3> QED  BY <3>2, <3>3
  <2>3. {j \in 0..(k - 1) : h[j] = t} = a..(k - 1)
    <3>1. \A j : j \in 0..(k - 1) /\ a <= j <=> j \in a..(k - 1)  BY <2>1
    <3> QED  BY <2>2, <3>1
  <2>4. Cardinality(a..(k - 1)) = k - a
    <3>1. PICK c \in Int : c = k - 1  BY <2>1
    <3>2. a \in Int  OBVIOUS
    <3>3. Cardinality(a..c) = IF a > c THEN 0 ELSE c - a + 1  BY <3>2, FS_Interval
    <3> QED  BY <2>1, <3>1, <3>3
  <2> QED  BY <2>3, <2>4 DEF Count
<1>11. PICK G : G = Gone  OBVIOUS
<1>12. G = {j \in 0..(n - 1) : h[j] = t /\ Count(h, j, t) < w}
    BY <1>1, <1>2, <1>11 DEF Gone, FirstSlots
<1>13. PICK e \in Int : e = a + w - 1  BY <1>1
<1>14. G \subseteq a..e
  <2> SUFFICES ASSUME NEW k \in G PROVE k \in a..e
      OBVIOUS
  <2>1. k \in T /\ Count(h, k, t) < w  BY <1>5, <1>12
  <2>2. k \in Nat /\ a <= k /\ k - a < w  BY <1>8, <1>9, <1>10, <2>1
  <2> QED  BY <1>13, <2>2
<1>15. Cardinality(G) = w
  <2>1. G = FirstSlots(h, n, t, w)  BY <1>1, <1>2, <1>11 DEF Gone
  <2> QED  BY <1>4, <2>1, FirstExactly
<1>16. IsFiniteSet(a..e) /\ Cardinality(a..e) = w
  <2>1. /\ IsFiniteSet(a..e)
        /\ Cardinality(a..e) = IF a > e THEN 0 ELSE e - a + 1
      BY FS_Interval
  <2> QED  BY <1>1, <1>13, <2>1
<1>17. G = a..e  BY <1>14, <1>15, <1>16, FS_Subset
<1>18. e \in G  BY <1>1, <1>13, <1>17
<1>19. e <= n - 1  BY <1>12, <1>18
<1>20. a + w <= n  BY <1>1, <1>13, <1>19
<1> QED  BY <1>1, <1>11, <1>13, <1>17, <1>20 DEF Block

\* The first loop.
LEMMA EmptiedMark == ASSUME Ranges, Emptied, Mark PROVE Emptied'
<1>1. job \in Jobs /\ pc = "mark" /\ job' = job /\ stack' = stack
    BY DEF Ranges, Mark
<1>2. PICK n \in Nat, w \in Nat : n = job.n /\ w = job.need /\ n <= HandSize
    BY <1>1, JobFacts
<1>3. PICK x \in Nat, z \in Nat : x = i /\ z = need /\ x < n /\ z >= 1
    BY <1>1, <1>2 DEF Ranges
<1>4. PICK h, t : h = job.hand /\ t = job.t  OBVIOUS
<1>5. /\ z = w - Count(h, x, t) /\ deck = Marked(x) /\ w > 0 /\ AllTogether(stack, Size)
    BY <1>1, <1>2, <1>3, <1>4 DEF Emptied
<1>6. /\ Count(h, x, t) \in Nat
      /\ Count(h, x + 1, t) = Count(h, x, t) + (IF h[x] = t THEN 1 ELSE 0)
    BY CountNext
<1>7. x \in Slots  BY <1>1, <1>2, <1>3, JobFacts DEF Slots
<1>8. deck[x] = h[x]  BY <1>4, <1>5, <1>7 DEF Marked
<1>9. deck' = Marked(x + 1)
  <2>1. deck' = IF h[x] = t THEN [deck EXCEPT ![x] = Null] ELSE deck
      BY <1>3, <1>4, <1>8 DEF Mark
  <2>2. \A k \in Slots : k < x + 1 <=> k < x \/ k = x  BY DEF Slots
  <2>3. \A k \in Slots : deck[k] = IF k < x /\ h[k] = t THEN Null ELSE h[k]
      BY <1>4, <1>5 DEF Marked
  <2>4. \A k \in Slots : deck'[k] = IF k < x + 1 /\ h[k] = t THEN Null ELSE h[k]
    <3> SUFFICES ASSUME NEW k \in Slots
                 PROVE  deck'[k] = IF k < x + 1 /\ h[k] = t THEN Null ELSE h[k]
        OBVIOUS
    <3>1. CASE k = x  BY <1>5, <1>7, <1>8, <2>1, <2>2, <2>3, <3>1 DEF Marked
    <3>2. CASE k # x  BY <1>5, <2>1, <2>2, <2>3, <3>2 DEF Marked
    <3> QED  BY <3>1, <3>2
  <2>5. deck' = [k \in Slots |-> deck'[k]]  BY <1>5, <2>1 DEF Marked
  <2> QED  BY <1>4, <2>4, <2>5 DEF Marked
<1>10. AllTogether(stack', Size') /\ job'.need > 0
    BY <1>1, <1>2, <1>5 DEF Size
<1>11. CASE ~LastTurn(deck[i] = job.t)
  <2>1. i' = x + 1 /\ need' = z - (IF h[x] = t THEN 1 ELSE 0) /\ pc' = "mark"
      BY <1>1, <1>3, <1>4, <1>8, <1>11 DEF Mark
  <2>2. need' = w - Count(h, x + 1, t)  BY <1>5, <1>6, <2>1
  <2>3. need' = job'.need - Count(job'.hand, i', job'.t)  BY <1>1, <1>2, <1>4, <2>1, <2>2
  <2>4. deck' = Marked(i)'  BY <1>1, <1>9, <2>1 DEF Marked
  <2> QED  BY <1>10, <2>1, <2>3, <2>4 DEF Emptied
<1>12. CASE LastTurn(deck[i] = job.t)
  <2>1. i' = 0 /\ need' = w /\ pc' = "compact"  BY <1>2, <1>12 DEF Mark
  <2>2. (h[x] = t /\ z = 1) \/ x = n - 1  BY <1>2, <1>3, <1>4, <1>8, <1>12 DEF LastTurn
  <2>3. PICK G : G = Gone  OBVIOUS
  <2>4. G = {j \in 0..(n - 1) : h[j] = t /\ Count(h, j, t) < w}
      BY <1>2, <1>4, <2>3 DEF Gone, FirstSlots
  <2>5. ASSUME NEW k \in Slots PROVE k < x + 1 /\ h[k] = t <=> k \in G
    <3>0. k \in Nat  BY DEF Slots
    <3>1. ASSUME k < x + 1, h[k] = t PROVE k \in G
      <4>1. k \in 0..(n - 1) /\ k <= x  BY <1>3, <3>0, <3>1
      <4>2. Count(h, k, t) <= Count(h, x, t) /\ Count(h, k, t) \in Nat
          BY <3>0, <4>1, CountGrows
      <4>3. Count(h, k, t) < w  BY <1>3, <1>5, <1>6, <4>2
      <4> QED  BY <2>4, <3>1, <4>1, <4>3
    <3>2. ASSUME k \in G PROVE k < x + 1
      <4>1. SUFFICES ASSUME x + 1 <= k PROVE FALSE  BY <3>0
      <4>2. k \in 0..(n - 1) /\ Count(h, k, t) < w  BY <2>4, <3>2
      <4>3. h[x] = t /\ z = 1  BY <2>2, <4>1, <4>2
      <4>4. PICK q \in Nat : q = x + 1  OBVIOUS
      <4>5. Count(h, q, t) = w  BY <1>5, <1>6, <4>3, <4>4
      <4>6. Count(h, q, t) <= Count(h, k, t) /\ Count(h, k, t) \in Nat
          BY <3>0, <4>1, <4>4, CountGrows
      <4> QED  BY <4>2, <4>5, <4>6
    <3>3. ASSUME k \in G PROVE h[k] = t  BY <2>4, <3>3
    <3> QED  BY <3>1, <3>2, <3>3
  <2>6. deck' = AllMarked  BY <1>4, <1>9, <2>3, <2>5 DEF Marked, AllMarked
  <2>7. ASSUME NEW a \in Nat
        PROVE  \E c \in 0..(job'.need - 1) :
                  need' = job'.need - c /\ Reached(a, c, i') /\ deck' = Moved(a, c)'
    <3>1. 0 \in 0..(job'.need - 1) /\ need' = job'.need - 0  BY <1>1, <1>2, <1>5, <2>1
    <3>2. Reached(a, 0, i')  BY <2>1 DEF Reached
    <3>3. deck' = Moved(a, 0)'  BY <1>1, <2>6 DEF Moved, AllMarked, Gone
    <3> QED  BY <3>1, <3>2, <3>3
  <2> QED  BY <1>10, <2>1, <2>7 DEF Emptied
<1> QED  BY <1>11, <1>12

-----------------------------------------------------------------------------
(* The emptied slots go to the end                                         *)

\* Slots of Q hold Null in d.
Bare(d, Q) == \A k \in Q : d[k] = Null

\* One turn of the second loop that finds an empty slot: the one it finds
\* stays empty in its new place.
LEMMA SwapAway ==
    ASSUME NEW d \in [Slots -> Entry], NEW x \in Slots, NEW y \in Slots, d[x] = Null,
           NEW e, e = swap(d, x, y)
    PROVE  /\ e \in [Slots -> Entry] /\ e[y] = Null /\ e[x] = d[y]
           /\ \A k \in Slots : k # x /\ k # y => e[k] = d[k]
    BY Swapped

\* The turns of the second loop that find a slot, for a block from slot a on.
LEMMA MovedFacts ==
    ASSUME job \in Jobs, job.need > 0, NEW a \in Nat, Block(a)
    PROVE  /\ \A c \in 0..job.need : Moved(a, c) \in [Slots -> Entry]
           /\ \A c \in 0..(job.need - 1) :
                 /\ Moved(a, c)[a + c] = Null
                 /\ Moved(a, c + 1) = swap(Moved(a, c), a + c, job.n - 1 - c)
           /\ \A k \in Slots : k < a => AllMarked[k] # Null
           /\ Bare(Moved(a, job.need), Size..(job.n - 1))
           /\ \A k \in Slots : k >= job.n => Moved(a, job.need)[k] = job.hand[k]
<1>1. PICK n \in Nat, w \in Nat : n = job.n /\ w = job.need /\ n <= HandSize /\ HandSize \in Nat
    BY JobFacts
<1>2. w \in {2, 3} /\ a + w <= n  BY <1>1, JobFacts DEF Block
<1>3. PICK h : h = job.hand  OBVIOUS
<1>4. h \in [Slots -> Entry] /\ \A k \in 0..(n - 1) : h[k] # Null  BY <1>1, <1>3, JobFacts
<1>5. PICK A : A = AllMarked  OBVIOUS
<1>6. \A k : k \in Gone <=> k \in a..(a + w - 1)  BY <1>1 DEF Block
<1>7. Null \in Entry  BY DEF Entry
<1>8. /\ A \in [Slots -> Entry]
      /\ \A k \in Slots : A[k] = IF k \in a..(a + w - 1) THEN Null ELSE h[k]
    BY <1>3, <1>4, <1>5, <1>6, <1>7 DEF AllMarked
<1>9. PICK s1 : s1 = swap(A, a, n - 1)  OBVIOUS
<1>10. PICK s2 : s2 = swap(s1, a + 1, n - 2)  OBVIOUS
<1>11. PICK s3 : s3 = swap(s2, a + 2, n - 3)  OBVIOUS
<1>12. Moved(a, 0) = A /\ Moved(a, 1) = s1 /\ Moved(a, 2) = s2 /\ Moved(a, 3) = s3
    BY <1>1, <1>5, <1>9, <1>10, <1>11 DEF Moved
<1>13. /\ a \in Slots /\ a + 1 \in Slots /\ n - 1 \in Slots /\ n - 2 \in Slots
       /\ w = 3 => a + 2 \in Slots /\ n - 3 \in Slots
    BY <1>1, <1>2 DEF Slots
<1>14. /\ A[a] = Null /\ A[a + 1] = Null /\ (w = 3 => A[a + 2] = Null)
    BY <1>1, <1>2, <1>8, <1>13
<1>15. /\ s1 \in [Slots -> Entry] /\ s1[n - 1] = Null /\ s1[a] = A[n - 1]
       /\ \A k \in Slots : k # a /\ k # n - 1 => s1[k] = A[k]
    BY <1>8, <1>9, <1>13, <1>14, SwapAway
<1>16. s1[a + 1] = Null /\ (w = 3 => s1[a + 2] = Null)
    BY <1>2, <1>13, <1>14, <1>15
<1>17. /\ s2 \in [Slots -> Entry] /\ s2[n - 2] = Null /\ s2[a + 1] = s1[n - 2]
       /\ \A k \in Slots : k # a + 1 /\ k # n - 2 => s2[k] = s1[k]
    BY <1>10, <1>13, <1>15, <1>16, SwapAway
<1>18. w = 3 => s2[a + 2] = Null
    BY <1>2, <1>13, <1>16, <1>17
<1>19. w = 3 => /\ s3 \in [Slots -> Entry] /\ s3[n - 3] = Null /\ s3[a + 2] = s2[n - 3]
                /\ \A k \in Slots : k # a + 2 /\ k # n - 3 => s3[k] = s2[k]
    BY <1>11, <1>13, <1>17, <1>18, SwapAway
<1>20. \A k \in Slots : k < a => AllMarked[k] # Null
  <2> SUFFICES ASSUME NEW k \in Slots, k < a PROVE A[k] # Null
      BY <1>5
  <2>1. k \in 0..(n - 1) /\ k \notin a..(a + w - 1)  BY <1>1, <1>2 DEF Slots
  <2> QED  BY <1>4, <1>8, <2>1
<1>21. CASE w = 2
  <2>1. s2[n - 1] = Null
    <3>1. CASE n - 1 = a + 1  BY <1>13, <1>14, <1>15, <1>17, <3>1
    <3>2. CASE n - 1 # a + 1  BY <1>2, <1>13, <1>15, <1>17, <3>2
    <3> QED  BY <3>1, <3>2
  <2>2. \A k \in Slots : k >= n => s2[k] = h[k]
    <3> SUFFICES ASSUME NEW k \in Slots, k >= n PROVE s2[k] = h[k]
        OBVIOUS
    <3>0. k \in Nat  BY DEF Slots
    <3>1. k # a /\ k # a + 1 /\ k # n - 1 /\ k # n - 2 /\ k \notin a..(a + w - 1)
        BY <1>2, <3>0
    <3> QED  BY <1>8, <1>15, <1>17, <3>1
  <2>3. Bare(s2, Size..(n - 1))
    <3>1. \A k \in Size..(n - 1) : k = n - 1 \/ k = n - 2  BY <1>1, <1>21 DEF Size
    <3> QED  BY <1>17, <2>1, <3>1 DEF Bare
  <2>4. \A c \in 0..w : c = 0 \/ c = 1 \/ c = 2  BY <1>21
  <2>5. \A c \in 0..(w - 1) : c = 0 \/ c = 1  BY <1>21
  <2>6. \A c \in 0..w : Moved(a, c) \in [Slots -> Entry]
      BY <1>8, <1>12, <1>15, <1>17, <2>4
  <2>7. \A c \in 0..(w - 1) : /\ Moved(a, c)[a + c] = Null
                              /\ Moved(a, c + 1) = swap(Moved(a, c), a + c, n - 1 - c)
    <3> SUFFICES ASSUME NEW c \in 0..(w - 1)
                 PROVE  /\ Moved(a, c)[a + c] = Null
                        /\ Moved(a, c + 1) = swap(Moved(a, c), a + c, n - 1 - c)
        OBVIOUS
    <3>1. CASE c = 0
      <4>1. a + c = a /\ n - 1 - c = n - 1 /\ c + 1 = 1  BY <3>1
      <4> QED  BY <1>9, <1>12, <1>14, <3>1, <4>1
    <3>2. CASE c = 1
      <4>1. a + c = a + 1 /\ n - 1 - c = n - 2 /\ c + 1 = 2  BY <3>2
      <4> QED  BY <1>10, <1>12, <1>16, <3>2, <4>1
    <3> QED  BY <2>5, <3>1, <3>2
  <2> QED  BY <1>1, <1>3, <1>12, <1>20, <1>21, <2>2, <2>3, <2>6, <2>7
<1>22. CASE w = 3
  <2>a. a + 3 <= n  BY <1>2, <1>22
  <2>1. s3[n - 1] = Null
    <3>1. CASE n - 1 = a + 2
      <4>1. n - 3 = a /\ n - 2 = a + 1  BY <3>1
      <4>2. s3[n - 1] = s2[a]  BY <1>19, <1>22, <3>1, <4>1
      <4>3. s2[a] = s1[a]  BY <1>13, <1>17, <4>1
      <4>4. s1[a] = A[a + 2]  BY <1>15, <3>1
      <4> QED  BY <1>14, <1>22, <4>2, <4>3, <4>4
    <3>2. CASE n - 1 # a + 2
      <4>1. n - 1 # n - 3 /\ n - 1 # a + 1 /\ n - 1 # n - 2  BY <2>a
      <4>2. s3[n - 1] = s2[n - 1]  BY <1>13, <1>19, <1>22, <3>2, <4>1
      <4> QED  BY <1>13, <1>15, <1>17, <4>1, <4>2
    <3> QED  BY <3>1, <3>2
  <2>2. s3[n - 2] = Null
    <3>1. CASE n - 2 = a + 2
      <4>1. n - 3 = a + 1 /\ n - 3 # n - 2  BY <3>1
      <4>2. s3[n - 2] = s2[a + 1]  BY <1>19, <1>22, <3>1, <4>1
      <4>3. s2[a + 1] = s1[a + 2]  BY <1>17, <3>1
      <4> QED  BY <1>16, <1>22, <4>2, <4>3
    <3>2. CASE n - 2 # a + 2
      <4>1. n - 2 # n - 3  OBVIOUS
      <4> QED  BY <1>13, <1>17, <1>19, <1>22, <3>2, <4>1
    <3> QED  BY <3>1, <3>2
  <2>3. \A k \in Slots : k >= n => s3[k] = h[k]
    <3> SUFFICES ASSUME NEW k \in Slots, k >= n PROVE s3[k] = h[k]
        OBVIOUS
    <3>0. k \in Nat  BY DEF Slots
    <3>1. /\ k # a /\ k # a + 1 /\ k # a + 2 /\ k # n - 1 /\ k # n - 2 /\ k # n - 3
          /\ k \notin a..(a + w - 1)
        BY <2>a, <1>22, <3>0
    <3> QED  BY <1>8, <1>15, <1>17, <1>19, <1>22, <3>1
  <2>4. Bare(s3, Size..(n - 1))
    <3>1. \A k \in Size..(n - 1) : k = n - 1 \/ k = n - 2 \/ k = n - 3
        BY <1>1, <1>22 DEF Size
    <3> QED  BY <1>19, <1>22, <2>1, <2>2, <3>1 DEF Bare
  <2>5. \A c \in 0..w : c = 0 \/ c = 1 \/ c = 2 \/ c = 3  BY <1>22
  <2>6. \A c \in 0..(w - 1) : c = 0 \/ c = 1 \/ c = 2  BY <1>22
  <2>7. \A c \in 0..w : Moved(a, c) \in [Slots -> Entry]
      BY <1>8, <1>12, <1>15, <1>17, <1>19, <1>22, <2>5
  <2>8. \A c \in 0..(w - 1) : /\ Moved(a, c)[a + c] = Null
                              /\ Moved(a, c + 1) = swap(Moved(a, c), a + c, n - 1 - c)
    <3> SUFFICES ASSUME NEW c \in 0..(w - 1)
                 PROVE  /\ Moved(a, c)[a + c] = Null
                        /\ Moved(a, c + 1) = swap(Moved(a, c), a + c, n - 1 - c)
        OBVIOUS
    <3>1. CASE c = 0
      <4>1. a + c = a /\ n - 1 - c = n - 1 /\ c + 1 = 1  BY <3>1
      <4> QED  BY <1>9, <1>12, <1>14, <3>1, <4>1
    <3>2. CASE c = 1
      <4>1. a + c = a + 1 /\ n - 1 - c = n - 2 /\ c + 1 = 2  BY <3>2
      <4> QED  BY <1>10, <1>12, <1>16, <3>2, <4>1
    <3>3. CASE c = 2
      <4>1. a + c = a + 2 /\ n - 1 - c = n - 3 /\ c + 1 = 3  BY <3>3
      <4> QED  BY <1>11, <1>12, <1>18, <1>22, <3>3, <4>1
    <3> QED  BY <2>6, <3>1, <3>2, <3>3
  <2> QED  BY <1>1, <1>3, <1>12, <1>20, <1>22, <2>3, <2>4, <2>7, <2>8
<1> QED  BY <1>2, <1>21, <1>22

\* The rank in two sets of slots together.
LEMMA RankParts ==
    ASSUME NEW d, NEW A, IsFiniteSet(A), NEW B, IsFiniteSet(B), NEW C,
           \A x : x \in C <=> x \in A \/ x \in B, \A x : ~(x \in A /\ x \in B), NEW v
    PROVE  /\ Rank(d, C, v) = Rank(d, A, v) + Rank(d, B, v)
           /\ Rank(d, A, v) \in Nat /\ Rank(d, B, v) \in Nat
<1>1. PICK X, Y, Z : X = AtMost(d, A, v) /\ Y = AtMost(d, B, v) /\ Z = AtMost(d, C, v)
    OBVIOUS
<1>2. X \subseteq A /\ Y \subseteq B  BY <1>1 DEF AtMost
<1>3. IsFiniteSet(X) /\ IsFiniteSet(Y)  BY <1>2, PartSize
<1>4. X \cap Y = {} /\ Z = X \cup Y  BY <1>1 DEF AtMost
<1>5. Cardinality(Z) = Cardinality(X) + Cardinality(Y) /\ Cardinality(X) \in Nat
      /\ Cardinality(Y) \in Nat
    BY <1>3, <1>4, TwoParts
<1> QED  BY <1>1, <1>5 DEF Rank

\* The rank in emptied slots depends only on how many there are.
LEMMA BareRank ==
    ASSUME NEW d, NEW Q, IsFiniteSet(Q), Bare(d, Q), NEW e, NEW P, IsFiniteSet(P),
           Bare(e, P), Cardinality(Q) = Cardinality(P), NEW v \in Int
    PROVE  Rank(d, Q, v) = Rank(e, P, v)
<1>1. CASE Null <= v
  <2>1. AtMost(d, Q, v) = Q /\ AtMost(e, P, v) = P  BY <1>1 DEF AtMost, Bare
  <2> QED  BY <2>1 DEF Rank
<1>2. CASE ~(Null <= v)
  <2>1. AtMost(d, Q, v) = {} /\ AtMost(e, P, v) = {}  BY <1>2 DEF AtMost, Bare
  <2> QED  BY <2>1 DEF Rank
<1> QED  BY <1>1, <1>2

\* Hands that agree on S have the same rank there.
LEMMA RankSame ==
    ASSUME NEW d, NEW e, NEW S, \A k \in S : d[k] = e[k], NEW v
    PROVE  Rank(d, S, v) = Rank(e, S, v)
<1>1. AtMost(d, S, v) = AtMost(e, S, v)  BY DEF AtMost
<1> QED  BY <1>1 DEF Rank

\* The turns of the second loop only move tiles about in the first n slots.
LEMMA MovedRank ==
    ASSUME job \in Jobs, job.need > 0, NEW a \in Nat, Block(a), NEW v
    PROVE  Rank(Moved(a, job.need), 0..(job.n - 1), v) = Rank(AllMarked, 0..(job.n - 1), v)
<1>1. PICK n \in Nat, w \in Nat : n = job.n /\ w = job.need /\ n <= HandSize /\ HandSize \in Nat
    BY JobFacts
<1>2. w \in {2, 3} /\ a + w <= n  BY <1>1, JobFacts DEF Block
<1>3. PICK S : S = 0..(n - 1)  OBVIOUS
<1>4. S \subseteq Slots  BY <1>1, <1>3 DEF Slots
<1>5. ASSUME NEW c \in 0..(w - 1) PROVE Rank(Moved(a, c + 1), S, v) = Rank(Moved(a, c), S, v)
  <2>1. c \in 0..w /\ a + c \in S /\ n - 1 - c \in S  BY <1>2, <1>3
  <2>2. /\ Moved(a, c) \in [Slots -> Entry]
        /\ Moved(a, c + 1) = swap(Moved(a, c), a + c, n - 1 - c)
      BY <1>1, <2>1, MovedFacts
  <2>3. PICK d, x, y : d = Moved(a, c) /\ x = a + c /\ y = n - 1 - c  OBVIOUS
  <2>4. Rank(swap(d, x, y), S, v) = Rank(d, S, v)  BY <1>4, <2>1, <2>2, <2>3, SwapRank
  <2> QED  BY <2>2, <2>3, <2>4
<1>6. Moved(a, 0) = AllMarked  BY DEF Moved
<1>7. /\ 0 \in 0..(w - 1) /\ 1 \in 0..(w - 1) /\ (w = 3 => 2 \in 0..(w - 1))
      /\ 0 + 1 = 1 /\ 1 + 1 = 2 /\ 2 + 1 = 3
    BY <1>2
<1>8. Rank(Moved(a, 1), S, v) = Rank(Moved(a, 0), S, v)  BY <1>5, <1>7
<1>9. Rank(Moved(a, 2), S, v) = Rank(Moved(a, 1), S, v)  BY <1>5, <1>7
<1>10. w = 3 => Rank(Moved(a, 3), S, v) = Rank(Moved(a, 2), S, v)  BY <1>5, <1>7
<1> QED  BY <1>1, <1>2, <1>3, <1>6, <1>8, <1>9, <1>10

\* After the loops the first slots hold the tiles that stay.
LEMMA MovedTiles ==
    ASSUME job \in Jobs, job.need > 0, NEW a \in Nat, Block(a)
    PROVE  /\ SameTiles(Moved(a, job.need), Size, job.hand, Rest)
           /\ Settled(Moved(a, job.need), Size)
<1>1. PICK n \in Nat, w \in Nat, m \in Nat :
          n = job.n /\ w = job.need /\ m = Size /\ n <= HandSize /\ HandSize \in Nat
    BY JobFacts
<1>2. m = n - w /\ w \in {2, 3} /\ a + w <= n  BY <1>1, JobFacts DEF Block, Size
<1>3. PICK d, A, h, R, G : /\ d = Moved(a, job.need) /\ A = AllMarked /\ h = job.hand
                           /\ R = Rest /\ G = Gone
    OBVIOUS
<1>4. PICK S, Q, P : S = 0..(n - 1) /\ Q = 0..(m - 1) /\ P = m..(n - 1)  OBVIOUS
<1>5. Bare(d, P) /\ \A k \in Slots : k >= n => d[k] = h[k]
    BY <1>1, <1>3, <1>4, MovedFacts
<1>6. G = a..(a + w - 1) /\ \A x : x \in R <=> x \in S /\ x \notin G
    BY <1>1, <1>3, <1>4 DEF Block, Rest
<1>7. S \subseteq Slots  BY <1>1, <1>4 DEF Slots
<1>8. \A x : x \in S <=> x \in Q \/ x \in P  BY <1>2, <1>4
<1>9. \A x : ~(x \in Q /\ x \in P)  BY <1>4
<1>10. \A x : x \in G => x \in S  BY <1>2, <1>4, <1>6
<1>11. \A x : x \in S <=> x \in R \/ x \in G  BY <1>6, <1>10
<1>12. \A x : ~(x \in R /\ x \in G)  BY <1>6
<1>13. Q \subseteq S /\ P \subseteq S /\ R \subseteq S /\ G \subseteq S  BY <1>8, <1>11
<1>14. IsFiniteSet(Q) /\ IsFiniteSet(P) /\ IsFiniteSet(R) /\ IsFiniteSet(G)
  <2>1. Q \subseteq Slots /\ P \subseteq Slots /\ R \subseteq Slots /\ G \subseteq Slots
      BY <1>7, <1>13
  <2> QED  BY <2>1, SlotsFinite
<1>15. Cardinality(P) = w
  <2>1. PICK e \in Int : e = n - 1  OBVIOUS
  <2>2. m \in Int  OBVIOUS
  <2>3. Cardinality(m..e) = IF m > e THEN 0 ELSE e - m + 1  BY <2>2, FS_Interval
  <2> QED  BY <1>2, <1>4, <2>1, <2>3
<1>16. Cardinality(G) = w
  <2>1. PICK e \in Int : e = a + w - 1  BY <1>2
  <2>2. a \in Int  OBVIOUS
  <2>3. Cardinality(a..e) = IF a > e THEN 0 ELSE e - a + 1  BY <2>2, FS_Interval
  <2> QED  BY <1>2, <1>6, <2>1, <2>3
<1>17. Bare(A, G) /\ \A k \in R : A[k] = h[k]
    BY <1>3, <1>6, <1>7, <1>10 DEF AllMarked, Bare
<1>18. ASSUME NEW v \in -1..58 PROVE Rank(d, Q, v) = Rank(h, R, v)
  <2>1. Rank(d, S, v) = Rank(A, S, v)  BY <1>1, <1>3, <1>4, MovedRank
  <2>2. /\ Rank(d, S, v) = Rank(d, Q, v) + Rank(d, P, v)
        /\ Rank(d, Q, v) \in Nat /\ Rank(d, P, v) \in Nat
      BY <1>8, <1>9, <1>14, RankParts
  <2>3. /\ Rank(A, S, v) = Rank(A, R, v) + Rank(A, G, v)
        /\ Rank(A, R, v) \in Nat /\ Rank(A, G, v) \in Nat
      BY <1>11, <1>12, <1>14, RankParts
  <2>4. Rank(A, R, v) = Rank(h, R, v)  BY <1>17, RankSame
  <2>5. v \in Int /\ Cardinality(P) = Cardinality(G)  BY <1>15, <1>16
  <2>6. Rank(d, P, v) = Rank(A, G, v)  BY <1>5, <1>14, <1>17, <2>5, BareRank
  <2>7. PICK x \in Nat, y \in Nat, z \in Nat :
            x = Rank(d, Q, v) /\ y = Rank(d, P, v) /\ z = Rank(A, R, v)
      BY <2>2, <2>3
  <2>8. x + y = z + y  BY <2>1, <2>2, <2>3, <2>6, <2>7
  <2>9. x = z  BY <2>8
  <2> QED  BY <2>4, <2>7, <2>9
<1>19. SameTiles(d, m, h, R)  BY <1>4, <1>18 DEF SameTiles
<1>20. Settled(d, m)
  <2> SUFFICES ASSUME NEW k \in Slots, k >= m
               PROVE  d[k] = IF k < n THEN Null ELSE h[k]
      BY <1>1, <1>3 DEF Settled
  <2>0. k \in Nat  BY DEF Slots
  <2>1. CASE k < n
    <3>1. k \in P  BY <1>4, <2>0, <2>1
    <3> QED  BY <1>5, <2>1, <3>1 DEF Bare
  <2>2. CASE ~(k < n)  BY <1>5, <2>0, <2>2
  <2> QED  BY <2>1, <2>2
<1> QED  BY <1>1, <1>3, <1>19, <1>20

\* The second loop, and what it hands over to the sort.
LEMMA EmptiedCompact == ASSUME Ranges, Emptied, Compact PROVE Emptied' /\ Sorting'
<1>1. job \in Jobs /\ pc = "compact" /\ job' = job /\ stack' = stack
    BY DEF Ranges, Compact
<1>2. PICK n \in Nat, w \in Nat : n = job.n /\ w = job.need /\ n <= HandSize
    BY <1>1, JobFacts
<1>3. job.need > 0 /\ w > 0 /\ AllTogether(stack, Size)  BY <1>1, <1>2 DEF Emptied
<1>4. ASSUME NEW a \in Nat, Block(a)
      PROVE  \/ /\ pc' = "compact"
                /\ \E c \in 0..(w - 1) :
                      need' = w - c /\ Reached(a, c, i') /\ deck' = Moved(a, c)
             \/ pc' = "sort" /\ deck' = Moved(a, w)
  <2>1. PICK c \in 0..(w - 1) : need = w - c /\ Reached(a, c, i) /\ deck = Moved(a, c)
      BY <1>1, <1>2, <1>4 DEF Emptied
  <2>2. a + w <= n  BY <1>2, <1>4 DEF Block
  <2>3. PICK x \in Nat : x = i  BY <1>1, <1>2 DEF Ranges
  <2>4. CASE x = a + c
    <3>1. deck[x] = Null /\ Moved(a, c + 1) = swap(deck, x, n - 1 - c)
        BY <1>1, <1>2, <1>3, <1>4, <2>1, <2>4, MovedFacts
    <3>2. Target = n - 1 - c  BY <1>2, <2>1 DEF Target
    <3>3. deck' = Moved(a, c + 1)  BY <2>3, <3>1, <3>2 DEF Compact
    <3>4. CASE c = w - 1
      <4>1. LastTurn(deck[i] = Null)  BY <2>1, <2>3, <3>1, <3>4 DEF LastTurn
      <4>2. pc' = "sort"  BY <4>1 DEF Compact
      <4>3. c + 1 = w  BY <3>4
      <4> QED  BY <3>3, <4>2, <4>3
    <3>5. CASE c # w - 1
      <4>1. need # 1 /\ x # n - 1 /\ c + 1 \in 0..(w - 1)  BY <2>1, <2>2, <2>4, <3>5
      <4>2. ~LastTurn(deck[i] = Null)  BY <1>2, <2>3, <4>1 DEF LastTurn
      <4>3. pc' = "compact" /\ i' = x + 1 /\ need' = need - 1
          BY <1>1, <2>3, <3>1, <4>2 DEF Compact
      <4>4. need' = w - (c + 1)  BY <2>1, <4>3
      <4>5. x + 1 = a + (c + 1)  BY <2>4
      <4>6. Reached(a, c + 1, i')  BY <4>3, <4>5 DEF Reached
      <4> QED  BY <3>3, <4>1, <4>3, <4>4, <4>6
    <3> QED  BY <3>4, <3>5
  <2>5. CASE c = 0 /\ x < a
    <3>1. deck = AllMarked  BY <2>1, <2>5 DEF Moved
    <3>2. x \in Slots  BY <1>1, <1>2, <2>2, <2>5, JobFacts DEF Slots
    <3>3. deck[x] # Null  BY <1>1, <1>3, <1>4, <2>5, <3>1, <3>2, MovedFacts
    <3>4. x # n - 1  BY <2>2, <2>5
    <3>5. ~LastTurn(deck[i] = Null)  BY <1>2, <2>3, <3>3, <3>4 DEF LastTurn
    <3>6. pc' = "compact" /\ i' = x + 1 /\ need' = need - 0 /\ deck' = deck
        BY <1>1, <2>3, <3>3, <3>5 DEF Compact
    <3>7. need' = w - c  BY <2>1, <2>5, <3>6
    <3>8. x + 1 = a + c \/ x + 1 < a  BY <2>5
    <3>9. Reached(a, c, i')  BY <2>5, <3>6, <3>8 DEF Reached
    <3> QED  BY <2>1, <3>6, <3>7, <3>9
  <2> QED  BY <2>1, <2>3, <2>4, <2>5 DEF Reached
<1>5. PICK a \in Nat : Block(a)  BY <1>1, <1>3, GoneBlock
<1>6. /\ \A b \in Nat : Block(b)' <=> Block(b)
      /\ \A b, c : Moved(b, c)' = Moved(b, c)
      /\ Size' = Size /\ Rest' = Rest
      /\ \A d : Settled(d, Size)' <=> Settled(d, Size)
    BY <1>1 DEF Block, Moved, AllMarked, Gone, Size, Rest, Settled
<1>7. CASE pc' = "compact"
  <2>1. \A b \in Nat : Block(b)' =>
            \E c \in 0..(job'.need - 1) :
                need' = job'.need - c /\ Reached(b, c, i') /\ deck' = Moved(b, c)'
    <3> SUFFICES ASSUME NEW b \in Nat, Block(b)
                 PROVE  \E c \in 0..(w - 1) :
                            need' = w - c /\ Reached(b, c, i') /\ deck' = Moved(b, c)
        BY <1>1, <1>2, <1>6
    <3> QED  BY <1>4, <1>7
  <2>2. job'.need > 0 /\ AllTogether(stack', Size')  BY <1>1, <1>3, <1>6
  <2>3. Emptied'  BY <1>7, <2>1, <2>2 DEF Emptied
  <2> QED  BY <1>7, <2>3 DEF Sorting
<1>8. CASE pc' = "sort"
  <2>1. deck' = Moved(a, w)  BY <1>4, <1>5, <1>8
  <2>2. SameTiles(deck', Size, job.hand, Rest) /\ Settled(Moved(a, w), Size)
      BY <1>1, <1>2, <1>3, <1>5, <2>1, MovedTiles
  <2>3. Ordered(deck', stack, Size)  BY <1>3 DEF Ordered, AllTogether
  <2>4. Settled(deck, Size)'  BY <1>1, <2>1, <2>2 DEF Settled, Size
  <2>5. SameTiles(deck', Size', job'.hand, Rest') /\ Ordered(deck', stack', Size')
      BY <1>1, <1>6, <2>2, <2>3
  <2> QED  BY <1>8, <2>4, <2>5 DEF Sorting, Emptied, Partitioning
<1> QED  BY <1>4, <1>5, <1>7, <1>8

-----------------------------------------------------------------------------
(* The update as a whole                                                   *)

\* Where the loops are, what they have done, and what the sort has done.
Progress == Ranges /\ Emptied /\ Sorting

\* An update begins with the hand as it was.
LEMMA ProgressInit == Init => Progress
<1> SUFFICES ASSUME Init PROVE Progress
    OBVIOUS
<1>1. Ranges  BY RangesInit
<1>2. job \in Jobs /\ deck = job.hand /\ i = 0 /\ need = job.need  BY DEF Init
<1>3. PICK n \in Nat, w \in Nat, m \in Nat :
          n = job.n /\ w = job.need /\ m = Size /\ n <= HandSize
    BY <1>2, JobFacts
<1>4. PICK h, t : h = job.hand /\ t = job.t  OBVIOUS
<1>5. h \in [Slots -> Entry]  BY <1>2, <1>4, JobFacts
<1>6. AllTogether(stack, m)
  <2>1. PICK p : p = <<0, m - 1>>  OBVIOUS
  <2>2. p[1] = 0 /\ p[2] = m - 1  BY <2>1
  <2>3. stack = <<p>>  BY <1>3, <2>1 DEF Init, Size
  <2>4. 1 \in 1..Len(stack) /\ stack[1] = p  BY <2>3
  <2>5. \A j, k \in 0..(m - 1) : stack[1][1] <= j /\ k <= stack[1][2]  BY <2>2, <2>4
  <2> QED  BY <2>4, <2>5 DEF AllTogether, Together
<1>7. CASE w # 0
  <2>1. pc = "mark"  BY <1>3, <1>7 DEF Init
  <2>2. Count(h, 0, t) = 0
    <3>1. Count(h, 0, t) \in Nat /\ Count(h, 0, t) <= 0  BY CountBound
    <3> QED  BY <3>1
  <2>3. need = w - Count(h, i, t)  BY <1>2, <1>3, <2>2
  <2>4. \A k \in Slots : ~(k < 0)  BY DEF Slots
  <2>5. deck = Marked(i)  BY <1>2, <1>4, <1>5, <2>4 DEF Marked
  <2>6. Emptied  BY <1>3, <1>4, <1>6, <1>7, <2>1, <2>3, <2>5 DEF Emptied
  <2>7. Sorting  BY <2>1 DEF Sorting
  <2> QED  BY <1>1, <2>6, <2>7 DEF Progress
<1>8. CASE w = 0
  <2>1. pc = "sort"  BY <1>3, <1>8 DEF Init
  <2>2. m = n  BY <1>3, <1>8 DEF Size
  <2>3. \A k \in 0..(n - 1) : ~(Count(h, k, t) < w)
    <3> SUFFICES ASSUME NEW k \in 0..(n - 1) PROVE ~(Count(h, k, t) < 0)
        BY <1>8
    <3>1. Count(h, k, t) \in Nat  BY CountBound
    <3> QED  BY <3>1
  <2>4. Rest = 0..(n - 1)  BY <1>3, <1>4, <2>3 DEF Rest, Gone, FirstSlots
  <2>5. SameTiles(deck, Size, job.hand, Rest)  BY <1>2, <1>3, <2>2, <2>4 DEF SameTiles
  <2>6. Settled(deck, Size)
    <3>1. \A k \in Slots : k >= n => ~(k < n)  BY DEF Slots
    <3> QED  BY <1>2, <1>3, <2>2, <3>1 DEF Settled
  <2>7. Ordered(deck, stack, Size)  BY <1>3, <1>6 DEF AllTogether, Ordered
  <2>8. Sorting  BY <2>1, <2>5, <2>6, <2>7 DEF Sorting, Partitioning
  <2>9. Emptied  BY <2>1 DEF Emptied
  <2> QED  BY <1>1, <2>8, <2>9 DEF Progress
<1> QED  BY <1>7, <1>8

\* Every turn of every loop keeps it so.
LEMMA ProgressNext == Progress /\ [Next]_vars => Progress'
<1> SUFFICES ASSUME Progress, [Next]_vars PROVE Progress'
    OBVIOUS
<1>1. Ranges /\ Emptied /\ Sorting /\ Ranges'  BY RangesNext DEF Progress
<1>2. CASE Mark
  <2>1. Emptied'  BY <1>1, <1>2, EmptiedMark
  <2>2. pc' \in {"mark", "compact"}  BY <1>2 DEF Mark
  <2> QED  BY <1>1, <2>1, <2>2 DEF Progress, Sorting
<1>3. CASE Compact  BY <1>1, <1>3, EmptiedCompact DEF Progress
<1>4. CASE Call
  <2>1. Sorting'  BY <1>1, <1>4, SortingCall
  <2>2. pc' \notin {"mark", "compact"}  BY <1>4 DEF Call
  <2> QED  BY <1>1, <2>1, <2>2 DEF Progress, Emptied
<1>5. CASE MoveLeft \/ MoveRight \/ Place
  <2>1. Sorting'  BY <1>1, <1>5, SortingPartition
  <2>2. pc' \notin {"mark", "compact"}  BY <1>5 DEF MoveLeft, MoveRight, Place
  <2> QED  BY <1>1, <2>1, <2>2 DEF Progress, Emptied
<1>6. CASE Return
  <2>1. /\ pc = "sort" /\ pc' = "done" /\ stack = <<>> /\ job' = job /\ deck' = deck
        /\ stack' = stack
      BY <1>6 DEF Return
  <2>2. /\ SameTiles(deck, Size, job.hand, Rest) /\ Settled(deck, Size)
        /\ Ordered(deck, stack, Size)
      BY <1>1, <2>1 DEF Sorting, Partitioning
  <2>3. Settled(deck, Size)'  BY <2>1, <2>2 DEF Settled, Size
  <2>4. SameTiles(deck', Size', job'.hand, Rest') /\ Ordered(deck', stack', Size')
      BY <2>1, <2>2 DEF Size, Rest, Gone
  <2>5. Sorting'  BY <2>1, <2>3, <2>4 DEF Sorting, Partitioning
  <2> QED  BY <1>1, <2>1, <2>5 DEF Progress, Emptied
<1>7. CASE UNCHANGED vars
  <2>1. Emptied'
      BY <1>1, <1>7
      DEF vars, Emptied, Marked, Block, Moved, AllMarked, Gone, Size
  <2>2. Sorting'
      BY <1>1, <1>7 DEF vars, Sorting, Settled, Rest, Gone, Size, Partitioning
  <2> QED  BY <1>1, <2>1, <2>2 DEF Progress
<1> QED  BY <1>2, <1>3, <1>4, <1>5, <1>6, <1>7 DEF Next

\* The steps of the loops are steps of the promise: all but the last leave
\* the hand as it is seen from outside, and the last one is the update.
LEMMA ProgressStep ==
    Progress /\ Progress' /\ [Next]_vars
        => [Promise!Update]_<<job, IF pc = "done" THEN deck ELSE job.hand, pc = "done">>
<1> SUFFICES ASSUME Progress, Progress', [Next]_vars
             PROVE  [Promise!Update]_<<job, IF pc = "done" THEN deck ELSE job.hand, pc = "done">>
    OBVIOUS
<1>1. job' = job
    BY DEF Next, Mark, Compact, Call, MoveLeft, MoveRight, Place, Return, vars
<1>2. CASE Return
  <2>1. pc = "sort" /\ pc' = "done" /\ stack = <<>> /\ deck' = deck  BY <1>2 DEF Return
  <2>2. deck = Remove(job.hand, job.n, job.t, job.need)
      BY <2>1, DoneIsRemoved DEF Progress
  <2>3. Promise!Remove(job.hand, job.n, job.t, job.need)
            = Remove(job.hand, job.n, job.t, job.need)
      BY DEF Promise!Remove, Remove, Promise!FirstSlots, FirstSlots, Promise!Nth, Nth,
             Promise!Count, Count, Promise!Null, Null, Promise!Min, Min,
             Promise!Cardinality, Cardinality
  <2> QED  BY <1>1, <2>1, <2>2, <2>3 DEF Promise!Update
<1>3. CASE Mark \/ Compact \/ Call \/ MoveLeft \/ MoveRight \/ Place
  <2>1. pc # "done" /\ pc' # "done"
      BY <1>3 DEF Mark, Compact, Call, MoveLeft, MoveRight, Place
  <2> QED  BY <1>1, <2>1
<1>4. CASE UNCHANGED vars  BY <1>4 DEF vars
<1> QED  BY <1>2, <1>3, <1>4 DEF Next

\* For every hand, the two removal loops and decks_quick_sort() do in many
\* steps what Remove says in one: an update never leaves another hand than
\* the one the table's model computes, and nothing after it changes it.
THEOREM UpdateIsRight == Spec => Promise!Safety
<1>1. Init => Promise!Init  BY DEF Init, Promise!Init
<1> QED  BY <1>1, ProgressInit, ProgressNext, ProgressStep, PTL DEF Spec, Promise!Safety

-----------------------------------------------------------------------------
(***************************************************************************)
(* The shuffle.                                                            *)
(***************************************************************************)

\* Every entry of the array that shuffle() fills is a tile.
LEMMA MadeType ==
    ASSUME NEW k \in WallIndex
    PROVE  Made(k) \in Tile
<1>1. CASE k < 108
  <2>1. k \div 36 \in 0..2 /\ k % 36 \in 0..35  BY <1>1 DEF WallIndex
  <2>2. (k % 36) \div 4 \in 0..8  BY <2>1
  <2> DEFINE a == k \div 36
             b == (k % 36) \div 4
  <2>3. Made(k) = (a + 1) * 10 + b + 1  BY <1>1 DEF Made
  <2>4. a \in 0..2 /\ b \in 0..8  BY <2>1, <2>2
  <2> HIDE DEF a, b
  <2> QED  BY <2>3, <2>4 DEF Tile, Playable, Suited
<1>2. CASE k >= 108 /\ k < 136
  <2>1. (k - 108) \div 4 \in 0..6  BY <1>2 DEF WallIndex
  <2> QED  BY <1>2, <2>1 DEF Made, Tile, Playable, DAZI, WallIndex
<1>3. CASE k >= 136
    BY <1>3 DEF Made, Tile, FLOWER, WallIndex
<1> QED  BY <1>1, <1>2, <1>3 DEF WallIndex

\* The copies of a kind lie next to each other: at most four of them, and
\* only one of a flower.
LEMMA MadeTogether ==
    ASSUME NEW t \in Tile
    PROVE  \E a \in Int :
             \A k \in WallIndex :
                Made(k) = t => k \in a..(IF t \in FLOWER THEN a ELSE a + 3)
<1>1. CASE t \in Suited
  <2> DEFINE s == (t \div 10) - 1
             m == (t % 10) - 1
             a == 36 * s + 4 * m
  <2>1. s \in 0..2 /\ m \in 0..8 /\ t = (s + 1) * 10 + m + 1 /\ t \notin FLOWER
      BY <1>1 DEF Suited, FLOWER
  <2>2. ASSUME NEW k \in WallIndex, Made(k) = t PROVE k \in a..(a + 3)
    <3>1. k < 108
        BY <1>1, <2>2 DEF Made, Suited, WallIndex
    <3> DEFINE x == k \div 36
               y == (k % 36) \div 4
    <3>2. x \in 0..2 /\ k % 36 \in 0..35 /\ k = 36 * x + (k % 36)
        BY <3>1 DEF WallIndex
    <3>3. y \in 0..8 /\ k % 36 \in (4 * y)..(4 * y + 3)
        BY <3>2
    <3>4. t = (x + 1) * 10 + y + 1
        BY <3>1, <2>2 DEF Made
    <3>5. x = s /\ y = m
      <4>1. x \in 0..2 /\ y \in 0..8 /\ s \in 0..2 /\ m \in 0..8
          BY <3>2, <3>3, <2>1
      <4>2. (x + 1) * 10 + y + 1 = (s + 1) * 10 + m + 1
          BY <3>4, <2>1
      <4> HIDE DEF x, y, s, m
      <4> QED  BY <4>1, <4>2
    <3>6. k \in (36 * x + 4 * y)..(36 * x + 4 * y + 3)
        BY <3>2, <3>3 DEF WallIndex
    <3> HIDE DEF x, y, s, m
    <3> QED  BY <3>5, <3>6
  <2>3. a \in Int  BY <2>1
  <2> HIDE DEF a
  <2> QED  BY <2>1, <2>2, <2>3
<1>2. CASE t \in DAZI
  <2> DEFINE a == 108 + 4 * (t - 41)
  <2>1. a \in Int /\ t \notin FLOWER  BY <1>2 DEF DAZI, FLOWER
  <2>2. ASSUME NEW k \in WallIndex, Made(k) = t PROVE k \in a..(a + 3)
    <3>1. k >= 108
      <4>1. SUFFICES ASSUME k < 108 PROVE FALSE  BY DEF WallIndex
      <4>2. k \div 36 \in 0..2 /\ (k % 36) \div 4 \in 0..8  BY <4>1 DEF WallIndex
      <4> QED  BY <4>1, <4>2, <2>2, <1>2 DEF Made, DAZI
    <3>2. k < 136  BY <2>2, <1>2, <3>1 DEF Made, DAZI, WallIndex
    <3>3. t - 41 = (k - 108) \div 4  BY <2>2, <3>1, <3>2 DEF Made, WallIndex
    <3> QED  BY <3>1, <3>2, <3>3 DEF WallIndex
  <2> HIDE DEF a
  <2> QED  BY <2>1, <2>2
<1>3. CASE t \in FLOWER
  <2> DEFINE a == 136 + (t - 51)
  <2>1. a \in Int  BY <1>3 DEF FLOWER
  <2>2. ASSUME NEW k \in WallIndex, Made(k) = t PROVE k = a
    <3>1. k >= 136
      <4>1. SUFFICES ASSUME k < 136 PROVE FALSE  BY DEF WallIndex
      <4>2. CASE k < 108
        <5>1. k \div 36 \in 0..2 /\ (k % 36) \div 4 \in 0..8  BY <4>2 DEF WallIndex
        <5> QED  BY <4>2, <5>1, <2>2, <1>3 DEF Made, FLOWER
      <4>3. CASE k >= 108
        <5>1. (k - 108) \div 4 \in 0..6  BY <4>1, <4>3 DEF WallIndex
        <5> QED  BY <4>1, <4>3, <5>1, <2>2, <1>3 DEF Made, FLOWER, WallIndex
      <4> QED  BY <4>2, <4>3 DEF WallIndex
    <3> QED  BY <2>2, <3>1 DEF Made, WallIndex
  <2>3. \A k \in WallIndex : Made(k) = t => k \in a..a  BY <2>1, <2>2
  <2> HIDE DEF a
  <2> QED  BY <1>3, <2>1, <2>3
<1> QED  BY <1>1, <1>2, <1>3 DEF Tile, Playable

\* As many places of the wall come from a range of the array as it has.
LEMMA ComeFrom ==
    ASSUME NEW o \in [WallIndex -> WallIndex],
           \A k, j \in WallIndex : o[k] = o[j] => k = j,
           NEW a \in Int, NEW b \in Int, a <= b,
           NEW S \in SUBSET WallIndex, \A k \in S : o[k] \in a..b
    PROVE  IsFiniteSet(S) /\ Cardinality(S) <= b - a + 1
<1> DEFINE f == [k \in S |-> o[k]]
<1>1. f \in Injection(S, a..b)
  <2>1. f \in [S -> a..b]  OBVIOUS
  <2>2. \A k, j \in S : f[k] = f[j] => k = j  OBVIOUS
  <2> QED  BY <2>1, <2>2 DEF Injection, IsInjective
<1>2. IsFiniteSet(a..b) /\ Cardinality(a..b) = b - a + 1
    BY FS_Interval
<1> HIDE DEF f
<1> QED  BY <1>1, <1>2, FS_Injection

\* Whatever the priorities, shuffle() makes a wall of 144 tiles with at most
\* four of a kind and one of each flower, and eight flowers leave enough
\* tiles for the deal: with it and sixteen tiles in a hand, the assumption
\* that all theorems about the table rest on is met.
THEOREM ShuffleIsSound ==
    ASSUME NEW priority, NEW w \in shuffle(priority)
    PROVE  /\ w \in [0..143 -> Tile]
           /\ \A t \in Tile : Cardinality({k \in 0..143 : w[k] = t})
                                <= IF t \in FLOWER THEN 1 ELSE 4
           /\ 4 * 16 + Cardinality({k \in 0..143 : w[k] \in FLOWER}) < 144
<1>1. PICK o \in Orders(priority) : w = Laid(o)
    BY DEF shuffle
<1>2. o \in [WallIndex -> WallIndex] /\ \A k, j \in WallIndex : o[k] = o[j] => k = j
    BY DEF Orders
<1>3. \A k \in WallIndex : w[k] = Made(o[k])
    BY <1>1 DEF Laid
<1>4. w \in [0..143 -> Tile]
    BY <1>1, <1>2, MadeType DEF Laid, WallIndex
<1>5. ASSUME NEW t \in Tile
      PROVE  Cardinality({k \in 0..143 : w[k] = t}) <= IF t \in FLOWER THEN 1 ELSE 4
  <2> DEFINE S == {k \in WallIndex : w[k] = t}
             b(a) == IF t \in FLOWER THEN a ELSE a + 3
  <2>1. PICK a \in Int : \A k \in WallIndex : Made(k) = t => k \in a..b(a)
      BY MadeTogether
  <2>2. \A k \in S : o[k] \in a..b(a)
      BY <2>1, <1>2, <1>3
  <2>3. b(a) \in Int /\ a <= b(a)  OBVIOUS
  <2>4. S \in SUBSET WallIndex  OBVIOUS
  <2>5. Cardinality(S) <= b(a) - a + 1
    <3> HIDE DEF S, b
    <3> QED  BY <1>2, <2>2, <2>3, <2>4, ComeFrom
  <2>6. b(a) - a + 1 = IF t \in FLOWER THEN 1 ELSE 4  OBVIOUS
  <2>7. S = {k \in 0..143 : w[k] = t}  BY DEF WallIndex
  <2> HIDE DEF S, b
  <2> QED  BY <2>5, <2>6, <2>7
<1>6. 4 * 16 + Cardinality({k \in 0..143 : w[k] \in FLOWER}) < 144
  <2> DEFINE S == {k \in WallIndex : w[k] \in FLOWER}
  <2>1. ASSUME NEW k \in WallIndex, Made(k) \in FLOWER PROVE k \in 136..143
    <3>1. CASE k < 108
      <4>1. k \div 36 \in 0..2 /\ (k % 36) \div 4 \in 0..8  BY <3>1 DEF WallIndex
      <4> QED  BY <3>1, <4>1, <2>1 DEF Made, FLOWER
    <3>2. CASE k >= 108 /\ k < 136
      <4>1. (k - 108) \div 4 \in 0..6  BY <3>2 DEF WallIndex
      <4> QED  BY <3>2, <4>1, <2>1 DEF Made, FLOWER, WallIndex
    <3> QED  BY <3>1, <3>2 DEF WallIndex
  <2>2. \A k \in S : o[k] \in 136..143
      BY <2>1, <1>2, <1>3
  <2>3. S \in SUBSET WallIndex  OBVIOUS
  <2>4. IsFiniteSet(S) /\ Cardinality(S) <= 8
    <3> DEFINE a == 136
               b == 143
    <3>1. a \in Int /\ b \in Int /\ a <= b /\ b - a + 1 = 8  OBVIOUS
    <3>2. \A k \in S : o[k] \in a..b  BY <2>2
    <3> HIDE DEF S, a, b
    <3>3. IsFiniteSet(S) /\ Cardinality(S) <= b - a + 1
        BY <1>2, <2>3, <3>1, <3>2, ComeFrom
    <3> QED  BY <3>1, <3>3
  <2>5. Cardinality(S) \in Nat
    <3> HIDE DEF S
    <3> QED  BY <2>4, FS_CardinalityType
  <2>6. S = {k \in 0..143 : w[k] \in FLOWER}  BY DEF WallIndex
  <2> HIDE DEF S
  <2> QED  BY <2>4, <2>5, <2>6
<1> QED  BY <1>4, <1>5, <1>6
=============================================================================

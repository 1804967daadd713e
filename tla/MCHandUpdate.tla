---------------------------- MODULE MCHandUpdate ----------------------------
(***************************************************************************)
(* Sorts of every arrangement of a few tiles, null ones among them, and    *)
(* removals from every sorted hand of two sizes.                           *)
(***************************************************************************)
EXTENDS HandUpdate, Shuffle

CONSTANTS SortKeys, SortSizes,    \* bounds: tiles and lengths of the sorts
          HandKeys, HandSizes     \* bounds: tiles and sizes of the hands

Hand(f, n) == [k \in Slots |-> IF k < n THEN f[k] ELSE Null]

SortJobs ==
    UNION {{[hand |-> Hand(f, n), n |-> n, t |-> Null, need |-> 0]
              : f \in [0..(n - 1) -> SortKeys]} : n \in SortSizes}

SortedHands(n) ==
    {f \in [0..(n - 1) -> HandKeys] : \A k \in 0..(n - 2) : f[k] <= f[k + 1]}

RemovalJobs ==
    UNION {{j \in [hand : {Hand(f, n) : f \in SortedHands(n)}, n : {n},
                   t : HandKeys, need : {2, 3}]
              : Count(j.hand, n, j.t) >= j.need} : n \in HandSizes}

AllJobs == SortJobs \cup RemovalJobs

\* A few orders of the wall, one in which the tiles were made among them.
ASSUME SampleWalls ==
    \A stride \in {1, 5, 143} :
        LET w == Laid([k \in WallIndex |-> (k * stride) % 144])
        IN  \A t \in Tile : Cardinality({k \in WallIndex : w[k] = t})
                              = IF t \in FLOWER THEN 1 ELSE 4
=============================================================================

-------------------------------- MODULE Search --------------------------------
(***************************************************************************)
(* Forward search with a transposition table: search/superengine.cc and    *)
(* search/supertable.cc.  One of the players, the aggressive one, loses    *)
(* ties; a search tells, for sets of rotations at once, whether he wins    *)
(* within a number of moves.  The table is kept from search to search, for *)
(* boards up to symmetry, with the depth they were searched to.            *)
(***************************************************************************)
EXTENDS Pentago, SequencesExt

CONSTANTS Symmetric,     \* turns and reflections of the board: where they take quadrants and
                         \* cells, and 1 or -1 as a quarter turn remains one to the same side
          Slots,         \* of the table
          CachedStones,  \* numbers of stones whose boards are in the block cache
          Opening,       \* moves that stand for all on the empty board
          super_move_limit, \* on what black tries; unless it is set, more than any board has
          Requests,      \* what is asked for: kind, aggressive, depth, sides, rotation
          MaxSearches    \* bound on searches

VARIABLES table,      \* from slots to entries
          answer,     \* of the last search
          searches,   \* so far
          deepest     \* stones and depth together of a search since the table was cleared, at most
vars == <<table, answer, searches, deepest>>

ASSUME SearchAssumption == /\ {Slots, MaxSearches} \subseteq Nat \ {0}
                           /\ super_move_limit \in Nat \ {0}
                           /\ CachedStones \subseteq Nat
                           /\ Opening \subseteq Spot
-----------------------------------------------------------------------------
\* A set of rotations is a set of bit numbers, with the turns of quadrants as digits
Bits == 0 .. 4^Quadrants - 1
Turn(i, q) == (i \div 4^q) % 4
BitOf(r) == MapThenSumSet(LAMBDA q : r[q] * 4^q, Quadrant)

\* As super_wins finds them in tables
WinsFrom == [side \in SUBSET Spot |-> {BitOf(r) : r \in super_wins(side)}] @@ <<>>
WinsOf(side) == WinsFrom[side]
NeighborsOf == [i \in Bits |-> {BitOf(r) : r \in Neighbors([q \in Quadrant |-> Turn(i, q)])}]
rmaxOf(super) == UNION {NeighborsOf[i] : i \in super}
Stones(s0, s1) == Cardinality(s0) + Cardinality(s1)

\* superinfo_t: rotations about which something is known, and those where the player to move wins
Info(known, wins) == [known |-> known, wins |-> wins]
Agree(a, b) == a.known \cap b.known \cap ((a.wins \ b.wins) \cup (b.wins \ a.wins)) = {}
\* What is known already stays
Learn(info, wins) == Info(info.known \cup wins, info.wins \cup (wins \ info.known))
-----------------------------------------------------------------------------
(***************************************************************************)
(* Standard boards, and symmetries: turns of quadrants, then one of the    *)
(* whole board.                                                            *)
(***************************************************************************)
Part(side, q) == {c \in Cell : SpotOf(q, c) \in side}
Moved(g, c, t) == g.cell[Turns[t][c]]
QuadrantNumber(g, p0, p1, t) ==
  MapThenSumSet(LAMBDA c : 3^Moved(g, c, t), p0) + 2 * MapThenSumSet(LAMBDA c : 3^Moved(g, c, t), p1)

BestTurn == [g \in Symmetric |-> [p \in {x \in (SUBSET Cell) \X (SUBSET Cell) : x[1] \cap x[2] = {}} |->
  CHOOSE t \in 0 .. 3 : \A u \in 0 .. 3 :
    \/ QuadrantNumber(g, p[1], p[2], t) < QuadrantNumber(g, p[1], p[2], u)
    \/ QuadrantNumber(g, p[1], p[2], t) = QuadrantNumber(g, p[1], p[2], u) /\ t <= u] @@ <<>>] @@ <<>>

Transformed(s, side) ==
  {SpotOf(s.global.quadrant[quadrant(p)], s.global.cell[p % Cells]) : p \in TurnedBy(side, s.local)}

\* What holds of a board at i holds of the transformed board at Carried(s, i)
Carried(s, i) == MapThenSumSet(LAMBDA q :
  ((s.global.sign * (Turn(i, q) - s.local[q])) % 4) * 4^s.global.quadrant[q], Quadrant)
transform_super(s, super) == {Carried(s, i) : i \in super}
transform_back(s, super) == {i \in Bits : Carried(s, i) \in super}

BoardNumber(s0, s1) ==
  MapThenSumSet(LAMBDA p : 3^p, s0) + 2 * MapThenSumSet(LAMBDA p : 3^p, s1)

Standard(s0, s1, s) == [board |-> <<Transformed(s, s0), Transformed(s, s1)>>, symmetry |-> s]
LeastOf(all, number) == CHOOSE t \in all : \A u \in all : number[t] <= number[u]

superstandardize(s0, s1) ==
  LET Local(g) == [q \in Quadrant |-> BestTurn[g][<<Part(s0, q), Part(s1, q)>>]]
      Least(all) == LeastOf(all, [s \in all |-> BoardNumber(Transformed(s, s0), Transformed(s, s1))] @@ <<>>)
  IN Standard(s0, s1, Least({[global |-> g, local |-> Local(g)] : g \in Symmetric}))
-----------------------------------------------------------------------------
(***************************************************************************)
(* The table.                                                              *)
(***************************************************************************)
NoKey == [board |-> << >>, aggressive |-> FALSE]
NoEntry == [key |-> NoKey, depth |-> 0, known |-> {}, wins |-> {}]
NewTable == [i \in 0 .. Slots - 1 |-> NoEntry]

\* hash_board mixes the bits of a board, and the lowest ones choose the slot
Slot(key) == (BoardNumber(key.board[1], key.board[2]) + (IF key.aggressive THEN 1 ELSE 0)) % Slots

\* Mutant of OneSided: white's gains at a small depth are taken for final
BothSided(aggressive, info) == info

\* What a search to a small depth says for any depth: only black wins
OneSided(aggressive, info) ==
  IF aggressive THEN Info(info.known \cap info.wins, info.wins) ELSE Info(info.known \ info.wins, {})

Useful(aggressive, depth, key, entry) ==
  LET found == Info(entry.known, entry.wins)
  IN IF entry.key # key THEN Info({}, {})
     ELSE IF depth > entry.depth THEN OneSided(aggressive, found) ELSE found

Entry(key, symmetry, useful) ==
  [key |-> key, symmetry |-> symmetry, info |-> Info(transform_back(symmetry, useful.known), transform_back(symmetry, useful.wins))]

super_lookup(t, b) ==
  LET At(key, symmetry) == Entry(key, symmetry, Useful(b.aggressive, b.depth, key, t[Slot(key)]))
      Found(standard) == At([board |-> standard.board, aggressive |-> b.aggressive], standard.symmetry)
  IN Found(superstandardize(b.s0, b.s1))

\* What holds to the depth of both
AtDepth(d, deep, aggressive, info) == IF d < deep THEN OneSided(aggressive, info) ELSE info

\* Both at the greater of their depths, the new one deciding.  An
\* inconsistency is thrown, and nothing is stored.
Merge(t, i, deep, new, old) ==
  IF Agree(new, old)
  THEN [table |-> [t EXCEPT ![i].depth = deep, ![i].known = old.known \cup new.known, ![i].wins = (old.wins \ new.known) \cup new.wins],
        thrown |-> FALSE]
  ELSE [table |-> t, thrown |-> TRUE]

Store(t, b, key, i, info) ==
  LET deep == Max({b.depth, t[i].depth})
  IN IF t[i].key = key
     THEN Merge(t, i, deep, AtDepth(b.depth, deep, b.aggressive, info),
                AtDepth(t[i].depth, deep, b.aggressive, Info(t[i].known, t[i].wins)))
     ELSE [table |-> IF b.depth < t[i].depth THEN t
                     ELSE [t EXCEPT ![i] = [key |-> key, depth |-> b.depth, known |-> info.known, wins |-> info.wins]],
           thrown |-> FALSE]

super_store(t, b, data, info) ==
  Store(t, b, data.key, Slot(data.key), Info(transform_super(data.symmetry, info.known), transform_super(data.symmetry, info.wins)))
-----------------------------------------------------------------------------
(***************************************************************************)
(* What a board is worth without a look at its children.  key is NoKey if  *)
(* the table was not asked, as it then is not told.  A board on the way is *)
(* a record: whether the player to move is the aggressive one, the depth   *)
(* left, and the sides, his own first.                                     *)
(***************************************************************************)
\* Where black, the aggressive player, wins within n moves, by the rules alone: a
\* line ends the game when a stone makes it, and when a turn makes it
RECURSIVE BlackWins(_, _, _, _)
BlackWins(n, aggressive, s0, s1) ==
  LET black == WinsOf(IF aggressive THEN s0 ELSE s1)
      white == WinsOf(IF aggressive THEN s1 ELSE s0)
      After(p) == BlackWins(n - 1, ~aggressive, s1, s0 \cup {p})
      Placed(p) == WinsOf(s0 \cup {p})
      free == Spot \ (s0 \cup s1)
  IN (black \ white) \cup
     IF n = 0 \/ free = {} THEN {}
     ELSE IF aggressive THEN UNION {Placed(p) \cup rmaxOf(After(p)) : p \in free} \ (black \cup white)
     ELSE Bits \ (black \cup white \cup UNION {Placed(p) \cup rmaxOf(Bits \ After(p)) : p \in free})

\* What a block cache has
Exact(aggressive, s0, s1) ==
  LET black == BlackWins(Cardinality(Spot), aggressive, s0, s1) IN IF aggressive THEN black ELSE Bits \ black

Shallow(key, symmetry, info, thrown) == [key |-> key, symmetry |-> symmetry, info |-> info, thrown |-> thrown]

\* over is what ended games tell, and info what is known without the table
Evaluated(t, b, interesting, over, info, found) ==
  IF b.depth = 0 THEN Shallow(NoKey, << >>, Info(Bits, IF b.aggressive THEN over.wins ELSE over.wins \cup (Bits \ over.known)), FALSE)
  ELSE IF interesting \subseteq info.known THEN Shallow(NoKey, << >>, info, FALSE)
  ELSE IF Stones(b.s0, b.s1) \in CachedStones THEN Shallow(NoKey, << >>, Info(Bits, Exact(b.aggressive, b.s0, b.s1)), FALSE)
  ELSE Shallow(found.key, found.symmetry,
               Info(info.known \cup found.info.known, info.wins \cup (found.info.wins \ info.known)),
               ~Agree(info, found.info))

super_shallow_evaluate(t, b, interesting) ==
  LET wins1 == WinsOf(b.s1)
      safe == IF ~b.aggressive /\ b.depth <= 1 THEN rmaxOf(Bits \ wins1) ELSE {}
      Over(wins0) == Info(wins0 \cup wins1, IF b.aggressive THEN wins0 \ wins1 ELSE wins0)
      With(over) == Evaluated(t, b, interesting, over, Learn(over, safe), super_lookup(t, b))
  IN With(Over(WinsOf(b.s0)))
-----------------------------------------------------------------------------
(***************************************************************************)
(* How close black is to a line if he may turn quadrants as he likes:      *)
(* stones he lacks, and lines that lack as few.                            *)
(***************************************************************************)
Never == Max({Cardinality(l) : l \in Line}) + 1

Lacks == [l \in {Part(m, q) : m \in Line, q \in Quadrant} |->
  [p \in {x \in (SUBSET Cell) \X (SUBSET Cell) : x[1] \cap x[2] = {}} |->
     Min({Never} \cup {Cardinality(l \ {Turns[t][c] : c \in p[1]}) : t \in {u \in 0 .. 3 : \A c \in p[2] : Turns[u][c] \notin l}})] @@ <<>>] @@ <<>>

ClosestOf(lacks, least) == [distance |-> least, ways |-> Cardinality({l \in Line : lacks[l] = least})]

closeness(black, white) ==
  LET With(lacks) == ClosestOf(lacks, Min({lacks[l] : l \in Line} \cup {Never}))
  IN With([l \in Line |-> MapThenSumSet(LAMBDA q : Lacks[Part(l, q)][<<Part(black, q), Part(white, q)>>], Quadrant)])

\* Mutant of Unreachable: as if the one to move were never black
UnreachableSoon(aggressive, depth, near) == near.distance = Never \/ near.distance > (depth - 1) \div 2

\* Out of black's reach in the moves he has left
Unreachable(aggressive, depth, near) ==
  near.distance = Never \/ near.distance > (depth - (IF aggressive THEN 1 ELSE 0)) \div 2

\* For the aggressive player the closest first, for the other one the farthest
Sooner(aggressive, a, b) ==
  IF aggressive THEN a.distance < b.distance \/ (a.distance = b.distance /\ a.ways > b.ways)
  ELSE a.distance > b.distance \/ (a.distance = b.distance /\ a.ways < b.ways)

-----------------------------------------------------------------------------
(***************************************************************************)
(* super_evaluate_recurse.  A search in progress is a record: the table,   *)
(* what is known, rotations where a child may still be a win, children to  *)
(* expand as they lie in an array, what is reported of children, and       *)
(* whether it is over.                                                     *)
(***************************************************************************)
\* unordered_map::insert: what is reported first of a child stays
Report(results, p, immediate, info) == results @@ (p :> [immediate |-> immediate, info |-> info])

Child(b, p) == [aggressive |-> ~b.aggressive, depth |-> b.depth - 1, s0 |-> b.s1, s1 |-> b.s0 \cup {p}]
Near(b, p) == IF b.aggressive THEN closeness(b.s0 \cup {p}, b.s1) ELSE closeness(b.s1, b.s0 \cup {p})

\* Where the opponent loses after a move we win before it
Gain(info, child) == Learn(info, rmaxOf(child.known \ child.wins))
Possible(child) == rmaxOf(Bits \ child.known)

\* One goes, and the last child takes its place, before those that were looked at
LastFirst(later) == IF later = <<>> THEN later ELSE <<Last(later)>> \o Front(later)

\* A child evaluated shallowly, where it is not known at once: nothing more to ask of
\* it, or one to expand
Looked(at, b, p, important, immediate, mask, child, gained) ==
  LET next == [at EXCEPT !.info = gained, !.results = Report(@, p, immediate, IF b.aggressive THEN Info({}, {}) ELSE child.info)]
  IN IF child.thrown THEN [at EXCEPT !.thrown = TRUE, !.over = TRUE]
     ELSE IF important \subseteq gained.known THEN [next EXCEPT !.over = TRUE]
     ELSE IF mask \subseteq child.info.known 
       THEN [next EXCEPT !.possible = @ \cup Possible(child.info), !.children = LastFirst(@)]
     ELSE [next EXCEPT !.children = <<[spot |-> p, data |-> child]>> \o @]

LookAt(at, b, p, important) ==
  LET immediate == IF b.aggressive THEN WinsOf(b.s0 \cup {p}) \ WinsOf(b.s1) ELSE {}
      info == Learn(at.info, immediate)
      Seen(mask, child) == Looked(at, b, p, important, immediate, mask, child, Gain(info, child.info))
      Masked(mask) == Seen(mask, super_shallow_evaluate(at.table, Child(b, p), mask))
  IN Masked(rmaxOf(important \ info.known))

\* From the last move to the first
RECURSIVE Look(_, _, _, _)
Look(at, b, important, rest) ==
  IF at.over \/ rest = {} THEN at
  ELSE Look(LookAt(at, b, Max(rest), important), b, important, rest \ {Max(rest)})

\* How close each child is.  Those out of black's reach need not be tried; the child that
\* takes the place of one of them is sorted by what was found of the other one
Ordered(c, near, far, later) ==
  IF ~far THEN <<[spot |-> c.spot, data |-> c.data, near |-> near]>> \o later
  ELSE IF later = <<>> THEN later
  ELSE LastFirst([later EXCEPT ![Len(later)].near = near])

\* The most promising first, and of those as promising the first in the array
Sorted(children, aggressive) ==
  LET nth(i) == [at |-> i, child |-> children[i]]
      First(a, b) == \/ Sooner(aggressive, a.child.near, b.child.near)
                     \/ ~Sooner(aggressive, b.child.near, a.child.near) /\ a.at < b.at
      sorted == SortSeq([i \in 1 .. Len(children) |-> nth(i)], First)
  IN [i \in 1 .. Len(children) |-> sorted[i].child]

Limited(children, aggressive) ==
  IF aggressive THEN SubSeq(children, 1, Min({super_move_limit, Len(children)})) ELSE children

\* A child out of black's reach: white wins everywhere
Chosen(at, b, children) ==
  IF ~b.aggressive /\ Len(children) < Len(at.children) THEN [at EXCEPT !.info = Info(Bits, Bits), !.over = TRUE]
  ELSE IF b.depth = 1 /\ children # <<>> THEN [at EXCEPT !.over = TRUE]
  ELSE [at EXCEPT !.children = Limited(Sorted(children, b.aggressive), b.aggressive)]

Prune(at, remember, b) ==
  LET Reached(c, near, later) == Ordered(c, near, ~remember /\ Unreachable(b.aggressive, b.depth, near), later)
  IN IF at.over THEN at
     ELSE Chosen(at, b, FoldRight(LAMBDA c, later : Reached(c, Near(b, c.spot), later), at.children, <<>>))

RECURSIVE super_evaluate_recurse(_, _, _, _, _)

\* A child searched: its gains, or the next one
Expanded(at, c, important, child, gained) ==
  LET next == [at EXCEPT !.table = child.table, !.info = gained, !.children = Tail(@),
                         !.results = Report(@, c.spot, {}, child.info), !.possible = @ \cup Possible(child.info)]
  IN IF child.thrown THEN [at EXCEPT !.table = child.table, !.thrown = TRUE, !.over = TRUE]
     ELSE [next EXCEPT !.over = important \subseteq gained.known]

Expand(at, b, c, important) ==
  LET Searched(child) == Expanded(at, c, important, child, Gain(at.info, child.info))
  IN Searched(super_evaluate_recurse(at.table, FALSE, Child(b, c.spot), c.data, rmaxOf(important \ at.info.known)))

\* One child after the other
RECURSIVE Deeper(_, _, _)
Deeper(at, b, important) ==
  IF at.over THEN at
  ELSE IF at.children = <<>> THEN [at EXCEPT !.info.known = @ \cup (Bits \ at.possible)]
  ELSE Deeper(Expand(at, b, Head(at.children), important), b, important)

Stored(last, stored) == [last EXCEPT !.table = stored.table, !.thrown = stored.thrown]
Remember(last, b, data) ==
  IF last.thrown \/ data.key = NoKey THEN last ELSE Stored(last, super_store(last.table, b, data, last.info))

super_evaluate_recurse(t, remember, b, data, important) ==
  LET free == Spot \ (b.s0 \cup b.s1)
      first == [table |-> t, info |-> data.info, possible |-> {}, children |-> <<>>, results |-> <<>>, over |-> FALSE, thrown |-> FALSE]
      looked == Look(first, b, important, IF remember /\ free = Spot THEN Opening ELSE free)
  IN Remember(Deeper(Prune(looked, remember, b), b, important), b, data)
-----------------------------------------------------------------------------
(***************************************************************************)
(* The drivers.  A search never goes past the end of the game.  A score is *)
(* 2 for a win of the player to move and 0 for a loss, both for good, and  *)
(* 1 for a tie as far as the search went.                                  *)
(***************************************************************************)
Room(s0, s1) == Cardinality(Spot) - Stones(s0, s1)
Score(aggressive, wins) == (IF aggressive THEN 1 ELSE 0) + (IF wins THEN 1 ELSE 0)
Returned(at, found) == [table |-> at.table, thrown |-> at.thrown, value |-> found]

Asked(q) == [aggressive |-> q.aggressive, depth |-> Min({q.depth, Room(q.s0, q.s1)}), s0 |-> q.s0, s1 |-> q.s1]

One(b, r, deep) ==
  [Returned(deep, Score(b.aggressive, r \in deep.info.wins)) EXCEPT !.thrown = @ \/ r \notin deep.info.known]

super_evaluate(t, b, r) ==
  LET With(data) ==
        IF data.thrown THEN [table |-> t, thrown |-> TRUE, value |-> 1]
        ELSE IF r \in data.info.known THEN [table |-> t, thrown |-> FALSE, value |-> Score(b.aggressive, r \in data.info.wins)]
        ELSE One(b, r, super_evaluate_recurse(t, FALSE, b, data, {r}))
  IN With(super_shallow_evaluate(t, b, {r}))

All(deep) == [Returned(deep, deep.info.wins) EXCEPT !.thrown = @ \/ deep.info.known # Bits]

super_evaluate_all(t, b) ==
  LET With(data) ==
        IF data.thrown THEN [table |-> t, thrown |-> TRUE, value |-> {}]
        ELSE IF data.info.known = Bits THEN [table |-> t, thrown |-> FALSE, value |-> data.info.wins]
        ELSE All(super_evaluate_recurse(t, FALSE, b, data, Bits))
  IN With(super_shallow_evaluate(t, b, Bits))

\* Moves with the rotation they lead to, or none if the stone wins at once, and their scores
Children(b, r, p, of) ==
  IF r \in of.immediate THEN {[spot |-> p, to |-> r, score |-> Score(b.aggressive, TRUE)]}
  ELSE {[spot |-> p, to |-> u, score |-> Score(b.aggressive, u \notin of.info.wins)] : u \in NeighborsOf[r] \cap of.info.known}

Unless(at, found) == [Returned(at, found) EXCEPT !.thrown = @ \/ found = {}]

super_evaluate_children(t, b, r) ==
  LET unknown(data) == [data EXCEPT !.info = Info(@.known \ {r}, @.wins \ {r})]
      Reported(deep) == Unless(deep, UNION {Children(b, r, p, deep.results[p]) : p \in DOMAIN deep.results})
      With(data) == IF data.thrown THEN [table |-> t, thrown |-> TRUE, value |-> {}]
                    ELSE Reported(super_evaluate_recurse(t, TRUE, b, unknown(data), {r}))
  IN With(super_shallow_evaluate(t, b, {r}))
-----------------------------------------------------------------------------
(***************************************************************************)
(* Searches one after the other.                                           *)
(***************************************************************************)
NoAnswer == [kind |-> "none", thrown |-> FALSE]

Init ==
  /\ table = NewTable
  /\ answer = NoAnswer
  /\ searches = 0
  /\ deepest = 0

Started(q) ==
  /\ searches < MaxSearches
  /\ searches' = searches + 1
  /\ deepest' = Max({q.depth + Stones(q.s0, q.s1), deepest})

Ended(q, result) ==
  /\ table' = result.table
  /\ answer' = [q EXCEPT !.thrown = result.thrown, !.value = result.value]

EvaluateOne == \E q \in Requests :
  /\ q.kind = "one"
  /\ Started(q)
  /\ Ended(q, super_evaluate(table, Asked(q), q.rotation))

EvaluateAll == \E q \in Requests :
  /\ q.kind = "all"
  /\ Started(q)
  /\ Ended(q, super_evaluate_all(table, Asked(q)))

EvaluateChildren == \E q \in Requests :
  /\ q.kind = "children"
  /\ Started(q)
  /\ Ended(q, super_evaluate_children(table, Asked(q), q.rotation))

clear_supertable ==
  /\ table # NewTable
  /\ table' = NewTable
  /\ answer' = NoAnswer
  /\ deepest' = 0
  /\ UNCHANGED searches

Next == EvaluateOne \/ EvaluateAll \/ EvaluateChildren \/ clear_supertable
Spec == Init /\ [][Next]_vars
-----------------------------------------------------------------------------
\* Exact values reach to the end of the game, and others as far as some search went
Horizon == IF \E n \in CachedStones : n <= deepest THEN Cardinality(Spot) ELSE deepest

\* Black's wins are real, and where white is said to win black does not win in that many moves
Sound(aggressive, depth, s0, s1, info) ==
  LET black == IF aggressive THEN info.wins ELSE info.known \ info.wins
      white == info.known \ black
  IN /\ black = {} \/ black \subseteq BlackWins(Horizon - Stones(s0, s1), aggressive, s0, s1)
     /\ white = {} \/ white \cap BlackWins(depth, aggressive, s0, s1) = {}

\* Whatever was searched before and to whatever depth, an entry of the table says
\* nothing wrong about its board at its depth
EntriesSound ==
  \A i \in DOMAIN table : LET e == table[i] IN
    e.key # NoKey => Sound(e.key.aggressive, e.depth, e.key.board[1], e.key.board[2], Info(e.known, e.wins))

\* A search finds every win within its depth, and no win that is not there, if black's moves are
\* not limited (super_move_limit); and it ends without a failed assertion (superengine.cc:82, 307
\* and 333).  Of the one in the table, supertable.cc:146 says that it can fail where nothing is
\* wrong; it does not in these searches
AnswersRight ==
  LET q == answer
      Black(score) == IF q.aggressive THEN score = 2 ELSE score = 0
  IN q.kind \in {"one", "all"} =>
     /\ ~q.thrown
     /\ Sound(q.aggressive, q.depth, q.s0, q.s1,
              IF q.kind = "all" THEN Info(Bits, q.value)
              ELSE Info({q.rotation}, IF Black(q.value) = q.aggressive THEN {q.rotation} ELSE {}))

\* "Evaluate enough children to determine who wins, and return the results"
\* (superengine.cc:337): a child that wins for the player to move, or else all of them.  This does not hold:
\* the README's findings say why
ChildrenDecide ==
  LET q == answer
      Wins(c) == c.score = Score(q.aggressive, TRUE)
  IN q.kind = "children" =>
     /\ ~q.thrown
     /\ \/ \E c \in q.value : Wins(c)
        \/ \A p \in Spot \ (q.s0 \cup q.s1), i \in NeighborsOf[q.rotation] : \E c \in q.value : c.spot = p /\ c.to = i
=============================================================================

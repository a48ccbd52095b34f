------------------------------ MODULE Sections -------------------------------
(***************************************************************************)
(* Sections, the boards with given numbers of stones of each colour in     *)
(* each quadrant, and the rotation minimal quadrants that index them:      *)
(* base/section.cc, base/all_boards.cc, base/count.cc.  A section is a     *)
(* function from quadrants to pairs of counts.                             *)
(***************************************************************************)
EXTENDS Symmetries

CountOf(v) == <<Cardinality(unpack[v][1]), Cardinality(unpack[v][2])>>
count(board) == [q \in Quads |-> CountOf(board[q])]
Stones(pair) == pair[1] + pair[2]
SectionSum(s) == Stones(s[0]) + Stones(s[1]) + Stones(s[2]) + Stones(s[3])
-----------------------------------------------------------------------------
(***************************************************************************)
(* Quadrants that no rotation makes smaller, by stone counts.              *)
(***************************************************************************)
Rotated(v, r) == pack(all_rotations(unpack[v][1], r), all_rotations(unpack[v][2], r))
minq(v) == Min({Rotated(v, r) : r \in 0 .. 3})

\* As found one turn after the other
rotation_standardize_quadrant(v) ==
  LET Found(s, m) == <<m, Min({i \in 1 .. 4 : s[i] = m}) - 1>>
      Of(s) == Found(s, Min({s[i] : i \in 1 .. 4}))
  IN Of(<<v, Rotated(v, 1), Rotated(v, 2), Rotated(v, 3)>>)

\* The least rotation of its reflection
min_reflect(v) == minq(pack(reflections(unpack[v][1]), reflections(unpack[v][2])))
SigWith(v, r) == Min({v, r}) + (IF v = r THEN quadrant_count ELSE 0)
sig(v) == SigWith(v, min_reflect(v))

OfCounts(black, white) ==
  UNION {{pack(s0, s1) : s1 \in Subsets(white, Cells \ s0)} : s0 \in Subsets(black, Cells)}

rmins(black, white) == {v \in OfCounts(black, white) : minq(v) = v}

\* Mutant of rmins_index: by value, as a sort that did not pair reflections
rmins_by_value(black, white) ==
  LET bucket == rmins(black, white) IN [v \in bucket |-> Cardinality({u \in bucket : u < v})] @@ <<>>

\* Where the stable sort by sig leaves each
Sorted(bucket, key) ==
  [v \in bucket |-> Cardinality({u \in bucket : key[u] < key[v] \/ (key[u] = key[v] /\ u < v)})] @@ <<>>

SortedBySig(bucket) == Sorted(bucket, [v \in bucket |-> sig(v)] @@ <<>>)
rmins_index(black, white) == SortedBySig(rmins(black, white))

reflect_moved(black, white) == Cardinality({v \in rmins(black, white) : min_reflect(v) # v})

InverseAt(at, v, m) == 4 * at[m] + Min({r \in 0 .. 3 : Rotated(m, r) = v})
Inverses(at, all) == [v \in all |-> InverseAt(at, v, minq(v))] @@ <<>>
rmins_inverse(black, white) == Inverses(rmins_index(black, white), OfCounts(black, white))

-----------------------------------------------------------------------------
(***************************************************************************)
(* Operations of section_t.                                                *)
(***************************************************************************)
bucket_size == [p \in {c \in (0 .. 9) \X (0 .. 9) : Stones(c) <= 9} |-> Cardinality(rmins(p[1], p[2]))] @@ <<>>
shape(s) == [q \in Quads |-> bucket_size[s[q]]] @@ <<>>
size(s) == LET n == shape(s) IN n[0] * n[1] * n[2] * n[3]

\* Who moves is told by the number of stones
Mover(s) == 1 + (SectionSum(s) % 2)
child(s, q) == [s EXCEPT ![q][Mover(s)] = @ + 1]
parent(s, q) == [s EXCEPT ![q][3 - Mover(s)] = @ - 1]

section_transform(s, global) ==
  LET t == [q \in Quads |-> s[rotate_quadrants[1 + (global % 4)][q + 1]]]
  IN IF Reflects(global) THEN [t EXCEPT ![0] = t[3], ![3] = t[0]] ELSE t

\* As sig() orders them: quadrant 3 first, and white before black
SectionLess(s, t) ==
  \E q \in Quads : /\ \A p \in q + 1 .. 3 : s[p] = t[p]
                   /\ s[q][2] < t[q][2] \/ (s[q][2] = t[q][2] /\ s[q][1] < t[q][1])

section_standardize(s, symmetries) ==
  LET images == {section_transform(s, g) : g \in 0 .. symmetries - 1}
      best == CHOOSE t \in images : \A u \in images : ~SectionLess(u, t)
  IN <<best, Min({g \in 0 .. symmetries - 1 : section_transform(s, g) = best})>>

quadrant_permutation(global) ==
  LET t == section_transform([q \in Quads |-> <<q, 0>>], global)
  IN [i \in Quads |-> CHOOSE j \in Quads : t[j] = <<i, 0>>]

section_valid(s) ==
  LET total(c) == s[0][c] + s[1][c] + s[2][c] + s[3][c] IN
    /\ \A q \in Quads : Stones(s[q]) <= 9
    /\ total(1) \in {total(2), total(2) + 1}
-----------------------------------------------------------------------------
(***************************************************************************)
(* Enumerations: sections with n stones, boards with n stones.             *)
(***************************************************************************)
most(a, b) == Max({a, b})
least(a, b) == Min({a, b})

UnreducedSections(n) ==
  LET white == n \div 2
      black == n - white
      third == UNION {{<<b, w>> : w \in 0 .. least(white, 9 - b)} : b \in 0 .. least(black, 9)}
      second(p) == LET b == black - p[1]
                       w == white - p[2]
                   IN UNION {{<<c, d>> : d \in most(0, w - (18 - (b - c))) .. least(w, 9 - c)} : c \in 0 .. least(b, 9)}
      first_(p, o) == LET b == black - p[1] - o[1]
                          w == white - p[2] - o[2]
                      IN UNION {{<<c, d>> : d \in most(0, w - (9 - b + c)) .. least(w, 9 - c)} : c \in most(0, b - 9) .. least(b, 9)}
      zeroth(p, o, i) == <<black - p[1] - o[1] - i[1], white - p[2] - o[2] - i[2]>>
  IN UNION {UNION {{ (0 :> zeroth(p, o, i) @@ 1 :> i @@ 2 :> o @@ 3 :> p) : i \in first_(p, o)} : o \in second(p)} : p \in third}

all_boards_sections(n, symmetries) ==
  {s \in UnreducedSections(n) : symmetries = 1 \/ section_standardize(s, symmetries)[1] = s}

maybe_standardize(sides, symmetries) ==
  CASE symmetries = 1 -> PackBoard(sides)
    [] symmetries = 8 -> standardize(sides)
    [] symmetries = 2048 -> superstandardize(sides[1], sides[2])[1]

\* For each standard set of places, the boards that colour half of them white
all_boards(n, symmetries) ==
  LET filled == {maybe_standardize(<<s, {}>>, symmetries) : s \in Subsets(n, side_mask)}
      coloured(s) == {maybe_standardize(<<s \ white, white>>, symmetries) : white \in Subsets(n \div 2, s)}
  IN {[black |-> b, boards |-> coloured(UnpackBoard(b)[1])] : b \in filled}

-----------------------------------------------------------------------------
(***************************************************************************)
(* count_boards: Polya's theorem.  Polynomials in the numbers of black and *)
(* white stones, cut off at the degree asked for.                          *)
(***************************************************************************)
GroupOf(symmetries) ==
  IF symmetries = 2048 THEN Symmetry ELSE {[global |-> g, local |-> 0] : g \in 0 .. symmetries - 1}

Orbits(s) ==
  LET to == [b \in side_mask |-> CHOOSE c \in transform_side(s, {b}) : TRUE] @@ <<>>
      Orbit[b \in side_mask, seen \in SUBSET side_mask] == IF b \in seen THEN seen ELSE Orbit[to[b], seen \cup {b}]
  IN {Orbit[b, {}] : b \in side_mask}

\* How many cycles there are of each length
cycles(s) ==
  LET Of(orbits) == [k \in 1 .. 36 |-> Cardinality({o \in orbits : Cardinality(o) = k})] @@ <<>> IN Of(Orbits(s))

MultiplyBy(f, k, b, w) == [m \in (0 .. b) \X (0 .. w) |->
  f[m] + (IF m[1] >= k THEN f[<<m[1] - k, m[2]>>] ELSE 0) + (IF m[2] >= k THEN f[<<m[1], m[2] - k>>] ELSE 0)] @@ <<>>

Coefficient(cycle, b, w) ==
  LET one == [m \in (0 .. b) \X (0 .. w) |-> IF m = <<0, 0>> THEN 1 ELSE 0]
      Power[k \in 1 .. 37, c \in 0 .. 36, f \in [(0 .. b) \X (0 .. w) -> Nat]] ==
        IF k = 37 THEN f[<<b, w>>]
        ELSE IF c < cycle[k] THEN Power[k, c + 1, MultiplyBy(f, k, b, w)] ELSE Power[k + 1, 0, f]
  IN Power[1, 0, one]

CycleIndex(symmetries) ==
  LET Counted(of) == [z \in {of[s] : s \in DOMAIN of} |-> Cardinality({s \in DOMAIN of : of[s] = z})] @@ <<>>
  IN Counted([s \in GroupOf(symmetries) |-> cycles(s)] @@ <<>>)

count_boards(n, symmetries) ==
  LET b == (n + 1) \div 2
      By(Z) == MapThenSumSet(LAMBDA z : Z[z] * Coefficient(z, b, n - b), DOMAIN Z) \div symmetries
  IN By(CycleIndex(symmetries))
-----------------------------------------------------------------------------
(***************************************************************************)
(* Counting without all rotations of a board.                              *)
(***************************************************************************)
log_count_local_stabilizers(v) == IF Rotated(v, 1) = v THEN 2 ELSE IF Rotated(v, 2) = v THEN 1 ELSE 0

popcounts_over_stabilizers(board, wins) ==
  LET Shifted(shift) == << popcount(wins[1]) \div 2^shift, popcount(wins[2]) \div 2^shift, 256 \div 2^shift >>
  IN Shifted(MapThenSumSet(LAMBDA q : log_count_local_stabilizers(board[q]), Quads))

\* How many sections a standard one stands for
Multiplier(s) == Cardinality({section_transform(s, g) : g \in Global})
sum_section_counts(counts) == MapThenSumSet(LAMBDA s : Multiplier(s) * counts[s], DOMAIN counts)
=============================================================================

----------------------------- MODULE Symmetries ------------------------------
(***************************************************************************)
(* The symmetries of a board whose quadrants turn freely: base/symmetry.h, *)
(* base/symmetry.cc and the tables they use.  A symmetry turns quadrant q  *)
(* as digit q of local says, then turns the board (global % 4), and then   *)
(* reflects it (global >= 4).                                              *)
(***************************************************************************)
EXTENDS Supers

Global == 0 .. 7
Local == 0 .. 255
Symmetry == [global : Global, local : Local]
TurnOfQuad(local, q) == Digit(local, 4, q)
FromTurns(t) == t[0] + 4 * (t[1] + 4 * (t[2] + 4 * t[3]))
Reflects(global) == global >= 4
-----------------------------------------------------------------------------
(***************************************************************************)
(* Permutations of the 36 squares 6*x+y, and the table of conjugates.      *)
(***************************************************************************)
Square == 0 .. 35
Permuted(at) == [i \in Square |-> at[i \div 6, i % 6]] @@ <<>>
Identity == Permuted([x \in 0 .. 5, y \in 0 .. 5 |-> 6 * x + y])
reflect == Permuted([x \in 0 .. 5, y \in 0 .. 5 |-> 6 * (5 - y) + (5 - x)])
gr == Permuted([x \in 0 .. 5, y \in 0 .. 5 |-> 6 * (5 - y) + x])
lr(q) == Permuted([x \in 0 .. 5, y \in 0 .. 5 |->
  LET x0 == 3 * (q \div 2)
      y0 == 3 * (q % 2)
  IN IF x - x0 \in 0 .. 2 /\ y - y0 \in 0 .. 2 THEN 6 * (x0 + 2 - (y - y0)) + y0 + (x - x0) ELSE 6 * x + y])

Times(g, h) == [i \in Square |-> g[h[i]]] @@ <<>>
inv(g) == [i \in Square |-> CHOOSE j \in Square : g[j] = i] @@ <<>>
FirstPowers(g, g2) == <<Identity, g, g2, Times(g, g2)>>
Powers(g) == FirstPowers(g, Times(g, g))
PowersOf == [q \in Quads |-> Powers(lr(q))] @@ <<>>

\* Here digit 0 is the turn of quadrant 3: an array indexed by the turns of 0, 1, 2, and 3
LocalSym == [j \in Local |->
  FoldLeft(Times, Identity, [q \in 1 .. 4 |-> PowersOf[q - 1][Digit(j, 4, 4 - q) + 1]])] @@ <<>>

Reflecting(r) == [g \in Global |-> IF g < 4 THEN r[g + 1] ELSE Times(reflect, r[g - 3])] @@ <<>>
GlobalSym == Reflecting(Powers(gr))

LocalId == [p \in {LocalSym[j] : j \in Local} |-> CHOOSE j \in Local : LocalSym[j] = p] @@ <<>>

Conjugated(g, back) == [j \in Local |-> LocalId[Times(back, Times(LocalSym[j], g))]] @@ <<>>
commute_global_local_symmetries == [g \in Global |-> Conjugated(GlobalSym[g], inv(GlobalSym[g]))] @@ <<>>
-----------------------------------------------------------------------------
(***************************************************************************)
(* The group.                                                              *)
(***************************************************************************)
TimesLocal(a, b) == FromTurns([q \in Quads |-> (TurnOfQuad(a, q) + TurnOfQuad(b, q)) % 4])

\* The high bit of a turn is flipped if the low one is set
InverseLocal(a) == FromTurns([q \in Quads |-> LET t == TurnOfQuad(a, q) IN IF t % 2 = 1 THEN (t + 2) % 4 ELSE t])

invert_global(g) == IF ~Reflects(g) /\ g % 2 = 1 THEN 4 - g ELSE g

InverseWith(g, local) == [global |-> g, local |-> commute_global_local_symmetries[g][InverseLocal(local)]]
inverse(s) == InverseWith(invert_global(s.global), s.local)

\* Mutant of Product: the turn is not taken back by a reflection after it
ProductAsIs(a, b) ==
  [global |-> 4 * (((a.global \div 4) + (b.global \div 4)) % 2) + ((a.global + b.global) % 4),
   local |-> TimesLocal(commute_global_local_symmetries[b.global][a.local], b.local)]

Product(a, b) ==
  LET turn == IF Reflects(b.global) /\ a.global % 2 = 1 THEN a.global + 2 ELSE a.global
  IN [global |-> 4 * (((a.global \div 4) + (b.global \div 4)) % 2) + ((turn + b.global) % 4),
      local |-> TimesLocal(commute_global_local_symmetries[b.global][a.local], b.local)]
-----------------------------------------------------------------------------
(***************************************************************************)
(* Their action on sides and boards.                                       *)
(***************************************************************************)
rotate_quadrants == << <<0, 1, 2, 3>>, <<1, 3, 0, 2>>, <<3, 2, 1, 0>>, <<2, 0, 3, 1>> >>

\* rotations[_][0] once or twice, or rotations[_][1]
TurnQuadrant(v, r) == CASE r = 0 -> v [] r = 1 -> rotations(v, 0) [] r = 2 -> rotations(rotations(v, 0), 0) [] r = 3 -> rotations(v, 1)

transform_side(s, side) ==
  LET turned == [q \in Quads |-> TurnQuadrant(quadrant(side, q), (s.global + TurnOfQuad(s.local, q)) % 4)]
      moved == [q \in Quads |-> turned[rotate_quadrants[1 + (s.global % 4)][q + 1]]]
      swapped == <<3, 1, 2, 0>>
  IN quadrants(IF Reflects(s.global) THEN [q \in Quads |-> reflections(moved[swapped[q + 1]])] ELSE moved)

transform_board(s, board) == PackBoard([k \in 1 .. 2 |-> transform_side(s, UnpackBoard(board)[k])])
-----------------------------------------------------------------------------
(***************************************************************************)
(* superstandardize: the least board, found quadrant by quadrant.          *)
(***************************************************************************)
\* Where rotation r of the board puts each quadrant
RotatePlaces == LET once == <<2, 0, 3, 1>>
                    twice == [i \in 1 .. 4 |-> once[once[i] + 1]]
                IN << <<0, 1, 2, 3>>, once, twice, [i \in 1 .. 4 |-> once[twice[i] + 1]] >>

superstandardize_table == [sig \in 0 .. 255 |->
  LET value(r) == MapThenSumSet(LAMBDA i : Digit(sig, 4, i) * 4^RotatePlaces[r + 1][i + 1], Quads)
      least == Min({value(r) : r \in Quads})
  IN Min({r \in Quads : value(r) = least})] @@ <<>>

\* The eight versions of a quadrant: turned, and turned and then reflected
Versions(s0, s1) ==
  LET turned(s) == <<s, rotations(s, 0), rotations(rotations(s, 0), 0), rotations(s, 1)>>
  IN [j \in 0 .. 7 |-> IF j < 4 THEN pack(turned(s0)[j + 1], turned(s1)[j + 1])
                       ELSE pack(reflections(turned(s0)[j - 3]), reflections(turned(s1)[j - 3]))] @@ <<>>

\* qmin[q] has the least version of a quadrant, and the least one reflected
Signature(qmin, f) ==
  LET place(q) == Cardinality({p \in Quads : qmin[q][f + 1] > qmin[p][f + 1]})
  IN place(3 * f) + 4 * (place(1) + 4 * (place(2) + 4 * place(3 - 3 * f)))

\* How far the quadrant must be turned for its least version, where the board is turned as well
LocalTurn(versions, least, o, turn) ==
  LET found == {r \in 0 .. 2 : versions[o + r] = least} IN ((IF found = {} THEN 3 ELSE Min(found)) + 4 - turn) % 4

WithSymmetry(board, versions, qmin, turn, o) ==
  << board, [global |-> turn + o, local |-> FromTurns([q \in Quads |-> LocalTurn(versions[q], qmin[q][1 + (o \div 4)], o, turn)])] >>

superstandardize(side0, side1) ==
  LET TheLess(versions, qmin, b0, r0, b1, r1) ==
        IF Less(b1, b0) THEN WithSymmetry(b1, versions, qmin, r1, 4) ELSE WithSymmetry(b0, versions, qmin, r0, 0)
      Both(versions, qmin, r0, r1) ==
        TheLess(versions, qmin,
                [q \in Quads |-> qmin[rotate_quadrants[r0 + 1][q + 1]][1]], r0,
                [q \in Quads |-> qmin[rotate_quadrants[r1 + 1][CASE q = 0 -> 4 [] q = 3 -> 1 [] OTHER -> q + 1]][2]], r1)
      Rotations(versions, qmin) ==
        Both(versions, qmin, superstandardize_table[Signature(qmin, 0)], (4 - superstandardize_table[Signature(qmin, 1)]) % 4)
      From(versions) ==
        Rotations(versions, [q \in Quads |-> << Min({versions[q][j] : j \in 0 .. 3}), Min({versions[q][j] : j \in 4 .. 7}) >>] @@ <<>>)
  IN From([q \in Quads |-> Versions(quadrant(side0, q), quadrant(side1, q))] @@ <<>>)
-----------------------------------------------------------------------------
(***************************************************************************)
(* Their action on a set of turns, so that a symmetry of what a board has  *)
(* is what the symmetric board has.                                        *)
(***************************************************************************)
RotateRight(s, k, mod, width) ==
  (Shr(s, k, width) \cap {b \in Bits256 : b % mod < mod - k}) \cup
  (Shl(s, (mod - k) % mod, width) \cap {b \in Bits256 : b % mod >= mod - k})

\* Bits at distance d exchanged where the mask has the lower one
Exchange(s, d, mask, width) ==
  LET t == Xor(s, Shr(s, d, width)) \cap mask IN Xor(s, Xor(t, Shl(t, d, width)))

LOW_TRANSPOSE(s, i, j) ==
  LET ii == 4^i
      jj == 4^j
      kk == 4^(3 - i - j)
      mask(at) == {b \in Bits256 : b % 64 \in {n * kk + a : n \in 0 .. 3, a \in at}}
      once == Exchange(s, jj - ii, mask({ii, 3 * ii, ii + 2 * jj, 3 * ii + 2 * jj}), 64)
  IN Exchange(once, 2 * (jj - ii), mask({2 * ii, 3 * ii, 2 * ii + jj, 3 * ii + jj}), 64)

TRANSPOSE_23(s, sse) ==
  IF ~sse THEN {64 * ((b \div 16) % 4) + 16 * (b \div 64) + (b % 16) : b \in s}
  ELSE LET c == Exchange(s, 48, {b \in Bits256 : b % 128 < 64 /\ (b \div 16) % 2 = 1}, 128)
           m == {b \in Bits256 : b < 128 /\ (b \div 32) % 2 = 1}
           t == Xor(c, {b + 32 - 128 : b \in {a \in c : a >= 128 /\ a + 32 < 256}}) \cap m
       IN Xor(c, t \cup {b + 128 - 32 : b \in t})

HALF_NEGATE(s) ==
  Exchange(Exchange(Exchange(s, 2, {b \in Bits256 : b % 4 = 1}, 16),
                    8, {b \in Bits256 : b % 16 \in 4 .. 7}, 16),
           32, {b \in Bits256 : b % 64 \in 16 .. 31}, 64)

transpositions == <<
  << >>, << <<0, 1>>, <<0, 2>>, <<2, 3>> >>, << <<0, 2>>, <<0, 1>>, <<2, 3>>, <<0, 2>> >>, << <<2, 3>>, <<0, 2>>, <<0, 1>> >>,
  << <<0, 2>>, <<2, 3>>, <<0, 2>> >>, << <<0, 2>>, <<1, 2>>, <<2, 3>>, <<1, 2>> >>, << <<1, 2>> >>, << <<0, 1>>, <<2, 3>> >> >>

TransposeAs(s, list, sse) ==
  FoldLeft(LAMBDA c, t : IF t = <<2, 3>> THEN TRANSPOSE_23(c, sse) ELSE LOW_TRANSPOSE(c, t[1], t[2]), s, list)

Half_(s, r) == IF r >= 2 THEN SwapRegisters(s) ELSE s
NextWord(s, half, sse) ==
  IF sse THEN (half \cap LowGroups[64]) \cup (SwapRegisters(half) \ LowGroups[64])
  ELSE Chunks([i \in 0 .. 3 |-> Chunk(s, (i + 1) % 4)])
TurnLast(s, r, sse) == Half_(IF r % 2 = 1 THEN NextWord(s, SwapHalves(s), sse) ELSE s, r)

Turnback(s, local, sse) ==
  LET r(q) == TurnOfQuad(local, q)
      lane == IF sse THEN 16 ELSE 64
  IN TurnLast(RotateRight(RotateRight(RotateRight(s, r(0), 4, lane), 4 * r(1), 16, lane), 16 * r(2), 64, 64), r(3), sse)

Negated(negated) == Chunks([i \in 0 .. 3 |-> Chunk(negated, (4 - i) % 4)])
ReflectedIf(reflects, s) == IF reflects THEN Negated(HALF_NEGATE(s)) ELSE s

transform_super_in(s, C, sse) ==
  ReflectedIf(Reflects(s.global), TransposeAs(Turnback(C, s.local, sse), Reverse(transpositions[s.global + 1]), sse))
=============================================================================

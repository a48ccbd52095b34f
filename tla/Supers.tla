------------------------------- MODULE Supers --------------------------------
(***************************************************************************)
(* super_t as the code computes with it: 256 bits, bit i0+4*(i1+4*(i2+4*i3)) *)
(* for the turns i0..i3 of the quadrants, in vector registers x, y of 128  *)
(* bits (sse) or in words a, b, c, d of 64 (no sse).  What the operations  *)
(* promise is in Pentago; here are their shifts, masks, and shuffles.      *)
(***************************************************************************)
EXTENDS Boards

Bits256 == 0 .. 255
TurnOf(b, q) == Digit(b, 4, q)

Chunk(s, i) == Lane(s, i, 64)
Chunks(word) == UNION {{b + 64 * i : b \in word[i]} : i \in 0 .. 3}

\* Every other group of k bits
LowGroups == [k \in {1, 2, 4, 8, 16, 32, 64} |-> {b \in Bits256 : b % (2 * k) < k}] @@ <<>>
HighGroups(k) == Bits256 \ LowGroups[k]

\* _mm_shuffle_*: in each group of four words of the width, word i becomes word order[i]
Shuffle(s, order, width) ==
  {b \in Bits256 : 4 * width * (b \div (4 * width)) + width * order[1 + ((b \div width) % 4)] + (b % width) \in s}

\* The registers x and y, or their halves, exchanged
SwapRegisters(s) == {(b + 128) % 256 : b \in s}
SwapHalves(s) == Shuffle(s, <<2, 3, 0, 1>>, 32)
-----------------------------------------------------------------------------
(***************************************************************************)
(* rmax(f)(a) is the maximum of f(a+b) for the eight single turns b.       *)
(***************************************************************************)
\* One turn of the quadrant at 1, 4 or 16 bits, by shifts within lanes
TurnedByShifts(f, unit, width) ==
  LET each == {b \in Bits256 : b % (4 * unit) < unit} IN
    (Shl(f, unit, width) \ each) \cup
    (Shr(f, 3 * unit, width) \cap each) \cup
    (Shr(f, unit, width) \cap Shr(Bits256 \ each, unit, width)) \cup
    (Shl(f, 3 * unit, width) \cap Shl(each, 3 * unit, width))

rmax_sse(f) ==
  LET s == SwapHalves(f)
      low == LowGroups[64]
  IN TurnedByShifts(f, 1, 32) \cup TurnedByShifts(f, 4, 32)
     \cup Shuffle(f, <<3, 0, 1, 2>>, 16) \cup Shuffle(f, <<1, 2, 3, 0>>, 16)
     \cup (SwapRegisters(s) \cap low) \cup (s \ low)
     \cup (s \cap low) \cup (SwapRegisters(s) \ low)

rmax_words(f) ==
  TurnedByShifts(f, 1, 64) \cup TurnedByShifts(f, 4, 64) \cup TurnedByShifts(f, 16, 64)
  \cup Chunks([i \in 0 .. 3 |-> Chunk(f, (i + 1) % 4) \cup Chunk(f, (i + 3) % 4)])
-----------------------------------------------------------------------------
(***************************************************************************)
(* superwin_info: where a side has its part of a win, the ways to win told *)
(* apart by the turns of the quadrants that they do not need.              *)
(***************************************************************************)
WinTypes == <<
  <<"v", "v", "-", "-">>, <<"h", "-", "h", "-">>, <<"-", "h", "-", "h">>, <<"-", "-", "v", "v">>,
  <<"l", "-", "a", "l">>, <<"u", "a", "-", "u">>, <<"a", "l", "l", "-">>, <<"-", "u", "u", "a">> >>

Unused(p) == Ascending({q \in Quads : WinTypes[p][q + 1] = "-"})

\* Those that have something in the quadrants used, and nothing in the others
Ways == [p \in 1 .. 8 |->
  Ascending({i \in Pattern : \A q \in Quads : WinTypes[p][q + 1] = "a" \/ (Part[i][q] # {}) = (WinTypes[p][q + 1] # "-")})] @@ <<>>

WayAt(p, b) ==
  LET u == Unused(p) IN IF Len(u) = 1 THEN TurnOf(b, u[1]) ELSE 4 * TurnOf(b, u[1]) + TurnOf(b, u[2])

WayPlaces == [p \in 1 .. 8 |-> [b \in Bits256 |-> WayAt(p, b)] @@ <<>>] @@ <<>>

WayWith(q, type) == CHOOSE i \in 1 .. 8 : WinTypes[i][q + 1] = type
InfoWith(q, places, has) == {b \in Bits256 : places[b] + 1 \in has[TurnOf(b, q)]}
HasPart(q, v, way) == {k \in DOMAIN way : Part[way[k]][q] \subseteq v}

superwin_info(q, v, type) ==
  InfoWith(q, WayPlaces[WayWith(q, type)],
           [r \in 0 .. 3 |-> HasPart(q, all_rotations(v, r), Ways[WayWith(q, type)])] @@ <<>>)
-----------------------------------------------------------------------------
(***************************************************************************)
(* super_wins: OR<i> makes w independent of the turn of quadrant i.        *)
(***************************************************************************)
UpTo(w, k) == w \cup Shl(w, k, 64)
DownUp(w, k) == UpTo((w \cup Shr(w, k, 64)) \cap LowGroups[k], k)
DownFrom(w, k) == w \cup Shr(w, k, 16)
UpDown(w, k) == DownFrom(w \cup Shl(w, k, 16), k)

\* Bits that an addition or a shift of 16 bit lanes moves, under a mask
Up(w, k) == w \cup (Shl(w, k, 16) \cap HighGroups(k))
Down(w, k) == w \cup (Shr(w, k, 16) \cap LowGroups[k])

\* Mutant of OR0: two turns only
OR0_HALF(w, sse) == IF sse THEN Down(Up(w, 1), 1) ELSE DownUp(w, 1)

OR0(w, sse) == IF sse THEN Down(Up(Down(Up(w, 1), 1), 2), 2) ELSE DownUp(DownUp(w, 2), 1)

OR1(w, sse) == IF sse THEN UpDown(UpDown(w, 4), 8) ELSE DownUp(DownUp(w, 8), 4)

OrNext(w, width) == w \cup Shuffle(w, <<1, 0, 3, 2>>, width)
OR2(w, sse) == IF sse THEN OrNext(OrNext(w, 32), 16) ELSE DownUp(DownUp(w, 32), 16)

OrHalves(x) == x \cup SwapHalves(x)
OrRegisters(x) == x \cup SwapRegisters(x)
EachWord(w) == Chunks([i \in 0 .. 3 |-> w])
OR3(w, sse) == IF sse THEN OrRegisters(OrHalves({b \in OrRegisters(w) : b < 128})) ELSE EachWord(UNION {Chunk(w, i) : i \in 0 .. 3})

\* i[q, type] is the part of the quadrant
WinsByParts(i, sse) ==
  OR2(OR3(i[0, "v"] \cap i[1, "v"], sse), sse)
  \cup OR1(OR3(i[0, "h"] \cap i[2, "h"], sse), sse)
  \cup OR2(OR0(i[1, "h"] \cap i[3, "h"], sse), sse)
  \cup OR1(OR0(i[2, "v"] \cap i[3, "v"], sse), sse)
  \cup OR1(i[0, "l"] \cap i[2, "a"] \cap i[3, "l"], sse)
  \cup OR2(i[0, "u"] \cap i[1, "a"] \cap i[3, "u"], sse)
  \cup OR3(i[1, "l"] \cap i[0, "a"] \cap i[2, "l"], sse)
  \cup OR0(i[1, "u"] \cap i[3, "a"] \cap i[2, "u"], sse)

super_wins_in(side, sse) ==
  WinsByParts([q \in Quads, type \in {"v", "h", "l", "u", "a"} |-> superwin_info(q, quadrant(side, q), type)] @@ <<>>, sse)

popcount(s) == Cardinality(s)
-----------------------------------------------------------------------------
(***************************************************************************)
(* Interleaved supers: bit 2*k is the first's bit k, 2*k+1 the second's.   *)
(***************************************************************************)
Spread(w, k) == (w \cup Shl(w, k, 64)) \cap LowGroups[k]
Gather(w, k) == (w \cup Shr(w, k, 64)) \cap LowGroups[2 * k]

Expand(w) == Spread(Spread(Spread(Spread(Spread(w, 16), 8), 4), 2), 1)
Contract(w) == Gather(Gather(Gather(Gather(Gather(w \cap LowGroups[1], 1), 2), 4), 8), 16)

\* Four halves of words, each in a word of its own, and back
Wide(s, from) == Chunks([i \in 0 .. 3 |-> Lane(s, from + i, 32)])
Narrow(lo, hi) ==
  UNION {{b + 32 * i : b \in Chunk(lo, i) \cap 0 .. 31} \cup {b + 32 * (i + 4) : b \in Chunk(hi, i) \cap 0 .. 31} : i \in 0 .. 3}

interleave_super(s) ==
  [i \in 1 .. 2 |-> Expand(Wide(s[1], 4 * (i - 1))) \cup Shl(Expand(Wide(s[2], 4 * (i - 1))), 1, 64)]

uninterleave_super(s) ==
  << Narrow(Contract(s[1]), Contract(s[2])),
     Narrow(Contract(Shr(s[1], 1, 64)), Contract(Shr(s[2], 1, 64))) >>
-----------------------------------------------------------------------------
(***************************************************************************)
(* halfsuper_t as the midgame solver computes with it: 128 bits, bit       *)
(* a+2*(b+4*(c+4*d)) of parity p for the turns 2a+(b+c+d+p)%2, b, c, d.    *)
(* One register, or two words.                                             *)
(***************************************************************************)

Bits128 == 0 .. 127
Low(s) == s \cap Bits128
High(s) == {b - 128 : b \in s \ Bits128}
Registers(x, y) == x \cup {b + 128 : b \in y}
Bytes(of) == {b \in Bits128 : b % 8 \in of}

\* The turns of the first quadrant as shifts by one bit, of the others in turn
FirstTurn(h) == LET t == (h \cup Shr(h, 1, 16)) \cap Bytes({0, 2, 4, 6}) IN t \cup Shl(t, 1, 16)

SecondTurn(h, width) ==
  (Shl(h, 2, width) \cap Bytes(2 .. 7)) \cup (Shl(h, 6, width) \cap Bytes({6, 7})) \cup
  (Shr(h, 2, width) \cap Bytes(0 .. 5)) \cup (Shr(h, 6, width) \cap Bytes({0, 1}))

half_rmax_sse(h) ==
  FirstTurn(h) \cup SecondTurn(h, 16)
  \cup Shl(h, 8, 32) \cup Shl(h, 24, 32) \cup Shr(h, 8, 32) \cup Shr(h, 24, 32)
  \cup Low(Shuffle(h, <<3, 0, 1, 2>>, 32)) \cup Low(Shuffle(h, <<1, 2, 3, 0>>, 32))

half_rmax_words(h) ==
  LET t == (h \cup Shr(h, 1, 64)) \cap Bytes({0, 2, 4, 6})
      octet(of) == {b \in Bits128 : (b \div 8) % 4 \in of}
      third == (Shl(h, 8, 64) \cap octet(1 .. 3)) \cup (Shl(h, 24, 64) \cap octet({3})) \cup
               (Shr(h, 8, 64) \cap octet(0 .. 2)) \cup (Shr(h, 24, 64) \cap octet({0}))
      fourth == UNION {Shl(w, 32, 64) \cup Shr(w, 32, 64) : w \in {Chunk(h, 0), Chunk(h, 1)}}
  IN t \cup Shl(t, 1, 64) \cup SecondTurn(h, 64) \cup third \cup fourth \cup {b + 64 : b \in fourth}
-----------------------------------------------------------------------------
(***************************************************************************)
(* split and merge: even rotations are those in evens with an even turn of *)
(* the first quadrant, and the others with an odd one.                     *)
(***************************************************************************)
EvenNibbles == {0, 2, 5, 7, 8, 10, 13, 15}
Evens == {b \in Bits256 : ((b % 64) \div 4 \in EvenNibbles) = ((b \div 64) % 2 = 0)}

split(s) ==
  LET v == uninterleave_super(<<s \cap Evens, s \ Evens>>)
  IN << Low(v[1]) \cup High(v[2]), High(v[1]) \cup Low(v[2]) >>

merge(even, odd) ==
  LET v == interleave_super(<<Registers(even, odd), Registers(odd, even)>>)
  IN (v[1] \cap Evens) \cup (v[2] \ Evens)
-----------------------------------------------------------------------------
(***************************************************************************)
(* The generated halfsuper_wins: for each set of quadrants and each of its *)
(* patterns, masks of the turns for which a quadrant has its part.         *)
(***************************************************************************)
QuadrantSet(i) == {q \in Quads : Part[i][q] # {}}
quadrant_set_win_patterns ==
  [quads \in {QuadrantSet(i) : i \in Pattern} |-> {i \in Pattern : QuadrantSet(i) = quads}] @@ <<>>

OnlyMask ==
  [q \in Quads |->
    LET at(j) == IF q > 0 THEN (j \div 2^(2*q - 1)) % 4
                 ELSE 2 * (j % 2) + ((((j \div 2) % 2) + ((j \div 8) % 2) + ((j \div 32) % 2)) % 2)
    IN [i \in 0 .. 3 |-> {j \in 0 .. 63 : at(j) = IF q = 3 THEN i % 2 ELSE i}] @@ <<>>] @@ <<>>

\* only<q>: the half of the rotations that do not lack the part
only(q, lacks, odd) ==
  LET a == IF q = 0 /\ odd THEN [r \in 0 .. 3 |-> lacks[4 * (r \div 2) + 1 - r]] ELSE lacks
      word(rs) == UNION {OnlyMask[q][r] : r \in {s \in rs : ~a[s]}}
  IN IF q = 3 THEN word({0, 1}) \cup {j + 64 : j \in word({2, 3})}
     ELSE word(0 .. 3) \cup {j + 64 : j \in word(0 .. 3)}

\* The part, turned the other way: a quadrant turned r times has it
PartMask == [i \in Pattern |-> [q \in Quads |-> [r \in 0 .. 3 |-> all_rotations(Part[i][q], (4 - r) % 4)] @@ <<>>] @@ <<>>] @@ <<>>

halfsuper_wins_of(side, odd) ==
  LET has(i, q) == only(q, [r \in 0 .. 3 |-> ~(PartMask[i][q][r] \subseteq quadrant(side, q))], odd)
      all(i, quads) == LET parts == {has(i, q) : q \in quads} IN {h \in UNION parts : \A p \in parts : h \in p}
  IN UNION {UNION {all(i, quads) : i \in quadrant_set_win_patterns[quads]} : quads \in DOMAIN quadrant_set_win_patterns}
==============================================================================

------------------------------- MODULE WebData -------------------------------
(***************************************************************************)
(* Boards, sections and blocks as the page and its server see them.        *)
(***************************************************************************)
EXTENDS BlockLookup

(***************************************************************************)
(* Boards in JavaScript: web/server/board.js and web/client/src/board.js.  *)
(* A board is its four quadrants, numbers in base 3, and whether the stone *)
(* of the move has been placed; its name is their 64 bit number in decimal.*)
(* Numbers of that size are kept as digits, four in base 2^16 or in base   *)
(* 10^5, least significant first.                                          *)
(***************************************************************************)

\* Carries from each of four digits into the next; the last digit keeps what is left
Carried(d, base) ==
  LET after[i \in 0 .. 3] == d[i] + (IF i = 0 THEN 0 ELSE after[i - 1] \div base)
  IN [i \in 0 .. 3 |-> IF i = 3 THEN after[3] ELSE after[i] % base]

\* 10^i, and 2^b, without what would not fit in four digits
digit_quadrants ==
  LET power[i \in 0 .. 18] ==
        IF i = 0 THEN [q \in Quads |-> IF q = 0 THEN 1 ELSE 0]
        ELSE LET p == power[i - 1] IN Carried([q \in Quads |-> 10 * p[q]], 65536)
  IN [i \in 0 .. 18 |-> power[i]] @@ <<>>
bit_sections ==
  LET power[b \in 0 .. 63] ==
        IF b = 0 THEN [a \in 0 .. 3 |-> IF a = 0 THEN 1 ELSE 0]
        ELSE LET p == power[b - 1] IN Carried([a \in 0 .. 3 |-> 2 * p[a]], 100000)
  IN [b \in 0 .. 63 |-> power[b]] @@ <<>>

\* Decimal digits, the most significant first; "error" is what the code throws
str_to_quadrants(s) ==
  LET sum(a) == FoldLeft(LAMBDA t, i : t + s[Len(s) - i] * digit_quadrants[i][a], 0, [i \in 1 .. Len(s) |-> i - 1])
      quads == Carried([a \in Quads |-> sum(a)], 65536)
  IN IF Len(s) > 19 \/ quads[3] >= 65536 THEN "error" ELSE quads

\* Mutant of quadrants_to_str: no carries between the sections
str_without_carries(quads) ==
  LET bits == {b \in 0 .. 63 : Digit(quads[b \div 16], 2, b % 16) = 1}
      sum(a) == MapThenSumSet(LAMBDA b : bit_sections[b][a], bits)
      all == [k \in 1 .. 20 |-> LET place == 20 - k IN Digit(sum(place \div 5), 10, place % 5)]
  IN SubSeq(all, Min({k \in 1 .. 20 : all[k] # 0} \cup {20}), 20)

quadrants_to_str(quads) ==
  LET bits == {b \in 0 .. 63 : Digit(quads[b \div 16], 2, b % 16) = 1}
      sums == Carried([a \in 0 .. 3 |-> MapThenSumSet(LAMBDA b : bit_sections[b][a], bits)], 100000)
      all == [k \in 1 .. 20 |-> LET place == 20 - k IN Digit(sums[place \div 5], 10, place % 5)]
  IN SubSeq(all, Min({k \in 1 .. 20 : all[k] # 0} \cup {20}), 20)
-----------------------------------------------------------------------------
(***************************************************************************)
(* board_t.                                                                *)
(***************************************************************************)
Page(quads, middle) == [quads |-> quads, middle |-> middle]

grid(b) == [i \in 0 .. 35 |->
  LET x == i \div 6
      y == i % 6
  IN Digit(b.quads[2 * (x \div 3) + (y \div 3)], 3, 3 * (x % 3) + (y % 3))]

StonesOf(b, v) == Cardinality({i \in 0 .. 35 : grid(b)[i] = v})
page_count(b) == StonesOf(b, 1) + StonesOf(b, 2)
page_turn(b) == IF StonesOf(b, 1) - 1 = StonesOf(b, 2) - b.middle THEN 1 ELSE 0

\* What the constructor throws on
BadPage(b) ==
  LET t == page_turn(b)
      one(p) == IF p THEN 1 ELSE 0
  IN StonesOf(b, 1) - t - b.middle * one(t = 0) # StonesOf(b, 2) - b.middle * one(t = 1)

page_place(b, x, y) ==
  Page([b.quads EXCEPT ![2 * (x \div 3) + (y \div 3)] = @ + (1 + page_turn(b)) * 3^(3 * (x % 3) + (y % 3))], 1)

\* Left if d = 1, right if d = -1
page_rotate(b, qx, qy, d) ==
  LET g == grid(b)
  IN Page([b.quads EXCEPT ![2 * qx + qy] =
             MapThenSumSet(LAMBDA c : 3^c * g[6 * (3 * qx + 1 + d * ((c % 3) - 1)) + 3 * qy + 1 - d * ((c \div 3) - 1)], Cells)], 0)

\* Where each five begins, and its step
win_rays ==
  [i \in 1 .. 12 |-> <<i - 1, 6>>] \o
  [i \in 1 .. 12 |-> <<6 * ((i - 1) \div 2) + ((i - 1) % 2), 1>>] \o
  << <<4, 5>>, <<5, 5>>, <<10, 5>>, <<11, 5>>, <<0, 7>>, <<1, 7>>, <<6, 7>>, <<7, 7>> >>
FiveFrom(ray) == {ray[1] + k * ray[2] : k \in 0 .. 4}

page_won(b, side) == LET g == grid(b) IN \E i \in 1 .. 32 : \A k \in FiveFrom(win_rays[i]) : g[k] = side + 1
page_fives(b) ==
  LET g == grid(b) IN {FiveFrom(win_rays[i]) : i \in {j \in 1 .. 32 : \E v \in 1 .. 2 : \A k \in FiveFrom(win_rays[j]) : g[k] = v}}

page_done(b) == page_won(b, 0) \/ page_won(b, 1) \/ (page_count(b) = 36 /\ b.middle = 0)

page_immediate_value(b) ==
  LET win == page_won(b, page_turn(b))
      lose == page_won(b, 1 - page_turn(b))
  IN IF win = lose THEN 0 ELSE IF win THEN 1 ELSE -1

page_moves(b) ==
  IF b.middle = 0
  THEN LET g == grid(b) IN {page_place(b, i \div 6, i % 6) : i \in {j \in 0 .. 35 : g[j] = 0}}
  ELSE {page_rotate(b, qx, qy, d) : qx \in 0 .. 1, qy \in 0 .. 1, d \in {-1, 1}}
-----------------------------------------------------------------------------
(***************************************************************************)
(* The form that the middle game solver takes: the cells of both sides,    *)
(* quadrant by quadrant, and the ply.                                      *)
(***************************************************************************)
high(b) ==
  [cells |-> [side \in 1 .. 2 |-> [q \in Quads |-> {i \in Cells : Digit(b.quads[q], 3, i) = side}]],
   ply |-> 2 * page_count(b) - b.middle]
pack_quadrant(side0, side1) == MapThenSumSet(LAMBDA i : ((IF i \in side0 THEN 1 ELSE 0) + 2 * (IF i \in side1 THEN 1 ELSE 0)) * 3^i, Cells)
from_high(h) == Page([q \in Quads |-> pack_quadrant(h.cells[1][q], h.cells[2][q])], h.ply % 2)
-----------------------------------------------------------------------------
(***************************************************************************)
(* The block cache in JavaScript, web/server/block_cache.js: the C++ code  *)
(* of sections, partitions and lookups once more, without vector           *)
(* registers.  Sections are those of the module Sections.                  *)
(***************************************************************************)

board_section(b) ==
  [q \in Quads |-> [s \in 1 .. 2 |-> Cardinality({i \in Cells : Digit(b.quads[q], 3, i) = s})]]

transform_section(global, section) ==
  LET source == << <<0, 1, 2, 3>>, <<1, 3, 0, 2>>, <<3, 2, 1, 0>>, <<2, 0, 3, 1>> >>[1 + (global % 4)]
      t == [q \in Quads |-> section[source[q + 1]]]
  IN IF global >= 4 THEN [t EXCEPT ![0] = t[3], ![3] = t[0]] ELSE t

\* Its hexadecimal digits, the most significant first
section_sig(s) == << s[3][2], s[3][1], s[2][2], s[2][1], s[1][2], s[1][1], s[0][2], s[0][1] >>
SigLess(a, b) == \E i \in 1 .. 8 : a[i] < b[i] /\ \A j \in 1 .. i - 1 : a[j] = b[j]

standardize_section(section) ==
  FoldLeft(LAMBDA best, g : LET t == transform_section(g, section) IN
             IF SigLess(section_sig(t), section_sig(best[1])) THEN <<t, g>> ELSE best,
           <<section, 0>>, <<0, 1, 2, 3, 4, 5, 6, 7>>)

section_sum(s) == FoldLeft(LAMBDA a, q : a + s[q][1] + s[q][2], 0, <<0, 1, 2, 3>>)

\* From the table of buckets, which precompute.cc writes for both languages
section_shape(s) == [q \in Quads |-> bucket_size[s[q]]]
web_block_shape(section, block) == [q \in Quads |-> Min({block_size, section_shape(section)[q] - block_size * block[q]})]
-----------------------------------------------------------------------------
matrices == << << <<1, 0>>, <<0, 1>> >>, << <<0, -1>>, <<1, 0>> >>, << <<-1, 0>>, <<0, -1>> >>, << <<0, 1>>, <<-1, 0>> >>,
               << <<0, -1>>, <<-1, 0>> >>, << <<-1, 0>>, <<0, 1>> >>, << <<0, 1>>, <<1, 0>> >>, << <<1, 0>>, <<0, -1>> >> >>

\* Every cell goes where the matrix takes it, around the middle of the board
global_transform_board(global, b) ==
  LET M == matrices[global + 1]
      to(row, at) == (5 + M[row][1] * (2 * at[1] - 5) + M[row][2] * (2 * at[2] - 5)) \div 2
      goes == [at \in Grid |-> <<to(1, at), to(2, at)>>] @@ <<>>
      power(at) == 3^(3 * (at[1] % 3) + (at[2] % 3))
      stone(at) == (b.quads[2 * (at[1] \div 3) + (at[2] \div 3)] \div power(at)) % 3
      from(q) == {at \in Grid : 2 * (goes[at][1] \div 3) + (goes[at][2] \div 3) = q}
  IN [q \in Quads |-> MapThenSumSet(LAMBDA at : power(goes[at]) * stone(at), from(q))]
-----------------------------------------------------------------------------
(***************************************************************************)
(* 512 bits at a time: 16 bits become 8 and 8.                             *)
(***************************************************************************)
\* x | x << k or x | x >> k, and what the mask leaves of it
Closer(x, k, group) == {b \in x \cup Shr(x, k, 32) : b % (2 * group) < group}

uninterleave(bits) ==
  LET half(j) == LET x == Lane(bits, j, 16)
                     even == {b \in x \cup {c + 15 : c \in x} : b % 2 = 0}
                     y == Closer(Closer(even, 1, 2), 2, 4)
                 IN y \cup Shr(y, 4, 32)
  IN UNION {{8 * j + b : b \in half(j) \cap 0 .. 7} \cup {8 * (j + 32) + b - 16 : b \in half(j) \cap 16 .. 23} : j \in 0 .. 31}
-----------------------------------------------------------------------------
(***************************************************************************)
(* All sections up to a slice, by a stack and a set of those seen, and the *)
(* offsets of their entries in an index file.                              *)
(***************************************************************************)
web_descendent_sections(max_slice) ==
  LET root == [q \in Quads |-> <<0, 0>>]
      Visit[k \in Nat, s \in Seq([Quads -> (0 .. 9) \X (0 .. 9)]), found \in SUBSET [Quads -> (0 .. 9) \X (0 .. 9)]] ==
        IF k = 0 THEN found
        ELSE LET t == standardize_section(s[k])[1]
                 n == section_sum(t)
                 rest == SubSeq(s, 1, k - 1)
                 pushed == IF n = max_slice THEN rest
                           ELSE FoldLeft(LAMBDA r, q : IF t[q][1] + t[q][2] < 9 THEN Append(r, [t EXCEPT ![q][1 + (n % 2)] = @ + 1]) ELSE r,
                                         rest, <<0, 1, 2, 3>>)
             IN IF t \in found THEN Visit[k - 1, rest, found] ELSE Visit[Len(pushed), pushed, found \cup {t}]
      all == Visit[1, <<root>>, {}]
      slice(n) == {s \in all : section_sum(s) = n}
      before(s) == Cardinality({t \in slice(section_sum(s)) : SigLess(section_sig(t), section_sig(s))})
  IN [n \in 0 .. max_slice |-> [i \in 1 .. Cardinality(slice(n)) |-> CHOOSE s \in slice(n) : before(s) = i - 1]]

web_section_blocks(s) == [q \in Quads |-> (section_shape(s)[q] + block_size - 1) \div block_size]

web_blob_location(sections, section, I) ==
  LET blocks(s) == LET n == web_section_blocks(s) IN n[0] * n[1] * n[2] * n[3]
      before[i \in 1 .. Len(sections)] == IF i = 1 THEN 24 ELSE before[i - 1] + 12 * blocks(sections[i - 1])
      n == web_section_blocks(section)
      id == CHOOSE i \in DOMAIN sections : sections[i] = section
  IN [offset |-> before[id] + 12 * (((I[0] * n[1] + I[1]) * n[2] + I[2]) * n[3] + I[3]), size |-> 12]
-----------------------------------------------------------------------------
(***************************************************************************)
(* Where a board's value is, and the value.                                *)
(***************************************************************************)
Info(best, quads, ir) ==
  LET block == [q \in Quads |-> (ir[q] \div 4) \div block_size]
      At(n, I) == I[3] + n[3] * (I[2] + n[2] * (I[1] + n[1] * I[0]))
  IN [section |-> best, block |-> block,
      flat |-> At(web_block_shape(best, block), [q \in Quads |-> (ir[q] \div 4) % block_size]),
      local_rotations |-> FromTurns([q \in Quads |-> ir[q] % 4])]

board_info(b) ==
  LET Of(best, quads) == Info(best, quads, [q \in Quads |-> rotation_minimal_quadrants_inverse(quads[q])] @@ <<>>)
      Best(best) == Of(best[1], global_transform_board(best[2], b))
  IN Best(standardize_section(board_section(b)))

\* data[flat] is a pair of supers, one after the other
BitAt(data, i) == IF (i % 256) \in data[i \div 512][1 + ((i % 512) \div 256)] THEN 1 ELSE 0

value_helper(b, blocks) ==
  LET Difference(data, offset, turn) == BitAt(data, offset + 256 * turn) - BitAt(data, offset + 256 * (1 - turn))
      Value(at) == Difference(blocks[at.section, at.block], at.flat * 512 + at.local_rotations, section_sum(at.section) % 2)
  IN Value(board_info(b))

\* Of a board whose stone is placed, the best turn; the loop stops at a win
web_value(b, blocks) ==
  LET value(c) == IF page_done(c) THEN page_immediate_value(c) ELSE value_helper(c, blocks)
  IN IF page_done(b) \/ b.middle = 0 THEN value(b) ELSE Max({-1} \cup {-value(c) : c \in page_moves(b)})
-----------------------------------------------------------------------------
(***************************************************************************)
(* What the page keeps in local storage, local_lru.js: the time of each    *)
(* key, by a counter; after a reload it goes on from the newest key.       *)
(***************************************************************************)
page_size(c) == Cardinality(DOMAIN c.time)
page_now(c, key) ==
  [time |-> [k \in {key} \cup DOMAIN c.time |-> IF k = key THEN c.last + 1 ELSE c.time[k]], last |-> c.last + 1]
page_reload(c) == [c EXCEPT !.last = Max({0} \cup Range(c.time))]

\* The oldest keys go, until as many as lower are left
page_collect(c, lower) ==
  [c EXCEPT !.time = Restrict(@, {k \in DOMAIN @ : Cardinality({j \in DOMAIN @ : @[j] > @[k]}) < lower})]

page_get(c, key) == IF key \in DOMAIN c.time THEN page_now(c, key) ELSE c
page_set(c, key, lower, upper) ==
  LET d == page_now(c, key) IN IF page_size(d) > upper THEN page_collect(d, lower) ELSE d

\* What is not found is looked up or computed, and kept
page_load(c, key, lower, upper) ==
  IF key \in DOMAIN c.time THEN page_get(c, key) ELSE page_set(c, key, lower, upper)
==============================================================================

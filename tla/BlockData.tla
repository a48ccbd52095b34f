------------------------------ MODULE BlockData ------------------------------
(***************************************************************************)
(* The data of blocks: how it is made ready to be stored and sent, and how *)
(* it is computed.                                                         *)
(***************************************************************************)
EXTENDS BlockLookup, Supers, Functions

(***************************************************************************)
(* How blocks are prepared for compression: data/filter.cc, and the two    *)
(* modes of end/fast_compress.cc.  A pair of supers is a sequence of two   *)
(* sets of bits; values of one bit are none, one or the other.             *)
(***************************************************************************)

strides(sizes) ==
  LET d == Highest(sizes)
      s[i \in 0 .. d] == IF i = d THEN 1 ELSE sizes[i + 1] * s[i + 1]
  IN s
-----------------------------------------------------------------------------
(***************************************************************************)
(* Compaction: five values to a byte, in chunks of five pairs.             *)
(***************************************************************************)
\* One side of consecutive supers, end to end
Stream(supers) == UNION {{b + 256 * (i - 1) : b \in supers[i]} : i \in DOMAIN supers}
Five(stream, i) == {k \in 0 .. 4 : 5 * i + k \in stream}

\* Bytes 0 .. 255 of a chunk
compact_chunk(src) ==
  LET side(c) == Stream([i \in DOMAIN src |-> src[i][c]])
      one == side(1)
      two == side(2)
  IN [i \in 0 .. 255 |-> pack(Five(one, i), Five(two, i))]

uncompact_chunk(bytes) ==
  LET stream(c) == UNION {{5 * i + k : k \in unpack[bytes[i]][c]} : i \in DOMAIN bytes}
      one == stream(1)
      two == stream(2)
  IN [i \in 1 .. 5 |-> << {b \in Bits256 : b + 256 * (i - 1) \in one}, {b \in Bits256 : b + 256 * (i - 1) \in two} >>]

Bytes5(n) == (256 * n + 4) \div 5

\* The last chunk is filled up with zeroes, and what they give is left out
compact(src) ==
  LET piece(k) == compact_chunk(SubSeq(src, 5 * k + 1, Min({5 * k + 5, Len(src)})))
      chunks == [k \in 0 .. Len(src) \div 5 |-> piece(k)]
  IN [i \in 1 .. Bytes5(Len(src)) |-> chunks[(i - 1) \div 256][(i - 1) % 256]]

uncompact(bytes) ==
  LET n == (5 * Len(bytes)) \div 256
      piece(k) == uncompact_chunk([i \in 0 .. 255 |-> IF 256 * k + i < Len(bytes) THEN bytes[256 * k + i + 1] ELSE 0])
      chunks == [k \in 0 .. n \div 5 |-> piece(k)]
  IN [i \in 1 .. n |-> chunks[(i - 1) \div 5][1 + ((i - 1) % 5)]]
-----------------------------------------------------------------------------
(***************************************************************************)
(* Arithmetic modulo 3 on all bits at once, and the wavelet built on it.   *)
(***************************************************************************)
add(f, g) ==
  LET sx == Xor(Xor(f[1], g[1]), f[2] \cap g[2])
      sy == Xor(Xor(f[2], g[2]), f[1] \cap g[1])
      o == sx \cap sy
  IN <<Xor(sx, o), Xor(sy, o)>>

neg(f) == <<f[2], f[1]>>
sub(f, g) == add(f, neg(g))
neg_add(f, g) == neg(add(f, g))

rev_sub(f, g) == sub(g, f)

wavelet(f) ==
  LET p == [i \in 1 .. 4 |-> add(f[2 * i - 1], f[2 * i])]
      m == [i \in 1 .. 4 |-> sub(f[2 * i - 1], f[2 * i])]
      pp == <<add(p[1], p[2]), add(p[3], p[4])>>
      pm == <<sub(p[1], p[2]), sub(p[3], p[4])>>
  IN <<add(pp[1], pp[2]), sub(pp[1], pp[2]), pm[1], pm[2], m[1], m[2], m[3], m[4]>>

wavelet_inverse(f) ==
  LET pp == <<neg_add(f[1], f[2]), rev_sub(f[1], f[2])>>
      p == <<neg_add(pp[1], f[3]), rev_sub(pp[1], f[3]), neg_add(pp[2], f[4]), rev_sub(pp[2], f[4])>>
  IN [i \in 1 .. 8 |-> LET k == (i + 1) \div 2 IN IF i % 2 = 1 THEN neg_add(p[k], f[4 + k]) ELSE rev_sub(p[k], f[4 + k])]

\* The transformation of eight, or its inverse, along one dimension of flat data that has eight
AlongDimension(back, data, sizes, a) ==
  LET s == strides(sizes)
      base(k) == k - s[a] * ((k \div s[a]) % sizes[a])
      run == [b \in {base(k) : k \in DOMAIN data} |->
               LET f == [i \in 1 .. 8 |-> data[b + s[a] * (i - 1)]] IN IF back THEN wavelet_inverse(f) ELSE wavelet(f)]
  IN IF sizes[a] # 8 THEN data ELSE [k \in DOMAIN data |-> run[base(k)][1 + ((k \div s[a]) % 8)]]

AllDimensions(back, data, sizes) ==
  LET done[a \in 0 .. 4] == IF a = 0 THEN data ELSE AlongDimension(back, done[a - 1], sizes, a - 1) IN done[4]

wavelet_transform(data, sizes) ==
  LET w == AllDimensions(FALSE, data, sizes) IN [k \in DOMAIN w |-> interleave_super(w[k])]
wavelet_untransform(data, sizes) ==
  AllDimensions(TRUE, [k \in DOMAIN data |-> uninterleave_super(data[k])], sizes)
-----------------------------------------------------------------------------
(***************************************************************************)
(* Fast compression: a flag, and either snappy's output or the data as it  *)
(* is.  snappy is the size of snappy's output in bytes.                    *)
(***************************************************************************)
PairBytes == 64

fast_compress(data, snappy) ==
  LET filtered == [i \in DOMAIN data |-> interleave_super(data[i])]
      raw == PairBytes * Len(data)
      small == snappy < raw
  IN [flag |-> IF small THEN 1 ELSE 0, holds |-> filtered, size |-> 1 + (IF small THEN snappy ELSE raw)]

\* The count comes from snappy's header, or from the size
fast_uncompress(c) ==
  LET n == IF c.flag = 1 THEN Len(c.holds) ELSE c.size \div PairBytes
  IN [i \in 1 .. n |-> uninterleave_super(c.holds[i])]
-----------------------------------------------------------------------------
(***************************************************************************)
(* The kernel of the endgame solver, end/compute.cc: a line of blocks gets *)
(* its values from the line of their children in one quadrant.  The input  *)
(* is stored as its owners have it, under the symmetry that makes the      *)
(* child section standard, and is read in place.                           *)
(***************************************************************************)

rotation_minimal_quadrants(c) == AntiFunction(rmins_index(c[1], c[2]))

\* Places of v in the order of the permutation p
Subset_(v, p) == [q \in Quads |-> v[p[q]]] @@ <<>>
Turning(local) == [global |-> 0, local |-> local]

\* line_data_t and line_details_t of a line
line_details(line) ==
  LET s == line.section
      k == line.dimension
      down == child(s, k)
      best == section_standardize(down, 8)
      global == best[2]
      permutation == quadrant_permutation(invert_global(global))
      first_shape == block_shape(shape(s), LineBlock(line, 0))
      \* There is no slice with 36 stones
      input_shape == IF SectionSum(s) = 35 THEN [q \in Quads |-> 0] ELSE [first_shape EXCEPT ![k] = shape(down)[k]]
      child_rmin == [q \in Quads |-> rotation_minimal_quadrants(best[1][q])] @@ <<>>
      first == Subset_(LineBlock(line, 0), permutation)
      child_inverse == [q \in Quads |-> rmins_inverse(best[1][q][1], best[1][q][2])] @@ <<>>
      \* What turns the reflection of a quadrant back into a minimal one
      turn_back(q, j) ==
        LET v == unpack[child_rmin[q][block_size * first[q] + j]] IN
          4^q * (child_inverse[q][pack(reflections(v[1]), reflections(v[2]))] % 4)
  IN [line |-> line,
      input_shape |-> input_shape,
      output_shape |-> [first_shape EXCEPT ![k] = shape(s)[k]],
      block_stride |-> block_size * Volume(block_shape(remove_index(shape(s), k), line.block_base)),
      standard_child_section |-> best[1],
      section_transform |-> global,
      permutation |-> permutation,
      child_dimension |-> CHOOSE q \in Quads : permutation[q] = k,
      input_blocks |-> ceil_div(input_shape[k], block_size),
      first_child_block |-> first,
      inverse_transform |-> Product([global |-> (4 - (global % 4)) % 4, local |-> 85 * (global % 4)],
                                    [global |-> 4 * (global \div 4), local |-> 0]),
      rmin |-> [q \in Quads |-> rotation_minimal_quadrants(s[q])] @@ <<>>,
      child_rmin |-> child_rmin,
      reflection_moves |-> [q \in Quads |-> IF Reflects(global) THEN reflect_moved(best[1][q][1], best[1][q][2]) ELSE 0] @@ <<>>,
      reflection_symmetries |-> [q \in Quads |-> [j \in 0 .. Subset_(input_shape, permutation)[q] - 1 |->
                                   IF Reflects(global) THEN turn_back(q, j) ELSE 0] @@ <<>>] @@ <<>>]

input_block(d, k) == [d.first_child_block EXCEPT ![d.child_dimension] = k]

\* Places of the memory for blocks of input: one more for each, as compressed data may be larger
input_block_data(d, k) == (d.block_stride + 1) * k
output_block_data(d, k) == d.block_stride * k

\* Where an array begins and how it goes on in a direction, the same blocks before the last and the last one
Base(sizes, I) == MapThenSumSet(LAMBDA q : strides(sizes)[q] * I[q], Quads)
LastSize(n) == IF n % block_size = 0 THEN block_size ELSE n % block_size

\* Mutant of Exchanged: the reflected quadrants are looked for where the quadrants are
ExchangedNever(j, moved) == j

\* j, or the other one of a pair that a reflection exchanges
Exchanged(j, moved) == IF j >= moved THEN j ELSE IF j % 2 = 0 THEN j + 1 ELSE j - 1

\* after[c] are the rotations before the turn of which the child is lost or tied, and lost
Outcome(wins0, wins1, new_wins, after, sse) ==
  LET rmax_(t) == IF sse THEN rmax_sse(t) ELSE rmax_words(t)
      Values_(wins, not_loss, immediate) == <<(wins \ immediate) \cup (wins0 \ wins1), (not_loss \ immediate) \cup wins0>>
  IN Values_(UNION {new_wins[c] \cup rmax_(after[c][2]) : c \in DOMAIN after}, UNION {rmax_(after[c][1]) : c \in DOMAIN after},
             wins0 \cup wins1)
-----------------------------------------------------------------------------
\* The outputs of a microline: where they go, and their values.  input is the memory of the input
compute_microline(d, base, input, sse) ==
  LET s == d.line.section
      dim == d.line.dimension
      child_dim == d.child_dimension
      turn == SectionSum(s) % 2
      full_base == insert(base, 0, dim)
      quadrant_at(q) == d.rmin[q][block_size * LineBlock(d.line, 0)[q] + full_base[q]]
      base_sides == Flipped(UnpackBoard([q \in Quads |-> IF q = dim THEN 0 ELSE quadrant_at(q)]), turn)
      output_block_shape == [d.output_shape EXCEPT ![dim] = block_size]
      input_block_shape == Subset_(output_block_shape, d.permutation)
      full_child_base == Subset_(full_base, d.permutation)
      across == Quads \ {child_dim}
      reflected_child_base ==
        [q \in Quads |-> IF q \in across /\ block_size * d.first_child_block[q] + full_child_base[q] < d.reflection_moves[q]
                         THEN Exchanged(full_child_base[q], 8) ELSE full_child_base[q]]
      output_base(last) == Base(IF last THEN [output_block_shape EXCEPT ![dim] = LastSize(d.output_shape[dim])] ELSE output_block_shape, full_base)
      input_base(last) == Base(IF last THEN [input_block_shape EXCEPT ![child_dim] = LastSize(d.input_shape[dim])] ELSE input_block_shape,
                               reflected_child_base)
      local_symmetry == MapThenSumSet(LAMBDA q : d.reflection_symmetries[q][full_child_base[q]], across)
      base_transform == Product(d.inverse_transform, Turning(local_symmetry))
      inverse_ == LET c == child(s, dim)[dim] IN rmins_inverse(c[1], c[2])
      \* The children: where each is in the input, under its symmetry
      children == [j \in 0 .. d.input_shape[dim] - 1 |->
        input[input_base(j \div block_size = d.input_blocks - 1) + input_block_data(d, j \div block_size)
                + strides(input_block_shape)[child_dim] * (Exchanged(j, d.reflection_moves[child_dim]) % block_size)]] @@ <<>>
      \* Of the board after a move, its child turned as the board is
      transformed(pair, symmetry) == [i \in 1 .. 2 |-> transform_super_in(symmetry, Complement(pair[i]), sse)] @@ <<>>
      child_at(j, rotation) ==
        transformed(children[j], Product(Product(Turning(4^dim * rotation), base_transform), Turning(d.reflection_symmetries[child_dim][j])))
      lookup_child(ir) == child_at(ir \div 4, ir % 4)
      with_stone(side, c) == super_wins_in(side \cup {16 * dim + c}, sse)
      after(v, wins1, new_wins) == [c \in DOMAIN new_wins |->
        IF SectionSum(s) = 35 THEN <<new_wins[c] \cup Complement(wins1), new_wins[c] \ wins1>>
        ELSE lookup_child(inverse_[v + (1 + turn) * 3^c])] @@ <<>>
      outcome(v, wins0, wins1, new_wins) == Outcome(wins0, wins1, new_wins, after(v, wins1, new_wins), sse)
      side(k, sides) == base_sides[k] \cup {16 * dim + c : c \in sides[k]}
      outputs(v, sides) ==
        outcome(v, super_wins_in(side(1, sides), sse), super_wins_in(side(2, sides), sse),
                [c \in Cells \ (sides[1] \cup sides[2]) |-> with_stone(side(1, sides), c)] @@ <<>>)
      output(v) == outputs(v, Flipped(unpack[v], turn))
      place(i) == output_base(i \div block_size = d.line.length - 1) + output_block_data(d, i \div block_size)
                    + strides(output_block_shape)[dim] * (i % block_size)
  IN [i \in 0 .. d.output_shape[dim] - 1 |-> [at |-> place(i), value |-> output(d.rmin[dim][i])]] @@ <<>>
==============================================================================

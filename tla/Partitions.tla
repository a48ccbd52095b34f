----------------------------- MODULE Partitions ------------------------------
(***************************************************************************)
(* What both partitions of the endgame's blocks and lines are built on:    *)
(* loops and flat indices cut into pieces (utility/range.cc and index.h),  *)
(* the blocks of a section (end/blocks.h, end/line.h), random access       *)
(* permutations (utility/permute.cc), slices of sections (end/sections.cc) *)
(* and load statistics (end/load_balance.cc).                              *)
(***************************************************************************)
EXTENDS Sections, SequencesExt

block_size == 8

ceil_div(a, b) == (a + b - 1) \div b
-----------------------------------------------------------------------------
(***************************************************************************)
(* Loops cut into one range per thread; a range is half open.              *)
(***************************************************************************)
partition_loop(steps, threads, thread) ==
  LET each == steps \div threads
      extra == steps % threads
      start == each * thread + Min({extra, thread})
  IN [lo |-> start, hi |-> start + each + (IF thread < extra THEN 1 ELSE 0)]

In(range) == range.lo .. range.hi - 1
Length(range) == range.hi - range.lo

partition_loop_inverse(steps, threads, i) ==
  LET each == steps \div threads
      extra == steps % threads
      threshold == (each + 1) * extra
  IN IF i < threshold THEN i \div (each + 1) ELSE extra + ((i - threshold) \div each)
-----------------------------------------------------------------------------
(***************************************************************************)
(* Vectors are functions from 0 .. d - 1; what is made once and read often *)
(* is worked out with @@ <<>>.                                             *)
(***************************************************************************)
Highest(v) == Cardinality(DOMAIN v) - 1
Volume(v) == LET p[i \in 0 .. Highest(v)] == v[i] * (IF i = 0 THEN 1 ELSE p[i - 1]) IN p[Highest(v)]
remove_index(v, k) == [i \in 0 .. Highest(v) - 1 |-> v[IF i < k THEN i ELSE i + 1]]
insert(v, x, k) == [i \in 0 .. Highest(v) + 1 |-> IF i = k THEN x ELSE v[IF i < k THEN i ELSE i - 1]]

index(sizes, I) ==
  LET flat[i \in 0 .. Highest(sizes)] == IF i = 0 THEN I[0] ELSE flat[i - 1] * sizes[i] + I[i]
  IN flat[Highest(sizes)]

decompose(sizes, n) ==
  LET d == Highest(sizes)
      rest[i \in 0 .. d] == IF i = d THEN n ELSE rest[i + 1] \div sizes[i + 1]
  IN [i \in 0 .. d |-> IF i = 0 THEN rest[0] ELSE rest[i] % sizes[i]]
-----------------------------------------------------------------------------
(***************************************************************************)
(* The blocks of a section, and lines of blocks.                           *)
(***************************************************************************)
section_blocks(s) == LET n == shape(s) IN [q \in Quads |-> ceil_div(n[q], block_size)] @@ <<>>
Blocks(s) == LET n == section_blocks(s) IN {decompose(n, i) : i \in 0 .. Volume(n) - 1}
block_shape(sizes, b) == [i \in DOMAIN sizes |-> Min({sizes[i], block_size * (b[i] + 1)}) - block_size * b[i]] @@ <<>>
LineBlock(line, i) == insert(line.block_base, i, line.dimension)

\* Directions a section can be played in: quadrants that are not full
Open(s) == {q \in Quads : Stones(s[q]) < 9}
-----------------------------------------------------------------------------
(***************************************************************************)
(* Pseudorandom permutations of 0 .. n - 1: three Feistel rounds on the    *)
(* next power of two, and cycle walking.  cipher[<<r, half>>] stands for   *)
(* threefry, of which only that it is a function is used.                  *)
(***************************************************************************)
next_log(n) == Max({k \in 0 .. 30 : 2^k <= n}) + 1

Half(bits) == bits \div 2

fe2_encrypt(bits, cipher, x) ==
  LET A == 2^Half(bits)
      B == 2^(bits - Half(bits))
      L1 == ((x \div B) + cipher[<<1, x % B>>]) % A
      R1 == ((x % B) + cipher[<<2, L1>>]) % B
      L2 == (L1 + cipher[<<3, R1>>]) % A
  IN L2 * B + R1

fe2_decrypt(bits, cipher, x) ==
  LET A == 2^Half(bits)
      B == 2^(bits - Half(bits))
      L1 == ((x \div B) - cipher[<<3, x % B>>]) % A
      R1 == ((x % B) - cipher[<<2, L1>>]) % B
      L2 == (L1 - cipher[<<1, R1>>]) % A
  IN L2 * B + R1

\* Encrypt until back in range; the cycle of x comes back to x at the latest
random_permute(n, cipher, x) ==
  LET bits == next_log(n)
      walk[y \in 0 .. 2^bits - 1] ==
        LET z == fe2_encrypt(bits, cipher, y) IN IF z < n THEN z ELSE walk[z]
  IN walk[x]

random_unpermute(n, cipher, x) ==
  LET bits == next_log(n)
      walk[y \in 0 .. 2^bits - 1] ==
        LET z == fe2_decrypt(bits, cipher, y) IN IF z < n THEN z ELSE walk[z]
  IN walk[x]
-----------------------------------------------------------------------------
(***************************************************************************)
(* The sections of each slice that a root depends on.                      *)
(***************************************************************************)
NextSlice(sections) ==
  UNION {{section_standardize(child(s, q), 8)[1] : q \in Open(s)} : s \in sections}

descendent_sections(root, max_slice) ==
  LET top == SectionSum(root)
      slice[n \in 0 .. max_slice] ==
        IF n < top THEN {} ELSE IF n = top THEN {section_standardize(root, 8)[1]} ELSE NextSlice(slice[n - 1])
  IN slice

TotalBlocks(sections) == FoldLeft(LAMBDA t, s : t + Volume(section_blocks(s)), 0, sections)
TotalNodes(sections) == FoldLeft(LAMBDA t, s : t + size(s), 0, sections)
-----------------------------------------------------------------------------
(***************************************************************************)
(* Load statistics: least and greatest over the ranks.                     *)
(***************************************************************************)
Statistics == {"lines", "line_blocks", "line_nodes", "blocks", "block_nodes", "block_local_ids"}

LineNodes(line) ==
  LET n == shape(line.section)
  IN n[line.dimension] * Volume(block_shape(remove_index(n, line.dimension), line.block_base))
BlockNodes(s, b) == Volume(block_shape(shape(s), b))

local_load_balance(lines, blocks) ==
  [f \in Statistics |->
     CASE f = "lines" -> Len(lines)
       [] f = "line_blocks" -> FoldLeft(LAMBDA t, l : t + l.length, 0, lines)
       [] f = "line_nodes" -> FoldLeft(LAMBDA t, l : t + LineNodes(l), 0, lines)
       [] f = "blocks" -> Len(blocks)
       [] f = "block_nodes" -> FoldLeft(LAMBDA t, b : t + BlockNodes(b.section, b.block), 0, blocks)
       [] f = "block_local_ids" -> FoldLeft(LAMBDA t, b : Max({t, b.local_id}), 0, blocks)]

Point(load) == [f \in Statistics |-> [min |-> load[f], max |-> load[f]]]
enlarge(a, b) == [f \in Statistics |-> [min |-> Min({a[f].min, b[f].min}), max |-> Max({a[f].max, b[f].max})]]

\* What the root gets: minima are negated so that one reduction finds both
load_balance(loads) ==
  [f \in Statistics |-> [min |-> -Max({-l[f] : l \in Range(loads)}), max |-> Max({l[f] : l \in Range(loads)})]]

\* Every thread takes a range of the ranks, loads[1] belonging to rank 0
serial_load_balance(loads, threads) ==
  LET jobs == Min({16 * threads, Len(loads)})
      part(j) == LET r == partition_loop(Len(loads), jobs, j)
                     all[k \in In(r)] == IF k = r.lo THEN Point(loads[k + 1]) ELSE enlarge(all[k - 1], Point(loads[k + 1]))
                 IN all[r.hi - 1]
      merged[j \in 0 .. jobs - 1] == IF j = 0 THEN part(0) ELSE enlarge(merged[j - 1], part(j))
  IN merged[jobs - 1]
=============================================================================

--------------------------- MODULE BlockPartitions ---------------------------
(***************************************************************************)
(* The two partitions of a slice's blocks and lines between ranks.         *)
(***************************************************************************)
EXTENDS Partitions

(***************************************************************************)
(* The simple partition of end/simple_partition.cc: the lines of a slice   *)
(* laid end to end and cut into one contiguous piece per rank, first the   *)
(* lines that own blocks, then the others.  Lines come in chunks of equal  *)
(* lines; a place is a pair of a chunk, counted from 1, and a line of it.  *)
(***************************************************************************)

worst_line == 8 * 8 * 8 * 420

\* The direction whose lines own their blocks: the emptiest quadrant
OwnerDimension(s) == Min({q \in Quads : \A p \in Quads : Stones(s[q]) <= Stones(s[p])})

\* Lines of section s along k, full (0) or partial (1) in each other direction
Chunk_(s, k, I) ==
  LET Box(sizes, across, low, lengths) ==
        [section |-> s, dimension |-> k, length |-> ceil_div(sizes[k], block_size),
         min |-> low, sizes |-> lengths, count |-> Volume(lengths), line_size |-> sizes[k] * Volume(block_shape(across, low))]
      Between(sizes, across, low, high) == Box(sizes, across, low, [a \in 0 .. 2 |-> high[a] - low[a]] @@ <<>>)
      Parts(sizes, across, full) ==
        Between(sizes, across, [a \in 0 .. 2 |-> IF I[a] = 1 THEN full[a] ELSE 0] @@ <<>>,
                [a \in 0 .. 2 |-> IF I[a] = 1 THEN ceil_div(across[a], block_size) ELSE full[a]] @@ <<>>)
      Across(sizes, across) == Parts(sizes, across, [a \in 0 .. 2 |-> across[a] \div block_size] @@ <<>>)
  IN Across(shape(s), remove_index(shape(s), k))

ChunksAlong(s, k) ==
  SelectSeq([i \in 1 .. 8 |-> Chunk_(s, k, decompose([a \in 0 .. 2 |-> 2], i - 1))], LAMBDA c : c.count > 0)

OwnerChunks(s) == ChunksAlong(s, OwnerDimension(s))
OtherChunks(s) ==
  FlattenSeq([i \in 1 .. 4 |-> IF i - 1 \in Open(s) \ {OwnerDimension(s)} THEN ChunksAlong(s, i - 1) ELSE <<>>])

\* Blocks and nodes before each chunk
Offsets(chunks) ==
  LET before[i \in 1 .. Len(chunks) + 1] ==
        IF i = 1 THEN <<0, 0>>
        ELSE LET c == chunks[i - 1]
                 b == before[i - 1]
             IN <<b[1] + c.length * c.count, b[2] + c.line_size * c.count>>
  IN before @@ <<>>

LineCount(chunks) == FoldLeft(LAMBDA t, c : t + c.count, 0, chunks)
-----------------------------------------------------------------------------
(***************************************************************************)
(* Cutting lines into pieces of bounded penalty.                           *)
(***************************************************************************)
line_penalty(chunk) ==
  Max({chunk.line_size, ((block_size^4 * 2) \div 3) * Max({chunk.length, 4})})

\* Where a rank that starts at a place and has room `free` stops, and what it takes
Fill(chunks, place, free) ==
  LET stop[c \in place[1] .. Len(chunks) + 1] ==
        IF c = place[1] THEN [at |-> place, free |-> free, nodes |-> 0]
        ELSE LET s == stop[c - 1] IN
          IF s.at[1] < c - 1 THEN s
          ELSE LET chunk == chunks[c - 1]
                   n == Min({chunk.count - s.at[2], s.free \div line_penalty(chunk)})
               IN [at |-> IF s.at[2] + n = chunk.count THEN <<c, 0>> ELSE <<c - 1, s.at[2] + n>>,
                   free |-> s.free - n * line_penalty(chunk),
                   nodes |-> s.nodes + n * chunk.line_size]
  IN stop[Len(chunks) + 1]

\* penalties[p] is what rank p already has; the starts of all ranks, and the end
Starts(chunks, penalties, bound) ==
  LET ranks == Len(penalties)
      start[p \in 0 .. ranks] == IF p = 0 THEN <<1, 0>> ELSE Fill(chunks, start[p - 1], bound - penalties[p]).at
  IN start @@ <<>>

fit(chunks, penalties, bound) ==
  Starts(chunks, penalties, bound)[Len(penalties)] = <<Len(chunks) + 1, 0>>

Sum_(seq) == FoldLeft(LAMBDA t, x : t + x, 0, seq)
Most(seq) == FoldLeft(LAMBDA t, x : Max({t, x}), 0, seq)

\* The least bound found by bisection; its lower end is never tried
BoundFound(chunks, penalties) ==
  LET ranks == Len(penalties)
      left == FoldLeft(LAMBDA t, c : t + c.count * line_penalty(c), 0, chunks)
      low == Max({Most(penalties), ceil_div(Sum_(penalties) + left, ranks)})
      high == Most(penalties) + ceil_div(LineCount(chunks), ranks) * worst_line
      search[k \in 0 .. 31] ==
        IF k = 0 THEN <<low, high>>
        ELSE LET s == search[k - 1]
                 mid == (s[1] + s[2]) \div 2
             IN IF s[1] + 1 >= s[2] THEN s ELSE IF fit(chunks, penalties, mid) THEN <<s[1], mid>> ELSE <<mid, s[2]>>
  IN search[31][2]

Shared(chunks, nodes, penalties, bound, starts) ==
  LET took == [p \in 1 .. Len(penalties) |-> Fill(chunks, starts[p - 1], bound - penalties[p])] @@ <<>>
  IN [starts |-> starts,
      nodes |-> [p \in 1 .. Len(penalties) |-> nodes[p] + took[p].nodes],
      penalties |-> [p \in 1 .. Len(penalties) |-> bound - took[p].free]]

\* Starts of the ranks, and the nodes and penalties each has in the end
partition_lines(chunks, nodes, penalties) ==
  LET Within(bound) == Shared(chunks, nodes, penalties, bound, Starts(chunks, penalties, bound))
  IN Within(BoundFound(chunks, penalties))

\* sections is a sequence, as in sections_t
simple_partition(ranks, sections) ==
  LET none == [p \in 1 .. ranks |-> 0]
      Whole(owners, others, owned, both) ==
        [ranks |-> ranks, sections |-> sections, owner_lines |-> owners, other_lines |-> others,
         offsets |-> Offsets(owners), owner_starts |-> owned.starts, other_starts |-> both.starts,
         owner_work |-> owned.nodes, other_work |-> both.nodes, penalties |-> both.penalties]
      Owned(owners, others, owned) == Whole(owners, others, owned, partition_lines(others, owned.nodes, owned.penalties))
      Lines(owners, others) == Owned(owners, others, partition_lines(owners, none, none))
  IN Lines(FlattenSeq([i \in 1 .. Len(sections) |-> OwnerChunks(sections[i])]),
           FlattenSeq([i \in 1 .. Len(sections) |-> OtherChunks(sections[i])]))
-----------------------------------------------------------------------------
(***************************************************************************)
(* Queries of a partition P.                                               *)
(***************************************************************************)
\* Blocks and nodes owned by lower ranks
OffsetsAt(P, rank, start) ==
  IF rank = P.ranks \/ start[1] > Len(P.owner_lines) THEN <<TotalBlocks(P.sections), TotalNodes(P.sections)>>
  ELSE <<P.offsets[start[1]][1] + P.owner_lines[start[1]].length * start[2],
         P.offsets[start[1]][2] + P.owner_lines[start[1]].line_size * start[2]>>

rank_offsets(P, rank) == OffsetsAt(P, rank, P.owner_starts[rank])

rank_counts(P, rank) ==
  LET Difference(after, before) == [i \in 1 .. 2 |-> after[i] - before[i]]
  IN Difference(rank_offsets(P, rank + 1), rank_offsets(P, rank))

LineOf(chunk, k) ==
  LET I == decompose(chunk.sizes, k)
  IN [section |-> chunk.section, dimension |-> chunk.dimension, length |-> chunk.length,
      block_base |-> [a \in 0 .. 2 |-> chunk.min[a] + I[a]] @@ <<>>]

LinesBetween(chunks, start, end) ==
  FlattenSeq([i \in 1 .. Min({end[1], Len(chunks)}) - start[1] + 1 |->
    LET r == start[1] + i - 1
        from == IF r = start[1] THEN start[2] ELSE 0
        to == IF r = end[1] THEN end[2] ELSE chunks[r].count
    IN [k \in 1 .. to - from |-> LineOf(chunks[r], from + k - 1)]])

owned_lines(P, rank) == LinesBetween(P.owner_lines, P.owner_starts[rank], P.owner_starts[rank + 1])
rank_lines(P, rank) == owned_lines(P, rank) \o LinesBetween(P.other_lines, P.other_starts[rank], P.other_starts[rank + 1])

LinesCounted(chunks, start, end) ==
  LET upto[r \in start[1] - 1 .. end[1]] ==
        IF r < start[1] THEN 0
        ELSE upto[r - 1] + (IF r = end[1] THEN end[2] ELSE chunks[r].count) - (IF r = start[1] THEN start[2] ELSE 0)
  IN upto[end[1]]

rank_count_lines(P, rank) ==
  LinesCounted(P.other_lines, P.other_starts[rank], P.other_starts[rank + 1])
    + LinesCounted(P.owner_lines, P.owner_starts[rank], P.owner_starts[rank + 1])

\* Local ids count the blocks of a rank's lines
rank_blocks(P, rank) ==
  LET Numbered(all) == [i \in 1 .. Len(all) |-> [local_id |-> i - 1, section |-> all[i].section, block |-> all[i].block]]
      Of(lines) == FlattenSeq([i \in 1 .. Len(lines) |->
        [b \in 1 .. lines[i].length |-> [section |-> lines[i].section, block |-> LineBlock(lines[i], b - 1)]]])
  IN Numbered(Of(owned_lines(P, rank)))

\* The first chunk of the section whose box holds the block
block_to_line(P, s, b) ==
  LET k == OwnerDimension(s)
      across == remove_index(b, k)
      here(c) == /\ P.owner_lines[c].section = s
                 /\ \A a \in 0 .. 2 : across[a] - P.owner_lines[c].min[a] \in 0 .. P.owner_lines[c].sizes[a] - 1
      found == Min({c \in 1 .. Len(P.owner_lines) : here(c)})
      chunk == P.owner_lines[found]
  IN <<found, index(chunk.sizes, [a \in 0 .. 2 |-> across[a] - chunk.min[a]])>>

block_to_id(P, s, b) ==
  LET IdAt(at) == P.offsets[at[1]][1] + P.owner_lines[at[1]].length * at[2] + b[P.owner_lines[at[1]].dimension]
  IN IdAt(block_to_line(P, s, b))

Before(p, q) == p[1] < q[1] \/ (p[1] = q[1] /\ p[2] < q[2])

\* Mutant of block_to_rank: a rank that starts at the line does not own it
block_to_rank_after(P, s, b) ==
  LET line == block_to_line(P, s, b)
  IN Max({0} \cup {r \in 0 .. P.ranks - 1 : Before(P.owner_starts[r], line)})

\* The last rank that starts at or before the line
block_to_rank(P, s, b) ==
  LET line == block_to_line(P, s, b)
      search[k \in 0 .. P.ranks] ==
        IF k = 0 THEN <<0, P.ranks>>
        ELSE LET r == search[k - 1]
                 mid == (r[1] + r[2]) \div 2
             IN IF r[1] + 1 >= r[2] THEN r
                ELSE IF Before(line, P.owner_starts[mid]) THEN <<r[1], mid>> ELSE <<mid, r[2]>>
  IN search[P.ranks][1]

find_block(P, s, b) ==
  LET At(rank) == <<rank, block_to_id(P, s, b) - rank_offsets(P, rank)[1]>> IN At(block_to_rank(P, s, b))

\* The last chunk that begins at or before the block
rank_block(P, rank, local_id) ==
  LET Placed(chunk, I, k) == <<chunk.section, insert([a \in 0 .. 2 |-> chunk.min[a] + I[a]], k, chunk.dimension)>>
      Inside(chunk, i) == Placed(chunk, decompose(chunk.sizes, i \div chunk.length), i % chunk.length)
      Of(id, found) == Inside(P.owner_lines[found], id - P.offsets[found][1])
      At(id) == Of(id, Max({c \in 1 .. Len(P.owner_lines) : P.offsets[c][1] <= id}))
  IN At(rank_offsets(P, rank)[1] + local_id)
-----------------------------------------------------------------------------
(***************************************************************************)
(* The random partition of end/random_partition.cc: every line of a slice  *)
(* has a number, a permutation of the numbers is cut into one range per    *)
(* rank, and each block picks one of the lines through it as its owner.    *)
(* cipher stands for threefry under the key, primary[s, b] for its value   *)
(* at the event of block b of section s.                                   *)
(***************************************************************************)

\* All lines of a section along one direction
Sheaf(s, k) ==
  LET sizes == section_blocks(s)
      across == remove_index(sizes, k)
  IN [section |-> s, dimension |-> k, length |-> sizes[k], sizes |-> across, lines |-> Volume(across)]

Sheafs(sections) ==
  FlattenSeq([i \in 1 .. Len(sections) |->
    FlattenSeq([k \in 1 .. 4 |-> IF k - 1 \in Open(sections[i]) THEN <<Sheaf(sections[i], k - 1)>> ELSE <<>>])])

random_partition(cipher, ranks, sections) ==
  LET Offset(sheafs) == LET offset[i \in 1 .. Len(sheafs) + 1] == IF i = 1 THEN 0 ELSE offset[i - 1] + sheafs[i - 1].lines IN offset
      Cut(sheafs, offset) == [cipher |-> cipher, ranks |-> ranks, sections |-> sections, sheafs |-> sheafs,
                              line_offset |-> offset, total_lines |-> offset[Len(sheafs) + 1]]
      Lines(sheafs) == Cut(sheafs, Offset(sheafs))
  IN Lines(Sheafs(sections))

\* The last sheaf that begins at or before the permuted number
LineAt(sheaf, n) ==
  [section |-> sheaf.section, dimension |-> sheaf.dimension, length |-> sheaf.length, block_base |-> decompose(sheaf.sizes, n)]

nth_line(P, n) ==
  LET Of(pn, found) == LineAt(P.sheafs[found], pn - P.line_offset[found])
      At(pn) == Of(pn, Max({i \in 1 .. Len(P.sheafs) : P.line_offset[i] <= pn}))
  IN At(random_permute(P.total_lines, P.cipher, n))

RankRange(P, rank) == partition_loop(P.total_lines, P.ranks, rank)

random_rank_count_lines(P, rank) == Length(RankRange(P, rank))
random_rank_lines(P, rank) ==
  LET r == RankRange(P, rank) IN [i \in 1 .. Length(r) |-> nth_line(P, r.lo + i - 1)]

\* One of the open directions, told by the block's event
owner_dimension(primary, s, b) ==
  LET n == Cardinality(Open(s))
  IN Nth(Open(s), IF n = 1 THEN 0 ELSE primary[<<s, b>>] % n)

\* Local ids hold the line and, in six bits, the block of it
BlocksOfLine(line, i) ==
  [b \in 1 .. line.length |->
    [local_id |-> 64 * (i - 1) + b - 1, section |-> line.section, block |-> LineBlock(line, b - 1), dimension |-> line.dimension]]

random_rank_blocks(P, primary, rank) ==
  LET Of(lines) == FlattenSeq([i \in 1 .. Len(lines) |-> BlocksOfLine(lines[i], i)])
  IN SelectSeq(Of(random_rank_lines(P, rank)), LAMBDA x : owner_dimension(primary, x.section, x.block) = x.dimension)

random_rank_counts(P, primary, rank) ==
  LET Counted(all) == <<Len(all), FoldLeft(LAMBDA t, x : t + BlockNodes(x.section, x.block), 0, all)>>
  IN Counted(random_rank_blocks(P, primary, rank))

random_find_block(P, primary, s, b) ==
  LET k == owner_dimension(primary, s, b)
      found == CHOOSE i \in 1 .. Len(P.sheafs) : P.sheafs[i].section = s /\ P.sheafs[i].dimension = k
      At(n, rank) == <<rank, 64 * (n - RankRange(P, rank).lo) + b[k]>>
      Ranked(n) == At(n, partition_loop_inverse(P.total_lines, P.ranks, n))
  IN Ranked(random_unpermute(P.total_lines, P.cipher,
              P.line_offset[found] + index(P.sheafs[found].sizes, remove_index(b, k))))

random_rank_block(P, rank, local_id) ==
  LET At(line) == <<line.section, LineBlock(line, local_id % 64)>>
  IN At(nth_line(P, RankRange(P, rank).lo + (local_id \div 64)))
==============================================================================

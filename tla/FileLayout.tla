----------------------------- MODULE FileLayout ------------------------------
(***************************************************************************)
(* Where the ranks put what they write in parallel, and how other ranks    *)
(* find it again: mpi/io.cc.                                               *)
(*                                                                         *)
(* A job W of writing has W.ranks ranks and the sections 0 .. W.sections-1 *)
(* with W.blocks[s] blocks each; rank r stores the blocks W.owned[r] in    *)
(* that order, a block being a pair of a section and a number.  W.size is  *)
(* the compressed size of each block, W.index_size that of each section's  *)
(* block index.  A blob is an offset and a size.                           *)
(***************************************************************************)
EXTENDS Partitions, Supers

pad_io == 1
multiple_supertensor_header_size(sections) == 20 + 3 * 4 + 85 * sections

RanksOf(W) == 0 .. W.ranks - 1
Total_(seq) == FoldLeft(LAMBDA t, x : t + x, 0, seq)

\* MPI_Exscan with MPI_SUM; rank 0 keeps the zero it had
Exscan(parts, rank) == LET before[r \in 0 .. rank] == IF r = 0 THEN 0 ELSE before[r - 1] + parts[r - 1] IN before[rank]
-----------------------------------------------------------------------------
(***************************************************************************)
(* Blocks: each rank's end to end, and one byte of padding.                *)
(***************************************************************************)
header_size(W) == multiple_supertensor_header_size(W.sections)
SizesAt(W, r) == [i \in 1 .. Len(W.owned[r]) |-> W.size[W.owned[r][i]]]
\* Mutant of local_size: the byte of padding not counted
local_size_unpadded(W) == [r \in RanksOf(W) |-> Total_(SizesAt(W, r))]
local_size(W) == [r \in RanksOf(W) |-> Total_(SizesAt(W, r)) + pad_io]
BlocksStart(W, r) == header_size(W) + Exscan(local_size(W), r)

\* As broadcast by the last rank
block_index_start(W) == BlocksStart(W, W.ranks - 1) + local_size(W)[W.ranks - 1]

block_blobs(W, r) ==
  LET sizes == SizesAt(W, r)
      start == BlocksStart(W, r)
      offset[i \in 1 .. Len(sizes) + 1] == IF i = 1 THEN start ELSE offset[i - 1] + sizes[i - 1]
  IN [i \in 1 .. Len(sizes) |-> [offset |-> offset[i], size |-> sizes[i]]]
-----------------------------------------------------------------------------
(***************************************************************************)
(* Blobs go to the owner of their section, who writes its block index.     *)
(***************************************************************************)
SectionRange(W, r) == partition_loop(W.sections, W.ranks, r)
SectionOwner(W, s) == partition_loop_inverse(W.sections, W.ranks, s)

\* What q sends r; the buffer is filled from its end
Sent(W, q, r) ==
  LET blobs == block_blobs(W, q)
      mine == SelectSeq([i \in 1 .. Len(blobs) |-> [block |-> W.owned[q][i], blob |-> blobs[i]]],
                        LAMBDA e : SectionOwner(W, e.block[1]) = r)
  IN Reverse(mine)

\* How many blobs r expects of q, found by asking the partition for every block
recv_count(W, r, q) ==
  Cardinality({b \in UNION {{s} \X (0 .. W.blocks[s] - 1) : s \in In(SectionRange(W, r))} : b \in Range(W.owned[q])})

Received(W, r) == FlattenSeq([q \in 1 .. W.ranks |-> Sent(W, q - 1, r)])

block_index(W, s) ==
  LET got == Received(W, SectionOwner(W, s))
  IN [b \in 0 .. W.blocks[s] - 1 |->
       LET mine == {e \in Range(got) : e.block = <<s, b>>}
       IN IF mine = {} THEN [offset |-> 0, size |-> 0] ELSE (CHOOSE e \in mine : TRUE).blob]
-----------------------------------------------------------------------------
(***************************************************************************)
(* Block indices: each rank's end to end, and one byte of padding.         *)
(***************************************************************************)
IndexSizesAt(W, r) == LET mine == SectionRange(W, r) IN [i \in 1 .. Length(mine) |-> W.index_size[mine.lo + i - 1]]
local_block_indexes_size(W) == [r \in RanksOf(W) |-> Total_(IndexSizesAt(W, r)) + pad_io]
local_block_index_start(W, r) == block_index_start(W) + Exscan(local_block_indexes_size(W), r)

\* Rank r's own entries, and zeroes for the sections of others
IndexBlobsAt(W, r) ==
  LET mine == SectionRange(W, r)
      offset[s \in mine.lo .. mine.hi] ==
        IF s = mine.lo THEN local_block_index_start(W, r) ELSE offset[s - 1] + W.index_size[s - 1]
  IN [s \in 0 .. W.sections - 1 |->
       IF s \in In(mine) THEN [offset |-> offset[s], size |-> W.index_size[s]] ELSE [offset |-> 0, size |-> 0]]

\* Summed at the root
index_blobs(W) ==
  LET sum[r \in RanksOf(W)] ==
        IF r = 0 THEN IndexBlobsAt(W, 0)
        ELSE LET a == sum[r - 1]
                 b == IndexBlobsAt(W, r)
             IN [s \in DOMAIN a |-> [offset |-> a[s].offset + b[s].offset, size |-> a[s].size + b[s].size]]
  IN sum[W.ranks - 1]
-----------------------------------------------------------------------------
(***************************************************************************)
(* The writes: an offset and the bytes, each told by what it is part of.   *)
(***************************************************************************)
Bytes_(what, n) == [i \in 1 .. n |-> <<what, i - 1>>]

BlockWrite(W, r) ==
  [offset |-> BlocksStart(W, r),
   bytes |-> FlattenSeq([i \in 1 .. Len(W.owned[r]) |-> Bytes_(<<"block", W.owned[r][i]>>, W.size[W.owned[r][i]])])
               \o Bytes_(<<"pad", r>>, pad_io)]

IndexWrite(W, r) ==
  LET mine == SectionRange(W, r)
  IN [offset |-> local_block_index_start(W, r),
      bytes |-> FlattenSeq([i \in 1 .. Length(mine) |-> Bytes_(<<"index", mine.lo + i - 1>>, W.index_size[mine.lo + i - 1])])
                  \o Bytes_(<<"index pad", r>>, pad_io)]

HeaderWrite(W) == [offset |-> 0, bytes |-> Bytes_(<<"header", 0>>, header_size(W))]

write_sections(W) == {HeaderWrite(W)} \cup {BlockWrite(W, r) : r \in RanksOf(W)} \cup {IndexWrite(W, r) : r \in RanksOf(W)}

Covers(write) == write.offset .. write.offset + Len(write.bytes) - 1
FileOf(writes) ==
  LET ends == {w.offset + Len(w.bytes) : w \in writes}
  IN [k \in 0 .. Max(ends) - 1 |->
       LET over == {w \in writes : k \in Covers(w)}
       IN IF over = {} THEN "hole" ELSE LET w == CHOOSE w \in over : TRUE IN w.bytes[k - w.offset + 1]]
-----------------------------------------------------------------------------
(***************************************************************************)
(* Reading: every rank reads an equal piece of the file, and fetches each  *)
(* of its blobs from all the ranks that hold part of it.                   *)
(***************************************************************************)
\* Flat over the ranks, and rank r's slice of it: blocks[r] are what r will own
Scattered(blocks, ranks, blob_of, r) ==
  LET all == FlattenSeq([q \in 1 .. ranks |-> [i \in 1 .. Len(blocks[q - 1]) |-> blob_of[blocks[q - 1][i]]]])
      displ == Exscan([q \in 0 .. ranks - 1 |-> Len(blocks[q])], r)
  IN SubSeq(all, displ + 1, displ + Len(blocks[r]))

Gets(total, ranks, blob) ==
  LET lo == blob.offset
      hi == blob.offset + blob.size
      first_ == partition_loop_inverse(total, ranks, lo)
      last_ == partition_loop_inverse(total, ranks, hi - 1)
      piece(r) == LET part == partition_loop(total, ranks, r)
                      from == Max({lo, part.lo})
                  IN [rank |-> r, to |-> from - lo, from |-> from - part.lo, size |-> Min({hi, part.hi}) - from]
  IN [i \in 1 .. last_ - first_ + 1 |-> piece(first_ + i - 1)]

ReadBlob(file, ranks, blob) ==
  LET total == Cardinality(DOMAIN file)
      raw == [r \in 0 .. ranks - 1 |-> LET part == partition_loop(total, ranks, r) IN [i \in 0 .. Length(part) - 1 |-> file[part.lo + i]]]
      gets == Gets(total, ranks, blob)
  IN [k \in 1 .. blob.size |->
       LET g == CHOOSE g \in Range(gets) : k - 1 \in g.to .. g.to + g.size - 1 IN raw[g.rank][g.from + k - 1 - g.to]]
-----------------------------------------------------------------------------
(***************************************************************************)
(* Entries change form on their way: black's and white's wins in the file, *)
(* in memory what the player to move wins, and wins or ties.               *)
(***************************************************************************)
Not(s) == Bits256 \ s
FilterOut(turn, d) == interleave_super(IF turn = 0 THEN <<d[1], Not(d[2])>> ELSE <<Not(d[2]), d[1]>>)
FilterIn(turn, stored) ==
  LET s == uninterleave_super(stored) IN IF turn = 0 THEN <<s[1], Not(s[2])>> ELSE <<s[2], Not(s[1])>>

\* counts: wins, wins or ties, and all, of the player to move; summed over the ranks
write_counts(turn, counts, ranks) ==
  [s \in DOMAIN counts[0] |->
     LET sum[i \in 1 .. 3] == Exscan([r \in 0 .. ranks |-> IF r = ranks THEN 0 ELSE counts[r][s][i]], ranks)
         wins == sum[1]
         losses == sum[3] - sum[2]
     IN [black |-> IF turn = 1 THEN losses ELSE wins, white |-> IF turn = 1 THEN wins ELSE losses, total |-> sum[3]]]

SampleOut(turn, wins) == IF turn = 0 THEN <<wins[1], Not(wins[2])>> ELSE <<Not(wins[2]), wins[1]>>

\* The root's samples follow its header; a sample is a board and its two supers
write_sparse_samples(header, samples, ranks) ==
  LET buffers == [r \in 0 .. ranks - 1 |->
                   (IF r = 0 THEN Bytes_(<<"header", 0>>, header) ELSE <<>>)
                     \o FlattenSeq([i \in 1 .. Len(samples[r]) |-> Bytes_(samples[r][i], (1 + 8) * 8)])]
  IN {[offset |-> Exscan([q \in 0 .. ranks - 1 |-> Len(buffers[q])], r), bytes |-> buffers[r]] : r \in 0 .. ranks - 1}
=============================================================================

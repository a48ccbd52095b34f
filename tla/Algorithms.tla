------------------------------ MODULE Algorithms ------------------------------
(***************************************************************************)
(* The algorithms on boards, sections, blocks and files, at their full     *)
(* size, each against a definition of what it should compute.  A behavior  *)
(* makes one call, or several to a list or a cache that keeps state.       *)
(*                                                                         *)
(* The definitions it compares with are at the end.  They are stated by    *)
(* coordinates on the 6 by 6 board and by quantifiers, and use none of the *)
(* tables, orders and shifts of the code.                                  *)
(***************************************************************************)
EXTENDS WebData, BlockPartitions, FileLayout, BlockData, RequestList

CONSTANTS Calls,        \* what is called: records with an op and what it takes
          Memory,       \* of each block that a cache is asked for
          MemoryLimit,  \* of the cache
          MaxLoads,     \* bound on the blocks asked for
          MaxRequests   \* bound on the requests added to a list

VARIABLES call, result

ASSUME AlgorithmsAssumption == /\ {MemoryLimit, MaxLoads, MaxRequests} \subseteq Nat
                               /\ \A k \in DOMAIN Memory : Memory[k] \in Nat \ {0}
                               /\ IsFiniteSet(DOMAIN Memory)

NoResult == [steps |-> 0]

Init ==
  /\ call \in Calls
  /\ result = NoResult

AnySection == [Quads -> (0 .. 9) \X (0 .. 9)]
AnyBlock == [Quads -> Nat]

Called(op) == call.op = op /\ result = NoResult /\ UNCHANGED call
-----------------------------------------------------------------------------
(***************************************************************************)
(* Boards.                                                                 *)
(***************************************************************************)
Score ==
  /\ Called("score")
  /\ result' =
       LET wins == super_wins_in(call.side, TRUE)
           halves == split(wins)
       IN [sse |-> wins, words |-> super_wins_in(call.side, FALSE),
           halves |-> [p \in 1 .. 2 |-> halfsuper_wins_of(call.side, p = 2)],
           merged |-> merge(halves[1], halves[2]), rmax |-> <<rmax_sse(wins), rmax_words(wins)>>,
           half_rmax |-> [p \in 1 .. 2 |-> <<half_rmax_sse(halves[p]), half_rmax_words(halves[p])>>],
           won |-> won(call.side), rotated |-> rotated_won(call.side),
           arbitrary |-> arbitrarily_rotated_status(call.side)]

Near ==
  /\ Called("near")
  /\ result' = [unrotated |-> unrotated_win_closeness(call.sides[1], call.sides[2]),
                rotated |-> rotated_win_closeness(call.sides[1], call.sides[2]),
                arbitrary |-> arbitrarily_rotated_win_closeness(call.sides[1], call.sides[2])]

ListMoves ==
  /\ Called("moves")
  /\ result' = [moves |-> moves(call.sides), table |-> to_table(call.sides), back |-> from_table(to_table(call.sides)),
                status |-> status(call.sides), packed |-> UnpackBoard(PackBoard(call.sides)),
                stones |-> {t[1] : t \in simple_moves(call.sides)}]

Transform ==
  /\ Called("transform")
  /\ result' =
       LET s == call.first
           wins == super_wins_in(call.side, TRUE)
       IN [once |-> transform_side(s, call.side),
           twice |-> transform_side(Product(call.second, s), call.side),
           back |-> transform_side(inverse(s), call.side),
           sse |-> transform_super_in(s, wins, TRUE), words |-> transform_super_in(s, wins, FALSE)]

Standardize ==
  /\ Called("standardize")
  /\ result' =
       LET super == superstandardize(call.sides[1], call.sides[2])
       IN [standard |-> standardize(call.sides), super |-> super[1],
           by |-> transform_board(super[2], PackBoard(call.sides))]
-----------------------------------------------------------------------------
(***************************************************************************)
(* Sections and their boards.                                              *)
(***************************************************************************)
IndexQuadrants ==
  /\ Called("quadrants")
  /\ result' =
       LET b == call.counts[1]
           w == call.counts[2]
       IN [index |-> rmins_index(b, w), inverse |-> rmins_inverse(b, w), moved |-> reflect_moved(b, w),
           standard |-> [v \in OfCounts(b, w) |-> rotation_standardize_quadrant(v)] @@ <<>>,
           size |-> bucket_size[call.counts]]

MoveSection ==
  /\ Called("section")
  /\ result' =
       LET s == count(PackBoard(call.sides))
           wins == [k \in 1 .. 2 |-> super_wins_in(call.sides[k], TRUE)]
       IN [popcounts |-> popcounts_over_stabilizers(PackBoard(call.sides), wins), moved |-> [g \in Global |-> section_transform(s, g)], standard |-> section_standardize(s, 8),
           places |-> [g \in Global |-> quadrant_permutation(g)], valid |-> section_valid(s)]

EnumerateBoards ==
  /\ Called("boards")
  /\ result' = [boards |-> all_boards(call.stones, call.symmetries), counted |-> count_boards(call.stones, call.symmetries)]

EnumerateSections ==
  /\ Called("sections")
  /\ result' =
       LET standard == all_boards_sections(call.stones, 8)
       IN [standard |-> standard, all |-> all_boards_sections(call.stones, 1),
           counted |-> sum_section_counts([s \in standard |-> 1])]

DescendSections ==
  /\ Called("descend")
  /\ result' = [below |-> descendent_sections([q \in Quads |-> <<0, 0>>], call.stones),
                web |-> web_descendent_sections(call.stones)]
-----------------------------------------------------------------------------
(***************************************************************************)
(* Partitions.                                                             *)
(***************************************************************************)
PartitionSimply ==
  /\ Called("simple")
  /\ result' =
       LET Queried(P, blocks) ==
             [lines |-> [r \in DOMAIN blocks |-> rank_lines(P, r)] @@ <<>>, blocks |-> blocks,
              counts |-> [r \in DOMAIN blocks |-> <<rank_count_lines(P, r), rank_counts(P, r)[1], rank_counts(P, r)[2]>>] @@ <<>>,
              found |-> [r \in DOMAIN blocks |-> [i \in DOMAIN blocks[r] |->
                           <<find_block(P, blocks[r][i].section, blocks[r][i].block), rank_block(P, r, blocks[r][i].local_id)>>]] @@ <<>>]
           Of(P) == Queried(P, [r \in 0 .. call.ranks - 1 |-> rank_blocks(P, r)] @@ <<>>)
       IN Of(simple_partition(call.ranks, call.sections))

PartitionRandomly ==
  /\ Called("random")
  /\ result' =
       LET P == random_partition(call.cipher, call.ranks, call.sections)
           primary == [s \in Range(call.sections), b \in AnyBlock |->
                        call.primary[1 + ((b[0] + 3 * b[1] + 5 * b[2] + 7 * b[3] + s[0][1]) % Len(call.primary))]]
           blocks == [r \in 0 .. call.ranks - 1 |-> random_rank_blocks(P, primary, r)] @@ <<>>
       IN [lines |-> [r \in DOMAIN blocks |-> random_rank_lines(P, r)] @@ <<>>, blocks |-> blocks,
           counts |-> [r \in DOMAIN blocks |-> LET c == random_rank_counts(P, primary, r) IN <<random_rank_count_lines(P, r), c[1], c[2]>>] @@ <<>>,
           found |-> [r \in DOMAIN blocks |-> [i \in DOMAIN blocks[r] |->
                       <<random_find_block(P, primary, blocks[r][i].section, blocks[r][i].block),
                         random_rank_block(P, r, blocks[r][i].local_id)>>]] @@ <<>>]

Permute ==
  /\ Called("permute")
  /\ result' =
       LET to == [x \in 0 .. call.n - 1 |-> random_permute(call.n, call.cipher, x)] @@ <<>>
       IN [to |-> to, back |-> [x \in DOMAIN to |-> random_unpermute(call.n, call.cipher, to[x])] @@ <<>>]

DivideLoop ==
  /\ Called("loop")
  /\ result' = [parts |-> [t \in 0 .. call.threads - 1 |-> partition_loop(call.steps, call.threads, t)] @@ <<>>,
                inverse |-> [i \in 0 .. call.steps - 1 |-> partition_loop_inverse(call.steps, call.threads, i)] @@ <<>>]

Balance ==
  /\ Called("balance")
  /\ result' =
       LET Balanced(loads) == [loads |-> loads, parallel |-> load_balance(loads), serial |-> serial_load_balance(loads, call.threads)]
           Of(P) == Balanced([r \in 1 .. call.ranks |-> local_load_balance(rank_lines(P, r - 1), rank_blocks(P, r - 1))])
       IN Of(simple_partition(call.ranks, call.sections))
-----------------------------------------------------------------------------
(***************************************************************************)
(* Files.                                                                  *)
(***************************************************************************)
WriteFile ==
  /\ Called("file")
  /\ result' =
       LET W == call.job
           writes == write_sections(W)
           file == FileOf(writes)
           index_of == index_blobs(W)
       IN [writes |-> writes,
           messages |-> [p \in RanksOf(W) \X RanksOf(W) |-> <<Len(Sent(W, p[2], p[1])), recv_count(W, p[1], p[2])>>] @@ <<>>,
           indices |-> [s \in DOMAIN index_of |-> ReadBlob(file, call.readers, index_of[s])],
           blocks |-> [b \in DOMAIN W.size |-> ReadBlob(file, call.readers, block_index(W, b[1])[b[2]])] @@ <<>>]

WriteSmallFiles ==
  /\ Called("counts")
  /\ result' = [counts |-> write_counts(call.turn, call.counts, call.ranks),
                samples |-> write_sparse_samples(call.header, call.samples, call.ranks)]

Scatter ==
  /\ Called("scatter")
  /\ result' = [r \in DOMAIN call.blocks |-> Scattered(call.blocks, Cardinality(DOMAIN call.blocks),
                                                      [b \in UNION {Range(call.blocks[q]) : q \in DOMAIN call.blocks} |-> <<"blob", b>>], r)]

Filter ==
  /\ Called("filter")
  /\ result' = [entry |-> FilterIn(call.turn, FilterOut(call.turn, call.data[1])),
                stored |-> uninterleave_super(FilterOut(call.turn, call.data[1])),
                sample |-> SampleOut(call.turn, call.data[1]),
                compacted |-> compact(call.data), back |-> uncompact(compact(call.data)),
                fast |-> [z \in {0, 64 * Len(call.data)} |-> fast_uncompress(fast_compress(call.data, z))]]

Wavelet ==
  /\ Called("wavelet")
  /\ result' = [back |-> wavelet_untransform(wavelet_transform(call.data, call.sizes), call.sizes)]
-----------------------------------------------------------------------------
(***************************************************************************)
(* Looking boards up in finished data.                                     *)
(***************************************************************************)
\* The board at a place of a block, as the tables of quadrants have it
BoardAt(s, block, I) ==
  UnpackBoard([q \in Quads |->
    LET at == rmins_index(s[q][1], s[q][2]) IN CHOOSE v \in DOMAIN at : at[v] = block_size * block[q] + I[q]])

\* What a file has for it, and what a store of its slice has; a win is a line on the board
FileBlock(s, block) == [I \in [Quads -> 0 .. 7] |-> LET b == BoardAt(s, block, I) IN <<super_wins_in(b[1], FALSE), super_wins_in(b[2], FALSE)>>]
StoreBlock(s, block) ==
  [I \in [Quads -> 0 .. 7] |->
    LET b == Flipped(BoardAt(s, block, I), SectionSum(s) % 2) IN <<super_wins_in(b[1], FALSE), Complement(super_wins_in(b[2], FALSE))>>]
FlatBlock(s, block) ==
  LET n == block_shape(shape(s), block) IN [i \in 0 .. Volume(n) - 1 |-> FileBlock(s, block)[decompose(n, i)]]

\* The player to move comes first
ToMove(sides) == Flipped(sides, count_stones(sides) % 2)

LookUp ==
  /\ Called("lookup")
  /\ result' =
       LET m == ToMove(call.sides)
           file == [s \in AnySection, b \in AnyBlock |-> FileBlock(s, b)]
           store == [s \in AnySection, b \in AnyBlock |-> StoreBlock(s, b)]
       IN [reader |-> lookup(call.aggressive, m, AnySection, file, "reader", call.sse),
           store |-> lookup(call.aggressive, m, AnySection, store, "store", call.sse),
           absent |-> lookup(call.aggressive, m, {}, file, "reader", call.sse)]

Locate ==
  /\ Called("index")
  /\ result' =
       LET Located(sections, where) ==
             [file |-> write_supertensor_index(sections, [s \in AnySection, I \in AnyBlock |-> <<s, I>>]), sections |-> sections,
              at |-> [b \in where |-> <<blob_location(sections, b[1], b[2]), web_blob_location(sections, b[1], b[2])>>]]
           Of(sections) == Located(sections, UNION {{s} \X Blocks(s) : s \in Range(sections)})
       IN Of(web_descendent_sections(call.slice)[call.slice])
-----------------------------------------------------------------------------
(***************************************************************************)
(* Computing a line of blocks from the blocks of its children.             *)
(***************************************************************************)
\* What is known of a board before any move: a line decides, and no line is a tie
Decided(sides) ==
  LET wins == [k \in 1 .. 2 |-> super_wins_in(sides[k], FALSE)] IN <<wins[1] \ wins[2], wins[1] \cup Complement(wins[2])>>

\* Place i of the memory for input after every block was received and put in place;
\* what lies behind a block is left from before
InputOf(d, i) ==
  LET n == shape(d.standard_child_section)
      turn == SectionSum(d.standard_child_section) % 2
      Board_(block, I) == [q \in Quads |-> d.child_rmin[q][block_size * block[q] + I[q]]]
      At(place, block) ==
        IF place >= Volume(block_shape(n, block)) THEN <<{0}, {0}>>
        ELSE Decided(Flipped(UnpackBoard(Board_(block, decompose(block_shape(n, block), place))), turn))
  IN At(i % (d.block_stride + 1), input_block(d, i \div (d.block_stride + 1)))

ComputeMicroline ==
  /\ Called("microline")
  /\ result' =
       LET Computed(d) == [output |-> compute_microline(d, call.base, [i \in Nat |-> InputOf(d, i)], call.sse), transform |-> d.section_transform]
       IN Computed(line_details(call.line))
-----------------------------------------------------------------------------
(***************************************************************************)
(* The web server's and the web page's versions.                           *)
(***************************************************************************)
ShowBoard ==
  /\ Called("page")
  /\ result' =
       LET p == Page(PackBoard(call.sides), 0)
           placed == page_moves(p)
       IN [name |-> quadrants_to_str(p.quads), back |-> str_to_quadrants(quadrants_to_str(p.quads)),
           placed |-> placed, moved |-> UNION {page_moves(m) : m \in placed},
           won |-> [k \in 0 .. 1 |-> page_won(p, k)], fives |-> page_fives(p),
           high |-> {from_high(high(m)) : m \in placed \cup {p}}]

ShowSection ==
  /\ Called("matrix")
  /\ result' =
       LET p == Page(PackBoard(call.sides), 0)
           s == board_section(p)
       IN [section |-> s, moved |-> [g \in Global |-> transform_section(g, s)], standard |-> standardize_section(s),
           boards |-> [g \in Global |-> global_transform_board(g, p)],
           bits |-> uninterleave(LET i == interleave_super(call.data) IN i[1] \cup {b + 256 : b \in i[2]})]

ShowValue ==
  /\ Called("value")
  /\ result' =
       LET p == Page(PackBoard(call.sides), 0)
           m == CHOOSE m \in page_moves(p) : \A o \in page_moves(p) : ~Less(o.quads, m.quads)
           flat == [s \in AnySection, b \in AnyBlock |-> FlatBlock(s, b)]
       IN [value |-> value_helper(p, flat), placed |-> m, best |-> web_value(m, flat)]
-----------------------------------------------------------------------------
(***************************************************************************)
(* Blocks asked of a cache, and requests added to a list and completed.    *)
(***************************************************************************)
NewCache == [order |-> <<>>, free |-> MemoryLimit]
\* The page keeps two or three keys, and is reloaded before every third
NewPage == [time |-> <<>>, last |-> 0]
Reloaded(page, n) == IF n % 3 = 2 THEN page_reload(page) ELSE page
Cached == IF result = NoResult THEN [steps |-> 0, reader |-> NewCache, store |-> NewCache, page |-> NewPage, asked |-> <<>>] ELSE result

LoadBlock ==
  /\ call.op = "cache"
  /\ Cached.steps < MaxLoads
  /\ \E k \in DOMAIN Memory :
       result' = [steps |-> Cached.steps + 1, asked |-> Append(Cached.asked, k),
                  reader |-> reader_load(Cached.reader, k, Memory), store |-> store_load(Cached.store, k, Memory),
                  page |-> page_load(Reloaded(Cached.page, Cached.steps), k, 2, 3)]
  /\ UNCHANGED call

\* Request i calls back as i, unless it is one that nobody waits for; every
\* other request that calls back may be cancelled
Listed == IF result = NoResult THEN [steps |-> 0, list |-> EmptyList, completed |-> <<>>, called |-> <<>>] ELSE result
CallbackOf(i) == IF i % 3 = 0 THEN NoCallback ELSE <<"callback of", i>>
Cancellable(i) == i % 3 # 1
Added(list, i) ==
  IF CallbackOf(i) = NoCallback THEN free_request(list, i) ELSE add_request(list, i, CallbackOf(i), Cancellable(i))

AddRequest ==
  /\ call.op = "requests"
  /\ Listed.steps < MaxRequests
  /\ result' = [Listed EXCEPT !.steps = @ + 1, !.list = Added(@, Listed.steps + 1)]
  /\ UNCHANGED call

\* Any requests complete and are reported in any order; a callback may add another
Waitsome ==
  /\ call.op = "requests"
  /\ \E done \in (SUBSET DOMAIN Listed.list.requests) \ {{}}, more \in 0 .. 1 :
       \E indices \in {p \in [1 .. Cardinality(done) -> done] : Range(p) = done} :
         LET w == waitsome(Listed.list, indices) IN
           /\ more = 1 => w.pending # <<>> /\ Listed.steps < MaxRequests
           /\ result' = [steps |-> Listed.steps + more,
                         list |-> IF more = 1 THEN Added(w.list, Listed.steps + 1) ELSE w.list,
                         completed |-> Listed.completed \o [i \in DOMAIN indices |-> Listed.list.requests[indices[i]]],
                         called |-> Listed.called \o w.pending]
  /\ UNCHANGED call

Next ==
  \/ Score \/ Near \/ ListMoves \/ Transform \/ Standardize
  \/ IndexQuadrants \/ MoveSection \/ EnumerateBoards \/ EnumerateSections \/ DescendSections
  \/ PartitionSimply \/ PartitionRandomly \/ Permute \/ DivideLoop \/ Balance
  \/ WriteFile \/ WriteSmallFiles \/ Scatter \/ Filter \/ Wavelet
  \/ LookUp \/ Locate \/ ComputeMicroline \/ ShowBoard \/ ShowSection \/ ShowValue
  \/ LoadBlock \/ AddRequest \/ Waitsome

Spec == Init /\ [][Next]_<<call, result>>
-----------------------------------------------------------------------------
(***************************************************************************)
(* The game by coordinates: stone s of a side is at row Row(s) and column  *)
(* Column(s), and Spot goes back.                                          *)
(***************************************************************************)
Done(op) == call.op = op /\ result # NoResult

Row(s) == 3 * (s \div 32) + ((s % 16) \div 3)
Column(s) == 3 * ((s \div 16) % 2) + ((s % 16) % 3)
Spot(x, y) == 16 * (2 * (x \div 3) + (y \div 3)) + 3 * (x % 3) + (y % 3)
Fives ==
  {l \in UNION {{{Spot(a[1] + i * d[1], a[2] + i * d[2]) : i \in 0 .. 4} : a \in {g \in Grid : <<g[1] + 4 * d[1], g[2] + 4 * d[2]>> \in Grid}} :
           d \in {<<1, 0>>, <<0, 1>>, <<1, 1>>, <<1, -1>>}} : Cardinality(l) = 5}

\* A quarter turn to the left of a stone in its quadrant, of the board, and its reflection
LeftOnce(s) == Spot(3 * (Row(s) \div 3) + 2 - (Column(s) % 3), 3 * (Column(s) \div 3) + (Row(s) % 3))
Left == [r \in 0 .. 3 |-> [s \in side_mask |-> LET t[i \in 0 .. r] == IF i = 0 THEN s ELSE LeftOnce(t[i - 1]) IN t[r]] @@ <<>>] @@ <<>>
BoardLeft(s) == Spot(5 - Column(s), Row(s))
Reflected(s) == Spot(5 - Column(s), 5 - Row(s))

TurnedBy(side, turn) == {Left[turn[s \div 16]][s] : s \in side}
TurnOne(q, r) == [p \in Quads |-> IF p = q THEN r ELSE 0] @@ <<>>
TurnsAt == [b \in Bits256 |-> [q \in Quads |-> TurnOf(b, q)] @@ <<>>] @@ <<>>
Wins(side) == \E f \in Fives : f \subseteq side
WinsAt(side) == {b \in Bits256 : Wins(TurnedBy(side, TurnsAt[b]))}
OneTurn(b) == {b + 4^q * (((TurnOf(b, q) + d) % 4) - TurnOf(b, q)) : q \in Quads, d \in {1, 3}}
HalfOf(super, p) == {b \div 2 : b \in {c \in super : (TurnOf(c, 0) + TurnOf(c, 1) + TurnOf(c, 2) + TurnOf(c, 3)) % 2 = p}}

\* What a symmetry does to a stone
Taken(s, p) ==
  LET around[i \in 0 .. s.global % 4] == IF i = 0 THEN Left[TurnOf(s.local, p \div 16)][p] ELSE BoardLeft(around[i - 1])
      turned == around[s.global % 4]
  IN IF s.global >= 4 THEN Reflected(turned) ELSE turned
TakenBy(s, side) == {Taken(s, p) : p \in side}
Turnings(sides, l) == {[k \in 1 .. 2 |-> TakenBy([global |-> g, local |-> l], sides[k])] : g \in Global}

Number3(sides, q) == PackBoard(sides)[q]
LeastTurned(sides) == [q \in Quads |-> Min({Number3([k \in 1 .. 2 |-> {Left[r][s] : s \in sides[k]}], q) : r \in 0 .. 3})]

CountsOf(sides) == [q \in Quads |-> [k \in 1 .. 2 |-> Cardinality({s \in sides[k] : s \div 16 = q})]]
LeastSection(images) ==
  CHOOSE s \in images : \A t \in images : s = t \/
    \E q \in Quads : /\ \A p \in q + 1 .. 3 : s[p] = t[p]
                     /\ s[q][2] < t[q][2] \/ (s[q][2] = t[q][2] /\ s[q][1] < t[q][1])

\* Cells of a quadrant turned and reflected, in both colours
CellsTurned(v, r) == [k \in 1 .. 2 |-> {Left[r][c] : c \in unpack[v][k]}]
CellsReflected(v) == [k \in 1 .. 2 |-> {3 * (2 - (c % 3)) + 2 - (c \div 3) : c \in unpack[v][k]}]
SameQuadrant(v, pair) == \E r \in 0 .. 3 : CellsTurned(v, r) = pair

\* How many sections have b black stones and w white ones in the first n quadrants
SectionsWith(n, b, w) ==
  LET ways[k \in 0 .. n] ==
        IF k = 0 THEN [m \in (0 .. b) \X (0 .. w) |-> IF m = <<0, 0>> THEN 1 ELSE 0]
        ELSE LET f == ways[k - 1] IN
             [m \in (0 .. b) \X (0 .. w) |->
               FoldLeft(LAMBDA t, x : t + FoldLeft(LAMBDA u, y : u + IF x + y - 2 <= 9 /\ x - 1 <= m[1] /\ y - 1 <= m[2] THEN f[<<m[1] - x + 1, m[2] - y + 1>>] ELSE 0,
                                                   0, [y \in 1 .. 10 |-> y]), 0, [x \in 1 .. 10 |-> x])] @@ <<>>
  IN ways[n][<<b, w>>]

Choose_(n, k) == LET c[i \in 0 .. k] == IF i = 0 THEN 1 ELSE (c[i - 1] * (n + 1 - i)) \div i IN c[k]
-----------------------------------------------------------------------------
(***************************************************************************)
(* Properties.                                                             *)
(***************************************************************************)
Closest(distances) ==
  LET fewest == Min({d[2] : d \in distances} \cup {6}) IN
    IF fewest = 6 THEN 0 ELSE (6 - fewest) * 65536 + Cardinality({d \in distances : d[2] = fewest})
FiveDistance(f, black, white) == IF f \cap white # {} THEN 6 ELSE Cardinality(f \ black)

\* The four implementations of what five in a row means - super_wins and rmax
\* with and without vector registers, halfsuper_wins, and the fields that won,
\* rotated_won and the closenesses add up (superscore.cc, halfsuper.cc,
\* score.cc, score.h) - agree with the 32 lines of the board turned stone by
\* stone; and moves (moves.h) are all stones followed by all turns
ScoresRight ==
  /\ Done("score") =>
       LET wins == WinsAt(call.side)
           around == UNION {OneTurn(b) : b \in wins}
       IN /\ result.sse = wins /\ result.words = wins /\ result.merged = wins
          /\ result.rmax = <<around, around>>
          /\ \A p \in 1 .. 2 : /\ result.halves[p] = HalfOf(wins, p - 1)
                               /\ result.half_rmax[p] = <<HalfOf(around, 2 - p), HalfOf(around, 2 - p)>>
          /\ result.won = (0 \in wins)
          /\ result.rotated = (0 \in wins \cup around)
          /\ result.arbitrary = (wins # {})
  /\ Done("near") =>
       LET b == call.sides[1]
           w == call.sides[2]
           turned(f, q, r) == FiveDistance(f, TurnedBy(b, TurnOne(q, r)), TurnedBy(w, TurnOne(q, r)))
           part(f, q) == {s \in f : s \div 16 = q}
           anyhow(f) == LET lacks(q) == Min({FiveDistance(part(f, q), {Left[r][s] : s \in part(b, q)}, {Left[r][s] : s \in part(w, q)}) : r \in 0 .. 3})
                            used == {q \in Quads : part(f, q) # {}}
                        IN IF \E q \in used : lacks(q) = 6 THEN 6 ELSE MapThenSumSet(lacks, used)
       IN /\ result.unrotated = Closest({<<f, FiveDistance(f, b, w)>> : f \in Fives})
          /\ result.rotated = Closest(UNION {{<<<<f, q>>, Min({turned(f, q, r) : r \in {0, 1, 3}})>> : q \in {p \in Quads : part(f, p) # {}}} : f \in Fives})
          /\ result.arbitrary = Closest({<<f, anyhow(f)>> : f \in Fives})
  /\ Done("moves") =>
       LET b == call.sides[1]
           w == call.sides[2]
           turn(side, q, r) == TurnedBy(side, TurnOne(q, r))
           free == side_mask \ (b \cup w)
       IN /\ DOMAIN result.moves = 0 .. 8 * Cardinality(free) - 1
          /\ {UnpackBoard(result.moves[n]) : n \in DOMAIN result.moves} =
               {<<turn(w, m[2], m[3]), turn(b \cup {m[1]}, m[2], m[3])>> : m \in free \X Quads \X {1, 3}}
          /\ result.stones = {b \cup {s} : s \in free}
          /\ \A g \in Grid : result.table[g] = (IF Spot(g[1], g[2]) \in b THEN 1 ELSE IF Spot(g[1], g[2]) \in w THEN 2 ELSE 0)
          /\ result.back = call.sides /\ result.packed = call.sides
          /\ result.status = IF Wins(b) /\ Wins(w) THEN 3 ELSE IF Wins(b) THEN 1 ELSE IF Wins(w) THEN 2 ELSE IF free = {} THEN 3 ELSE 0

\* The symmetries are a group that acts on boards and, through the shuffles of
\* transform_super, on what boards win (symmetry.cc, with and without vector
\* registers); the standard boards of standardize and superstandardize are the
\* least of all that they stand for
SymmetriesAct ==
  /\ Done("transform") =>
       LET s == call.first
           moved == TakenBy(s, call.side)
       IN /\ result.once = moved
          /\ result.twice = TakenBy(call.second, moved)
          /\ TakenBy(s, result.back) = call.side
          /\ result.sse = WinsAt(moved) /\ result.words = WinsAt(moved)
  /\ Done("standardize") =>
       LET images == Turnings(call.sides, 0) IN
         /\ result.standard = Least({PackBoard(t) : t \in images})
         /\ result.super = Least({LeastTurned(t) : t \in images})
         /\ result.by = result.super

\* The index of a quadrant among those with its stones tells it up to turns, and
\* its reflection has the same index or the next (precompute.cc); what is counted
\* of boards and sections without their symmetric images - by Polya's theorem,
\* by multipliers, by descent from the empty board - is what an enumeration has
\* (section.cc, all_boards.cc, count.cc, sections.cc)
SectionsRight ==
  /\ Done("quadrants") =>
       LET index_ == result.index
           n == Cardinality(DOMAIN index_)
           images(v) == {u \in DOMAIN index_ : SameQuadrant(u, CellsReflected(v))}
       IN /\ Range(index_) = 0 .. n - 1 /\ n = result.size
          /\ \A v \in DOMAIN index_ : \E u \in images(v) :
               /\ images(v) = {u}
               /\ (u # v) = (index_[v] < result.moved)
               /\ IF u = v THEN TRUE ELSE index_[u] # index_[v] /\ index_[u] \div 2 = index_[v] \div 2
          /\ \A v \in DOMAIN result.inverse :
               LET m == result.standard[v][1] IN
                 /\ index_[m] = result.inverse[v] \div 4
                 /\ CellsTurned(m, result.inverse[v] % 4) = unpack[v]
                 /\ CellsTurned(v, result.standard[v][2]) = unpack[m]
  /\ Done("section") =>
       LET images == {CountsOf([k \in 1 .. 2 |-> TakenBy([global |-> g, local |-> 0], call.sides[k])]) : g \in Global} IN
         /\ \A g \in Global :
              /\ result.moved[g] = CountsOf([k \in 1 .. 2 |-> TakenBy([global |-> g, local |-> 0], call.sides[k])])
              /\ \A q \in Quads : result.places[g][q] = Taken([global |-> g, local |-> 0], 16 * q) \div 16
         /\ result.standard[1] = LeastSection(images)
         /\ result.moved[result.standard[2]] = result.standard[1]
         /\ result.valid = (Cardinality(call.sides[1]) - Cardinality(call.sides[2]) \in 0 .. 1)
         /\ LET boards == {[k \in 1 .. 2 |-> TurnedBy(call.sides[k], TurnsAt[b])] : b \in Bits256} IN
              result.popcounts = <<Cardinality({b \in boards : Wins(b[1])}), Cardinality({b \in boards : Wins(b[2])}), Cardinality(boards)>>
  /\ Done("boards") =>
       LET boards == UNION {b.boards : b \in result.boards} IN
         /\ Cardinality(UNION {{b.black} \X b.boards : b \in result.boards}) = Cardinality(boards)
         /\ result.counted = Cardinality(boards)
         /\ call.symmetries = 1 => Cardinality(boards) = Choose_(36, call.stones) * Choose_(call.stones, call.stones \div 2)
  /\ Done("sections") =>
       /\ \A s \in result.all : section_valid(s) /\ SectionSum(s) = call.stones
       /\ Cardinality(result.all) = SectionsWith(4, (call.stones + 1) \div 2, call.stones \div 2)
       /\ result.counted = Cardinality(result.all)
       /\ result.standard = {LeastSection({section_transform(s, g) : g \in Global}) : s \in result.all}
  /\ Done("descend") =>
       \A n \in 0 .. call.stones :
         /\ result.below[n] = all_boards_sections(n, 8)
         /\ Range(result.web[n]) = result.below[n] /\ Len(result.web[n]) = Cardinality(result.below[n])
         /\ \A i \in 2 .. Len(result.web[n]) : LeastSection({result.web[n][i - 1], result.web[n][i]}) = result.web[n][i - 1]

\* The lines and blocks of a slice, each of which one rank is to have
LinesOf(sections) ==
  UNION {UNION {{[section |-> s, dimension |-> k, length |-> section_blocks(s)[k], block_base |-> remove_index(b, k)] : b \in Blocks(s)} :
           k \in Open(s)} : s \in Range(sections)}
BlocksOf(sections) == UNION {{s} \X Blocks(s) : s \in Range(sections)}
BlockSize(s, b) == Cardinality({I \in [Quads -> 0 .. 7] : \A q \in Quads : 8 * b[q] + I[q] < bucket_size[s[q]]})

\* Both partitions give every line and every block of a slice to one rank, and
\* find each block again by its place and by its local id (simple_partition.cc,
\* random_partition.cc); the random permutations below them are permutations
\* (permute.cc), loops are divided evenly and completely (range.cc), and the load
\* found with a reduction is the load found by one rank (load_balance.cc)
PartitionsRight ==
  /\ call.op \in {"simple", "random"} /\ result # NoResult =>
       LET each(f) == UNION {Range(f[r]) : r \in DOMAIN f}
           total(f) == MapThenSumSet(LAMBDA r : Len(f[r]), DOMAIN f)
           placed == {<<b.section, b.block>> : b \in each(result.blocks)}
       IN /\ each(result.lines) = LinesOf(call.sections) /\ total(result.lines) = Cardinality(LinesOf(call.sections))
          /\ placed = BlocksOf(call.sections) /\ total(result.blocks) = Cardinality(placed)
          /\ \A r \in DOMAIN result.blocks : LET mine == result.blocks[r] IN
               /\ result.counts[r] = <<Len(result.lines[r]), Len(mine), FoldLeft(LAMBDA t, b : t + BlockSize(b.section, b.block), 0, mine)>>
               /\ \A i \in DOMAIN mine : result.found[r][i] = << <<r, mine[i].local_id>>, <<mine[i].section, mine[i].block>> >>
               /\ \A i \in DOMAIN mine : \E l \in Range(result.lines[r]) : l.section = mine[i].section /\ remove_index(mine[i].block, l.dimension) = l.block_base
  /\ Done("permute") => Range(result.to) = 0 .. call.n - 1 /\ \A x \in DOMAIN result.to : result.back[x] = x
  /\ Done("loop") =>
       /\ result.parts[0].lo = 0 /\ result.parts[call.threads - 1].hi = call.steps
       /\ \A t \in 1 .. call.threads - 1 : result.parts[t].lo = result.parts[t - 1].hi
       /\ \A t, u \in DOMAIN result.parts : Length(result.parts[t]) - Length(result.parts[u]) \in -1 .. 1
       /\ \A i \in DOMAIN result.inverse : i \in In(result.parts[result.inverse[i]])
  /\ Done("balance") =>
       /\ result.serial = result.parallel
       /\ \A f \in Statistics, l \in Range(result.loads) : l[f] \in result.parallel[f].min .. result.parallel[f].max
       /\ \A f \in Statistics : {result.parallel[f].min, result.parallel[f].max} \subseteq {l[f] : l \in Range(result.loads)}

\* What the ranks write in parallel leaves no gap and no overlap, each rank receives
\* as many offsets as it counted, and whoever reads the file, with any number of
\* ranks, gets back what was written (io.cc); filters, compaction, wavelets and fast
\* compression give back what they got (filter.cc, fast_compress.cc)
FilesReadBack ==
  /\ Done("file") =>
       LET W == call.job
           end(w) == w.offset + Len(w.bytes)
       IN /\ \A v, w \in result.writes : v = w \/ end(v) <= w.offset \/ end(w) <= v.offset
          /\ \A w \in result.writes : w.offset = 0 \/ \E v \in result.writes : end(v) = w.offset
          /\ \A p \in DOMAIN result.messages : result.messages[p][1] = result.messages[p][2]
          /\ \A s \in DOMAIN result.indices : result.indices[s] = Bytes_(<<"index", s>>, W.index_size[s])
          /\ \A b \in DOMAIN result.blocks : result.blocks[b] = Bytes_(<<"block", b>>, W.size[b])
  /\ Done("counts") =>
       LET total(s, i) == MapThenSumSet(LAMBDA r : call.counts[r][s][i], 0 .. call.ranks - 1)
           of(s, wins) == IF wins THEN total(s, 1) ELSE total(s, 3) - total(s, 2)
           bytes == UNION {{<<w.offset + k, w.bytes[k]>> : k \in DOMAIN w.bytes} : w \in result.samples}
       IN /\ \A s \in DOMAIN result.counts :
               result.counts[s] = [black |-> of(s, call.turn = 0), white |-> of(s, call.turn = 1), total |-> total(s, 3)]
          /\ {x[1] : x \in bytes} = 1 .. Cardinality(bytes)
          /\ Cardinality(bytes) = call.header + 72 * MapThenSumSet(LAMBDA r : Len(call.samples[r]), DOMAIN call.samples)
  /\ Done("scatter") => \A r \in DOMAIN result : result[r] = [i \in DOMAIN call.blocks[r] |-> <<"blob", call.blocks[r][i]>>]
  /\ Done("filter") =>
       LET d == call.data[1]
           black == IF call.turn = 0 THEN d[1] ELSE Bits256 \ d[2]
           white == IF call.turn = 0 THEN Bits256 \ d[2] ELSE d[1]
       IN /\ result.entry = d /\ result.stored = <<black, white>> /\ result.sample = result.stored
          /\ 5 * Len(result.compacted) - 256 * Len(call.data) \in 0 .. 4
          /\ \A i \in DOMAIN result.compacted : result.compacted[i] \in 0 .. 242
          /\ result.back = call.data /\ Range(result.fast) = {call.data}
  /\ Done("wavelet") => result.back = call.data

\* Looking a board up - with its section standardized, the board transformed, its
\* quadrants found in the index and what is stored turned back - gives the value of
\* that very board in all its turns, from a file and from a block store alike
\* (block_cache.cc, store_block_cache.cc); and the entry of the index file where the
\* reader looks for a block is the one written for it (high/index.cc)
LookupsRight ==
  /\ Done("lookup") =>
       LET m == ToMove(call.sides)
           wins == IF call.aggressive THEN WinsAt(m[1]) ELSE Bits256 \ WinsAt(m[2])
       IN result.reader = wins /\ result.store = wins /\ result.absent = FALSE
  /\ Done("index") =>
       /\ Len(result.file) = Cardinality(DOMAIN result.at)
       /\ \A b \in DOMAIN result.at :
            /\ result.at[b] = [i \in 1 .. 2 |-> result.at[b][1]]
            /\ result.file[1 + ((result.at[b][1].offset - 24) \div 12)] = b

\* A line computes, of each of its boards, what a move in its quadrant can achieve:
\* a line of five at once, or after turning a quadrant a board that is lost for the
\* other player, or tied.  It finds the children in its input whatever symmetry made
\* their section standard, and puts each board where its block has it (compute.cc)
LinesRight ==
  Done("microline") =>
    LET s == call.line.section
        dim == call.line.dimension
        first == LineBlock(call.line, 0)
        full == Volume(block_shape(shape(s), first))
        I(i) == insert(call.base, i % 8, dim)
        around(wins) == UNION {OneTurn(b) : b \in wins}
        worth(ours, theirs, new) ==
          LET over == ours \cup theirs
              win == UNION {new[c] \cup around(new[c] \ theirs) : c \in DOMAIN new}
              tie == UNION {around(new[c] \cup Complement(theirs)) : c \in DOMAIN new}
          IN <<(ours \ theirs) \cup (win \ over), ours \cup ((win \cup tie) \ over)>>
        value(sides) ==
          worth(WinsAt(sides[1]), WinsAt(sides[2]),
                [c \in {o \in side_mask \ (sides[1] \cup sides[2]) : o \div 16 = dim} |-> WinsAt(sides[1] \cup {c})] @@ <<>>)
        right(i, block) ==
          /\ result.output[i].at = full * (i \div 8) + index(block_shape(shape(s), block), I(i))
          /\ result.output[i].value = value(ToMove(BoardAt(s, block, I(i))))
    IN /\ DOMAIN result.output = 0 .. shape(s)[dim] - 1
       /\ \A i \in DOMAIN result.output : right(i, [first EXCEPT ![dim] = i \div 8])

\* The digits of a decimal number, modulo m
Modulo(digits, m) == FoldLeft(LAMBDA t, d : ((10 * t) + d) % m, 0, digits)
QuadsModulo(quads, m) == FoldLeft(LAMBDA t, q : (((65536 % m) * t) + quads[q]) % m, 0, <<3, 2, 1, 0>>)

\* The web server and the page compute boards, names, moves, wins, sections and
\* values once more in JavaScript (board.js, block_cache.js): they agree with the
\* game and with the C++ code, whose data they read
WebAgrees ==
  /\ Done("page") =>
       LET b == call.sides[1]
           w == call.sides[2]
           black == Cardinality(b) = Cardinality(w)
           free == side_mask \ (b \cup w)
           with(s) == IF black THEN <<b \cup {s}, w>> ELSE <<b, w \cup {s}>>
           turn(sides, q, r) == [k \in 1 .. 2 |-> TurnedBy(sides[k], TurnOne(q, r))]
       IN /\ \A m \in {9973, 10007, 16381, 20011, 20021} : Modulo(result.name, m) = QuadsModulo(PackBoard(call.sides), m)
          /\ result.back = PackBoard(call.sides)
          /\ result.placed = {Page(PackBoard(with(s)), 1) : s \in free}
          /\ result.moved = {Page(PackBoard(turn(with(m[1]), m[2], m[3])), 0) : m \in free \X Quads \X {1, 3}}
          /\ \A p \in result.placed \cup result.moved : ~BadPage(p)
          /\ \A k \in 0 .. 1 : result.won[k] = Wins(call.sides[k + 1])
          /\ result.fives = {{6 * Row(s) + Column(s) : s \in f} : f \in {g \in Fives : g \subseteq b \/ g \subseteq w}}
          /\ result.high = result.placed \cup {Page(PackBoard(call.sides), 0)}
  /\ Done("matrix") =>
       LET taken(g) == [k \in 1 .. 2 |-> TakenBy([global |-> g, local |-> 0], call.sides[k])] IN
         /\ result.section = CountsOf(call.sides)
         /\ \A g \in Global : result.moved[g] = CountsOf(taken(g)) /\ result.boards[g] = PackBoard(taken(g))
         /\ result.standard = section_standardize(result.section, 8)
         /\ result.bits = call.data[1] \cup {b + 256 : b \in call.data[2]}
  /\ Done("value") =>
       LET one(p) == IF p THEN 1 ELSE 0
           worth(sides) == one(Wins(ToMove(sides)[1])) - one(Wins(ToMove(sides)[2]))
       IN /\ result.value = worth(call.sides)
          /\ result.best = Max({-worth(UnpackBoard(p.quads)) : p \in page_moves(result.placed)})

\* The memory of a set of blocks
Weight[keys \in SUBSET DOMAIN Memory] ==
  IF keys = {} THEN 0 ELSE LET key == CHOOSE k \in keys : TRUE IN Memory[key] + Weight[keys \ {key}]

\* Blocks asked for since k was asked for last, and k
Since(asked, k) ==
  LET last == Max({i \in DOMAIN asked : asked[i] = k}) IN {asked[i] : i \in last .. Len(asked)}

\* The cache of a file's blocks holds a block if and only if all those asked for
\* since then fit together with it, the least recent one first to go, and its
\* memory adds up, as long as no block was asked for that is larger than the cache
\* (BelowZeroTemporarily is about what happens then).  That of a store keeps what came
\* first and fits.  A page keeps the keys asked for last, whatever reloads come between:
\* two at least and three at most (local_lru.js)
CacheKeepsRecent ==
  call.op = "cache" /\ result # NoResult =>
    LET asked == result.asked
        large == {i \in DOMAIN asked : Memory[asked[i]] > MemoryLimit}
        held == {k \in Range(asked) : Weight[Since(asked, k)] <= MemoryLimit}
        reader == result.reader
    IN /\ large = {} =>
            /\ Range(reader.order) = held /\ Len(reader.order) = Cardinality(held)
            /\ \A i \in 2 .. Len(reader.order) : Since(asked, reader.order[i]) \subseteq Since(asked, reader.order[i - 1])
            /\ reader.free = MemoryLimit - Weight[held]
       /\ \A k \in Range(asked) : k \in Range(result.store.order) \/ Memory[k] > result.store.free
       /\ Len(result.store.order) = Cardinality(Range(result.store.order))
       /\ result.store.free = MemoryLimit - Weight[Range(result.store.order)]
       /\ LET n == page_size(result.page) IN
            /\ n <= 3 /\ n >= Min({2, Cardinality(Range(asked))})
            /\ DOMAIN result.page.time = {k \in Range(asked) : Cardinality(Since(asked, k)) <= n}

\* free_memory is "signed so it can go temporarily below zero" (block_cache.cc:91): when
\* a block that fits the cache has been loaded, it is not below zero, whatever was asked
\* for before.  This does not hold: the README's findings say why
BelowZeroTemporarily ==
  call.op = "cache" /\ result # NoResult =>
    LET last == result.asked[Len(result.asked)] IN Memory[last] <= MemoryLimit => result.reader.free >= 0

\* However many requests complete at once and in whatever order MPI reports them,
\* what stays in the list are those not completed, each with its own callback and
\* permission to be cancelled, and the callbacks of the others have been called once
\* each, in that order (requests.cc:38)
RequestsMatched ==
  call.op = "requests" /\ result # NoResult =>
    LET list == result.list
        n == Len(list.requests)
        waiting == Range(list.requests)
    IN /\ Len(list.callbacks) = n /\ Len(list.cancellables) = n
       /\ waiting = (1 .. result.steps) \ Range(result.completed) /\ Cardinality(waiting) = n
       /\ \A i \in 1 .. n : list.callbacks[i] = CallbackOf(list.requests[i])
                            /\ list.cancellables[i] = (list.callbacks[i] = NoCallback \/ Cancellable(list.requests[i]))
       /\ Len(result.completed) = Cardinality(Range(result.completed))
       /\ LET calling == {i \in DOMAIN result.completed : CallbackOf(result.completed[i]) # NoCallback} IN
            /\ Len(result.called) = Cardinality(calling)
            /\ \A i \in calling : result.called[Cardinality({j \in calling : j <= i})] = CallbackOf(result.completed[i])
=============================================================================

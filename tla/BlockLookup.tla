----------------------------- MODULE BlockLookup ------------------------------
(***************************************************************************)
(* Looking a board up in endgame data: data/block_cache.cc, data/lru.h,    *)
(* end/store_block_cache.cc, and the index of a supertensor file,          *)
(* high/index.cc.                                                          *)
(***************************************************************************)
EXTENDS Partitions

Flipped(sides, turn) == IF turn = 1 THEN <<sides[2], sides[1]>> ELSE sides
Complement(s) == Bits256 \ s

\* Four times its index among the rotation minimal quadrants, and its turn
InverseOf(c, v) == rmins_inverse(c[1], c[2])[v]
rotation_minimal_quadrants_inverse(v) == InverseOf(CountOf(v), v)

\* Mutant of LookupSymmetry: turned before, not after, the inverse
TurnedFirst(symmetry1, rotations4) ==
  Product([global |-> 0, local |-> FromTurns(rotations4)], inverse(symmetry1))

LookupSymmetry(symmetry1, rotations4) ==
  Product(inverse(symmetry1), [global |-> 0, local |-> FromTurns(rotations4)])

\* From a file, which has what black and what white win
reader_extract(turn, aggressive, data) ==
  IF turn = 0 THEN IF aggressive THEN data[1] ELSE Complement(data[2])
  ELSE IF aggressive THEN data[2] ELSE Complement(data[1])

\* From a block store, which has what the player to move wins, and wins or ties
store_extract(turn, aggressive, data) == IF aggressive THEN data[1] ELSE data[2]

extract_as(kind, turn, aggressive, data) ==
  IF kind = "reader" THEN reader_extract(turn, aggressive, data) ELSE store_extract(turn, aggressive, data)

\* sides[1] is to move.  FALSE if there is no data
LookAt(query, symmetry1, section, ir) ==
  LET data == query.blocks[section, [q \in Quads |-> (ir[q] \div 4) \div block_size]][[q \in Quads |-> (ir[q] \div 4) % block_size]]
  IN transform_super_in(LookupSymmetry(symmetry1, [q \in Quads |-> ir[q] % 4]),
                        extract_as(query.extract, query.turn, query.aggressive, data), query.sse)

LookFor(query, symmetry1, section, board1) ==
  LookAt(query, symmetry1, section, [q \in Quads |-> rotation_minimal_quadrants_inverse(board1[q])] @@ <<>>)

LookIn(query, flip_board, section, symmetry1) ==
  IF section \in query.sections THEN LookFor(query, symmetry1, section, transform_board(symmetry1, flip_board)) ELSE FALSE

LookWith(query, flip_board, best) == LookIn(query, flip_board, best[1], [global |-> best[2], local |-> 0])
LookUpBoard(query, flip_board) == LookWith(query, flip_board, section_standardize(count(flip_board), 8))

lookup(aggressive, sides, sections, blocks, extract, sse) ==
  LET turn == count_stones(sides) % 2
  IN LookUpBoard([aggressive |-> aggressive, turn |-> turn, sections |-> sections, blocks |-> blocks, extract |-> extract, sse |-> sse],
                 PackBoard(Flipped(sides, turn)))
-----------------------------------------------------------------------------
(***************************************************************************)
(* Blocks kept in memory.  A cache is [order, free]: keys, the least       *)
(* recently used one first, and memory that may still be taken.            *)
(***************************************************************************)
Held(order) == {order[i] : i \in DOMAIN order}
lru_add(order, key) == Append(order, key)
lru_get(order, key) == Append(RemoveAt(order, CHOOSE i \in DOMAIN order : order[i] = key), key)
lru_drop(order) == Tail(order)

\* Mutant of reader_load: a block that was found stays where it is
reader_load_fifo(cache, key, memory) ==
  LET dropped[n \in 0 .. Len(cache.order)] ==
        IF n = 0 THEN [order |-> cache.order, free |-> cache.free - memory[key]]
        ELSE LET c == dropped[n - 1] IN [order |-> lru_drop(c.order), free |-> c.free + memory[Head(c.order)]]
      enough == {n \in 0 .. Len(cache.order) : dropped[n].free >= 0}
  IN IF key \in Held(cache.order) THEN cache
     ELSE IF enough = {} THEN dropped[Len(cache.order)]
     ELSE LET c == dropped[Min(enough)] IN [c EXCEPT !.order = lru_add(@, key)]

\* Entries are dropped until there is memory; with none left to drop an
\* assertion throws, and the memory stays taken
reader_load(cache, key, memory) ==
  LET dropped[n \in 0 .. Len(cache.order)] ==
        IF n = 0 THEN [order |-> cache.order, free |-> cache.free - memory[key]]
        ELSE LET c == dropped[n - 1] IN [order |-> lru_drop(c.order), free |-> c.free + memory[Head(c.order)]]
      enough == {n \in 0 .. Len(cache.order) : dropped[n].free >= 0}
  IN IF key \in Held(cache.order) THEN [cache EXCEPT !.order = lru_get(@, key)]
     ELSE IF enough = {} THEN dropped[Len(cache.order)]
     ELSE LET c == dropped[Min(enough)] IN [c EXCEPT !.order = lru_add(@, key)]

\* Nothing is dropped, and what does not fit is not kept
store_load(cache, key, memory) ==
  IF key \in Held(cache.order) \/ cache.free < memory[key] THEN cache
  ELSE [order |-> lru_add(cache.order, key), free |-> cache.free - memory[key]]
-----------------------------------------------------------------------------
(***************************************************************************)
(* The index of a file: an entry of 12 bytes for each block of a slice, so *)
(* that one range request finds out where a block is.                      *)
(***************************************************************************)
index_start == 24
compact_blob_size == 12

make_offsets(sections) ==
  LET offset[i \in 0 .. Len(sections)] ==
        IF i = 0 THEN index_start ELSE offset[i - 1] + compact_blob_size * Volume(section_blocks(sections[i]))
  IN offset

blob_location(sections, section, I) ==
  LET id == CHOOSE i \in DOMAIN sections : sections[i] = section
  IN [offset |-> make_offsets(sections)[id - 1] + compact_blob_size * index(section_blocks(section), I),
      size |-> compact_blob_size]

\* Entries in the order they are written, each the location that its reader has
write_supertensor_index(sections, location) ==
  FoldLeft(LAMBDA file, s : file \o LET n == section_blocks(s) IN [i \in 1 .. Volume(n) |-> location[s, decompose(n, i - 1)]],
           <<>>, sections)
=============================================================================

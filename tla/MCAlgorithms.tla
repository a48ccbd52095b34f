----------------------------- MODULE MCAlgorithms -----------------------------
(***************************************************************************)
(* Inputs: boards with few stones and with many, with lines of five or     *)
(* without; symmetries of every kind; slices with one block or several,    *)
(* and ranks with nothing to do.                                           *)
(***************************************************************************)
EXTENDS Algorithms

Sym(g, l) == [global |-> g, local |-> l]

\* Stones spread by multiplication, black and white in turn
Place_(j) == (16 * (j \div 9)) + (j % 9)
Board(n, step) ==
  LET nth(k) == Place_((((k * step) % 37) + 35) % 36)
  IN <<{nth(k) : k \in {j \in 1 .. n : j % 2 = 1}}, {nth(k) : k \in {j \in 1 .. n : j % 2 = 0}}>>
Side(k) == {b \in side_mask : (b * 7 + k) % 5 \in {0, 2}}
Super(k) == {b \in Bits256 : ((b * b * k + b * k) % 7) < 3}

\* Five in a row from (x, y); the last ones named cross the middle, and those of
\* the diagonals three quadrants
Line5(x, y, dx, dy) == {Spot(x + i * dx, y + i * dy) : i \in 0 .. 4}
Fives_ == {Line5(0, 1, 0, 1), Line5(4, 0, 0, 1), Line5(1, 5, 1, 0), Line5(0, 0, 1, 1), Line5(1, 1, 1, 1), Line5(1, 0, 1, 1),
           Line5(0, 5, 1, -1), Line5(0, 4, 1, -1)}
Four == Line5(2, 0, 0, 1) \ {Spot(2, 2)}
Boards_ == {Board(n, k) : n \in {0, 2, 9, 16, 22}, k \in {1, 5}} \cup {Board(36, 1)}

Scores == {[op |-> "score", side |-> s] : s \in {{}, side_mask, Four} \cup {Side(k) : k \in 0 .. 4} \cup Fives_}
Nears == {[op |-> "near", sides |-> b] : b \in Boards_ \cup {<<f, {}>> : f \in {Line5(0, 1, 0, 1), Line5(1, 1, 1, 1)}} \cup {<< {}, Four >>}}
MovesOf == {[op |-> "moves", sides |-> b] : b \in {Board(22, 5), Board(9, 1), Board(36, 1), <<Line5(0, 1, 0, 1), Line5(5, 0, 0, 1)>>, << {}, Four \cup Line5(1, 5, 1, 0)>>}}

Transforms == {[op |-> "transform", first |-> Sym(g, l), second |-> Sym(h, 27), side |-> s] :
                 g \in Global, l \in {0, 228}, h \in {1, 6}, s \in {Line5(1, 0, 1, 1) \cup Line5(0, 1, 0, 1)}} \cup
              {[op |-> "transform", first |-> Sym(g, 1), second |-> Sym((g + 3) % 8, 200), side |-> Side(g)] : g \in Global}
Standards == {[op |-> "standardize", sides |-> b] : b \in Boards_}

QuadrantCounts == {[op |-> "quadrants", counts |-> c] : c \in {<<0, 0>>, <<1, 0>>, <<2, 1>>, <<1, 3>>, <<4, 5>>}}
SectionsOf == {[op |-> "section", sides |-> b] : b \in Boards_}
BoardCounts == {[op |-> "boards", stones |-> n, symmetries |-> k] : n \in 0 .. 2, k \in {1, 8}} \cup
               {[op |-> "boards", stones |-> 1, symmetries |-> 2048]}
SectionCounts == {[op |-> "sections", stones |-> n] : n \in {0, 1, 2, 3, 4, 35, 36}}
Descents == {[op |-> "descend", stones |-> 4]}

Section_(a, b, c, d) == [q \in Quads |-> <<a, b, c, d>>[q + 1]]
Slices == << <<Section_(<<0, 0>>, <<0, 1>>, <<1, 0>>, <<0, 0>>), Section_(<<0, 0>>, <<0, 0>>, <<0, 1>>, <<1, 0>>)>>,
             <<Section_(<<3, 2>>, <<0, 0>>, <<0, 0>>, <<0, 0>>), Section_(<<2, 1>>, <<1, 1>>, <<0, 0>>, <<0, 0>>)>>,
             <<Section_(<<2, 1>>, <<1, 1>>, <<0, 2>>, <<1, 0>>)>> >>
Cipher(k) == [x \in (1 .. 3) \X (0 .. 63) |-> (k * (x[2] + 3) * (x[2] + 5 * x[1]) + k * x[1] + x[2]) % 64]

Simples == {[op |-> "simple", ranks |-> r, sections |-> Slices[i]] : r \in {1, 3, 7}, i \in 1 .. 3}
Randoms == {[op |-> "random", ranks |-> r, sections |-> Slices[i], cipher |-> Cipher(k), primary |-> <<5, 2, 7, 0, 11>>] :
              r \in {1, 3}, i \in 1 .. 3, k \in {1, 2}}
Permutations_ == {[op |-> "permute", n |-> n, cipher |-> Cipher(k)] : n \in {1, 2, 7, 16, 19}, k \in {1, 3}}
Loops == {[op |-> "loop", steps |-> n, threads |-> t] : n \in {0, 1, 7, 12}, t \in {1, 3, 5}}
Balances == {[op |-> "balance", ranks |-> r, sections |-> Slices[2], threads |-> t] : r \in {1, 5, 20}, t \in {1}}

\* Blocks go to ranks by arithmetic, the last block first
Owned(ranks, blocks, k) ==
  LET all == {b \in (DOMAIN blocks) \X (0 .. 4) : b[2] < blocks[b[1]]}
      mine(r) == {b \in all : (b[1] * 5 + b[2] * b[2] * 3 + k) % ranks = r}
      place(r, b) == Cardinality({c \in mine(r) : c[1] * 10 + c[2] > b[1] * 10 + b[2]}) + 1
  IN [r \in 0 .. ranks - 1 |-> [i \in 1 .. Cardinality(mine(r)) |-> CHOOSE b \in mine(r) : place(r, b) = i]]
Job(ranks, sections, k) ==
  LET blocks == [s \in 0 .. sections - 1 |-> 1 + ((s * 7 + k) % 5)]
      all == {b \in (DOMAIN blocks) \X (0 .. 4) : b[2] < blocks[b[1]]}
  IN [ranks |-> ranks, sections |-> sections, blocks |-> blocks, owned |-> Owned(ranks, blocks, k),
      size |-> [b \in all |-> 1 + ((b[1] + 2 * b[2] + k) % 4)], index_size |-> [s \in 0 .. sections - 1 |-> 1 + (s % 3)]]
Files == {[op |-> "file", job |-> Job(r, n, k), readers |-> p] : r \in {1, 3, 4}, n \in {0, 2, 3}, k \in 0 .. 1, p \in {1, 3}}
SmallFiles == {[op |-> "counts", turn |-> t, ranks |-> 3, counts |-> [r \in 0 .. 2 |-> [s \in 1 .. 2 |-> <<r + s, 2 * (r + s), 5 * (r + s)>>]],
                header |-> 16, samples |-> [r \in 0 .. 2 |-> [i \in 1 .. r |-> <<"sample", r, i>>]]] : t \in 0 .. 1}
Scatters == {[op |-> "scatter", blocks |-> [r \in 0 .. 2 |-> [i \in 1 .. (r * 2) % 3 |-> <<r, i>>]]]}
Filters_ == {[op |-> "filter", turn |-> t, data |-> [i \in 1 .. n |-> <<Super(i) \ Super(i + 1), Super(i + 1)>>]] : t \in 0 .. 1, n \in {1, 5, 6}}
Wavelets == {[op |-> "wavelet", sizes |-> [q \in Quads |-> z[q + 1]], data |-> [i \in 0 .. z[1] * z[2] * z[3] * z[4] - 1 |-> <<Super(i + 1) \ Super(i + 2), Super(i + 2)>>]] :
               z \in {<<1, 1, 8, 1>>, <<2, 8, 1, 1>>}}

\* Few stones in each quadrant, so that the tables of quadrants are small
LookedUp == {Board(10, 1), Board(13, 3), Board(9, 6), Board(11, 1), Board(1, 2),
             <<Line5(0, 1, 0, 1), {8, 32, 37, 49}>>, <<{2, 5, 20, 48, 50}, Line5(1, 0, 1, 1)>>}
LookUps == {[op |-> "lookup", sides |-> b, aggressive |-> a, sse |-> ~a] : b \in LookedUp, a \in BOOLEAN}
Indices == {[op |-> "index", slice |-> 3]}

Pages == {[op |-> "page", sides |-> b] : b \in Boards_ \ {Board(36, 1)}}
Matrices == {[op |-> "matrix", sides |-> b, data |-> <<Super(3), Super(5)>>] : b \in {Board(9, 5), Board(22, 1)}}
Values == {[op |-> "value", sides |-> b] : b \in {Board(10, 1), Board(1, 2), <<{1, 2, 19, 22}, {8, 32, 37, 49}>>}}

\* Full quadrants, and few stones or few gaps elsewhere: the last stone decides, and
\* lines are short.  Of the children's sections each needs another symmetry to be
\* standard; the last line has boards with one gap
Line_(s, k, b) == [section |-> s, dimension |-> k, length |-> section_blocks(s)[k], block_base |-> [i \in 0 .. 2 |-> b[i + 1]]]
Microlines_ == {[op |-> "microline", line |-> Line_(l[1], l[2], l[3]), base |-> [i \in 0 .. 2 |-> l[4][i + 1]], sse |-> l[2] \in 0 .. 1] : l \in {
  <<Section_(<<0, 2>>, <<0, 9>>, <<9, 0>>, <<2, 0>>), 3, <<0, 0, 0>>, <<3, 0, 0>>>>,
  <<Section_(<<0, 2>>, <<9, 0>>, <<2, 0>>, <<0, 9>>), 0, <<0, 1, 0>>, <<0, 1, 0>>>>,
  <<Section_(<<0, 2>>, <<2, 0>>, <<0, 9>>, <<9, 0>>), 1, <<0, 0, 0>>, <<7, 0, 0>>>>,
  <<Section_(<<1, 0>>, <<0, 9>>, <<1, 1>>, <<9, 0>>), 2, <<0, 0, 0>>, <<2, 0, 0>>>>,
  <<Section_(<<0, 2>>, <<2, 0>>, <<9, 0>>, <<0, 9>>), 0, <<1, 0, 0>>, <<0, 0, 0>>>>,
  <<Section_(<<0, 2>>, <<9, 0>>, <<0, 9>>, <<2, 0>>), 3, <<0, 0, 0>>, <<1, 0, 0>>>>,
  <<Section_(<<0, 2>>, <<0, 9>>, <<2, 0>>, <<9, 0>>), 2, <<0, 0, 0>>, <<4, 0, 0>>>>,
  <<Section_(<<1, 0>>, <<1, 1>>, <<0, 9>>, <<9, 0>>), 1, <<0, 0, 0>>, <<2, 0, 0>>>>,
  <<Section_(<<8, 1>>, <<0, 9>>, <<9, 0>>, <<1, 7>>), 3, <<0, 0, 0>>, <<2, 0, 0>>>>}}

MCCalls == Scores \cup Nears \cup MovesOf \cup Transforms \cup Standards \cup QuadrantCounts \cup SectionsOf \cup BoardCounts
  \cup SectionCounts \cup Descents \cup Simples \cup Randoms \cup Permutations_ \cup Loops \cup Balances \cup Files \cup SmallFiles
  \cup Scatters \cup Filters_ \cup Wavelets \cup LookUps \cup Indices \cup Pages \cup Matrices \cup Values \cup Microlines_
  \cup {[op |-> "cache"], [op |-> "requests"]}

MCMemory == [k \in {"a", "b", "c", "d"} |-> CASE k = "a" -> 1 [] k = "b" -> 2 [] k = "c" -> 3 [] k = "d" -> 6]
=============================================================================

--------------------------------- MODULE Qr ---------------------------------
(***************************************************************************)
(* The QR code of a pairing, drawn by the agent (shared/qr.ts) and read by  *)
(* the phone (shared/qrDecode.ts): codewords with Reed-Solomon correction   *)
(* over GF(256), their place on the board, mask and format, and the way     *)
(* back from a board that was damaged or seen in a mirror.                  *)
(*                                                                         *)
(* A byte, like any row of bits, is the set of its bits that are 1; a board *)
(* is the set of its dark modules, as <<x, y>>.                             *)
(* Left out: the patterns that only the camera looks for, and how a board   *)
(* is found in an image; which mask is the best (any may be); segments of   *)
(* other modes than bytes.                                                  *)
(***************************************************************************)
EXTENDS Integers, FiniteSets, Sequences, SequencesExt

CONSTANTS
    Scenes,  \* [text, spots, values, formats]: what is drawn, and what may be damaged
    Unread   \* no text

VARIABLES
    \* tables, made when the program is loaded
    exp,     \* the powers of 2, from the 0th
    log,     \* how high a power each other byte is
    \* of the version that is drawn
    turn,    \* which codeword is the n-th
    path,    \* which module is the n-th
    \* the board
    scene, board,
    hit,     \* the damage done: <<"word", k>> or <<"format", copy>>
    \* the reading
    stage,   \* how far it is
    flip,    \* the board is turned over, having not been read as it is
    blocks,  \* codewords of the blocks, or Unread
    got      \* what was read

tables == <<exp, log, turn, path>>
qrVars == <<tables, scene, board, hit, stage, flip, blocks, got>>

Byte == SUBSET (0 .. 7)
Bits(v) == {i \in 0 .. 15 : (v \div (2 ^ i)) % 2 = 1}
Xor(a, b) == (a \ b) \cup (b \ a)
Shift(a) == {i + 1 : i \in a}

(* The n-th bit of a row of bytes, the highest of each byte first.          *)
BitAt(bytes, n) == 7 - (n % 8) \in bytes[(n \div 8) + 1]

(* The same sequence; TLC then works out its elements once.                 *)
Now(s) == s \o <<>>

-----------------------------------------------------------------------------
(* GF(256), by the polynomial 0x11d.                                        *)

Twice(x) == IF 7 \in x THEN Xor(Shift(x), {0, 2, 3, 4, 8}) ELSE Shift(x)

ExpTable == FoldLeft(LAMBDA s, i : Append(s, Twice(Last(s))), <<{0}>>, [i \in 1 .. 254 |-> i])
LogTable(powers) == [b \in Range(powers) |-> (CHOOSE i \in 1 .. 255 : powers[i] = b) - 1] @@ <<>>

Pow(i) == exp[(i % 255) + 1]
Mul(a, b) == IF {} \in {a, b} THEN {} ELSE Pow(log[a] + log[b])
Div(a, b) == IF a = {} THEN {} ELSE Pow(log[a] - log[b])

\* A fault: the lowest degree comes first.
RsGeneratorFault(n) ==
    FoldLeft(LAMBDA g, i : Now([j \in 1 .. Len(g) + 1 |->
                              Xor(IF j > 1 THEN g[j - 1] ELSE {},
                                  IF j <= Len(g) THEN Mul(g[j], Pow(i)) ELSE {})]),
             <<{0}>>, [i \in 1 .. n |-> i - 1])

(* (x - 2^0) ... (x - 2^(n - 1)), the highest degree first.                 *)
RsGenerator(n) ==
    FoldLeft(LAMBDA g, i : Now([j \in 1 .. Len(g) + 1 |->
                              Xor(IF j <= Len(g) THEN g[j] ELSE {},
                                  IF j > 1 THEN Mul(g[j - 1], Pow(i)) ELSE {})]),
             <<{0}>>, [i \in 1 .. n |-> i - 1])

(* The remainder, in a register into which the bytes are shifted.           *)
RsEncode(data, ecLen) ==
    LET g == RsGenerator(ecLen)
        feed[n \in 1 .. Len(data) + 1, out \in [1 .. ecLen -> Byte]] ==
          IF n > Len(data) THEN out
          ELSE LET factor == Xor(data[n], Head(out))
                   moved  == Append(Tail(out), {})
               IN  feed[n + 1, Now([i \in 1 .. ecLen |-> Xor(moved[i], Mul(g[i + 1], factor))])]
    IN  feed[1, Now([i \in 1 .. ecLen |-> {}])]

-----------------------------------------------------------------------------
(* Codewords.                                                               *)

(* Per version: codewords of correction, and blocks with their sizes.       *)
EcTable == <<
    <<7, 1, 19, 0>>, <<10, 1, 34, 0>>, <<15, 1, 55, 0>>, <<20, 1, 80, 0>>, <<26, 1, 108, 0>>,
    <<18, 2, 68, 0>>, <<20, 2, 78, 0>>, <<24, 2, 97, 0>>, <<30, 2, 116, 0>>, <<18, 2, 68, 2>>,
    <<20, 4, 81, 0>>, <<24, 2, 92, 2>>, <<26, 4, 107, 0>>, <<30, 3, 115, 1>>, <<22, 5, 87, 1>>,
    <<24, 5, 98, 1>>, <<28, 1, 107, 5>>, <<30, 5, 120, 1>>, <<28, 3, 113, 4>>, <<28, 3, 107, 5>> >>

EcLen(v) == EcTable[v][1]

(* Blocks of the second kind have one codeword more.                        *)
BlockLayout(v) ==
    LET e == EcTable[v]
    IN  [b \in 1 .. e[2] + e[4] |-> IF b <= e[2] THEN e[3] ELSE e[3] + 1]

SumTo(s, n) == FoldLeft(LAMBDA a, b : a + b, 0, SubSeq(s, 1, n))
DataWords(v) == SumTo(BlockLayout(v), Len(BlockLayout(v)))

CapacityBytes(v) == DataWords(v) - 2 - (IF v >= 10 THEN 1 ELSE 0)

PickVersion(length) ==
    LET fits == {v \in 1 .. 20 : CapacityBytes(v) >= length}
    IN  IF fits = {} THEN Unread ELSE CHOOSE v \in fits : \A w \in fits : v <= w

CountBits(v) == IF v >= 10 THEN 16 ELSE 8

(* Mode, count, bytes and end as a row of bits; then a padding.             *)
ToDataCodewords(text, v) ==
    LET Row(set, w) == [i \in 1 .. w |-> w - i \in set]
        row == Row({2}, 4) \o Row(Bits(Len(text)), CountBits(v))
                 \o [i \in 1 .. 8 * Len(text) |-> BitAt(text, i - 1)] \o Row({}, 4)
        used == Len(row) \div 8
    IN  Now([k \in 1 .. DataWords(v) |->
            IF k <= used THEN {j \in 0 .. 7 : row[8 * k - j]}
            ELSE IF k % 2 # used % 2 THEN Bits(236) ELSE Bits(17)])

(* Blocks take turns: the n-th codeword on the board, as a block and a place *)
(* in it.                                                                   *)
Order(v) ==
    LET sizes == BlockLayout(v)
        nb == Len(sizes)
        Turns(n, off(_)) == [k \in 1 .. n * nb |->
                               LET b == ((k - 1) % nb) + 1 IN <<b, ((k - 1) \div nb) + 1 + off(b)>>]
        First(b) == 0
        Ec(b) == sizes[b]
    IN  SelectSeq(Turns(sizes[nb], First), LAMBDA p : p[2] <= sizes[p[1]]) \o Turns(EcLen(v), Ec)

Interleaved(data, v) ==
    LET sizes == BlockLayout(v)
        parts == Now([b \in 1 .. Len(sizes) |->
                         LET d == SubSeq(data, SumTo(sizes, b - 1) + 1, SumTo(sizes, b))
                         IN  d \o RsEncode(d, EcLen(v))])
    IN  Now([k \in 1 .. Len(turn) |-> parts[turn[k][1]][turn[k][2]]])

-----------------------------------------------------------------------------
(* The board.                                                               *)

Size(v) == 17 + 4 * v

Align == <<
    {}, {6, 18}, {6, 22}, {6, 26}, {6, 30}, {6, 34}, {6, 22, 38}, {6, 24, 42}, {6, 26, 46},
    {6, 28, 50}, {6, 30, 54}, {6, 32, 58}, {6, 34, 62}, {6, 26, 46, 66}, {6, 26, 48, 70},
    {6, 26, 50, 74}, {6, 30, 54, 78}, {6, 30, 56, 82}, {6, 30, 58, 86}, {6, 34, 62, 90}>>

(* What holds no data: finders and format, timing, alignment, version.      *)
Reserved(v) ==
    LET n == Size(v)
        Mark(x, y, w, h) == (x .. x + w - 1) \X (y .. y + h - 1)
        centers == (Align[v] \X Align[v]) \ {<<6, 6>>, <<6, n - 7>>, <<n - 7, 6>>}
    IN  Mark(0, 0, 9, 9) \cup Mark(n - 8, 0, 8, 9) \cup Mark(0, n - 8, 9, 8)
          \cup Mark(6, 0, 1, n) \cup Mark(0, 6, n, 1)
          \cup UNION {Mark(c[1] - 2, c[2] - 2, 5, 5) : c \in centers}
          \cup (IF v >= 7 THEN Mark(n - 11, 0, 3, 6) \cup Mark(0, n - 11, 6, 3) ELSE {})

(* In pairs of columns from the right, up and down; the column of the       *)
(* timing is stepped over.                                                  *)
DataPath(v) ==
    LET n == Size(v)
        reserved == Reserved(v)
        At(i) ==
          LET strip == i \div (2 * n)
              right == n - 1 - 2 * strip
              step == (i % (2 * n)) \div 2
          IN  <<(IF right <= 6 THEN right - 1 ELSE right) - (i % 2),
                IF strip % 2 = 0 THEN n - 1 - step ELSE step>>
    IN  SelectSeq([i \in 1 .. n * (n - 1) |-> At(i - 1)], LAMBDA p : p \notin reserved)

(* Level L and the mask, with a BCH remainder, under the fixed mask 0x5412. *)
FormatBits == [mask \in 0 .. 7 |->
    LET data == {3} \cup Bits(mask)
        Step(rem, i) == IF 9 \in rem THEN Xor(Shift(rem), {0, 1, 2, 4, 5, 8, 10}) ELSE Shift(rem)
        rem == FoldLeft(Step, data, [i \in 1 .. 10 |-> i])
    IN  Xor({i + 10 : i \in data} \cup rem, {1, 4, 10, 12, 14})]

(* Where bit i of the format is, in either of its copies.                   *)
FormatAt(copy, i, n) ==
    IF copy = 1
    THEN IF i <= 5 THEN <<8, i>> ELSE IF i <= 7 THEN <<8, i + 1>>
         ELSE IF i = 8 THEN <<7, 8>> ELSE <<14 - i, 8>>
    ELSE IF i <= 7 THEN <<n - 1 - i, 8>> ELSE <<8, n - 15 + i>>

MaskAt(mask, x, y) ==
    CASE mask = 0 -> (x + y) % 2 = 0
      [] mask = 1 -> y % 2 = 0
      [] mask = 2 -> x % 3 = 0
      [] mask = 3 -> (x + y) % 3 = 0
      [] mask = 4 -> ((y \div 2) + (x \div 3)) % 2 = 0
      [] mask = 5 -> ((x * y) % 2) + ((x * y) % 3) = 0
      [] mask = 6 -> (((x * y) % 2) + ((x * y) % 3)) % 2 = 0
      [] mask = 7 -> (((x + y) % 2) + ((x * y) % 3)) % 2 = 0

(* Modules that are left over after the last codeword hold zeros.           *)
MakeQr(text, mask) ==
    LET v == PickVersion(Len(text))
        words == Interleaved(ToDataCodewords(text, v), v)
        On(i) == i <= 8 * Len(words) /\ BitAt(words, i - 1)
    IN  {FormatAt(c, i, Size(v)) : c \in {1, 2}, i \in FormatBits[mask]}
          \cup {path[i] : i \in {k \in 1 .. Len(path) : On(k) # MaskAt(mask, path[k][1], path[k][2])}}

-----------------------------------------------------------------------------
(* Reading.                                                                 *)

(* The mask whose format is nearest in either copy, if it is near enough.   *)
ReadMask(grid, n) ==
    LET Copy(c) == {i \in 0 .. 14 : FormatAt(c, i, n) \in grid}
        Far(m, c) == Cardinality(Xor(Copy(c), FormatBits[m]))
        dist == Now([k \in 1 .. 8 |-> Min({Far(k - 1, 1), Far(k - 1, 2)})])
        best == CHOOSE k \in 1 .. 8 : \A j \in 1 .. 8 : dist[k] < dist[j] \/ (dist[k] = dist[j] /\ k <= j)
    IN  IF dist[best] <= 3 THEN best - 1 ELSE Unread

Coef(p, i) == IF i + 1 \in DOMAIN p THEN p[i + 1] ELSE {}

(* The value of a polynomial, the highest degree first, or the lowest.      *)
Horner(p, x) ==
    LET h[i \in 1 .. Len(p) + 1, y \in Byte] ==
          IF i > Len(p) THEN y ELSE h[i + 1, Xor(Mul(y, x), p[i])]
    IN  h[1, {}]
PolyEval(p, x) == Horner(Reverse(p), x)

(* f(0) + ... + f(n)                                                        *)
SumOf(n, f(_)) ==
    LET sum[i \in 0 .. n] == Xor(IF i = 0 THEN {} ELSE sum[i - 1], f(i)) IN sum[n]

Syndromes(block, ecLen) ==
    Now([j \in 1 .. ecLen |-> Horner(block, Pow(j - 1))])

(* Berlekamp-Massey: the error locator, the lowest degree first.            *)
Locator(synd) ==
    LET Step(s, r) ==
          LET d == SumOf(s.l, LAMBDA i : Mul(Coef(s.lambda, i), synd[r - i]))
              deg == IF Len(s.lambda) >= Len(s.prev) + s.shift THEN Len(s.lambda)
                     ELSE Len(s.prev) + s.shift
              next == Now([i \in 1 .. deg |->
                         Xor(Coef(s.lambda, i - 1), Mul(Div(d, s.b), Coef(s.prev, i - 1 - s.shift)))])
          IN  IF d = {} THEN [s EXCEPT !.shift = @ + 1]
              ELSE IF 2 * s.l < r
              THEN [lambda |-> next, prev |-> s.lambda, l |-> r - s.l, shift |-> 1, b |-> d]
              ELSE [s EXCEPT !.lambda = next, !.shift = @ + 1]
    IN  FoldLeft(Step, [lambda |-> <<{0}>>, prev |-> <<{0}>>, l |-> 0, shift |-> 1, b |-> {0}],
                 [r \in 1 .. Len(synd) |-> r])

Degree(p) == CHOOSE i \in 0 .. Len(p) - 1 :
                /\ i = 0 \/ Coef(p, i) # {}
                /\ \A k \in i + 1 .. Len(p) - 1 : Coef(p, k) = {}

(* Chien search for the places, Forney for the values, and a last check.    *)
RsCorrect(block, ecLen) ==
    LET synd == Syndromes(block, ecLen)
        bm == Locator(synd)
        lambda == SubSeq(bm.lambda, 1, Degree(bm.lambda) + 1)
        len == Len(block)
        Inv(p) == Pow(p - len)
        places == {p \in 1 .. len : PolyEval(lambda, Inv(p)) = {}}
        omega == Now([i \in 1 .. ecLen |->
                    SumOf(i - 1, LAMBDA j : Mul(Coef(lambda, j), synd[i - j]))])
        deriv == Now([i \in 1 .. Len(lambda) - 1 |-> IF i % 2 = 1 THEN lambda[i + 1] ELSE {}])
        Fixed(p) == Xor(block[p], Mul(Pow(len - p), Div(PolyEval(omega, Inv(p)), PolyEval(deriv, Inv(p)))))
        out == Now([p \in 1 .. len |-> IF p \in places THEN Fixed(p) ELSE block[p]])
    IN  IF UNION Range(synd) = {} THEN block
        ELSE IF \/ bm.l # Len(lambda) - 1 \/ 2 * bm.l > ecLen
                \/ Cardinality(places) # bm.l
                \/ \E p \in places : PolyEval(deriv, Inv(p)) = {}
             THEN Unread
        ELSE IF UNION Range(Syndromes(out, ecLen)) = {} THEN out ELSE Unread

(* Of a text in bytes; another mode is not read, nor a text that is cut.    *)
ParseSegments(data, v) ==
    LET Num(at, w) == FoldLeft(LAMBDA a, i : 2 * a + (IF BitAt(data, at + i) THEN 1 ELSE 0), 0,
                               [i \in 1 .. w |-> i - 1])
        count == Num(4, CountBits(v))
        from == 4 + CountBits(v)
    IN  IF Num(0, 4) # 4 \/ from + 8 * count > 8 * Len(data) THEN Unread
        ELSE [k \in 1 .. count |-> {j \in 0 .. 7 : BitAt(data, from + 8 * k - 1 - j)}]

(* The codewords of the blocks, each module under the mask.                 *)
RawBlocks(grid, mask, v) ==
    LET raw == Now([k \in 1 .. Len(turn) |->
                      {j \in 0 .. 7 : LET p == path[8 * k - j] IN (p \in grid) # MaskAt(mask, p[1], p[2])}])
        sizes == BlockLayout(v)
        Place(b, i) == CHOOSE k \in 1 .. Len(turn) : turn[k] = <<b, i>>
    IN  Now([b \in 1 .. Len(sizes) |-> Now([i \in 1 .. sizes[b] + EcLen(v) |-> raw[Place(b, i)]])])

DataOf(fixed, v) ==
    LET sizes == BlockLayout(v) IN FlattenSeq([b \in 1 .. Len(sizes) |-> SubSeq(fixed[b], 1, sizes[b])])

Mirrored(grid) == {<<p[2], p[1]>> : p \in grid}

-----------------------------------------------------------------------------
Version == PickVersion(Len(scene.text))

QrInit ==
    /\ exp = ExpTable /\ log = LogTable(exp)
    /\ scene \in Scenes /\ turn = Order(Version) /\ path = DataPath(Version)
    /\ board = {} /\ hit = {} /\ stage = "blank" /\ flip = FALSE /\ blocks = <<>> /\ got = Unread

Draw ==
    /\ stage = "blank" /\ stage' = "drawn"
    /\ \E mask \in scene.masks : board' = MakeQr(scene.text, mask)
    /\ UNCHANGED <<tables, scene, hit, flip, blocks, got>>

Hit(what, modules) ==
    /\ stage = "drawn" /\ what \notin hit /\ hit' = hit \cup {what}
    /\ board' = Xor(board, modules)
    /\ UNCHANGED <<tables, scene, stage, flip, blocks, got>>

(* Modules of one codeword are misread; as many codewords of a block as can *)
(* be corrected.                                                            *)
Damage(k, e) ==
    /\ LET SameBlock == {j \in DOMAIN turn : turn[j][1] = turn[k][1]}
       IN  2 * (Cardinality({j \in SameBlock : <<"word", j>> \in hit}) + 1) <= EcLen(Version)
    /\ Hit(<<"word", k>>, {path[8 * k - j] : j \in e})

(* Modules of the format are misread, no more than three of a copy.         *)
Smear(c, bits) == Hit(<<"format", c>>, {FormatAt(c, i, Size(Version)) : i \in bits})

(* The camera sees the board, or its image in a mirror.                     *)
See ==
    /\ stage = "drawn" /\ stage' = "seen"
    /\ board' \in {board, Mirrored(board)}
    /\ UNCHANGED <<tables, scene, hit, flip, blocks, got>>

(* What cannot be read is tried once more as a mirror shows it.             *)
NotRead ==
    /\ flip' = TRUE /\ stage' = IF flip THEN "read" ELSE "seen"
    /\ UNCHANGED got

ReadGrid ==
    LET grid == IF flip THEN Mirrored(board) ELSE board
        mask == ReadMask(grid, Size(Version))
    IN  /\ stage = "seen"
        /\ IF mask = Unread THEN NotRead /\ UNCHANGED blocks
           ELSE stage' = "raw" /\ blocks' = RawBlocks(grid, mask, Version) /\ UNCHANGED <<flip, got>>
        /\ UNCHANGED <<tables, scene, board, hit>>

Correct ==
    /\ stage = "raw" /\ stage' = "fixed"
    /\ blocks' = Now([b \in 1 .. Len(blocks) |-> RsCorrect(blocks[b], EcLen(Version))])
    /\ UNCHANGED <<tables, scene, board, hit, flip, got>>

Parse ==
    /\ stage = "fixed"
    /\ IF \E b \in 1 .. Len(blocks) : blocks[b] = Unread THEN NotRead
       ELSE LET text == ParseSegments(DataOf(blocks, Version), Version)
            IN  IF text = Unread THEN NotRead
                ELSE got' = text /\ stage' = "read" /\ UNCHANGED flip
    /\ UNCHANGED <<tables, scene, board, hit, blocks>>

QrNext ==
    \/ Draw \/ See \/ ReadGrid \/ Correct \/ Parse
    \/ \E k \in scene.spots, e \in scene.values : Damage(k, e)
    \/ \E c \in {1, 2}, bits \in scene.formats : Smear(c, bits)

QrSpec == QrInit /\ [][QrNext]_qrVars

(* What is read is what was drawn, however the board was damaged within     *)
(* what a code can bear, and also in a mirror (qrDecode.ts decodeGrid).     *)
QrReadBack == stage = "read" => got = scene.text
=============================================================================

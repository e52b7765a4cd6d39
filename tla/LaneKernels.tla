---------------------------- MODULE LaneKernels ----------------------------
(***************************************************************************)
(* The loops that select and hash the rows of a vector: one row at a time, *)
(* or all lanes of a register at a time and the rest behind them           *)
(* (src/include/vectorwise/Primitives.hpp, src/vectorwise/primitives).  A  *)
(* step is one turn of a loop.  Positions and lanes count from 0.          *)
(*                                                                         *)
(* A register holds WideLanes 64-bit lanes (8) or twice as many 32-bit     *)
(* ones.  Keys have KeyBits (32), hashes HashBits (64); where the code     *)
(* hashes to 32 bits only the lanes differ here.  Constants of the hash    *)
(* functions are cut to HashBits, shifts scaled.                           *)
(***************************************************************************)
EXTENDS Integers, Sequences, FiniteSets

CONSTANTS
  WideLanes, KeyBits, HashBits,
  MaxRows,     \* positions of a column
  KeyColumns,  \* columns of keys that are hashed: functions from positions to integers
  Untouched,   \* in a place of the result nobody has written
  Stray        \* computed from whatever lies behind the selection vector

LanesAssumption == WideLanes \in Nat \ {0, 1} /\ WideLanes % 2 = 0
BitsAssumption == KeyBits \in Nat \ {0} /\ HashBits >= KeyBits

Positions == 0..(MaxRows - 1)
Word == 2 ^ HashBits

VARIABLES
  kernel,   \* the loop that runs
  n,        \* its rows
  inSel,    \* inSel[k]: the position of row k (if the kernel has a selection vector)
  wanted,   \* the positions whose value (or pair of values) satisfies the comparison
  keys,     \* the column that is hashed
  result,   \* result[k]; the buffer goes on behind row n - 1
  i, found  \* as in the code

vars == <<kernel, n, inSel, wanted, keys, result, i, found>>

-----------------------------------------------------------------------------
(* The hash functions, each in a scalar and a vector form with the same    *)
(* operations: MurMurHash, and MurMurHash3 for hashes of 32 bits.          *)

\* The bits in which two words differ, from the lowest on.
Xor(x, y) ==
  LET differing[k \in 0..HashBits] ==
        IF k = 0 THEN 0
        ELSE differing[k - 1] + 2 ^ (k - 1) * ((x \div 2 ^ (k - 1) + y \div 2 ^ (k - 1)) % 2)
  IN  differing[HashBits]
Times(x, y) == (x * y) % Word
ShiftRight(x, bits) == x \div 2 ^ bits
Rotate(x, bits) == Times(x, 2 ^ bits) + ShiftRight(x, HashBits - bits)

MurMurHash(key, seed) ==
  LET m == 21
      Mix(x) == Xor(x, ShiftRight(x, (2 * HashBits + 2) \div 3))
      k == Times(Mix(Times(key, m)), m)
      h == Xor(Xor(seed, 18 % Word), Times(8, m))
  IN  Mix(Times(Mix(Times(Xor(h, k), m)), m))

fmix32(h) ==
  LET Mix(x, bits) == Xor(x, ShiftRight(x, bits))
      half == HashBits \div 2
  IN  Mix(Times(Mix(Times(Mix(h, half), 43), (13 * HashBits) \div 32), 53), half)

MurMurHash3(key, seed) ==
  LET k == Times(Rotate(Times(key, 17), HashBits \div 2), 19)
      h == Rotate(Xor(seed, k), HashBits \div 3)
  IN  fmix32((Times(h, 5) + 36) % Word)

\* An int32_t that becomes a uint64_t, and cvtepu32_epi64.
SignExtended(key) == key % Word
ZeroExtended(key) == key % 2 ^ KeyBits

seed == 5 % Word

-----------------------------------------------------------------------------
(* The kernels.  lanes is 0 for a loop over single rows; a branchless one  *)
(* writes every position and moves on if it was wanted; small is the build *)
(* with hashes of 32 bits, wide a kernel for keys of 64 bits.              *)

Selection(hasSel, lanes, branchless) ==
  [does |-> "select", hasSel |-> hasSel, lanes |-> lanes, branchless |-> branchless,
   halves |-> FALSE, rehash |-> FALSE, asm |-> FALSE, small |-> FALSE, wide |-> FALSE]
Hashing(hasSel, lanes, isRehash) ==
  [does |-> "hash", hasSel |-> hasSel, lanes |-> lanes, branchless |-> FALSE,
   halves |-> FALSE, rehash |-> isRehash, asm |-> FALSE, small |-> lanes > WideLanes, wide |-> FALSE]

sel_col == Selection(FALSE, 0, FALSE)
selsel_col == Selection(TRUE, 0, FALSE)
sel_col_bf == Selection(FALSE, 0, TRUE)
selsel_col_bf == Selection(TRUE, 0, TRUE)
sel_int32_avx512 == Selection(FALSE, 2 * WideLanes, FALSE)
selsel_int32_avx512 == Selection(TRUE, 2 * WideLanes, FALSE)
selsel_int64_vl == Selection(TRUE, WideLanes, FALSE)
selsel_int64 == [Selection(TRUE, 2 * WideLanes, FALSE) EXCEPT !.halves = TRUE]

hash == Hashing(FALSE, 0, FALSE)
hash_sel == Hashing(TRUE, 0, FALSE)
rehash == Hashing(FALSE, 0, TRUE)
rehash_sel == Hashing(TRUE, 0, TRUE)
hash4 == Hashing(FALSE, WideLanes, FALSE)
hash8 == [hash4 EXCEPT !.wide = TRUE]
rehash4 == Hashing(FALSE, WideLanes, TRUE)
hash4_sel == Hashing(TRUE, WideLanes, FALSE)
rehash4_sel == Hashing(TRUE, WideLanes, TRUE)
hash4_16 == Hashing(FALSE, 2 * WideLanes, FALSE)
rehash4_16 == Hashing(FALSE, 2 * WideLanes, TRUE)
hash4_16_sel == Hashing(TRUE, 2 * WideLanes, FALSE)
rehash4_16_sel == Hashing(TRUE, 2 * WideLanes, TRUE)
hash4_selASM == [hash4_sel EXCEPT !.asm = TRUE]

Selections == {sel_col, selsel_col, sel_col_bf, selsel_col_bf,
               sel_int32_avx512, selsel_int32_avx512, selsel_int64_vl, selsel_int64}
Hashes == {[h EXCEPT !.small = b] : h \in {hash, hash_sel, rehash, rehash_sel}, b \in BOOLEAN}
          \cup {hash4, hash8, rehash4, hash4_sel, rehash4_sel, hash4_selASM}
          \cup {hash4_16, rehash4_16, hash4_16_sel, rehash4_16_sel}

\* Selection vectors rise.  Space lies behind every buffer here, so that what is
\* written there can be told.
SelectionVectors(rows) ==
  {s \in [0..(rows - 1) -> Positions] : \A j, k \in 0..(rows - 1) : j < k => s[j] < s[k]}
Buffer(content(_)) == [k \in 0..(2 * (MaxRows + WideLanes)) |-> content(k)]

\* The hash of row k of the column that was hashed before.
OldSeed(k) == (3 * k + 1) % Word

Init ==
  /\ kernel \in Selections \cup Hashes
  /\ n \in IF kernel.does = "select" THEN 0..MaxRows ELSE 1..MaxRows
  /\ inSel \in IF kernel.hasSel THEN SelectionVectors(n) ELSE {[k \in 0..(n - 1) |-> k]}
  /\ wanted \in IF kernel.does = "select" THEN SUBSET {inSel[k] : k \in 0..(n - 1)} ELSE {{}}
  /\ keys \in IF kernel.does = "hash" THEN KeyColumns ELSE {[p \in Positions |-> 0]}
  /\ result = Buffer(LAMBDA k : IF kernel.rehash /\ k < n THEN OldSeed(k) ELSE Untouched)
  /\ i = 0 /\ found = 0

\* Rows that fill whole registers; the others are the rest.
rest == IF kernel.lanes = 0 THEN n ELSE n % kernel.lanes
WholeRows == n - rest

-----------------------------------------------------------------------------
(* Selections *)

Same == UNCHANGED <<kernel, n, inSel, wanted, keys>>

\* One row, also of the rest.
SelectRow ==
  /\ kernel.does = "select" /\ i >= WholeRows /\ i < n
  /\ LET idx == inSel[i]
     IN  /\ result' = IF kernel.branchless \/ idx \in wanted
                      THEN [result EXCEPT ![found] = idx] ELSE result
         /\ found' = IF idx \in wanted THEN found + 1 ELSE found
  /\ i' = i + 1 /\ Same

\* The lanes of the mask that one comparison of a register gives, or two
\* comparisons of half as many values each.
Compare(from, lanes) == {l \in 0..(lanes - 1) : inSel[from + l] \in wanted}

\* Mutant: the mask of the second half is not shifted.
CompareHalves_Unshifted(from, lanes) == Compare(from, lanes \div 2) \cup Compare(from + (lanes \div 2), lanes \div 2)

CompareHalves(from, lanes) ==
  Compare(from, lanes \div 2) \cup {l + (lanes \div 2) : l \in Compare(from + (lanes \div 2), lanes \div 2)}

\* compressstoreu: the positions of the lanes in the mask, one after the other.
SelectBlock ==
  /\ kernel.does = "select" /\ i < WholeRows
  /\ LET mask == IF kernel.halves THEN CompareHalves(i, kernel.lanes) ELSE Compare(i, kernel.lanes)
         Before(l) == Cardinality({m \in mask : m < l})
     IN  /\ result' = [k \in DOMAIN result |->
                         IF \E l \in mask : k = found + Before(l)
                         THEN inSel[i + (CHOOSE l \in mask : k = found + Before(l))]
                         ELSE result[k]]
         /\ found' = found + Cardinality(mask)
  /\ i' = i + kernel.lanes /\ Same

-----------------------------------------------------------------------------
(* Hashes *)

SeedOf(k) == IF kernel.rehash THEN result[k] ELSE seed
Hashed(key, s) == IF kernel.small THEN MurMurHash3(key, s) ELSE MurMurHash(key, s)

HashRow ==
  /\ kernel.does = "hash" /\ kernel.lanes = 0 /\ i < n
  /\ result' = [result EXCEPT ![i] = Hashed(SignExtended(keys[inSel[i]]), SeedOf(i))]
  /\ i' = i + 1 /\ UNCHANGED found /\ Same

\* What a lane with row k computes: 32-bit lanes have nothing to extend, nor have
\* keys of 64 bits.
LaneHash(k) ==
  IF k >= n THEN Stray
  ELSE LET key == keys[inSel[k]]
       IN  Hashed(IF kernel.small \/ kernel.wide THEN SignExtended(key) ELSE ZeroExtended(key), SeedOf(k))

\* The hashes of count rows go to the places that begin at to.
StoreLanes(from, count, to) ==
  result' = [k \in DOMAIN result |->
               IF k \in to..(to + count - 1) THEN LaneHash(from + k - to) ELSE result[k]]

HashBlock ==
  /\ kernel.does = "hash" /\ kernel.lanes > 0 /\ i < WholeRows
  /\ StoreLanes(i, kernel.lanes, i)
  /\ i' = i + kernel.lanes /\ UNCHANGED found /\ Same

\* The loop of hash4_selASM ends when its pointer is a register behind the end.
ExtraBlock ==
  /\ kernel.asm /\ i = WholeRows
  /\ StoreLanes(i, kernel.lanes, i)
  /\ i' = i + kernel.lanes /\ UNCHANGED found /\ Same

\* The mask of the rest counts 64-bit words, whatever the lanes are.
MaskedLanes == (IF rest < WideLanes THEN rest ELSE WideLanes) * (kernel.lanes \div WideLanes)

\* hash4_selASM moves the registers of inSel and result without saying so; code
\* behind it may take them to be where they were.
HashRest ==
  /\ kernel.does = "hash" /\ kernel.lanes > 0 /\ rest > 0
  /\ i = WholeRows + (IF kernel.asm THEN kernel.lanes ELSE 0)
  /\ \E from, to \in {WholeRows} \cup (IF kernel.asm THEN {WholeRows + i} ELSE {}) :
       StoreLanes(from, MaskedLanes, to)
  /\ i' = i + rest /\ UNCHANGED found /\ Same

Next == SelectRow \/ SelectBlock \/ HashRow \/ HashBlock \/ ExtraBlock \/ HashRest
Spec == Init /\ [][Next]_vars

Returned == i = n + (IF kernel.asm THEN kernel.lanes ELSE 0)

-----------------------------------------------------------------------------

\* A selection returns the wanted positions of its input in order, and writes to
\* no place that its input would not fit in, however many rows are left when the
\* registers are full.
SelectsWanted ==
  Returned /\ kernel.does = "select" =>
    /\ [k \in 1..found |-> result[k - 1]]
         = SelectSeq([k \in 1..n |-> inSel[k - 1]], LAMBDA p : p \in wanted)
    /\ \A k \in DOMAIN result : k >= n => result[k] = Untouched

OldSeedOf(k) == IF kernel.rehash THEN OldSeed(k) ELSE seed

\* The hash that the scalar kernel of the same build gives row k, if it has this key.
ScalarHashOf(key, k) == Hashed(SignExtended(key), OldSeedOf(k))
ScalarHash(k) == ScalarHashOf(keys[inSel[k]], k)

\* The number with the bits of a negative key.
Unsigned(key) == IF key < 0 THEN key + 2 ^ KeyBits ELSE key

\* All kernels give a row the hash that the scalar one does, whatever is read behind
\* the rows, so that a table can be built with one and probed with another.  Only
\* negative keys of 32 bits are others in 64-bit lanes: the unsigned ones of the
\* same bits, in all these kernels, in full registers and in rests.  (Not
\* hash4_selASM if rows are left behind the blocks.)
LanesAgree ==
  Returned /\ kernel.does = "hash" /\ ~(kernel.asm /\ rest > 0) =>
    \A k \in 0..(n - 1) :
      LET key == keys[inSel[k]]
          widened == kernel.lanes > 0 /\ ~kernel.small /\ ~kernel.wide
      IN  result[k] = ScalarHashOf(IF widened THEN Unsigned(key) ELSE key, k)

\* Different keys have different hashes, in either build.
HashesApart ==
  Returned /\ kernel.does = "hash" /\ ~kernel.rehash =>
    \A j, k \in 0..(n - 1) : ScalarHash(j) = ScalarHash(k) => keys[inSel[j]] = keys[inSel[k]]

\* Behind its last row a hash kernel writes no further than the last register it
\* began: inside a buffer for a vector whose size is a multiple of the lanes.
\* (Not hash4_selASM.)
StaysInVector ==
  kernel.does = "hash" /\ ~kernel.asm =>
    \A k \in DOMAIN result :
      k >= (IF rest = 0 \/ kernel.lanes = 0 THEN n ELSE WholeRows + kernel.lanes) => result[k] = Untouched

\* hash4_selASM "is semantically equivalent to hash4_sel" (a comment above it).
SameAsHash4Sel ==
  Returned /\ kernel.asm =>
    \A k \in DOMAIN result :
      result[k] = IF k >= n THEN Untouched ELSE LaneHash(k)
=============================================================================

--------------------------- MODULE FlatFile_proofs --------------------------
(***************************************************************************)
(* Proofs that files keep what is written to them and that FileIO          *)
(* implements FlatFile, for every size of blocks, of files and of calls,   *)
(* as long as calls do not overlap: one thread serves them.                *)
(***************************************************************************)
EXTENDS MCFileIO, FileIO_proofs

\* The calls of one thread do not overlap.
OneThread == \E t : Thread = {t}

-----------------------------------------------------------------------------
(* Offsets and blocks *)

\* q and r are quotient and remainder of a and m.
Divides(a, m, q, r) == q \in Nat /\ r \in 0..m - 1 /\ a = q * m + r

LEMMA QuotientIs ==
    ASSUME NEW m \in Nat \ {0}, NEW q, NEW r, NEW a, Divides(a, m, q, r)
    PROVE  a \in Nat /\ a \div m = q /\ a % m = r
<1>0. q \in Nat /\ r \in 0..m - 1 /\ a = q * m + r
  BY DEF Divides
<1>1. q * m \in Nat
  BY <1>0, ProductNat
<1>2. a \in Nat
  BY <1>0, <1>1
<1>3. PICK k \in Nat, s \in 0..m - 1 : k = a \div m /\ s = a % m /\ a = k * m + s
  BY <1>2, DivMod
<1>4. k * m \in Nat
  BY ProductNat
<1>5. ASSUME k < q PROVE FALSE
  <2>1. (k + 1) * m <= q * m
    BY <1>0, <1>5, ProductMonotone
  <2>2. (k + 1) * m = k * m + m
    OBVIOUS
  <2> QED
    BY <1>0, <1>1, <1>3, <1>4, <2>1, <2>2
<1>6. ASSUME q < k PROVE FALSE
  <2>1. (q + 1) * m <= k * m
    BY <1>0, <1>6, ProductMonotone
  <2>2. (q + 1) * m = q * m + m
    BY <1>0
  <2> QED
    BY <1>0, <1>1, <1>3, <1>4, <2>1, <2>2
<1>7. k = q
  BY <1>0, <1>5, <1>6
<1> QED
  BY <1>0, <1>1, <1>2, <1>3, <1>7

\* The block of an offset, counted from 0, and the place in it.
IndexOf(i) == i \div BlockSize

PlaceOf(i) == i % BlockSize

LEMMA OffsetIs ==
    ASSUME NEW i \in Nat
    PROVE  /\ IndexOf(i) \in Nat /\ PlaceOf(i) \in 0..BlockSize - 1
           /\ i = IndexOf(i) * BlockSize + PlaceOf(i)
BY Constants, DivMod DEF IndexOf, PlaceOf

\* The n offsets from place a of block k on.
Span(k, a, n) == k * BlockSize + a..k * BlockSize + a + n - 1

LEMMA SpanIs ==
    ASSUME NEW k \in Nat, NEW a \in 0..BlockSize - 1, NEW n \in Nat,
           a + n <= BlockSize, NEW i \in Nat
    PROVE  i \in Span(k, a, n) <=> IndexOf(i) = k /\ PlaceOf(i) \in a..a + n - 1
<1>0. BlockSize \in Nat \ {0}
  BY Constants
<1>1. PICK j \in Nat : j = k * BlockSize
  BY <1>0, ProductNat
<1>2. PICK q \in Nat, r \in 0..BlockSize - 1 :
         q = IndexOf(i) /\ r = PlaceOf(i) /\ i = q * BlockSize + r
  BY OffsetIs
<1>3. ASSUME i \in Span(k, a, n) PROVE q = k /\ r \in a..a + n - 1
  <2>1. i \in j + a..j + a + n - 1
    BY <1>1, <1>3 DEF Span
  <2>2. PICK s \in 0..BlockSize - 1 : s = i - j /\ s \in a..a + n - 1
    BY <1>0, <1>1, <2>1
  <2>3. Divides(i, BlockSize, k, s)
    BY <1>1, <2>2 DEF Divides
  <2>4. i \div BlockSize = k /\ i % BlockSize = s
    BY <1>0, <2>3, QuotientIs
  <2> QED
    BY <1>2, <2>2, <2>4 DEF IndexOf, PlaceOf
<1>4. ASSUME q = k, r \in a..a + n - 1 PROVE i \in Span(k, a, n)
  <2>1. i = j + r
    BY <1>1, <1>2, <1>4
  <2>2. i \in j + a..j + a + n - 1
    BY <1>0, <1>1, <1>4, <2>1
  <2> QED
    BY <1>1, <2>2 DEF Span
<1> QED
  BY <1>2, <1>3, <1>4

-----------------------------------------------------------------------------
(* The bytes of an inode *)

\* The byte of inode copy x at offset i, with d in the blocks.
ByteOf(x, d, i) ==
    LET b == GetIthBlock(x, (i \div BlockSize) + 1)
    IN  IF b = Unmapped THEN 0 ELSE d[b][i % BlockSize]

Index == 0..EndOfMap * BlockSize - 1

MapIndex == 0..EndOfMap - 1

\* The block that copy x has at an index of its map, and 0 beyond the map.
BlockOf(x, k) == GetIthBlock(x, k + 1)

LEMMA BlockFacts ==
    ASSUME NEW x \in InodeType, NEW k \in Nat
    PROVE  /\ BlockOf(x, k) = IF k \in MapIndex THEN x.map[k] ELSE Unmapped
           /\ BlockOf(x, k) \in Block \cup {Unmapped}
           /\ x.map \in [MapIndex -> Block \cup {Unmapped}]
<1>1. EndOfMap \in Nat
  BY Constants
<1>2. x.map \in [MapIndex -> Block \cup {Unmapped}]
  BY DEF InodeType, MapIndex
<1>3. InRange(k + 1) <=> k \in MapIndex
  BY <1>1 DEF InRange, MapIndex
<1>4. (k + 1) - 1 = k
  OBVIOUS
<1> QED
  BY <1>2, <1>3, <1>4 DEF BlockOf, GetIthBlock

\* A byte lies in one block, at one place.
LEMMA ByteFacts ==
    ASSUME NEW x, NEW d, NEW i
    PROVE  ByteOf(x, d, i) = IF BlockOf(x, IndexOf(i)) = Unmapped THEN 0
                             ELSE d[BlockOf(x, IndexOf(i))][PlaceOf(i)]
BY DEF ByteOf, BlockOf, IndexOf, PlaceOf

LEMMA ByteTyped ==
    ASSUME NEW x \in InodeType, NEW d \in [Block -> BlockType], NEW i \in Nat
    PROVE  ByteOf(x, d, i) \in Byte \cup {0}
<1>1. IndexOf(i) \in Nat /\ PlaceOf(i) \in 0..BlockSize - 1
  BY OffsetIs
<1>2. BlockOf(x, IndexOf(i)) \in Block \cup {Unmapped}
  BY <1>1, BlockFacts
<1> QED
  BY <1>1, <1>2, ByteFacts DEF BlockType

\* e is d with another content of block b.
IsPut(d, e, b, block) == e = [d EXCEPT ![b] = block]

\* That content is the old one, or zeros, with n bytes from a on written.
IsTurn(d, e, b, a, n, byte) ==
    a + n <= BlockSize /\ IsPut(d, e, b, Overwritten(d[b], a, n, byte))

IsFreshTurn(d, e, b, a, n, byte) ==
    a + n <= BlockSize /\ IsPut(d, e, b, Overwritten(NoBytes, a, n, byte))

\* Copy x does not have block b; it has it at index k at most.
Lacks(x, b) == b # Unmapped /\ \A j \in MapIndex : x.map[j] # b

OnlyAt(x, k, b) == \A j \in MapIndex : x.map[j] = b => j = k

\* Of a copy that does not have the block it stays the same.
LEMMA SameBytes ==
    ASSUME NEW x \in InodeType, NEW b, NEW d \in [Block -> BlockType], NEW block,
           NEW e, IsPut(d, e, b, block), Lacks(x, b), NEW i \in Nat
    PROVE  ByteOf(x, e, i) = ByteOf(x, d, i)
<1>0. e = [d EXCEPT ![b] = block] /\ b # Unmapped /\ \A k \in MapIndex : x.map[k] # b
  BY DEF IsPut, Lacks
<1>1. PICK k \in Nat : k = IndexOf(i)
  BY OffsetIs
<1>2. BlockOf(x, k) # b /\ BlockOf(x, k) \in Block \cup {Unmapped}
  BY <1>0, BlockFacts
<1>3. BlockOf(x, k) # Unmapped => e[BlockOf(x, k)] = d[BlockOf(x, k)]
  BY <1>0, <1>2
<1>4. ByteOf(x, d, i) = IF BlockOf(x, k) = Unmapped THEN 0
                         ELSE d[BlockOf(x, k)][PlaceOf(i)]
  BY <1>1 DEF ByteOf, BlockOf, IndexOf, PlaceOf
<1>5. ByteOf(x, e, i) = IF BlockOf(x, k) = Unmapped THEN 0
                         ELSE e[BlockOf(x, k)][PlaceOf(i)]
  BY <1>1 DEF ByteOf, BlockOf, IndexOf, PlaceOf
<1> QED
  BY <1>3, <1>4, <1>5

\* A turn over block b, the k-th of copy x if x has it.
LEMMA TurnBytes ==
    ASSUME NEW x \in InodeType, NEW k \in MapIndex, NEW b \in Block,
           OnlyAt(x, k, b),
           NEW d \in [Block -> BlockType], NEW a \in 0..BlockSize - 1, NEW n \in Nat,
           NEW byte, NEW e, IsTurn(d, e, b, a, n, byte), NEW i \in Nat
    PROVE  ByteOf(x, e, i) = IF x.map[k] = b /\ i \in Span(k, a, n)
                             THEN byte ELSE ByteOf(x, d, i)
<1>0. /\ a + n <= BlockSize
      /\ e = [d EXCEPT ![b] = Overwritten(d[b], a, n, byte)]
      /\ \A j \in MapIndex : x.map[j] = b => j = k
  BY DEF IsTurn, IsPut, OnlyAt
<1>1. PICK q \in Nat : q = IndexOf(i)
  BY OffsetIs
<1>2. PICK r \in 0..BlockSize - 1 : r = PlaceOf(i)
  BY OffsetIs
<1>3. i \in Span(k, a, n) <=> q = k /\ r \in a..a + n - 1
  <2>1. k \in Nat
    BY Constants DEF MapIndex
  <2> QED
    BY <1>0, <1>1, <1>2, <2>1, SpanIs
<1>4. Unmapped \notin Block
  BY Constants
<1>5. d[b] \in BlockType /\ DOMAIN d[b] = 0..BlockSize - 1
  BY DEF BlockType
<1>6. e[b] = Overwritten(d[b], a, n, byte)
  BY <1>0
<1>7. e[b][r] = IF r \in a..a + n - 1 THEN byte ELSE d[b][r]
  BY <1>2, <1>5, <1>6 DEF Overwritten
<1>8. PICK c : c = BlockOf(x, q)
  OBVIOUS
<1>9. c = (IF q \in MapIndex THEN x.map[q] ELSE Unmapped) /\ c \in Block \cup {Unmapped}
  BY <1>8, BlockFacts
<1>10. /\ ByteOf(x, d, i) = IF c = Unmapped THEN 0 ELSE d[c][r]
       /\ ByteOf(x, e, i) = IF c = Unmapped THEN 0 ELSE e[c][r]
  <2>1. ByteOf(x, d, i) = IF c = Unmapped THEN 0 ELSE d[c][r]
    BY <1>1, <1>2, <1>8 DEF ByteOf, BlockOf, IndexOf, PlaceOf
  <2>2. ByteOf(x, e, i) = IF c = Unmapped THEN 0 ELSE e[c][r]
    BY <1>1, <1>2, <1>8 DEF ByteOf, BlockOf, IndexOf, PlaceOf
  <2> QED
    BY <2>1, <2>2
<1>11. CASE c = b
  <2>1. q = k /\ x.map[k] = b
    BY <1>0, <1>4, <1>9, <1>11
  <2> QED
    BY <1>3, <1>4, <1>7, <1>10, <1>11, <2>1
<1>12. CASE c # b
  <2>1. ~ (x.map[k] = b /\ q = k)
    BY <1>9, <1>12
  <2>2. c # Unmapped => e[c] = d[c]
    BY <1>0, <1>9, <1>12
  <2> QED
    BY <1>3, <1>10, <2>1, <2>2
<1> QED
  BY <1>11, <1>12

-----------------------------------------------------------------------------
(* The invariant *)

WrittenType == [size : Nat, bytes : [Index -> Byte \cup {0}]]

\* Call c with locals l has started to write, or to read.
InWrite(c, l) == c.op = "write" /\ l.pc \in {"turn", "alloc"}

InRead(c, l) == c.op = "read" /\ l.pc = "turn"

\* The inodes, with the copy of a write under way in place of its own.
Live(ino, c, l) == IF InWrite(c, l) THEN [ino EXCEPT ![c.file] = l.ino] ELSE ino

\* No block is in two places of maps, and none of a map is free.
Disjoint(x, fr) ==
    /\ \A f, g \in File, j, k \in MapIndex :
          x[f].map[j] = x[g].map[k] /\ x[f].map[j] # Unmapped => f = g /\ j = k
    /\ \A f \in File, k \in MapIndex : x[f].map[k] \notin fr

\* The offset that the loop has reached.
Reached(l) == (l.pos - 1) * BlockSize + l.at

\* Offset i is one that call c with locals l has written to.
Touched(c, l, i) == InWrite(c, l) /\ c.offset <= i /\ i < Reached(l)

Progress(c, l) ==
    l.pc \in {"turn", "alloc"} =>
        /\ l.pos \in Nat \ {0}
        /\ l.rest <= c.n
        /\ Reached(l) = c.offset + (c.n - l.rest)

\* The end of the copy is that of the inode x, or behind it, at the start of the
\* last block that the call has written to.
EndOfCopy(x, l) ==
    \/ l.ino.numBlocks = x.numBlocks /\ l.ino.used = x.used
    \/ /\ l.ino.numBlocks > x.numBlocks
       /\ l.ino.used = 0
       /\ l.pos > l.ino.numBlocks \/ (l.pos = l.ino.numBlocks /\ l.at > 0)

\* The write c with locals l to a file with inode x: the copy has the blocks of x
\* and holds what was written before, with the bytes of the call written over.
WriteOK(x, d, fr, bytes, c, l) ==
    /\ \A k \in MapIndex : x.map[k] # Unmapped => l.ino.map[k] = x.map[k]
    /\ \A i \in Index : ByteOf(l.ino, d, i) = IF Touched(c, l, i) THEN c.byte ELSE bytes[i]
    /\ \A i \in Index : BlockOf(x, IndexOf(i)) = Unmapped => bytes[i] = 0
    /\ l.pc = "alloc" => l.seen = fr /\ BlockOf(l.ino, l.pos - 1) = Unmapped
    /\ EndOfCopy(x, l)

\* The read c with locals l of a file with inode x.
ReadOK(x, d, c, l) ==
    /\ l.ino = x
    /\ Len(l.buf) = c.n - l.rest
    /\ \A k \in 1..Len(l.buf) : l.buf[k] = ByteOf(x, d, c.offset + k - 1)
    /\ c.offset < SizeInBytes(x)
    /\ l.pos > x.numBlocks => x.used = BlockSize

\* Inodes ino, blocks d, free blocks fr and what was written w, while the thread
\* is in call c with locals l.
Sound(ino, d, fr, w, c, l) ==
    /\ w \in [File -> WrittenType]
    /\ \A f \in File : w[f].size = SizeInBytes(ino[f])
    /\ Disjoint(Live(ino, c, l), fr)
    /\ \A f \in File : \A i \in Index :
          ~ (Touched(c, l, i) /\ f = c.file) => w[f].bytes[i] = ByteOf(ino[f], d, i)
    /\ l.pc = "alloc" => c.op = "write"
    /\ Progress(c, l)
    /\ InWrite(c, l) => WriteOK(ino[c.file], d, fr, w[c.file].bytes, c, l)
    /\ InRead(c, l) => ReadOK(ino[c.file], d, c, l)

Kept == \A t \in Thread : Sound(inode, data, free, written, call[t], loc[t])

-----------------------------------------------------------------------------
(* The loops *)

\* m are the locals l after a turn of n bytes.
IsAdvance(l, m, n) ==
    /\ n \in Nat \ {0} /\ n <= l.rest /\ l.at + n <= BlockSize
    /\ m.pc = "turn"
    /\ m.rest = l.rest - n
    /\ m.at = IF l.at + n = BlockSize THEN 0 ELSE l.at + n
    /\ m.pos = IF l.at + n = BlockSize THEN l.pos + 1 ELSE l.pos

LEMMA LocalFacts ==
    ASSUME NEW l \in LocalType
    PROVE  /\ l.pos \in Nat /\ l.at \in 0..BlockSize - 1 /\ l.at \in Nat /\ l.rest \in Nat
           /\ l.ino \in InodeType
           /\ l.ino.numBlocks \in Nat /\ l.ino.used \in 0..BlockSize
           /\ l.buf \in Seq(Byte \cup {0})
BY Constants DEF LocalType, InodeType

LEMMA ReachedFacts ==
    ASSUME NEW l \in LocalType, l.pos # 0
    PROVE  /\ l.pos - 1 \in Nat
           /\ Reached(l) \in Nat
           /\ \A n \in Nat : Span(l.pos - 1, l.at, n) = Reached(l)..Reached(l) + n - 1
<1>1. l.pos - 1 \in Nat /\ l.at \in Nat
  BY LocalFacts
<1>2. PICK j \in Nat : j = (l.pos - 1) * BlockSize
  BY <1>1, Constants, ProductNat
<1> QED
  BY <1>1, <1>2 DEF Reached, Span

LEMMA AdvanceReached ==
    ASSUME NEW l \in LocalType, NEW m, NEW n, IsAdvance(l, m, n), l.pos # 0
    PROVE  Reached(m) = Reached(l) + n /\ m.pos \in Nat \ {0}
<1>1. PICK k \in Nat : k = l.pos - 1 /\ l.pos = k + 1 /\ (k + 1) - 1 = k /\ (l.pos + 1) - 1 = k + 1
  BY LocalFacts
<1>2. PICK j \in Nat : j = k * BlockSize
  BY Constants, ProductNat
<1>3. (k + 1) * BlockSize = j + BlockSize
  BY <1>2, Constants
<1>4. l.at \in Nat /\ n \in Nat /\ l.pos \in Nat
  BY LocalFacts DEF IsAdvance
<1>5. CASE l.at + n = BlockSize
  <2>1. m.at = 0 /\ m.pos = l.pos + 1
    BY <1>5 DEF IsAdvance
  <2> QED
    BY <1>1, <1>2, <1>3, <1>4, <1>5, <2>1, Constants DEF Reached
<1>6. CASE l.at + n # BlockSize
  <2>1. m.at = l.at + n /\ m.pos = l.pos
    BY <1>6 DEF IsAdvance
  <2> QED
    BY <1>1, <1>2, <1>4, <2>1 DEF Reached
<1> QED
  BY <1>5, <1>6

\* A turn of n bytes from locals l to m, that leaves e in the blocks and ff free:
\* the copy has its bytes, and no other byte of a file has changed.
IsWriteTurn(ino, d, e, ff, c, l, m, n) ==
    LET x == ino[c.file]
    IN  /\ Disjoint([ino EXCEPT ![c.file] = m.ino], ff)
        /\ \A k \in MapIndex : x.map[k] # Unmapped => m.ino.map[k] = x.map[k]
        /\ \A i \in Index : ByteOf(m.ino, e, i) = IF i \in Span(l.pos - 1, l.at, n)
                                                 THEN c.byte ELSE ByteOf(l.ino, d, i)
        /\ \A f \in File : \A i \in Index :
              ~ (i \in Span(l.pos - 1, l.at, n) /\ f = c.file) =>
                 ByteOf(ino[f], e, i) = ByteOf(ino[f], d, i)
        /\ EndOfCopy(x, m)

\* A turn of a write, whatever block it goes to.
LEMMA WriteAdvance ==
    ASSUME NEW ino \in [File -> InodeType], NEW d, NEW e, NEW fr, NEW ff, NEW w,
           NEW c \in Call, NEW l \in LocalType, NEW m \in LocalType, NEW n,
           Sound(ino, d, fr, w, c, l), InWrite(c, l), IsAdvance(l, m, n),
           IsWriteTurn(ino, d, e, ff, c, l, m, n)
    PROVE  Sound(ino, e, ff, w, c, m)
<1>0. PICK x : x = ino[c.file]
  OBVIOUS
<1>17. /\ Disjoint([ino EXCEPT ![c.file] = m.ino], ff)
       /\ \A k \in MapIndex : x.map[k] # Unmapped => m.ino.map[k] = x.map[k]
       /\ \A i \in Index : ByteOf(m.ino, e, i) = IF i \in Span(l.pos - 1, l.at, n)
                                                THEN c.byte ELSE ByteOf(l.ino, d, i)
       /\ \A f \in File : \A i \in Index :
             ~ (i \in Span(l.pos - 1, l.at, n) /\ f = c.file) =>
                ByteOf(ino[f], e, i) = ByteOf(ino[f], d, i)
       /\ EndOfCopy(x, m)
  BY <1>0 DEF IsWriteTurn
<1>1. /\ c.op = "write" /\ c.offset \in Nat /\ c.n \in Nat /\ l.pc \in {"turn", "alloc"}
  BY CallFacts DEF InWrite
<1>2. /\ l.pos \in Nat \ {0} /\ l.rest <= c.n /\ Reached(l) = c.offset + (c.n - l.rest)
  BY <1>1 DEF Sound, Progress
<1>3. /\ n \in Nat \ {0} /\ n <= l.rest /\ m.pc = "turn" /\ m.rest = l.rest - n
      /\ l.rest \in Nat
  BY LocalFacts DEF IsAdvance
<1>4. /\ Reached(l) \in Nat
      /\ \A i : i \in Span(l.pos - 1, l.at, n) <=> i \in Reached(l)..Reached(l) + n - 1
  BY <1>2, <1>3, ReachedFacts
<1>5. Reached(m) = Reached(l) + n /\ m.pos \in Nat \ {0}
  BY <1>2, AdvanceReached
<1>6. InWrite(c, m) /\ ~ InRead(c, m) /\ m.pc # "alloc"
  BY <1>1, <1>3 DEF InWrite, InRead
<1>7. Progress(c, m)
  BY <1>1, <1>2, <1>3, <1>5 DEF Progress
<1>8. \A i \in Index : i \in Int
  BY Constants DEF Index
<1>9. \A i \in Index : Touched(c, m, i) <=> Touched(c, l, i) \/ i \in Span(l.pos - 1, l.at, n)
  <2>1. SUFFICES ASSUME NEW i \in Index
                 PROVE  Touched(c, m, i) <=> Touched(c, l, i) \/ i \in Span(l.pos - 1, l.at, n)
    OBVIOUS
  <2>2. i \in Int /\ c.offset <= Reached(l)
    BY <1>1, <1>2, <1>3, <1>8
  <2>3. Touched(c, m, i) <=> c.offset <= i /\ i < Reached(l) + n
    BY <1>5, <1>6 DEF Touched
  <2>4. Touched(c, l, i) <=> c.offset <= i /\ i < Reached(l)
    BY DEF Touched
  <2> QED
    BY <1>1, <1>3, <1>4, <2>2, <2>3, <2>4
<1>10. PICK bytes : bytes = w[c.file].bytes
  OBVIOUS
<1>11. /\ \A i \in Index : ByteOf(l.ino, d, i) = IF Touched(c, l, i) THEN c.byte ELSE bytes[i]
       /\ \A i \in Index : BlockOf(x, IndexOf(i)) = Unmapped => bytes[i] = 0
  BY <1>0, <1>10 DEF Sound, WriteOK
<1>12. \A i \in Index : ByteOf(m.ino, e, i) = IF Touched(c, m, i) THEN c.byte ELSE bytes[i]
  BY <1>9, <1>11, <1>17
<1>13. WriteOK(x, e, ff, bytes, c, m)
  BY <1>6, <1>11, <1>12, <1>17 DEF WriteOK
<1>14. \A f \in File : \A i \in Index :
          ~ (Touched(c, m, i) /\ f = c.file) => w[f].bytes[i] = ByteOf(ino[f], e, i)
  <2>1. \A f \in File : \A i \in Index :
           ~ (Touched(c, l, i) /\ f = c.file) => w[f].bytes[i] = ByteOf(ino[f], d, i)
    BY DEF Sound
  <2> QED
    BY <1>9, <1>17, <2>1
<1>15. Disjoint(Live(ino, c, m), ff)
  BY <1>6, <1>17 DEF Live
<1>16. /\ w \in [File -> WrittenType]
       /\ \A f \in File : w[f].size = SizeInBytes(ino[f])
  BY DEF Sound
<1> QED
  BY <1>0, <1>6, <1>7, <1>10, <1>13, <1>14, <1>15, <1>16 DEF Sound

\* What set_ith_datablock_number enters.
LEMMA SetIthIs ==
    ASSUME NEW x \in InodeType, NEW k \in MapIndex, NEW pos, pos = k + 1, NEW b \in Block,
           NEW y, y = SetIthBlock(x, pos, b)
    PROVE  /\ y \in InodeType
           /\ y.map = [x.map EXCEPT ![k] = b]
           /\ y.numBlocks = IF x.numBlocks < pos THEN pos ELSE x.numBlocks
           /\ y.used = IF x.numBlocks < pos THEN 0 ELSE x.used
<1>1. k \in Nat /\ EndOfMap \in Nat /\ k < EndOfMap
  BY Constants DEF MapIndex
<1>2. pos \in Nat /\ pos - 1 = k /\ InRange(pos) /\ x.numBlocks \in Nat
  BY <1>1 DEF InRange, InodeType
<1>3. y \in InodeType
  BY <1>2, SetIthBlockTyped
<1>4. Max({x.numBlocks, pos}) = IF x.numBlocks < pos THEN pos ELSE x.numBlocks
  BY <1>2, MaxOfTwo
<1>5. PICK top : top = Max({x.numBlocks, pos})
  OBVIOUS
<1>6. y = [x EXCEPT !.map = [x.map EXCEPT ![k] = b],
                    !.used = IF x.numBlocks < pos THEN 0 ELSE x.used,
                    !.numBlocks = top]
  BY <1>2, <1>5 DEF SetIthBlock, InodeType
<1> QED
  BY <1>3, <1>4, <1>5, <1>6 DEF InodeType

\* The end of the copy after a turn over a block that the copy has.
LEMMA EndAdvances ==
    ASSUME NEW x, NEW l \in LocalType, NEW m, NEW n, IsAdvance(l, m, n),
           m.ino = l.ino, EndOfCopy(x, l)
    PROVE  EndOfCopy(x, m)
<1>1. l.pos \in Nat /\ l.at \in Nat /\ l.ino.numBlocks \in Nat
  BY LocalFacts
<1>2. n \in Nat \ {0}
  BY DEF IsAdvance
<1>3. m.pos = l.pos + 1 \/ (m.pos = l.pos /\ m.at = l.at + n)
  BY DEF IsAdvance
<1>4. m.pos > l.ino.numBlocks \/ (m.pos = l.ino.numBlocks /\ m.at > 0)
         \/ ~ (l.pos > l.ino.numBlocks \/ (l.pos = l.ino.numBlocks /\ l.at > 0))
  BY <1>1, <1>2, <1>3
<1> QED
  BY <1>4 DEF EndOfCopy

\* The turn of a write over a block that the copy has.
LEMMA WriteTurnSound ==
    ASSUME NEW ino \in [File -> InodeType], NEW d \in [Block -> BlockType], NEW fr, NEW w,
           NEW c \in Call, NEW l \in LocalType, NEW m \in LocalType, NEW n,
           Sound(ino, d, fr, w, c, l), InWrite(c, l), IsAdvance(l, m, n), m.ino = l.ino,
           NEW b, b = BlockOf(l.ino, l.pos - 1), b # Unmapped,
           NEW e, e = [d EXCEPT ![b] = Overwritten(d[b], l.at, n, c.byte)]
    PROVE  Sound(ino, e, fr, w, c, m)
<1>1. c.file \in File
  BY CallFacts
<1>2. PICK x \in InodeType : x = ino[c.file]
  BY <1>1
<1>3. PICK y \in InodeType : y = l.ino
  BY LocalFacts
<1>4. WriteOK(x, d, fr, w[c.file].bytes, c, l) /\ Progress(c, l)
  BY <1>2 DEF Sound
<1>5. PICK k \in Nat : k = l.pos - 1
  <2>1. l.pos # 0
    BY <1>4 DEF Progress, InWrite
  <2>2. l.pos - 1 \in Nat
    BY <2>1, LocalFacts
  <2> QED
    BY <2>2
<1>6. k \in MapIndex /\ y.map[k] = b /\ b \in Block
  <2>1. BlockOf(y, k) = b
    BY <1>3, <1>5
  <2> QED
    BY <2>1, BlockFacts
<1>7. PICK live : live = Live(ino, c, l)
  OBVIOUS
<1>8. live = [ino EXCEPT ![c.file] = y]
  BY <1>3, <1>7 DEF Live
<1>9. Disjoint(live, fr) /\ live[c.file] = y
  BY <1>1, <1>7, <1>8 DEF Sound
<1>10. OnlyAt(y, k, b)
  BY <1>1, <1>6, <1>9 DEF Disjoint, OnlyAt
<1>11. \A j \in MapIndex : x.map[j] # Unmapped => y.map[j] = x.map[j]
  BY <1>3, <1>4 DEF WriteOK
<1>12. OnlyAt(x, k, b)
  BY <1>10, <1>11 DEF OnlyAt
<1>13. ASSUME NEW f \in File, f # c.file PROVE Lacks(ino[f], b)
  <2>1. live[f] = ino[f]
    BY <1>8, <1>13
  <2> QED
    BY <1>1, <1>6, <1>9, <1>13, <2>1 DEF Disjoint, Lacks
<1>14. l.at \in 0..BlockSize - 1 /\ n \in Nat /\ l.at + n <= BlockSize
  BY LocalFacts DEF IsAdvance
<1>15. \A i \in Index : i \in Nat
  BY Constants DEF Index
<1>16. PICK a \in 0..BlockSize - 1 : a = l.at
  BY <1>14
<1>24. PICK byte : byte = c.byte
  OBVIOUS
<1>27. PICK s \in Nat : s = n
  BY <1>14
<1>25. IsTurn(d, e, b, a, s, byte)
  BY <1>14, <1>16, <1>24, <1>27 DEF IsTurn, IsPut
<1>26. PICK block : IsPut(d, e, b, block)
  BY <1>25 DEF IsTurn
<1>17. \A i \in Index : ByteOf(y, e, i) = IF i \in Span(k, a, s)
                                          THEN c.byte ELSE ByteOf(y, d, i)
  <2>1. SUFFICES ASSUME NEW i \in Index
                 PROVE  ByteOf(y, e, i) = IF i \in Span(k, a, s)
                                          THEN c.byte ELSE ByteOf(y, d, i)
    OBVIOUS
  <2>2. i \in Nat
    BY <1>15
  <2> QED
    BY <1>6, <1>10, <1>24, <1>25, <1>27, <2>2, TurnBytes
<1>18. ASSUME NEW f \in File, NEW i \in Index, ~ (i \in Span(k, a, s) /\ f = c.file)
       PROVE  ByteOf(ino[f], e, i) = ByteOf(ino[f], d, i)
  <2>1. i \in Nat /\ ino[f] \in InodeType
    BY <1>15
  <2>2. CASE f = c.file
    <3>1. ByteOf(x, e, i) = IF x.map[k] = b /\ i \in Span(k, a, s)
                            THEN c.byte ELSE ByteOf(x, d, i)
      BY <1>6, <1>12, <1>24, <1>25, <1>27, <2>1, TurnBytes
    <3> QED
      BY <1>2, <1>18, <2>2, <3>1
  <2>3. CASE f # c.file
    <3>1. PICK z \in InodeType : z = ino[f]
      BY <2>1
    <3>2. Lacks(z, b)
      BY <1>13, <2>3, <3>1
    <3>3. ByteOf(z, e, i) = ByteOf(z, d, i)
      BY <1>26, <2>1, <3>1, <3>2, SameBytes
    <3> QED
      BY <3>1, <3>3
  <2> QED
    BY <2>2, <2>3
<1>19. EndOfCopy(x, m)
  BY <1>4, EndAdvances DEF WriteOK
<1>20. Disjoint([ino EXCEPT ![c.file] = m.ino], fr)
  BY <1>3, <1>8, <1>9
<1>21. \A j \in MapIndex : x.map[j] # Unmapped => m.ino.map[j] = x.map[j]
  BY <1>3, <1>11
<1>22. \A i \in Index : ByteOf(m.ino, e, i) = IF i \in Span(l.pos - 1, l.at, n)
                                              THEN c.byte ELSE ByteOf(l.ino, d, i)
  BY <1>3, <1>5, <1>16, <1>17, <1>27
<1>23. \A f \in File : \A i \in Index :
          ~ (i \in Span(l.pos - 1, l.at, n) /\ f = c.file) =>
             ByteOf(ino[f], e, i) = ByteOf(ino[f], d, i)
  BY <1>5, <1>16, <1>18, <1>27
<1>28. IsWriteTurn(ino, d, e, fr, c, l, m, n)
  BY <1>2, <1>19, <1>20, <1>21, <1>22, <1>23 DEF IsWriteTurn
<1> QED
  BY <1>28, WriteAdvance

\* A block that no file has is zeroed and written: the bytes of a copy that gets it.
LEMMA FreshBytes ==
    ASSUME NEW x \in InodeType, NEW k \in MapIndex, x.map[k] = Unmapped, NEW b \in Block,
           Lacks(x, b),
           NEW y \in InodeType, y.map = [x.map EXCEPT ![k] = b],
           NEW d \in [Block -> BlockType], NEW a \in 0..BlockSize - 1, NEW n \in Nat,
           NEW byte, NEW e, IsFreshTurn(d, e, b, a, n, byte), NEW i \in Nat
    PROVE  ByteOf(y, e, i) = IF i \in Span(k, a, n) THEN byte ELSE ByteOf(x, d, i)
<1>0. /\ a + n <= BlockSize
      /\ e = [d EXCEPT ![b] = Overwritten(NoBytes, a, n, byte)]
      /\ \A j \in MapIndex : x.map[j] # b
  BY DEF IsFreshTurn, IsPut, Lacks
<1>1. PICK q \in Nat : q = IndexOf(i)
  BY OffsetIs
<1>2. PICK r \in 0..BlockSize - 1 : r = PlaceOf(i)
  BY OffsetIs
<1>3. i \in Span(k, a, n) <=> q = k /\ r \in a..a + n - 1
  <2>1. k \in Nat
    BY Constants DEF MapIndex
  <2> QED
    BY <1>0, <1>1, <1>2, <2>1, SpanIs
<1>4. Unmapped \notin Block
  BY Constants
<1>5. NoBytes[r] = 0 /\ DOMAIN NoBytes = 0..BlockSize - 1
  BY DEF NoBytes
<1>6. e[b] = Overwritten(NoBytes, a, n, byte)
  BY <1>0
<1>7. e[b][r] = IF r \in a..a + n - 1 THEN byte ELSE 0
  BY <1>5, <1>6 DEF Overwritten
<1>8. PICK old : old = BlockOf(x, q)
  OBVIOUS
<1>9. old = (IF q \in MapIndex THEN x.map[q] ELSE Unmapped) /\ old \in Block \cup {Unmapped}
  BY <1>8, BlockFacts
<1>10. PICK new : new = BlockOf(y, q)
  OBVIOUS
<1>11. new = (IF q \in MapIndex THEN y.map[q] ELSE Unmapped)
  BY <1>10, BlockFacts
<1>12. ByteOf(x, d, i) = IF old = Unmapped THEN 0 ELSE d[old][r]
  BY <1>1, <1>2, <1>8 DEF ByteOf, BlockOf, IndexOf, PlaceOf
<1>13. ByteOf(y, e, i) = IF new = Unmapped THEN 0 ELSE e[new][r]
  BY <1>1, <1>2, <1>10 DEF ByteOf, BlockOf, IndexOf, PlaceOf
<1>14. x.map \in [MapIndex -> Block \cup {Unmapped}]
  BY DEF InodeType, MapIndex
<1>15. CASE q = k
  <2>1. old = Unmapped /\ new = b
    BY <1>9, <1>11, <1>14, <1>15
  <2> QED
    BY <1>3, <1>4, <1>7, <1>12, <1>13, <1>15, <2>1
<1>16. CASE q # k
  <2>1. new = old /\ old # b
    BY <1>0, <1>4, <1>9, <1>11, <1>14, <1>16
  <2>2. old # Unmapped => e[old] = d[old]
    BY <1>0, <1>9, <2>1
  <2> QED
    BY <1>3, <1>12, <1>13, <1>16, <2>1, <2>2
<1> QED
  BY <1>15, <1>16

\* The second step of an allocation, within the map: block b is taken, zeroed,
\* entered into the copy and written.
LEMMA AllocSound ==
    ASSUME NEW ino \in [File -> InodeType], NEW d \in [Block -> BlockType],
           NEW fr \in SUBSET Block, NEW w, NEW c \in Call, NEW l \in LocalType,
           NEW m \in LocalType, NEW n,
           Sound(ino, d, fr, w, c, l), l.pc = "alloc", InRange(l.pos), IsAdvance(l, m, n),
           NEW b \in fr, m.ino = SetIthBlock(l.ino, l.pos, b),
           NEW e, IsFreshTurn(d, e, b, l.at, n, c.byte)
    PROVE  Sound(ino, e, fr \ {b}, w, c, m)
<1>1. c.file \in File /\ c.op = "write" /\ InWrite(c, l) /\ b \in Block /\ b # Unmapped
  BY CallFacts, Constants DEF Sound, InWrite
<1>2. PICK x \in InodeType : x = ino[c.file]
  BY <1>1
<1>3. PICK y \in InodeType : y = l.ino
  BY LocalFacts
<1>4. WriteOK(x, d, fr, w[c.file].bytes, c, l) /\ Progress(c, l)
  BY <1>1, <1>2 DEF Sound
<1>5. PICK k \in Nat : k = l.pos - 1 /\ l.pos = k + 1
  <2>1. l.pos # 0
    BY <1>1, <1>4 DEF Progress, InWrite
  <2>2. l.pos - 1 \in Nat /\ l.pos = (l.pos - 1) + 1
    BY <2>1, LocalFacts
  <2> QED
    BY <2>2
<1>6. k \in MapIndex
  BY <1>5, Constants DEF InRange, MapIndex
<1>7. y.map[k] = Unmapped
  <2>1. BlockOf(y, k) = Unmapped
    BY <1>3, <1>4, <1>5 DEF WriteOK
  <2> QED
    BY <1>6, <2>1, BlockFacts
<1>8. PICK z \in InodeType : /\ z = m.ino
                             /\ z.map = [y.map EXCEPT ![k] = b]
                             /\ z.numBlocks = IF y.numBlocks < k + 1 THEN k + 1 ELSE y.numBlocks
                             /\ z.used = IF y.numBlocks < k + 1 THEN 0 ELSE y.used
  <2>1. m.ino = SetIthBlock(y, k + 1, b)
    BY <1>3, <1>5
  <2> QED
    BY <1>1, <1>6, <2>1, SetIthIs
<1>9. PICK live : live = Live(ino, c, l)
  OBVIOUS
<1>10. live = [ino EXCEPT ![c.file] = y]
  BY <1>1, <1>3, <1>9 DEF Live
<1>11. Disjoint(live, fr) /\ live[c.file] = y
  BY <1>1, <1>9, <1>10 DEF Sound
<1>12. Lacks(y, b)
  BY <1>1, <1>11 DEF Disjoint, Lacks
<1>13. \A j \in MapIndex : x.map[j] # Unmapped => y.map[j] = x.map[j]
  BY <1>3, <1>4 DEF WriteOK
<1>14. Lacks(x, b) /\ x.map[k] = Unmapped
  BY <1>6, <1>7, <1>12, <1>13 DEF Lacks
<1>15. ASSUME NEW f \in File PROVE Lacks(ino[f], b)
  <2>1. CASE f = c.file
    BY <1>2, <1>14, <2>1
  <2>2. CASE f # c.file
    <3>1. live[f] = ino[f]
      BY <1>10, <2>2
    <3> QED
      BY <1>1, <1>11, <3>1 DEF Disjoint, Lacks
  <2> QED
    BY <2>1, <2>2
<1>16. \A i \in Index : i \in Nat
  BY Constants DEF Index
<1>17. PICK a \in 0..BlockSize - 1 : a = l.at
  BY LocalFacts
<1>18. PICK s \in Nat : s = n
  BY DEF IsAdvance
<1>19. PICK byte : byte = c.byte
  OBVIOUS
<1>20. IsFreshTurn(d, e, b, a, s, byte)
  BY <1>17, <1>18, <1>19
<1>21. PICK block : IsPut(d, e, b, block)
  BY <1>20 DEF IsFreshTurn
<1>22. \A i \in Index : ByteOf(z, e, i) = IF i \in Span(k, a, s)
                                          THEN c.byte ELSE ByteOf(y, d, i)
  <2>1. SUFFICES ASSUME NEW i \in Index
                 PROVE  ByteOf(z, e, i) = IF i \in Span(k, a, s)
                                          THEN c.byte ELSE ByteOf(y, d, i)
    OBVIOUS
  <2>2. i \in Nat
    BY <1>16
  <2> QED
    BY <1>1, <1>6, <1>7, <1>8, <1>12, <1>18, <1>19, <1>20, <2>2, FreshBytes
<1>23. ASSUME NEW f \in File, NEW i \in Index
       PROVE  ByteOf(ino[f], e, i) = ByteOf(ino[f], d, i)
  <2>1. PICK v \in InodeType : v = ino[f]
    OBVIOUS
  <2>2. i \in Nat /\ Lacks(v, b)
    BY <1>15, <1>16, <2>1
  <2>3. ByteOf(v, e, i) = ByteOf(v, d, i)
    BY <1>21, <2>1, <2>2, SameBytes
  <2> QED
    BY <2>1, <2>3
<1>24. EndOfCopy(x, m)
  <2>1. l.pos \in Nat /\ l.at \in Nat /\ y.numBlocks \in Nat /\ x.numBlocks \in Nat
    BY <1>3, LocalFacts DEF InodeType
  <2>2. s \in Nat \ {0} /\ (m.pos = l.pos + 1 \/ (m.pos = l.pos /\ m.at = l.at + s))
    BY <1>18 DEF IsAdvance
  <2>3. y.numBlocks >= x.numBlocks /\ EndOfCopy(x, l)
    <3>1. EndOfCopy(x, l)
      BY <1>4 DEF WriteOK
    <3> QED
      BY <1>3, <2>1, <3>1 DEF EndOfCopy
  <2>4. CASE y.numBlocks < k + 1
    <3>1. z.numBlocks = l.pos /\ z.used = 0 /\ z.numBlocks > x.numBlocks
      BY <1>5, <1>8, <2>1, <2>3, <2>4
    <3>2. m.pos > z.numBlocks \/ (m.pos = z.numBlocks /\ m.at > 0)
      BY <2>1, <2>2, <3>1
    <3> QED
      BY <1>8, <3>1, <3>2 DEF EndOfCopy
  <2>5. CASE ~ (y.numBlocks < k + 1)
    <3>1. z.numBlocks = y.numBlocks /\ z.used = y.used
      BY <1>8, <2>5
    <3>2. m.pos > y.numBlocks \/ (m.pos = y.numBlocks /\ m.at > 0)
             \/ ~ (l.pos > y.numBlocks \/ (l.pos = y.numBlocks /\ l.at > 0))
      BY <2>1, <2>2
    <3> QED
      BY <1>3, <1>8, <2>3, <3>1, <3>2 DEF EndOfCopy
  <2> QED
    BY <2>4, <2>5
<1>25. \A j \in MapIndex : x.map[j] # Unmapped => z.map[j] = x.map[j]
  <2>1. y.map \in [MapIndex -> Block \cup {Unmapped}]
    BY DEF InodeType, MapIndex
  <2>2. \A j \in MapIndex : j # k => z.map[j] = y.map[j]
    BY <1>8, <2>1
  <2> QED
    BY <1>13, <1>14, <2>2
<1>26. PICK next : next = [ino EXCEPT ![c.file] = z]
  OBVIOUS
<1>27. Disjoint(next, fr \ {b})
  <2>1. y.map \in [MapIndex -> Block \cup {Unmapped}]
    BY DEF InodeType, MapIndex
  <2>2. \A f \in File : next[f] = IF f = c.file THEN z ELSE live[f]
    BY <1>1, <1>10, <1>26
  <2>3. ASSUME NEW f \in File, NEW j \in MapIndex
        PROVE  next[f].map[j] = IF f = c.file /\ j = k THEN b ELSE live[f].map[j]
    BY <1>8, <1>11, <2>1, <2>2
  <2>4. \A f \in File, j \in MapIndex : live[f].map[j] # b
    BY <1>11 DEF Disjoint
  <2> HIDE DEF Disjoint
  <2>5. /\ \A f, g \in File, i, j \in MapIndex :
              live[f].map[i] = live[g].map[j] /\ live[f].map[i] # Unmapped => f = g /\ i = j
        /\ \A f \in File, j \in MapIndex : live[f].map[j] \notin fr
    BY <1>11 DEF Disjoint
  <2>6. ASSUME NEW f \in File, NEW g \in File, NEW i \in MapIndex, NEW j \in MapIndex,
               next[f].map[i] = next[g].map[j], next[f].map[i] # Unmapped
        PROVE  f = g /\ i = j
    BY <2>3, <2>4, <2>5, <2>6
  <2>7. ASSUME NEW f \in File, NEW j \in MapIndex PROVE next[f].map[j] \notin fr \ {b}
    BY <2>3, <2>5
  <2> QED
    BY <2>6, <2>7 DEF Disjoint
<1>28. /\ \A i \in Index : ByteOf(m.ino, e, i) = IF i \in Span(l.pos - 1, l.at, n)
                                                 THEN c.byte ELSE ByteOf(l.ino, d, i)
       /\ \A f \in File : \A i \in Index :
             ~ (i \in Span(l.pos - 1, l.at, n) /\ f = c.file) =>
                ByteOf(ino[f], e, i) = ByteOf(ino[f], d, i)
  BY <1>3, <1>5, <1>8, <1>17, <1>18, <1>22, <1>23
<1>29. /\ Disjoint([ino EXCEPT ![c.file] = m.ino], fr \ {b})
       /\ \A j \in MapIndex : x.map[j] # Unmapped => m.ino.map[j] = x.map[j]
  BY <1>8, <1>25, <1>26, <1>27
<1>30. IsWriteTurn(ino, d, e, fr \ {b}, c, l, m, n)
  BY <1>2, <1>24, <1>28, <1>29 DEF IsWriteTurn
<1> QED
  BY <1>1, <1>30, WriteAdvance

-----------------------------------------------------------------------------
(* Starts and ends of calls *)

\* No write is under way: the files are what was written.
Settled(ino, d, fr, w) ==
    /\ w \in [File -> WrittenType]
    /\ \A f \in File : w[f].size = SizeInBytes(ino[f])
    /\ Disjoint(ino, fr)
    /\ \A f \in File : \A i \in Index : w[f].bytes[i] = ByteOf(ino[f], d, i)

LEMMA SettledIfNoWrite ==
    ASSUME NEW ino, NEW d, NEW fr, NEW w, NEW c, NEW l,
           Sound(ino, d, fr, w, c, l), ~ InWrite(c, l)
    PROVE  Settled(ino, d, fr, w)
<1>1. Live(ino, c, l) = ino
  BY DEF Live
<1>2. \A i : ~ Touched(c, l, i)
  BY DEF Touched
<1> QED
  BY <1>1, <1>2 DEF Sound, Settled

LEMMA SettledIsSound ==
    ASSUME NEW ino, NEW d, NEW fr, NEW w, NEW c, NEW l,
           Settled(ino, d, fr, w), l.pc \in {"idle", "start"}
    PROVE  Sound(ino, d, fr, w, c, l)
<1>1. ~ InWrite(c, l) /\ ~ InRead(c, l) /\ Progress(c, l) /\ l.pc # "alloc"
  BY DEF InWrite, InRead, Progress
<1>2. Live(ino, c, l) = ino
  BY <1>1 DEF Live
<1> QED
  BY <1>1, <1>2 DEF Sound, Settled

\* The locals l of call c at the start of its loop.
IsStart(ino, c, l) ==
    /\ l.pc = "turn" /\ l.ino = ino[c.file] /\ l.rest = c.n /\ l.buf = <<>>
    /\ l.pos = (c.offset \div BlockSize) + 1
    /\ l.at = c.offset % BlockSize

LEMMA StartReached ==
    ASSUME NEW ino, NEW c \in Call, NEW l, IsStart(ino, c, l)
    PROVE  /\ Reached(l) = c.offset
           /\ l.pos \in Nat \ {0}
           /\ l.pos - 1 = c.offset \div BlockSize
<1>1. c.offset \in Nat
  BY CallFacts
<1>2. PICK q \in Nat, r \in 0..BlockSize - 1 :
         /\ q = c.offset \div BlockSize
         /\ r = c.offset % BlockSize
         /\ c.offset = q * BlockSize + r
  BY <1>1, Constants, DivMod
<1>3. l.pos = q + 1 /\ l.at = r
  BY <1>2 DEF IsStart
<1>4. l.pos - 1 = q /\ l.pos \in Nat \ {0}
  BY <1>3
<1>5. Reached(l) = q * BlockSize + r
  BY <1>3, <1>4 DEF Reached
<1> QED
  BY <1>2, <1>4, <1>5

\* Files with at most k blocks are not longer than these.
HasAtMost(x, k) == x.numBlocks <= k

LEMMA SizeBelow ==
    ASSUME NEW x \in InodeType, NEW k \in Nat, HasAtMost(x, k)
    PROVE  SizeInBytes(x) <= k * BlockSize
<1> USE DEF HasAtMost
<1>1. x.numBlocks \in Nat /\ x.used \in 0..BlockSize /\ BlockSize \in Nat
  BY Constants DEF InodeType
<1>2. PICK j \in Nat : j = k * BlockSize
  BY <1>1, ProductNat
<1>3. CASE x.numBlocks = 0
  <2>1. SizeInBytes(x) = 0
    BY <1>3 DEF SizeInBytes
  <2> QED
    BY <1>2, <2>1
<1>4. CASE x.numBlocks # 0
  <2>1. PICK q \in Nat : q = x.numBlocks - 1 /\ q + 1 <= k
    BY <1>1, <1>4
  <2>2. PICK p \in Nat : p = q * BlockSize
    BY <1>1, ProductNat
  <2>3. (q + 1) * BlockSize <= k * BlockSize
    BY <1>1, <2>1, ProductMonotone
  <2>4. (q + 1) * BlockSize = p + BlockSize
    BY <1>1, <2>2
  <2>5. SizeInBytes(x) = p + x.used
    BY <1>4, <2>1, <2>2 DEF SizeInBytes
  <2> QED
    BY <1>1, <1>2, <2>3, <2>4, <2>5
<1> QED
  BY <1>3, <1>4

\* The start of a write.
LEMMA WriteStartSound ==
    ASSUME NEW ino \in [File -> InodeType], NEW d, NEW fr, NEW w, NEW c \in Call,
           NEW l, IsStart(ino, c, l), c.op = "write", Settled(ino, d, fr, w)
    PROVE  Sound(ino, d, fr, w, c, l)
<1>0. PICK x : x = ino[c.file]
  OBVIOUS
<1>1. c.file \in File /\ c.offset \in Nat /\ c.n \in Nat
  BY CallFacts
<1>2. /\ InWrite(c, l) /\ ~ InRead(c, l) /\ l.pc # "alloc" /\ l.ino = x
      /\ l.rest = c.n
  BY <1>0 DEF InWrite, InRead, IsStart
<1>3. Reached(l) = c.offset /\ l.pos \in Nat \ {0}
  BY StartReached
<1>4. Live(ino, c, l) = ino
  BY <1>0, <1>1, <1>2 DEF Live
<1>5. Progress(c, l)
  BY <1>1, <1>2, <1>3 DEF Progress
<1>6. \A i \in Index : ~ Touched(c, l, i)
  <2>1. \A i \in Index : i \in Int
    BY Constants DEF Index
  <2> QED
    BY <1>1, <1>3, <2>1 DEF Touched
<1>7. PICK bytes : bytes = w[c.file].bytes
  OBVIOUS
<1>8. \A i \in Index : bytes[i] = ByteOf(x, d, i)
  BY <1>0, <1>1, <1>7 DEF Settled
<1>9. \A i \in Index : BlockOf(x, IndexOf(i)) = Unmapped => bytes[i] = 0
  BY <1>8 DEF ByteOf, BlockOf, IndexOf
<1>10. EndOfCopy(x, l)
  BY <1>2 DEF EndOfCopy
<1>11. WriteOK(x, d, fr, bytes, c, l)
  BY <1>2, <1>6, <1>8, <1>9, <1>10 DEF WriteOK
<1> QED
  BY <1>0, <1>2, <1>4, <1>5, <1>6, <1>7, <1>11 DEF Sound, Settled

StartsWithin(ino, c) == c.offset < SizeInBytes(ino[c.file])

\* The start of a read within the file.
LEMMA ReadStartSound ==
    ASSUME NEW ino \in [File -> InodeType], NEW d, NEW fr, NEW w, NEW c \in Call,
           NEW l, IsStart(ino, c, l), c.op = "read", StartsWithin(ino, c),
           Settled(ino, d, fr, w)
    PROVE  Sound(ino, d, fr, w, c, l)
<1>0. PICK x : x = ino[c.file]
  OBVIOUS
<1>1. /\ c.file \in File /\ c.offset \in Nat /\ c.n \in Nat /\ x \in InodeType
      /\ c.offset < SizeInBytes(x)
  BY <1>0, CallFacts DEF StartsWithin
<1>2. /\ ~ InWrite(c, l) /\ InRead(c, l) /\ l.pc # "alloc" /\ l.ino = x
      /\ l.rest = c.n /\ l.buf = <<>>
  BY <1>0 DEF InWrite, InRead, IsStart
<1>3. Reached(l) = c.offset /\ l.pos \in Nat \ {0} /\ l.pos - 1 = c.offset \div BlockSize
  BY StartReached
<1>4. Live(ino, c, l) = ino /\ \A i : ~ Touched(c, l, i)
  BY <1>0, <1>2 DEF Live, Touched
<1>5. Progress(c, l)
  BY <1>1, <1>2, <1>3 DEF Progress
<1>6. ~ (l.pos > x.numBlocks)
  <2>1. SUFFICES ASSUME l.pos > x.numBlocks PROVE FALSE
    OBVIOUS
  <2>2. PICK q \in Nat, r \in 0..BlockSize - 1 :
           /\ q = c.offset \div BlockSize
           /\ c.offset = q * BlockSize + r
    BY <1>1, Constants, DivMod
  <2>3. HasAtMost(x, q) /\ SizeInBytes(x) \in Nat
    <3>1. x.numBlocks \in Nat /\ SizeInBytes(x) \in Nat
      BY <1>1, SizeFacts DEF InodeType
    <3> QED
      BY <1>3, <2>1, <2>2, <3>1 DEF HasAtMost
  <2>4. PICK j \in Nat : j = q * BlockSize
    BY <2>2, Constants, ProductNat
  <2>5. SizeInBytes(x) <= q * BlockSize
    BY <1>1, <2>3, SizeBelow
  <2> QED
    BY <1>1, <2>2, <2>3, <2>4, <2>5
<1>7. ReadOK(x, d, c, l)
  <2>1. Len(l.buf) = 0 /\ c.n - l.rest = 0
    BY <1>1, <1>2
  <2>2. Len(l.buf) = c.n - l.rest /\ 1..Len(l.buf) = {}
    BY <2>1
  <2> QED
    BY <1>1, <1>2, <1>6, <2>2 DEF ReadOK
<1> QED
  BY <1>0, <1>2, <1>4, <1>5, <1>7 DEF Sound, Settled

\* A write fails: v is what w was, with the call's byte at those of its offsets
\* where the file holds it.
IsFailed(v, w, ino, d, c) ==
    v = [w EXCEPT ![c.file].bytes =
            [i \in DOMAIN @ |-> IF /\ i \in c.offset..c.offset + c.n - 1
                                   /\ ByteOf(ino[c.file], d, i) = c.byte
                                THEN c.byte ELSE @[i]]]

\* Blocks e have the bytes of the files that blocks d have.
SameFiles(ino, d, e) ==
    \A f \in File : \A i \in Index : ByteOf(ino[f], e, i) = ByteOf(ino[f], d, i)

\* The bytes old of the file with inode x become new.
AfterFailure(v, w, ino, d, c, old, new, x) ==
    /\ x = ino[c.file]
    /\ old = w[c.file].bytes
    /\ old \in [Index -> Byte \cup {0}]
    /\ new \in [Index -> Byte \cup {0}]
    /\ \A i \in Index : new[i] = IF /\ i \in c.offset..c.offset + c.n - 1
                                    /\ ByteOf(x, d, i) = c.byte
                                 THEN c.byte ELSE old[i]
    /\ v \in [File -> WrittenType]
    /\ \A f \in File : v[f].size = w[f].size
    /\ \A f \in File : v[f].bytes = IF f = c.file THEN new ELSE w[f].bytes

LEMMA FailedRows ==
    ASSUME NEW ino \in [File -> InodeType], NEW d \in [Block -> BlockType], NEW v,
           NEW w \in [File -> WrittenType], NEW c \in Call, IsFailed(v, w, ino, d, c)
    PROVE  \E old, new : \E x \in InodeType : AfterFailure(v, w, ino, d, c, old, new, x)
<1>1. c.file \in File /\ c.offset \in Nat /\ c.n \in Nat
  BY CallFacts
<1>2. PICK x \in InodeType : x = ino[c.file]
  BY <1>1
<1>3. w \in [File -> WrittenType]
  OBVIOUS
<1>4. PICK old : old = w[c.file].bytes
  OBVIOUS
<1>5. old \in [Index -> Byte \cup {0}] /\ DOMAIN old = Index
  BY <1>1, <1>3, <1>4 DEF WrittenType
<1>6. \A i \in Index : i \in Nat
  BY Constants DEF Index
<1>7. PICK new : new = [i \in Index |-> IF /\ i \in c.offset..c.offset + c.n - 1
                                           /\ ByteOf(x, d, i) = c.byte
                                        THEN c.byte ELSE old[i]]
  OBVIOUS
<1>8. v = [w EXCEPT ![c.file].bytes = new]
  BY <1>1, <1>2, <1>3, <1>4, <1>5, <1>7 DEF IsFailed
<1>9. new \in [Index -> Byte \cup {0}]
  <2>1. \A i \in Index : ByteOf(x, d, i) \in Byte \cup {0}
    BY <1>6, ByteTyped
  <2> QED
    BY <1>5, <1>7, <2>1
<1>10. /\ v \in [File -> WrittenType]
       /\ \A f \in File : v[f].size = w[f].size
       /\ \A f \in File : v[f].bytes = IF f = c.file THEN new ELSE w[f].bytes
  <2>1. w[c.file] \in WrittenType
    BY <1>1, <1>3
  <2>2. PICK u : u = [w[c.file] EXCEPT !.bytes = new]
    OBVIOUS
  <2>3. u \in WrittenType /\ u.bytes = new /\ u.size = w[c.file].size
    BY <1>9, <2>1, <2>2 DEF WrittenType
  <2>4. v = [w EXCEPT ![c.file] = u]
    BY <1>8, <2>2
  <2> QED
    BY <1>1, <1>3, <2>3, <2>4
<1>11. \A i \in Index : new[i] = IF /\ i \in c.offset..c.offset + c.n - 1
                                 /\ ByteOf(x, d, i) = c.byte
                              THEN c.byte ELSE old[i]
  BY <1>7
<1> QED
  <2>1. AfterFailure(v, w, ino, d, c, old, new, x)
    BY <1>2, <1>4, <1>5, <1>9, <1>10, <1>11 DEF AfterFailure
  <2> QED
    BY <2>1

\* A write that fails leaves its byte at some of its offsets: what the blocks of
\* its file hold elsewhere is what the file held.
LEMMA FailedBytes ==
    ASSUME NEW ino \in [File -> InodeType], NEW d \in [Block -> BlockType], NEW fr,
           NEW w, NEW v, NEW c \in Call, NEW l \in LocalType,
           Sound(ino, d, fr, w, c, l), NEW old, NEW new, NEW x \in InodeType,
           AfterFailure(v, w, ino, d, c, old, new, x), NEW i \in Index
    PROVE  new[i] = ByteOf(x, d, i)
<1>1. /\ i \in Nat /\ c.file \in File /\ c.offset \in Nat /\ c.n \in Nat
  BY Constants, CallFacts DEF Index
<1>2. x = ino[c.file] /\ old = w[c.file].bytes
  BY DEF AfterFailure
<1>3. PICK y \in Byte \cup {0} : y = ByteOf(x, d, i)
  BY <1>1, ByteTyped
<1>4. new[i] = IF i \in c.offset..c.offset + c.n - 1 /\ y = c.byte
               THEN c.byte ELSE old[i]
  BY <1>3 DEF AfterFailure
<1>5. CASE ~ Touched(c, l, i)
  <2>1. old[i] = y
    BY <1>1, <1>2, <1>3, <1>5 DEF Sound
  <2> QED
    BY <1>3, <1>4, <2>1
<1>6. CASE Touched(c, l, i)
  <2>1. WriteOK(x, d, fr, old, c, l)
    BY <1>2, <1>6 DEF Sound, Touched
  <2>2. PICK k \in Nat : k = IndexOf(i)
    BY <1>1, OffsetIs
  <2>3. CASE BlockOf(x, k) = Unmapped
    <3>1. old[i] = 0
      BY <2>1, <2>2, <2>3 DEF WriteOK
    <3>2. y = 0
      BY <1>3, <2>2, <2>3, ByteFacts
    <3> QED
      BY <1>3, <1>4, <3>1, <3>2
  <2>4. CASE BlockOf(x, k) # Unmapped
    <3>1. k \in MapIndex /\ BlockOf(x, k) = x.map[k] /\ x.map[k] # Unmapped
      BY <2>4, BlockFacts
    <3>2. PICK z \in InodeType : z = l.ino
      BY LocalFacts
    <3>3. z.map[k] = x.map[k]
      BY <2>1, <3>1, <3>2 DEF WriteOK
    <3>4. BlockOf(z, k) = BlockOf(x, k)
      BY <3>1, <3>3, BlockFacts
    <3>5. ByteOf(z, d, i) = ByteOf(x, d, i)
      BY <2>2, <3>4, ByteFacts
    <3>6. ByteOf(z, d, i) = c.byte
      BY <1>6, <2>1, <3>2 DEF WriteOK
    <3>7. i \in c.offset..c.offset + c.n - 1
      <4>1. c.offset <= i /\ i < Reached(l) /\ InWrite(c, l)
        BY <1>1, <1>6 DEF Touched
      <4>2. l.rest <= c.n /\ Reached(l) = c.offset + (c.n - l.rest) /\ l.rest \in Nat
        BY <4>1, LocalFacts DEF Sound, Progress, InWrite
      <4> QED
        BY <1>1, <4>1, <4>2
    <3> QED
      BY <1>3, <1>4, <3>5, <3>6, <3>7
  <2> QED
    BY <2>3, <2>4
<1> QED
  BY <1>5, <1>6

\* What the files hold during a write is what they held before, except at the
\* offsets that the call has reached.
LEMMA FailSound ==
    ASSUME NEW ino \in [File -> InodeType], NEW d \in [Block -> BlockType], NEW e,
           NEW fr \in SUBSET Block, NEW ff \in SUBSET fr, NEW w, NEW v, NEW c \in Call,
           NEW l \in LocalType,
           Sound(ino, d, fr, w, c, l), SameFiles(ino, d, e), IsFailed(v, w, ino, d, c)
    PROVE  Settled(ino, e, ff, v)
<1>1. c.file \in File /\ c.offset \in Nat /\ c.n \in Nat
  BY CallFacts
<1>2. PICK x \in InodeType : x = ino[c.file]
  BY <1>1
<1>3. /\ w \in [File -> WrittenType]
      /\ \A f \in File : w[f].size = SizeInBytes(ino[f])
      /\ \A f \in File : \A i \in Index :
            ~ (Touched(c, l, i) /\ f = c.file) => w[f].bytes[i] = ByteOf(ino[f], d, i)
  BY DEF Sound
<1>4. PICK old, new : AfterFailure(v, w, ino, d, c, old, new, x)
  <2>1. PICK old, new, y : y \in InodeType /\ AfterFailure(v, w, ino, d, c, old, new, y)
    BY <1>3, FailedRows
  <2>2. y = x
    BY <1>2, <2>1 DEF AfterFailure
  <2> QED
    BY <2>1, <2>2
<1>5. old = w[c.file].bytes
  BY <1>4 DEF AfterFailure
<1>6. \A i \in Index : i \in Nat
  BY Constants DEF Index
<1>10. /\ v \in [File -> WrittenType]
       /\ \A f \in File : v[f].size = w[f].size
       /\ \A f \in File : v[f].bytes = IF f = c.file THEN new ELSE w[f].bytes
  BY <1>4 DEF AfterFailure
<1>12. \A i \in Index : new[i] = ByteOf(x, d, i)
  BY <1>4, FailedBytes
<1>13. \A f \in File : \A i \in Index : v[f].bytes[i] = ByteOf(ino[f], e, i)
  <2>1. SUFFICES ASSUME NEW f \in File, NEW i \in Index
                 PROVE  v[f].bytes[i] = ByteOf(ino[f], e, i)
    OBVIOUS
  <2>2. ByteOf(ino[f], e, i) = ByteOf(ino[f], d, i)
    BY DEF SameFiles
  <2>3. CASE f = c.file
    <3>1. v[f].bytes = new
      BY <1>10, <2>3
    <3>2. v[f].bytes[i] = ByteOf(x, d, i)
      BY <1>12, <3>1
    <3> QED
      BY <1>2, <2>2, <2>3, <3>2
  <2>4. CASE f # c.file
    <3>1. v[f].bytes = w[f].bytes
      BY <1>10, <2>4
    <3>2. w[f].bytes[i] = ByteOf(ino[f], d, i)
      BY <1>3, <2>4
    <3> QED
      BY <2>2, <3>1, <3>2
  <2> QED
    BY <2>3, <2>4
<1>14. Disjoint(ino, ff)
  <2>1. PICK live : live = Live(ino, c, l)
    OBVIOUS
  <2>2. ASSUME NEW f \in File, NEW k \in MapIndex, ino[f].map[k] # Unmapped
        PROVE  live[f].map[k] = ino[f].map[k]
    <3>1. CASE InWrite(c, l) /\ f = c.file
      <4>1. WriteOK(x, d, fr, old, c, l)
        BY <1>2, <1>5, <3>1 DEF Sound
      <4>2. live[f] = l.ino
        BY <2>1, <3>1 DEF Live
      <4> QED
        BY <1>2, <2>2, <3>1, <4>1, <4>2 DEF WriteOK
    <3>2. CASE ~ (InWrite(c, l) /\ f = c.file)
      <4>1. live[f] = ino[f]
        BY <2>1, <3>2 DEF Live
      <4> QED
        BY <4>1
    <3> QED
      BY <3>1, <3>2
  <2>3. Disjoint(live, fr)
    BY <2>1 DEF Sound
  <2>4. ASSUME NEW f \in File, NEW g \in File, NEW j \in MapIndex, NEW k \in MapIndex,
               ino[f].map[j] = ino[g].map[k], ino[f].map[j] # Unmapped
        PROVE  f = g /\ j = k
    <3>1. live[f].map[j] = live[g].map[k] /\ live[f].map[j] # Unmapped
      BY <2>2, <2>4
    <3> QED
      BY <2>3, <3>1 DEF Disjoint
  <2>5. ASSUME NEW f \in File, NEW k \in MapIndex, ino[f].map[k] # Unmapped
        PROVE  ino[f].map[k] \notin ff
    <3>1. live[f].map[k] = ino[f].map[k]
      BY <2>2, <2>5
    <3> QED
      BY <2>3, <3>1 DEF Disjoint
  <2>6. Unmapped \notin ff
    BY Constants
  <2>7. \A f \in File, k \in MapIndex : ino[f].map[k] \notin ff
    BY <2>5, <2>6
  <2> QED
    BY <2>4, <2>7 DEF Disjoint
<1> QED
  BY <1>3, <1>10, <1>13, <1>14 DEF Settled

\* The copy of a write whose end is moved: its map stays, and its size is that of
\* the inode x at the start or the end of the write, whichever is greater.
LEMMA GrownEnd ==
    ASSUME NEW x \in InodeType, NEW l \in LocalType, l.pos # 0, EndOfCopy(x, l)
    PROVE  /\ Grown(l).map = l.ino.map
           /\ SizeInBytes(Grown(l)) = IF SizeInBytes(x) >= Reached(l)
                                      THEN SizeInBytes(x) ELSE Reached(l)
<1>1. PICK y \in InodeType : y = l.ino
  BY LocalFacts
<1>2. PICK p \in Nat : p = l.pos - 1 /\ l.pos = p + 1
  <2>1. l.pos - 1 \in Nat /\ l.pos = (l.pos - 1) + 1
    BY LocalFacts
  <2> QED
    BY <2>1
<1>3. PICK a \in 0..BlockSize - 1 : a = l.at
  BY LocalFacts
<1>4. BlockSize \in Nat \ {0}
  BY Constants
<1>5. PICK j \in Nat : j = p * BlockSize
  BY <1>4, ProductNat
<1>6. Reached(l) = j + a
  BY <1>2, <1>3, <1>5 DEF Reached
<1>7. /\ y.numBlocks \in Nat /\ y.used \in 0..BlockSize
      /\ x.numBlocks \in Nat /\ x.used \in 0..BlockSize
  BY DEF InodeType
<1>8. PICK size \in Nat : size = SizeInBytes(x)
  BY SizeFacts
<1>9. EndOfCopy(x, l) /\ l.ino = y /\ l.pos = p + 1 /\ l.at = a
  BY <1>1, <1>2, <1>3
<1>10. CASE l.pos > y.numBlocks \/ (l.pos = y.numBlocks /\ l.at > y.used)
  <2>1. SizeInBytes(x) <= j + a
    <3>1. CASE x.numBlocks <= p
      <4>1. HasAtMost(x, p)
        BY <3>1 DEF HasAtMost
      <4>2. SizeInBytes(x) <= p * BlockSize
        BY <4>1, SizeBelow
      <4> QED
        BY <1>3, <1>4, <1>5, <1>8, <4>2
    <3>2. CASE ~ (x.numBlocks <= p)
      <4>1. x.numBlocks = p + 1 /\ x.used <= a
        BY <1>3, <1>4, <1>7, <1>9, <1>10, <3>2 DEF EndOfCopy
      <4>2. x.numBlocks - 1 = p /\ x.numBlocks # 0
        BY <4>1
      <4>3. SizeInBytes(x) = j + x.used
        BY <1>5, <4>2 DEF SizeInBytes
      <4> QED
        BY <1>3, <1>4, <1>7, <4>1, <4>3
    <3> QED
      BY <3>1, <3>2
  <2>2. CASE a = 0
    <3>1. Grown(l) = [y EXCEPT !.numBlocks = p, !.used = BlockSize]
      BY <1>2, <1>9, <1>10, <2>2 DEF Grown
    <3>2. Grown(l).map = y.map /\ Grown(l).numBlocks = p /\ Grown(l).used = BlockSize
      BY <3>1 DEF InodeType
    <3>3. SizeInBytes(Grown(l)) = j
      <4>1. CASE p = 0
        <5>1. j = 0
          BY <1>4, <1>5, <4>1
        <5> QED
          BY <3>2, <4>1, <5>1 DEF SizeInBytes
      <4>2. CASE p # 0
        <5>1. PICK q \in Nat : q = p - 1 /\ p = q + 1
          BY <4>2
        <5>2. j = q * BlockSize + BlockSize
          BY <1>4, <1>5, <5>1
        <5> QED
          BY <3>2, <4>2, <5>1, <5>2 DEF SizeInBytes
      <4> QED
        BY <4>1, <4>2
    <3> QED
      BY <1>1, <1>5, <1>6, <1>8, <2>1, <2>2, <3>2, <3>3
  <2>3. CASE a # 0
    <3>1. Grown(l) = [y EXCEPT !.numBlocks = p + 1, !.used = a]
      BY <1>2, <1>9, <1>10, <2>3 DEF Grown
    <3>2. Grown(l).map = y.map /\ Grown(l).numBlocks = p + 1 /\ Grown(l).used = a
      BY <3>1 DEF InodeType
    <3>3. p + 1 # 0 /\ (p + 1) - 1 = p
      OBVIOUS
    <3>4. SizeInBytes(Grown(l)) = j + a
      BY <1>5, <3>2, <3>3 DEF SizeInBytes
    <3> QED
      BY <1>1, <1>3, <1>4, <1>5, <1>6, <1>8, <2>1, <3>2, <3>4
  <2> QED
    BY <2>2, <2>3
<1>11. CASE ~ (l.pos > y.numBlocks \/ (l.pos = y.numBlocks /\ l.at > y.used))
  <2>1. Grown(l) = y
    BY <1>9, <1>11 DEF Grown
  <2>2. y.numBlocks = x.numBlocks /\ y.used = x.used
    BY <1>4, <1>7, <1>9, <1>11 DEF EndOfCopy
  <2>3. SizeInBytes(y) = size
    BY <1>8, <2>2 DEF SizeInBytes
  <2>4. PICK q \in Nat : q = x.numBlocks - 1 /\ p <= q
    BY <1>7, <1>9, <1>11, <2>2
  <2>5. PICK s \in Nat : s = q * BlockSize
    BY <1>4, ProductNat
  <2>6. SizeInBytes(x) = s + x.used
    BY <1>7, <2>4, <2>5 DEF SizeInBytes
  <2>7. CASE p = q
    <3>1. s = j /\ a <= x.used
      BY <1>3, <1>4, <1>5, <1>7, <1>9, <1>11, <2>2, <2>4, <2>5, <2>7
    <3> QED
      BY <1>1, <1>3, <1>4, <1>6, <1>7, <1>8, <2>1, <2>3, <2>6, <3>1
  <2>8. CASE p < q
    <3>1. (p + 1) * BlockSize <= q * BlockSize
      BY <1>4, <2>8, ProductMonotone
    <3>2. (p + 1) * BlockSize = j + BlockSize
      BY <1>4, <1>5
    <3> QED
      BY <1>1, <1>3, <1>4, <1>6, <1>7, <1>8, <2>1, <2>3, <2>5, <2>6, <3>1, <3>2
  <2> QED
    BY <2>4, <2>7, <2>8
<1> QED
  BY <1>10, <1>11

\* The inodes ino with the copy y, whose map is that of the locals l, put back,
\* and what was written w with call c.
IsWritten(next, v, ino, w, c, y) ==
    /\ next = [ino EXCEPT ![c.file] = y]
    /\ v = [w EXCEPT ![c.file] = [size  |-> Max({w[c.file].size, c.offset + c.n}),
                                  bytes |-> Overwritten(w[c.file].bytes, c.offset, c.n, c.byte)]]

\* The end of a write: its copy takes the place of the inode.
LEMMA EndSound ==
    ASSUME NEW ino \in [File -> InodeType], NEW d \in [Block -> BlockType],
           NEW fr, NEW w, NEW c \in Call, NEW l \in LocalType,
           Sound(ino, d, fr, w, c, l), InWrite(c, l), l.rest = 0,
           NEW next, NEW v, IsWritten(next, v, ino, w, c, Grown(l))
    PROVE  Settled(next, d, fr, v)
<1>1. c.file \in File /\ c.offset \in Nat /\ c.n \in Nat /\ c.byte \in Byte
  BY CallFacts DEF InWrite
<1>2. PICK x \in InodeType : x = ino[c.file]
  BY <1>1
<1>3. PICK old : old = w[c.file].bytes
  OBVIOUS
<1>4. WriteOK(x, d, fr, old, c, l) /\ Progress(c, l)
  BY <1>2, <1>3 DEF Sound
<1>5. Reached(l) = c.offset + c.n /\ l.pos # 0
  BY <1>1, <1>4 DEF Progress, InWrite
<1>6. PICK y \in InodeType : y = Grown(l)
  BY GrownTyped
<1>7. /\ y.map = l.ino.map
      /\ SizeInBytes(y) = IF SizeInBytes(x) >= c.offset + c.n THEN SizeInBytes(x) ELSE c.offset + c.n
  <2>1. EndOfCopy(x, l)
    BY <1>4 DEF WriteOK
  <2> QED
    BY <1>5, <1>6, <2>1, GrownEnd
<1>8. /\ w \in [File -> WrittenType]
      /\ \A f \in File : w[f].size = SizeInBytes(ino[f])
      /\ \A f \in File : \A i \in Index :
            ~ (Touched(c, l, i) /\ f = c.file) => w[f].bytes[i] = ByteOf(ino[f], d, i)
  BY DEF Sound
<1>9. old \in [Index -> Byte \cup {0}] /\ DOMAIN old = Index
  BY <1>1, <1>3, <1>8 DEF WrittenType
<1>10. \A i \in Index : i \in Nat
  BY Constants DEF Index
<1>11. PICK new : new = Overwritten(old, c.offset, c.n, c.byte)
  OBVIOUS
<1>12. /\ new \in [Index -> Byte \cup {0}]
       /\ \A i \in Index : new[i] = IF i \in c.offset..c.offset + c.n - 1 THEN c.byte ELSE old[i]
  BY <1>1, <1>9, <1>11 DEF Overwritten
<1>13. PICK size \in Nat : size = SizeInBytes(y)
  BY SizeFacts
<1>14. size = Max({w[c.file].size, c.offset + c.n})
  <2>1. PICK s \in Nat : s = w[c.file].size
    BY <1>1, <1>8 DEF WrittenType
  <2>2. PICK e \in Nat : e = c.offset + c.n
    BY <1>1
  <2>3. Max({s, e}) = IF s >= e THEN s ELSE e
    BY MaxOfTwo
  <2>4. SizeInBytes(x) = s
    BY <1>1, <1>2, <1>8, <2>1
  <2> QED
    BY <1>7, <1>13, <2>1, <2>2, <2>3, <2>4
<1>15. PICK u : u = [size |-> size, bytes |-> new]
  OBVIOUS
<1>16. u \in WrittenType /\ u.size = size /\ u.bytes = new
  BY <1>12, <1>15 DEF WrittenType
<1>17. next = [ino EXCEPT ![c.file] = y] /\ v = [w EXCEPT ![c.file] = u]
  BY <1>3, <1>6, <1>11, <1>14, <1>15 DEF IsWritten
<1>18. /\ v \in [File -> WrittenType]
       /\ \A f \in File : v[f] = IF f = c.file THEN u ELSE w[f]
       /\ \A f \in File : next[f] = IF f = c.file THEN y ELSE ino[f]
  BY <1>1, <1>8, <1>16, <1>17
<1>19. \A f \in File : v[f].size = SizeInBytes(next[f])
  BY <1>8, <1>13, <1>16, <1>18
<1>20. \A i \in Index : ByteOf(y, d, i) = ByteOf(l.ino, d, i)
  BY <1>7 DEF ByteOf, GetIthBlock
<1>21. \A i \in Index : Touched(c, l, i) <=> i \in c.offset..c.offset + c.n - 1
  <2>1. SUFFICES ASSUME NEW i \in Index
                 PROVE  Touched(c, l, i) <=> i \in c.offset..c.offset + c.n - 1
    OBVIOUS
  <2>2. Touched(c, l, i) <=> c.offset <= i /\ i < c.offset + c.n
    BY <1>5 DEF Touched
  <2>3. i \in Nat
    BY <1>10
  <2> QED
    BY <1>1, <2>2, <2>3
<1>22. \A i \in Index : new[i] = ByteOf(y, d, i)
  BY <1>4, <1>12, <1>20, <1>21 DEF WriteOK
<1>23. \A f \in File : \A i \in Index : v[f].bytes[i] = ByteOf(next[f], d, i)
  <2>1. SUFFICES ASSUME NEW f \in File, NEW i \in Index
                 PROVE  v[f].bytes[i] = ByteOf(next[f], d, i)
    OBVIOUS
  <2>2. CASE f = c.file
    <3>1. v[f].bytes = new /\ next[f] = y
      BY <1>16, <1>18, <2>2
    <3> QED
      BY <1>22, <3>1
  <2>3. CASE f # c.file
    <3>1. v[f] = w[f] /\ next[f] = ino[f]
      BY <1>18, <2>3
    <3> QED
      BY <1>8, <2>3, <3>1
  <2> QED
    BY <2>2, <2>3
<1>24. Disjoint(next, fr)
  <2>1. PICK live : live = [ino EXCEPT ![c.file] = l.ino]
    OBVIOUS
  <2>2. Disjoint(live, fr)
    BY <2>1 DEF Sound, Live
  <2>3. \A f \in File : live[f].map = next[f].map
    BY <1>1, <1>7, <1>18, <2>1
  <2> QED
    BY <2>2, <2>3 DEF Disjoint
<1> QED
  BY <1>18, <1>19, <1>23, <1>24 DEF Settled

\* n bytes of copy x from where locals l are on.
IsCopied(copied, x, d, l, n) ==
    LET b == GetIthBlock(x, l.pos)
    IN  copied = [k \in 1..n |-> IF b = Unmapped THEN 0 ELSE d[b][l.at + k - 1]]

LEMMA CopiedBytes ==
    ASSUME NEW x, NEW d, NEW l \in LocalType, l.pos # 0, NEW n \in Nat,
           l.at + n <= BlockSize, NEW copied, IsCopied(copied, x, d, l, n), NEW k \in 1..n
    PROVE  copied[k] = ByteOf(x, d, Reached(l) + k - 1)
<1>1. PICK p \in Nat : p = l.pos - 1 /\ l.pos = p + 1
  <2>1. l.pos - 1 \in Nat /\ l.pos = (l.pos - 1) + 1
    BY LocalFacts
  <2> QED
    BY <2>1
<1>2. PICK r \in 0..BlockSize - 1 : r = l.at + k - 1
  <2>1. l.at \in Nat
    BY LocalFacts
  <2> QED
    BY <2>1, Constants
<1>3. PICK j \in Nat : j = p * BlockSize
  BY Constants, ProductNat
<1>4. PICK i : i = Reached(l) + k - 1
  OBVIOUS
<1>5. i = j + r
  <2>1. l.at \in Nat /\ Reached(l) = j + l.at
    BY <1>1, <1>3, LocalFacts DEF Reached
  <2> QED
    BY <1>2, <1>4, <2>1
<1>6. i \div BlockSize = p /\ i % BlockSize = r
  <2>1. Divides(i, BlockSize, p, r)
    BY <1>3, <1>5 DEF Divides
  <2> QED
    BY <2>1, Constants, QuotientIs
<1>7. ByteOf(x, d, i) = IF GetIthBlock(x, l.pos) = Unmapped THEN 0
                         ELSE d[GetIthBlock(x, l.pos)][r]
  BY <1>1, <1>6 DEF ByteOf
<1> QED
  BY <1>2, <1>4, <1>7 DEF IsCopied

LEMMA Concatenation ==
    ASSUME NEW T, NEW s \in Seq(T), NEW t \in Seq(T)
    PROVE  /\ Len(s \o t) = Len(s) + Len(t)
           /\ \A k \in 1..Len(s) : (s \o t)[k] = s[k]
           /\ \A k \in 1..Len(t) : (s \o t)[Len(s) + k] = t[k]
OBVIOUS

\* m are the locals l of a read after a turn of n bytes.
IsReadTurn(d, l, m, n) ==
    /\ IsAdvance(l, m, n)
    /\ m.ino = l.ino
    /\ \E copied : IsCopied(copied, l.ino, d, l, n) /\ m.buf = l.buf \o copied
    /\ l.pos = l.ino.numBlocks => l.at + n <= l.ino.used

\* The turn of a read: what it copies are the next bytes of the file.
LEMMA ReadTurnSound ==
    ASSUME NEW ino \in [File -> InodeType], NEW d \in [Block -> BlockType],
           NEW fr, NEW w, NEW c \in Call, NEW l \in LocalType, NEW m \in LocalType, NEW n,
           Sound(ino, d, fr, w, c, l), InRead(c, l), IsReadTurn(d, l, m, n)
    PROVE  Sound(ino, d, fr, w, c, m)
<1>1. c.file \in File /\ c.offset \in Nat /\ c.n \in Nat /\ c.op = "read" /\ l.pc = "turn"
  BY CallFacts DEF InRead
<1>2. PICK x \in InodeType : x = ino[c.file]
  BY <1>1
<1>3. ReadOK(x, d, c, l) /\ Progress(c, l)
  BY <1>2 DEF Sound
<1>4. IsAdvance(l, m, n) /\ m.ino = x /\ l.ino = x
  BY <1>3 DEF IsReadTurn, ReadOK
<1>5. PICK copied : IsCopied(copied, x, d, l, n) /\ m.buf = l.buf \o copied
  BY <1>4 DEF IsReadTurn
<1>6. /\ n \in Nat \ {0} /\ n <= l.rest /\ l.at + n <= BlockSize
      /\ m.pc = "turn" /\ m.rest = l.rest - n
      /\ l.rest \in Nat /\ l.at \in 0..BlockSize - 1 /\ l.buf \in Seq(Byte \cup {0})
      /\ l.pos \in Nat
  BY <1>4, LocalFacts DEF IsAdvance
<1>7. l.pos # 0 /\ l.rest <= c.n /\ Reached(l) = c.offset + (c.n - l.rest)
  BY <1>1, <1>3 DEF Progress
<1>16. PICK num \in Nat, off \in Nat, rest \in Nat, step \in Nat :
          /\ num = c.n /\ off = c.offset /\ rest = l.rest /\ step = n
          /\ step > 0 /\ step <= rest /\ rest <= num
  BY <1>1, <1>6, <1>7
<1>17. m.rest = rest - step /\ Reached(l) = off + (num - rest)
  BY <1>6, <1>7, <1>16
<1>8. Settled(ino, d, fr, w)
  <2>1. ~ InWrite(c, l)
    BY <1>1 DEF InWrite
  <2> QED
    BY <2>1, SettledIfNoWrite
<1>9. /\ InRead(c, m) /\ ~ InWrite(c, m) /\ m.pc # "alloc"
      /\ Live(ino, c, m) = ino /\ \A i : ~ Touched(c, m, i)
  BY <1>1, <1>6 DEF InRead, InWrite, Live, Touched
<1>10. Progress(c, m)
  <2>1. Reached(m) = Reached(l) + n /\ m.pos \in Nat \ {0}
    BY <1>4, <1>7, AdvanceReached
  <2> QED
    <3>1. rest - step <= num /\ rest - step \in Nat
      BY <1>16
    <3>2. off + (num - rest) + step = off + (num - (rest - step))
      BY <1>16
    <3> QED
      BY <1>16, <1>17, <2>1, <3>1, <3>2 DEF Progress
<1>11. DOMAIN copied = 1..n /\ copied \in Seq(Byte \cup {0}) /\ Len(copied) = n
  <2>1. \A k \in 1..n : copied[k] = ByteOf(x, d, Reached(l) + k - 1)
    BY <1>5, <1>6, <1>7, CopiedBytes
  <2>2. \A k \in 1..n : Reached(l) + k - 1 \in Nat
    BY <1>1, <1>6, <1>7
  <2>3. \A k \in 1..n : copied[k] \in Byte \cup {0}
    BY <2>1, <2>2, ByteTyped
  <2>4. DOMAIN copied = 1..n /\ copied = [k \in 1..n |-> copied[k]]
    BY <1>5 DEF IsCopied
  <2>5. copied \in [1..n -> Byte \cup {0}] /\ n \in Nat
    BY <1>6, <2>3, <2>4
  <2> QED
    BY <2>4, <2>5
<1>12. Len(m.buf) = c.n - m.rest /\ Len(l.buf) = c.n - l.rest /\ Len(m.buf) = Len(l.buf) + n
  <2>1. Len(l.buf) = c.n - l.rest
    BY <1>3 DEF ReadOK
  <2>2. Len(m.buf) = Len(l.buf) + n
    <3>1. Len(l.buf \o copied) = Len(l.buf) + Len(copied)
      BY <1>6, <1>11, Concatenation
    <3> QED
      BY <1>5, <1>11, <3>1
  <2>3. (num - rest) + step = num - (rest - step)
    BY <1>16
  <2> QED
    BY <1>16, <1>17, <2>1, <2>2, <2>3
<1>13. ASSUME NEW k \in 1..Len(m.buf) PROVE m.buf[k] = ByteOf(x, d, c.offset + k - 1)
  <2>1. PICK s \in Nat : s = Len(l.buf) /\ s = num - rest
    BY <1>6, <1>12, <1>16
  <2>2. k \in Nat /\ k <= s + step /\ k >= 1
    BY <1>12, <1>13, <1>16, <2>1
  <2>3. CASE k <= s
    <3>1. k \in 1..Len(l.buf)
      BY <2>1, <2>2, <2>3
    <3>2. m.buf[k] = l.buf[k]
      BY <1>5, <1>6, <1>11, <3>1, Concatenation
    <3> QED
      BY <1>3, <3>1, <3>2 DEF ReadOK
  <2>4. CASE k > s
    <3>1. PICK j \in 1..step : k = s + j
      <4>0. s \in Nat /\ k \in Nat /\ step \in Nat /\ k <= s + step /\ k > s
        BY <1>16, <2>1, <2>2, <2>4
      <4>1. k - s \in 1..step /\ k = s + (k - s)
        BY <4>0
      <4> QED
        BY <4>1
    <3>2. j \in 1..n /\ j \in 1..Len(copied) /\ j \in Nat
      BY <1>11, <1>16
    <3>3. m.buf[k] = copied[j]
      <4>1. (l.buf \o copied)[Len(l.buf) + j] = copied[j]
        BY <1>6, <1>11, <3>2, Concatenation
      <4> QED
        BY <1>5, <2>1, <3>1, <4>1
    <3>4. copied[j] = ByteOf(x, d, Reached(l) + j - 1)
      BY <1>5, <1>6, <1>7, <3>2, CopiedBytes
    <3>5. PICK r \in Nat : r = Reached(l) /\ r = off + s
      BY <1>16, <1>17, <2>1
    <3>6. r + j - 1 = off + k - 1
      BY <3>1, <3>5
    <3> QED
      BY <1>16, <3>3, <3>4, <3>5, <3>6
  <2> QED
    BY <2>1, <2>2, <2>3, <2>4
<1>14. m.pos > x.numBlocks => x.used = BlockSize
  <2>1. SUFFICES ASSUME m.pos > x.numBlocks PROVE x.used = BlockSize
    OBVIOUS
  <2>2. x.numBlocks \in Nat /\ x.used \in 0..BlockSize /\ BlockSize \in Nat
    BY Constants DEF InodeType
  <2>3. CASE l.pos > x.numBlocks
    BY <1>3, <2>3 DEF ReadOK
  <2>4. CASE ~ (l.pos > x.numBlocks)
    <3>1. l.pos = x.numBlocks /\ l.at + n = BlockSize
      BY <1>4, <1>6, <2>1, <2>2, <2>4 DEF IsAdvance
    <3>2. l.at + n <= x.used
      BY <1>4, <3>1 DEF IsReadTurn
    <3> QED
      BY <2>2, <3>1, <3>2
  <2> QED
    BY <2>3, <2>4
<1>15. ReadOK(x, d, c, m)
  <2>1. c.offset < SizeInBytes(x)
    BY <1>3 DEF ReadOK
  <2>2. \A k \in 1..Len(m.buf) : m.buf[k] = ByteOf(x, d, c.offset + k - 1)
    BY <1>13
  <2> QED
    BY <1>4, <1>12, <1>14, <2>1, <2>2 DEF ReadOK
<1> QED
  BY <1>2, <1>8, <1>9, <1>10, <1>15 DEF Sound, Settled

-----------------------------------------------------------------------------
(* One lemma for every step *)

LEMMA SoundEverywhere ==
    ASSUME \A t \in Thread : Sound(inode', data', free', written', call'[t], loc'[t])
    PROVE  Kept'
BY Zenon DEF Kept, Sound, WrittenType, Index, Disjoint, Live, InWrite, InRead,
   Touched, Reached, Progress, WriteOK, ReadOK, EndOfCopy, ByteOf, BlockOf, GetIthBlock,
   InRange, IndexOf, MapIndex, SizeInBytes, Unmapped

LEMMA KeptFrame ==
    ASSUME FileInv, OneThread, NEW t \in Thread, NEW l, NEW c,
           loc' = [loc EXCEPT ![t] = l], call' = [call EXCEPT ![t] = c],
           Sound(inode', data', free', written', c, l)
    PROVE  Kept'
<1>1. loc'[t] = l /\ call'[t] = c
  BY DEF FileInv
<1>2. \A u \in Thread : u = t
  BY DEF OneThread
<1>3. \A u \in Thread : Sound(inode', data', free', written', call'[u], loc'[u])
  BY <1>1, <1>2
<1> QED
  BY <1>3, SoundEverywhere

LEMMA KeptHere ==
    ASSUME FileInv, Kept, NEW t \in Thread, NEW pc, NEW op \in {"read", "write"},
           At(t, pc, op)
    PROVE  \E c \in Call, l \in LocalType :
              /\ c = call[t] /\ l = loc[t]
              /\ c.op = op /\ l.pc = pc /\ LocalOK(l, c)
              /\ Sound(inode, data, free, written, c, l)
<1>1. call[t] \in Call /\ loc[t] \in LocalType /\ LocalOK(loc[t], call[t])
  BY InCall
<1>2. Sound(inode, data, free, written, call[t], loc[t])
  BY DEF Kept
<1> QED
  BY <1>1, <1>2 DEF At

LEMMA ReturnKept ==
    ASSUME FileInv, OneThread, NEW t \in Thread, NEW answer, Return(t, answer),
           Settled(inode', data', free', written')
    PROVE  Kept'
<1>1. Idle.pc = "idle"
  BY DEF Idle
<1>2. Sound(inode', data', free', written', NoCall, Idle)
  BY <1>1, SettledIsSound
<1> QED
  BY <1>2, KeptFrame DEF Return

LEMMA BeginKept ==
    ASSUME FileInv, OneThread, Kept, NEW t \in Thread, Begin(t)
    PROVE  Kept'
<1>1. Sound(inode, data, free, written, call[t], loc[t]) /\ call[t] = NoCall
  BY DEF Kept, Begin
<1>2. Settled(inode, data, free, written)
  BY <1>1, CallFacts, SettledIfNoWrite DEF InWrite
<1>3. PICK c \in Call : call' = [call EXCEPT ![t] = c]
  BY DEF Begin
<1>4. PICK l : l = [loc[t] EXCEPT !.pc = "start"]
  OBVIOUS
<1>5. loc' = [loc EXCEPT ![t] = l] /\ UNCHANGED <<inode, data, free, written>>
  BY <1>4 DEF Begin, FileInv
<1>6. l.pc = "start"
  BY <1>4 DEF FileInv, LocalType
<1>7. Sound(inode, data, free, written, c, l)
  BY <1>2, <1>6, SettledIsSound
<1> QED
  BY <1>3, <1>5, <1>7, KeptFrame

\* A write fails, which may have freed none of the blocks and written into one
\* that no file has.
LEMMA WriteFailsKept ==
    ASSUME FileInv, OneThread, NEW t \in Thread, WriteFails(t),
           NEW c \in Call, NEW l \in LocalType, c = call[t],
           Sound(inode, data, free, written, c, l),
           free' \in SUBSET free, SameFiles(inode, data, data')
    PROVE  Kept'
<1>1. /\ inode \in [File -> InodeType] /\ data \in [Block -> BlockType]
      /\ free \in SUBSET Block
  BY DEF FileInv
<1>2. IsFailed(written', written, inode, data, c) /\ inode' = inode
  BY DEF WriteFails, IsFailed, Content, ByteOf
<1>3. PICK ino \in [File -> InodeType], d \in [Block -> BlockType], fr \in SUBSET Block :
         ino = inode /\ d = data /\ fr = free
  BY <1>1
<1>4. PICK ff \in SUBSET fr : ff = free'
  BY <1>3
<1>8. PICK e, v : e = data' /\ v = written'
  OBVIOUS
<1>5. /\ Sound(ino, d, fr, written, c, l)
      /\ SameFiles(ino, d, e)
      /\ IsFailed(v, written, ino, d, c)
  BY <1>2, <1>3, <1>8
<1>6. Settled(ino, e, ff, v)
  BY <1>5, FailSound
<1>7. Settled(inode', data', free', written')
  BY <1>2, <1>3, <1>4, <1>6, <1>8
<1> QED
  BY <1>7, ReturnKept DEF WriteFails

LEMMA StartedIsStart ==
    ASSUME FileInv, NEW t \in Thread, call[t] \in Call
    PROVE  IsStart(inode, call[t], Started(t))
<1>1. PICK l : l = Started(t)
  OBVIOUS
<1>2. l = [Idle EXCEPT !.pc = "turn", !.ino = inode[call[t].file], !.rest = call[t].n,
                       !.pos = (call[t].offset \div BlockSize) + 1,
                       !.at = call[t].offset % BlockSize]
  BY <1>1 DEF Started
<1>3. Idle = [pc |-> "idle", ino |-> EmptyInode, pos |-> 0, at |-> 0, rest |-> 0,
              buf |-> <<>>, seen |-> {}]
  BY DEF Idle
<1> QED
  BY <1>1, <1>2, <1>3 DEF IsStart

LEMMA WriteStartKept ==
    ASSUME FileInv, OneThread, Kept, NEW t \in Thread, WriteStart(t)
    PROVE  Kept'
<1>1. PICK c \in Call, l \in LocalType :
         /\ c = call[t] /\ l = loc[t] /\ c.op = "write" /\ l.pc = "start"
         /\ Sound(inode, data, free, written, c, l)
  BY KeptHere DEF WriteStart
<1>2. UNCHANGED <<data, free>> /\ inode \in [File -> InodeType]
  BY DEF WriteStart, FileInv
<1>3. CASE WriteFails(t)
  <2>1. SameFiles(inode, data, data') /\ free' \in SUBSET free
    BY <1>2 DEF SameFiles
  <2> QED
    BY <1>1, <1>3, <2>1, WriteFailsKept
<1>4. CASE /\ loc' = [loc EXCEPT ![t] = Started(t)]
           /\ UNCHANGED <<inode, call, written>>
  <2>1. PICK m : m = Started(t)
    OBVIOUS
  <2>2. IsStart(inode, c, m)
    BY <1>1, <2>1, StartedIsStart
  <2>3. Settled(inode, data, free, written)
    BY <1>1, SettledIfNoWrite DEF InWrite
  <2>4. Sound(inode, data, free, written, c, m)
    BY <1>1, <1>2, <2>2, <2>3, WriteStartSound
  <2>5. call' = [call EXCEPT ![t] = c] /\ loc' = [loc EXCEPT ![t] = m]
    BY <1>1, <1>4, <2>1 DEF FileInv
  <2>6. Sound(inode', data', free', written', c, m)
    BY <1>2, <1>4, <2>4
  <2> QED
    BY <2>5, <2>6, KeptFrame
<1> QED
  BY <1>3, <1>4 DEF WriteStart

LEMMA ReadStartKept ==
    ASSUME FileInv, OneThread, Kept, NEW t \in Thread, ReadStart(t)
    PROVE  Kept'
<1>1. PICK c \in Call, l \in LocalType :
         /\ c = call[t] /\ l = loc[t] /\ c.op = "read" /\ l.pc = "start"
         /\ Sound(inode, data, free, written, c, l)
  BY KeptHere DEF ReadStart
<1>2. UNCHANGED <<inode, data, free, written>> /\ inode \in [File -> InodeType]
  BY DEF ReadStart, FileInv
<1>3. Settled(inode, data, free, written)
  BY <1>1, SettledIfNoWrite DEF InWrite
<1>4. CASE Return(t, NoAnswer)
  <2>1. Settled(inode', data', free', written')
    BY <1>2, <1>3
  <2> QED
    BY <1>4, <2>1, ReturnKept
<1>5. CASE /\ ~ call[t].offset >= GetSizeOfFile(inode[call[t].file])
           /\ loc' = [loc EXCEPT ![t] = Started(t)]
           /\ UNCHANGED call
  <2>1. PICK m : m = Started(t)
    OBVIOUS
  <2>2. IsStart(inode, c, m)
    BY <1>1, <2>1, StartedIsStart
  <2>3. StartsWithin(inode, c)
    <3>1. PICK x \in InodeType : x = inode[c.file]
      BY <1>2, CallFacts
    <3>2. /\ SizeInBytes(x) \in Nat /\ GetSizeOfFile(x) \in Int
          /\ GetSizeOfFile(x) <= SizeInBytes(x) /\ c.offset \in Nat
      BY CallFacts, SizeFacts
    <3>3. ~ c.offset >= GetSizeOfFile(x)
      BY <1>1, <1>5, <3>1
    <3>4. c.offset < SizeInBytes(x)
      BY <3>2, <3>3
    <3> QED
      BY <3>1, <3>4 DEF StartsWithin
  <2>4. Sound(inode, data, free, written, c, m)
    BY <1>1, <1>2, <1>3, <2>2, <2>3, ReadStartSound
  <2>5. call' = [call EXCEPT ![t] = c] /\ loc' = [loc EXCEPT ![t] = m]
    BY <1>1, <1>5, <2>1 DEF FileInv
  <2>6. Sound(inode', data', free', written', c, m)
    BY <1>2, <2>4
  <2> QED
    BY <2>5, <2>6, KeptFrame
<1> QED
  BY <1>4, <1>5 DEF ReadStart

\* The locals that are Advanced by a turn.
LEMMA AdvancedIsAdvance ==
    ASSUME NEW l \in LocalType, NEW n \in Nat \ {0}, n <= l.rest, l.at + n <= BlockSize
    PROVE  IsAdvance(l, Advanced(l, n), n) /\ Advanced(l, n) \in LocalType
BY AdvancedFacts DEF IsAdvance

LEMMA WriteTurnKept ==
    ASSUME FileInv, OneThread, Kept, NEW t \in Thread, WriteTurn(t)
    PROVE  Kept'
<1>1. PICK c \in Call, l \in LocalType :
         /\ c = call[t] /\ l = loc[t] /\ c.op = "write" /\ l.pc = "turn"
         /\ Sound(inode, data, free, written, c, l)
  BY KeptHere DEF WriteTurn
<1>2. l.rest > 0 /\ GetIthBlock(l.ino, l.pos) # Unmapped
  BY <1>1 DEF WriteTurn
<1>3. PICK n : n = ToWrite(l)
  OBVIOUS
<1>4. n \in Nat \ {0} /\ n <= l.rest /\ l.at + n <= BlockSize
  BY <1>2, <1>3, ToWriteFits
<1>5. PICK m \in LocalType : m = Advanced(l, n) /\ IsAdvance(l, m, n) /\ m.ino = l.ino
  BY <1>4, AdvancedIsAdvance, AdvancedFacts
<1>6. PICK b : b = GetIthBlock(l.ino, l.pos)
  OBVIOUS
<1>7. /\ data' = [data EXCEPT ![b] = Overwritten(data[b], l.at, n, c.byte)]
      /\ loc' = [loc EXCEPT ![t] = m]
      /\ UNCHANGED <<inode, free, call, written>>
  BY <1>1, <1>3, <1>5, <1>6 DEF WriteTurn
<1>8. InWrite(c, l)
  BY <1>1 DEF InWrite
<1>9. b = BlockOf(l.ino, l.pos - 1) /\ b # Unmapped
  <2>1. l.pos = (l.pos - 1) + 1
    BY LocalFacts
  <2> QED
    BY <1>2, <1>6, <2>1 DEF BlockOf
<1>10. PICK ino \in [File -> InodeType], d \in [Block -> BlockType] :
          ino = inode /\ d = data
  BY DEF FileInv
<1>11. PICK e : e = data'
  OBVIOUS
<1>12. /\ e = [d EXCEPT ![b] = Overwritten(d[b], l.at, n, c.byte)]
       /\ Sound(ino, d, free, written, c, l)
  BY <1>1, <1>7, <1>10, <1>11
<1>13. Sound(ino, e, free, written, c, m)
  BY <1>5, <1>8, <1>9, <1>12, WriteTurnSound
<1>14. Sound(inode', data', free', written', c, m)
  BY <1>7, <1>10, <1>11, <1>13
<1>15. call' = [call EXCEPT ![t] = c]
  BY <1>1, <1>7 DEF FileInv
<1> QED
  BY <1>7, <1>14, <1>15, KeptFrame

LEMMA AllocReadKept ==
    ASSUME FileInv, OneThread, Kept, NEW t \in Thread, AllocRead(t)
    PROVE  Kept'
<1>1. PICK c \in Call, l \in LocalType :
         /\ c = call[t] /\ l = loc[t] /\ c.op = "write" /\ l.pc = "turn"
         /\ Sound(inode, data, free, written, c, l)
  BY KeptHere DEF AllocRead
<1>2. PICK m : m = [l EXCEPT !.pc = "alloc", !.seen = free]
  OBVIOUS
<1>3. /\ m.pc = "alloc" /\ m.seen = free /\ m.ino = l.ino /\ m.pos = l.pos
      /\ m.at = l.at /\ m.rest = l.rest
  BY <1>2 DEF LocalType
<1>4. /\ loc' = [loc EXCEPT ![t] = m] /\ UNCHANGED <<inode, data, free, call, written>>
  BY <1>1, <1>2 DEF AllocRead, FileInv
<1>5. BlockOf(l.ino, l.pos - 1) = Unmapped
  <2>1. l.pos = (l.pos - 1) + 1
    BY LocalFacts
  <2>2. GetIthBlock(l.ino, l.pos) = Unmapped
    BY <1>1 DEF AllocRead
  <2> QED
    BY <2>1, <2>2 DEF BlockOf
<1>6. InWrite(c, l) /\ InWrite(c, m) /\ ~ InRead(c, m)
  BY <1>1, <1>3 DEF InWrite, InRead
<1>7. Reached(m) = Reached(l) /\ Live(inode, c, m) = Live(inode, c, l)
  BY <1>3, <1>6 DEF Reached, Live
<1>8. \A i : Touched(c, m, i) <=> Touched(c, l, i)
  BY <1>6, <1>7 DEF Touched
<1>9. PICK x, bytes : x = inode[c.file] /\ bytes = written[c.file].bytes
  OBVIOUS
<1>10. WriteOK(x, data, free, bytes, c, l) /\ Progress(c, l)
  BY <1>1, <1>6, <1>9 DEF Sound
<1>11. Progress(c, m)
  BY <1>1, <1>3, <1>7, <1>10 DEF Progress
<1>12. EndOfCopy(x, m)
  BY <1>3, <1>10 DEF WriteOK, EndOfCopy
<1>13. WriteOK(x, data, free, bytes, c, m)
  BY <1>3, <1>5, <1>8, <1>10, <1>12 DEF WriteOK
<1>14. /\ written \in [File -> WrittenType]
       /\ \A f \in File : written[f].size = SizeInBytes(inode[f])
       /\ Disjoint(Live(inode, c, m), free)
       /\ \A f \in File : \A i \in Index :
             ~ (Touched(c, m, i) /\ f = c.file) => written[f].bytes[i] = ByteOf(inode[f], data, i)
  BY <1>1, <1>7, <1>8 DEF Sound
<1>15. Sound(inode, data, free, written, c, m)
  BY <1>1, <1>6, <1>9, <1>11, <1>13, <1>14 DEF Sound
<1>16. Sound(inode', data', free', written', c, m)
  BY <1>4, <1>15
<1>17. call' = [call EXCEPT ![t] = c]
  BY <1>1, <1>4 DEF FileInv
<1> QED
  BY <1>4, <1>16, <1>17, KeptFrame

LEMMA AllocFullKept ==
    ASSUME FileInv, OneThread, Kept, NEW t \in Thread, AllocFull(t)
    PROVE  Kept'
<1>1. PICK c \in Call, l \in LocalType :
         c = call[t] /\ Sound(inode, data, free, written, c, l)
  BY KeptHere DEF AllocFull
<1>2. WriteFails(t) /\ UNCHANGED <<data, free>>
  BY DEF AllocFull
<1>3. SameFiles(inode, data, data') /\ free' \in SUBSET free
  BY <1>2 DEF SameFiles
<1> QED
  BY <1>1, <1>2, <1>3, WriteFailsKept

LEMMA AllocWriteKept ==
    ASSUME FileInv, OneThread, Kept, NEW t \in Thread, AllocWrite(t)
    PROVE  Kept'
<1>1. PICK c \in Call, l \in LocalType :
         /\ c = call[t] /\ l = loc[t] /\ c.op = "write" /\ l.pc = "alloc"
         /\ LocalOK(l, c) /\ Sound(inode, data, free, written, c, l)
  BY KeptHere DEF AllocWrite
<1>2. PICK ino \in [File -> InodeType], d \in [Block -> BlockType], fr \in SUBSET Block :
         ino = inode /\ d = data /\ fr = free
  BY DEF FileInv
<1>3. InWrite(c, l) /\ Sound(ino, d, fr, written, c, l) /\ c.file \in File
  BY <1>1, <1>2, CallFacts DEF InWrite
<1>4. l.seen = fr /\ fr # {}
  <2>1. l.seen = fr
    BY <1>1, <1>3 DEF Sound, WriteOK
  <2> QED
    BY <1>1, <2>1 DEF AllocWrite
<1>5. PICK b \in fr : b = Min(l.seen)
  BY <1>4, MinInBlocks
<1>6. b \in Block /\ free' = fr \ {b}
  BY <1>1, <1>4, <1>5 DEF AllocWrite
<1>7. PICK n : n = ToWrite(l)
  OBVIOUS
<1>8. n \in Nat \ {0} /\ n <= l.rest /\ l.at + n <= BlockSize
  BY <1>1, <1>7, ToWriteFits DEF LocalOK
<1>9. CASE InRange(l.pos)
  <2>1. PICK y \in InodeType : y = SetIthBlock(l.ino, l.pos, b)
    BY <1>6, <1>9, LocalFacts, SetIthBlockTyped
  <2>2. PICK k : k = [l EXCEPT !.ino = y]
    OBVIOUS
  <2>3. /\ k \in LocalType /\ k.ino = y /\ k.rest = l.rest /\ k.at = l.at
        /\ k.pos = l.pos
    BY <2>2 DEF LocalType
  <2>4. PICK m \in LocalType : m = Advanced(k, n) /\ IsAdvance(k, m, n) /\ m.ino = y
    BY <1>8, <2>3, AdvancedIsAdvance, AdvancedFacts
  <2>5. IsAdvance(l, m, n)
    BY <2>3, <2>4 DEF IsAdvance
  <2>6. /\ data' = [data EXCEPT ![b] = Overwritten(FreshBlock(b), l.at, n, c.byte)]
        /\ loc' = [loc EXCEPT ![t] = m]
        /\ UNCHANGED <<inode, call, written>>
    BY <1>1, <1>5, <1>7, <1>9, <2>1, <2>2, <2>4 DEF AllocWrite
  <2>7. PICK e : e = data'
    OBVIOUS
  <2>8. IsFreshTurn(d, e, b, l.at, n, c.byte)
    BY <1>2, <1>8, <2>6, <2>7 DEF IsFreshTurn, IsPut, FreshBlock
  <2>9. Sound(ino, e, fr \ {b}, written, c, m)
    BY <1>1, <1>3, <1>9, <2>1, <2>4, <2>5, <2>8, AllocSound
  <2>10. Sound(inode', data', free', written', c, m)
    BY <1>2, <1>6, <2>6, <2>7, <2>9
  <2>11. call' = [call EXCEPT ![t] = c]
    BY <1>1, <2>6 DEF FileInv
  <2> QED
    BY <2>6, <2>10, <2>11, KeptFrame
<1>10. CASE ~ InRange(l.pos)
  <2>1. data' = [data EXCEPT ![b] = FreshBlock(b)] /\ WriteFails(t)
    BY <1>1, <1>5, <1>10 DEF AllocWrite
  <2>2. ASSUME NEW f \in File PROVE Lacks(ino[f], b)
    <3>1. Disjoint(Live(ino, c, l), fr) /\ b # Unmapped
      BY <1>3, <1>6, Constants DEF Sound
    <3>2. CASE f = c.file
      <4>1. Live(ino, c, l)[f] = l.ino
        BY <1>3, <3>2 DEF Live
      <4>2. PICK x : x = ino[f]
        OBVIOUS
      <4>3. WriteOK(x, d, fr, written[c.file].bytes, c, l)
        BY <1>3, <3>2, <4>2 DEF Sound
      <4>4. \A k \in MapIndex : x.map[k] # Unmapped => l.ino.map[k] = x.map[k]
        BY <4>3 DEF WriteOK
      <4>5. \A k \in MapIndex : l.ino.map[k] # b
        BY <1>5, <3>1, <4>1 DEF Disjoint
      <4> QED
        BY <3>1, <4>2, <4>4, <4>5 DEF Lacks
    <3>3. CASE f # c.file
      <4>1. Live(ino, c, l)[f] = ino[f]
        BY <1>3, <3>3 DEF Live
      <4>2. \A k \in MapIndex : ino[f].map[k] # b
        BY <1>5, <3>1, <4>1 DEF Disjoint
      <4> QED
        BY <3>1, <4>2 DEF Lacks
    <3> QED
      BY <3>2, <3>3
  <2>3. PICK e, block : e = data' /\ IsPut(d, e, b, block)
    BY <1>2, <2>1 DEF IsPut
  <2>4. SameFiles(ino, d, e)
    <3>1. SUFFICES ASSUME NEW f \in File, NEW i \in Index
                   PROVE  ByteOf(ino[f], e, i) = ByteOf(ino[f], d, i)
      BY DEF SameFiles
    <3>2. PICK x \in InodeType : x = ino[f]
      OBVIOUS
    <3>3. i \in Nat /\ Lacks(x, b)
      BY <2>2, <3>2, Constants DEF Index
    <3>4. ByteOf(x, e, i) = ByteOf(x, d, i)
      BY <2>3, <3>3, SameBytes
    <3> QED
      BY <3>2, <3>4
  <2>5. SameFiles(inode, data, data') /\ free' \in SUBSET free
    BY <1>2, <1>6, <2>3, <2>4
  <2> QED
    BY <1>1, <2>1, <2>5, WriteFailsKept
<1> QED
  BY <1>9, <1>10

LEMMA WriteEndKept ==
    ASSUME FileInv, OneThread, Kept, NEW t \in Thread, WriteEnd(t)
    PROVE  Kept'
<1>1. PICK c \in Call, l \in LocalType :
         /\ c = call[t] /\ l = loc[t] /\ c.op = "write" /\ l.pc = "turn"
         /\ Sound(inode, data, free, written, c, l)
  BY KeptHere DEF WriteEnd
<1>2. PICK ino \in [File -> InodeType], d \in [Block -> BlockType] :
         ino = inode /\ d = data
  BY DEF FileInv
<1>3. InWrite(c, l) /\ l.rest = 0
  BY <1>1 DEF InWrite, WriteEnd
<1>4. PICK next, v : next = inode' /\ v = written'
  OBVIOUS
<1>5. IsWritten(next, v, ino, written, c, Grown(l))
  BY <1>1, <1>2, <1>4 DEF IsWritten, WriteEnd
<1>6. Settled(next, d, free, v)
  BY <1>1, <1>2, <1>3, <1>5, EndSound
<1>7. UNCHANGED <<data, free>> /\ Return(t, Answer(c.n, <<>>))
  BY <1>1 DEF WriteEnd
<1>8. Settled(inode', data', free', written')
  BY <1>2, <1>4, <1>6, <1>7
<1> QED
  BY <1>7, <1>8, ReturnKept

LEMMA ReadTurnKept ==
    ASSUME FileInv, OneThread, Kept, NEW t \in Thread, ReadTurn(t)
    PROVE  Kept'
<1>1. PICK c \in Call, l \in LocalType :
         /\ c = call[t] /\ l = loc[t] /\ c.op = "read" /\ l.pc = "turn"
         /\ LocalOK(l, c) /\ Sound(inode, data, free, written, c, l)
  BY KeptHere DEF ReadTurn
<1>2. At(t, "turn", "read") /\ loc[t].rest > 0 /\ ~ AtEnd(loc[t]) /\ LocalOK(loc[t], call[t])
  BY <1>1 DEF ReadTurn
<1>3. PICK n : n = ToCopy(t)
  OBVIOUS
<1>4. /\ n \in Nat \ {0} /\ n <= l.rest /\ l.at + n <= BlockSize
      /\ l.pos = l.ino.numBlocks => l.at + n <= l.ino.used
  BY <1>1, <1>2, <1>3, ToCopyFits
<1>5. PICK copied : copied = [k \in 1..n |-> IF GetIthBlock(l.ino, l.pos) = Unmapped THEN 0
                                    ELSE data[GetIthBlock(l.ino, l.pos)][l.at + k - 1]]
  OBVIOUS
<1>6. IsCopied(copied, l.ino, data, l, n)
  BY <1>5 DEF IsCopied
<1>7. PICK k \in LocalType : k = Advanced(l, n) /\ IsAdvance(l, k, n) /\ k.ino = l.ino /\ k.buf = l.buf
  BY <1>4, AdvancedIsAdvance, AdvancedFacts
<1>8. PICK m : m = [k EXCEPT !.buf = @ \o copied]
  OBVIOUS
<1>9. loc' = [loc EXCEPT ![t] = m] /\ UNCHANGED <<inode, data, free, call, written>>
  BY <1>1, <1>3, <1>5, <1>7, <1>8 DEF ReadTurn
<1>10. m \in LocalType
  <2>1. FileInv'
    BY ReadTurnStep
  <2>2. loc'[t] \in LocalType
    BY <2>1 DEF FileInv, LocalType, InodeType, Block
  <2> QED
    BY <1>9, <2>2 DEF FileInv
<1>11. /\ m.pc = k.pc /\ m.rest = k.rest /\ m.at = k.at /\ m.pos = k.pos /\ m.ino = k.ino
       /\ m.buf = l.buf \o copied
  BY <1>7, <1>8 DEF LocalType
<1>12. IsReadTurn(data, l, m, n)
  BY <1>4, <1>6, <1>7, <1>11 DEF IsReadTurn, IsAdvance
<1>13. Sound(inode, data, free, written, c, m)
  <2>1. inode \in [File -> InodeType] /\ data \in [Block -> BlockType]
    BY DEF FileInv
  <2>2. InRead(c, l)
    BY <1>1 DEF InRead
  <2> QED
    BY <1>1, <1>10, <1>12, <2>1, <2>2, ReadTurnSound
<1>14. Sound(inode', data', free', written', c, m)
  BY <1>9, <1>13
<1>15. call' = [call EXCEPT ![t] = c]
  BY <1>1, <1>9 DEF FileInv
<1> QED
  BY <1>9, <1>14, <1>15, KeptFrame

LEMMA ReadReachesEndKept ==
    ASSUME FileInv, OneThread, Kept, NEW t \in Thread, ReadReachesEnd(t)
    PROVE  Kept'
<1>1. PICK c \in Call, l \in LocalType :
         /\ c = call[t] /\ l = loc[t] /\ c.op = "read"
         /\ Sound(inode, data, free, written, c, l)
  BY KeptHere DEF ReadReachesEnd
<1>2. Settled(inode, data, free, written)
  BY <1>1, SettledIfNoWrite DEF InWrite
<1>3. UNCHANGED <<inode, data, free, written>>
  BY DEF ReadReachesEnd
<1>4. Settled(inode', data', free', written')
  BY <1>2, <1>3
<1> QED
  BY <1>4, ReturnKept DEF ReadReachesEnd

LEMMA ReadEndKept ==
    ASSUME FileInv, OneThread, Kept, NEW t \in Thread, ReadEnd(t)
    PROVE  Kept' /\ inode' = inode
<1>1. PICK c \in Call, l \in LocalType :
         /\ c = call[t] /\ l = loc[t] /\ c.op = "read" /\ l.pc = "turn"
         /\ Sound(inode, data, free, written, c, l)
  BY KeptHere DEF ReadEnd
<1>2. Settled(inode, data, free, written)
  BY <1>1, SettledIfNoWrite DEF InWrite
<1>3. l.ino = inode[c.file]
  <2>1. InRead(c, l)
    BY <1>1 DEF InRead
  <2> QED
    BY <1>1, <2>1 DEF Sound, ReadOK
<1>4. inode' = inode
  BY <1>1, <1>3 DEF ReadEnd, FileInv
<1>5. UNCHANGED <<data, free, written>>
  BY DEF ReadEnd
<1>6. Settled(inode', data', free', written')
  BY <1>2, <1>4, <1>5
<1> QED
  BY <1>4, <1>6, ReturnKept DEF ReadEnd

LEMMA InitKept == Init => Kept
<1> SUFFICES ASSUME Init PROVE Kept
  OBVIOUS
<1>1. FileInv
  BY InitFileInv
<1>2. \A f \in File : inode[f] = EmptyInode
  BY DEF Init
<1>3. ASSUME NEW f \in File
      PROVE  /\ written[f] = [size |-> 0, bytes |-> Bytes(f)]
             /\ written[f].size = 0 /\ written[f].bytes = Bytes(f)
  <2>1. PICK bytes : bytes = Bytes(f)
    OBVIOUS
  <2>2. written[f] = [size |-> 0, bytes |-> bytes]
    BY <2>1 DEF Init
  <2>3. written[f].size = 0 /\ written[f].bytes = bytes
    BY <2>2
  <2> QED
    BY <2>1, <2>2, <2>3
<1>4. \A f \in File : written[f].size = SizeInBytes(inode[f])
  <2>1. SizeInBytes(EmptyInode) = 0
    BY DEF SizeInBytes, EmptyInode
  <2> QED
    BY <1>2, <1>3, <2>1
<1>5. \A f \in File, i \in Index : ByteOf(inode[f], data, i) = Content(f, i)
  BY DEF ByteOf, Content
<1>6. \A f \in File : Bytes(f) = [i \in Index |-> ByteOf(inode[f], data, i)]
  BY <1>5 DEF Bytes, Index
<1>7. \A f \in File : \A i \in Index : written[f].bytes[i] = ByteOf(inode[f], data, i)
  <2>1. SUFFICES ASSUME NEW f \in File, NEW i \in Index
                 PROVE  written[f].bytes[i] = ByteOf(inode[f], data, i)
    OBVIOUS
  <2>2. written[f].bytes = Bytes(f)
    BY <1>3
  <2>3. Bytes(f)[i] = ByteOf(inode[f], data, i)
    BY <1>6
  <2> QED
    BY <2>2, <2>3
<1>8. written \in [File -> WrittenType]
  <2>1. \A f \in File : \A i \in Index : ByteOf(inode[f], data, i) \in Byte \cup {0}
    <3>1. SUFFICES ASSUME NEW f \in File, NEW i \in Index
                   PROVE  ByteOf(inode[f], data, i) \in Byte \cup {0}
      OBVIOUS
    <3>2. i \in Nat
      BY Constants DEF Index
    <3>3. PICK x \in InodeType, d \in [Block -> BlockType] : x = inode[f] /\ d = data
      BY <1>1 DEF FileInv
    <3> QED
      BY <3>2, <3>3, ByteTyped
  <2>2. ASSUME NEW f \in File PROVE Bytes(f) \in [Index -> Byte \cup {0}]
    <3>1. Bytes(f) = [i \in Index |-> ByteOf(inode[f], data, i)]
      BY <1>6
    <3> QED
      BY <2>1, <3>1
  <2>3. ASSUME NEW f \in File PROVE written[f] \in WrittenType
    <3>1. PICK bytes : bytes = Bytes(f)
      OBVIOUS
    <3>2. written[f] = [size |-> 0, bytes |-> bytes] /\ bytes \in [Index -> Byte \cup {0}]
      BY <1>3, <2>2, <3>1
    <3> QED
      BY <3>2 DEF WrittenType
  <2>4. written = [f \in File |-> [size |-> 0, bytes |-> Bytes(f)]]
    BY DEF Init
  <2> QED
    BY <2>3, <2>4
<1>9. Disjoint(inode, free)
  <2>1. \A f \in File, k \in MapIndex : inode[f].map[k] = Unmapped
    <3>1. \A k \in MapIndex : EmptyInode.map[k] = Unmapped
      BY DEF EmptyInode, MapIndex
    <3> QED
      BY <1>2, <3>1
  <2>2. Unmapped \notin free
    BY Constants DEF Init
  <2> QED
    BY <2>1, <2>2 DEF Disjoint
<1>10. Settled(inode, data, free, written)
  BY <1>4, <1>7, <1>8, <1>9 DEF Settled
<1>11. \A t \in Thread : loc[t].pc = "idle"
  BY DEF Init, Idle
<1>12. ASSUME NEW t \in Thread
       PROVE  Sound(inode, data, free, written, call[t], loc[t])
  BY <1>10, <1>11, SettledIsSound
<1> QED
  BY <1>12 DEF Kept

LEMMA NextKept ==
    ASSUME OneThread, FileInv, Kept, [Next]_vars
    PROVE  Kept'
<1>1. CASE UNCHANGED vars
  <2>1. UNCHANGED <<inode, data, free, written, call, loc>>
    BY <1>1 DEF vars
  <2>2. \A u \in Thread : Sound(inode, data, free, written, call[u], loc[u])
    BY DEF Kept
  <2>3. \A u \in Thread : Sound(inode', data', free', written', call'[u], loc'[u])
    BY <2>1, <2>2
  <2> QED
    BY <2>3, SoundEverywhere
<1>2. ASSUME NEW t \in Thread, Begin(t) \/ Step(t) PROVE Kept'
  <2>1. CASE Begin(t)
    BY <2>1, BeginKept
  <2>2. CASE ReadStart(t)
    BY <2>2, ReadStartKept
  <2>3. CASE ReadTurn(t)
    BY <2>3, ReadTurnKept
  <2>4. CASE ReadReachesEnd(t)
    BY <2>4, ReadReachesEndKept
  <2>5. CASE ReadEnd(t)
    BY <2>5, ReadEndKept
  <2>6. CASE WriteStart(t)
    BY <2>6, WriteStartKept
  <2>7. CASE WriteTurn(t)
    BY <2>7, WriteTurnKept
  <2>8. CASE AllocRead(t)
    BY <2>8, AllocReadKept
  <2>9. CASE AllocFull(t)
    BY <2>9, AllocFullKept
  <2>10. CASE AllocWrite(t)
    BY <2>10, AllocWriteKept
  <2>11. CASE WriteEnd(t)
    BY <2>11, WriteEndKept
  <2> QED
    BY <1>2, <2>1, <2>2, <2>3, <2>4, <2>5, <2>6, <2>7, <2>8, <2>9, <2>10, <2>11 DEF Step
<1> QED
  BY <1>1, <1>2 DEF Next

LEMMA KeptInvariant == ASSUME OneThread PROVE Spec => [](FileInv /\ Kept)
<1>1. Init => FileInv /\ Kept
  BY InitFileInv, InitKept
<1>2. (FileInv /\ Kept) /\ [Next]_vars => (FileInv /\ Kept)'
  <2>1. FileInv /\ Kept /\ [Next]_vars => FileInv'
    BY NextFileInv
  <2>2. FileInv /\ Kept /\ [Next]_vars => Kept'
    BY NextKept
  <2> QED
    BY <2>1, <2>2
<1> QED
  BY <1>1, <1>2, PTL DEF Spec

\* As long as calls do not overlap, every byte that a write has returned for stays
\* in its file and no other byte changes: not by a later read that puts its copy of
\* the inode back, and not by writes to other files that take blocks.  A write that
\* fails half way may leave its byte at some of its own offsets, and changes neither
\* another byte of any file nor a size.
THEOREM WritesStay == ASSUME OneThread PROVE Spec => []WrittenStays
<1>1. FileInv /\ Kept => WrittenStays
  <2> SUFFICES ASSUME FileInv, Kept, \A t \in Thread : call[t] = NoCall, NEW f \in File
               PROVE  written[f].size = SizeInBytes(inode[f]) /\ written[f].bytes = Bytes(f)
    BY DEF WrittenStays
  <2>1. PICK t \in Thread : call[t] = NoCall
    BY DEF OneThread
  <2>2. Sound(inode, data, free, written, NoCall, loc[t])
    BY <2>1 DEF Kept
  <2>3. Settled(inode, data, free, written)
    BY <2>2, CallFacts, SettledIfNoWrite DEF InWrite
  <2>4. \A i \in Index : written[f].bytes[i] = Content(f, i)
    BY <2>3 DEF Settled, ByteOf, Content
  <2>5. written[f].bytes \in [Index -> Byte \cup {0}]
    BY <2>3 DEF Settled, WrittenType
  <2>6. written[f].bytes = Bytes(f)
    BY <2>4, <2>5 DEF Bytes, Index
  <2> QED
    BY <2>3, <2>6 DEF Settled
<1> QED
  BY <1>1, KeptInvariant, PTL

-----------------------------------------------------------------------------
(* The view as a FlatFile *)

LEMMA CallerIs ==
    ASSUME OneThread, NEW t \in Thread
    PROVE  Caller = t
BY DEF OneThread, Caller

\* The byte of a file whose bytes are these, and a row of them from the offset of
\* call c to end.
ByteIn(bytes, i) == IF i \in DOMAIN bytes THEN bytes[i] ELSE 0

Row(bytes, c, end) ==
    [k \in 1..Max({0, end - c.offset}) |-> ByteIn(bytes, c.offset + k - 1)]

LEMMA FlatRow ==
    ASSUME NEW t \in Thread, Caller = t, NEW c \in Call, c = call[t], NEW end
    PROVE  Flat!BytesUpTo(end) = Row(written[c.file].bytes, c, end)
<1>1. c.file \in File /\ call[Caller] = c
  BY CallFacts
<1>2. [f \in File |-> written[f].bytes][c.file] = written[c.file].bytes
  BY <1>1
<1> QED
  BY <1>1, <1>2 DEF Flat!BytesUpTo, Flat!ByteAt, Row, ByteIn, Flat!Max, Max

\* The return of a read with this row in its buffer.
LEMMA FlatReturned ==
    ASSUME OneThread, FileInv, DOMAIN reply = Thread, NEW t \in Thread, NEW row,
           Return(t, Answer(Len(row), row))
    PROVE  Flat!Returned(row)
<1>1. Caller = t
  BY CallerIs
<1>2. call'[t] = NoCall /\ reply'[t] = Answer(Len(row), row)
  BY DEF Return, FileInv
<1> QED
  BY <1>1, <1>2 DEF Flat!Returned, Flat!Return, Flat!NoCall, Flat!Answer, NoCall, Answer, Caller

\* The view of the history does not change.
LEMMA FlatUnchanged ==
    ASSUME written' = written
    PROVE  UNCHANGED <<[f \in File |-> written[f].size], [f \in File |-> written[f].bytes]>>
OBVIOUS

\* Past the map there are only zeros.
LEMMA BytesBeyond ==
    ASSUME NEW x \in InodeType, NEW d, NEW i \in Nat, i \notin Index
    PROVE  ByteOf(x, d, i) = 0
<1>1. PICK q \in Nat, r \in 0..BlockSize - 1 : q = IndexOf(i) /\ i = q * BlockSize + r
  BY OffsetIs
<1>2. EndOfMap \in Nat /\ BlockSize \in Nat \ {0}
  BY Constants
<1>3. q \notin MapIndex
  <2>1. SUFFICES ASSUME q < EndOfMap PROVE FALSE
    BY <1>2 DEF MapIndex
  <2>2. PICK j \in Nat, s \in Nat : j = q * BlockSize /\ s = EndOfMap * BlockSize
    BY <1>2, ProductNat
  <2>3. (q + 1) * BlockSize <= EndOfMap * BlockSize
    BY <1>2, <2>1, ProductMonotone
  <2>4. (q + 1) * BlockSize = j + BlockSize
    BY <1>2, <2>2
  <2>5. i < s
    BY <1>1, <1>2, <2>2, <2>3, <2>4
  <2> QED
    BY <2>2, <2>5 DEF Index
<1>4. BlockOf(x, q) = Unmapped
  BY <1>3, BlockFacts
<1> QED
  BY <1>1, <1>4 DEF ByteOf, BlockOf, IndexOf

LEMMA ByteInIs ==
    ASSUME NEW ino \in [File -> InodeType], NEW d, NEW fr, NEW w, Settled(ino, d, fr, w),
           NEW f \in File, NEW i \in Nat
    PROVE  ByteIn(w[f].bytes, i) = ByteOf(ino[f], d, i)
<1>1. DOMAIN w[f].bytes = Index
  BY DEF Settled, WrittenType
<1>2. CASE i \in Index
  BY <1>1, <1>2 DEF ByteIn, Settled
<1>3. CASE i \notin Index
  <2>1. PICK x \in InodeType : x = ino[f]
    OBVIOUS
  <2>2. ByteOf(x, d, i) = 0
    BY <1>3, BytesBeyond
  <2> QED
    BY <1>1, <1>3, <2>1, <2>2 DEF ByteIn
<1> QED
  BY <1>2, <1>3

LEMMA EmptyRow ==
    ASSUME NEW T, NEW s \in [1..0 -> T]
    PROVE  s = <<>>
<1>1. s \in Seq(T) /\ Len(s) = 0
  OBVIOUS
<1> QED
  BY <1>1

LEMMA SequenceIsRow ==
    ASSUME NEW T, NEW s \in Seq(T)
    PROVE  s = [k \in 1..Len(s) |-> s[k]]
<1>1. s \in [1..Len(s) -> T]
  OBVIOUS
<1> QED
  BY <1>1

\* What a read has in its buffer is the row of the bytes that it has reached.
LEMMA BufferIsRow ==
    ASSUME NEW ino \in [File -> InodeType], NEW d, NEW fr, NEW w, NEW c \in Call,
           NEW l \in LocalType, Sound(ino, d, fr, w, c, l), InRead(c, l)
    PROVE  \E bytes : bytes = w[c.file].bytes /\ l.buf = Row(bytes, c, Reached(l))
<1>1. c.file \in File /\ c.offset \in Nat /\ c.n \in Nat
  BY CallFacts
<1>2. PICK x \in InodeType : x = ino[c.file]
  BY <1>1
<1>3. Settled(ino, d, fr, w)
  <2>1. ~ InWrite(c, l)
    BY DEF InRead, InWrite
  <2> QED
    BY <2>1, SettledIfNoWrite
<1>4. ReadOK(x, d, c, l) /\ Progress(c, l)
  BY <1>2 DEF Sound
<1>5. PICK n \in Nat : n = Len(l.buf) /\ n = c.n - l.rest /\ Reached(l) = c.offset + n
  <2>1. l.rest <= c.n /\ Reached(l) = c.offset + (c.n - l.rest)
    BY <1>4 DEF Progress, InRead
  <2>2. Len(l.buf) = c.n - l.rest
    BY <1>4 DEF ReadOK
  <2> QED
    BY <1>1, <2>1, <2>2, LocalFacts
<1>6. Max({0, Reached(l) - c.offset}) = n
  <2>1. Reached(l) - c.offset = n
    BY <1>1, <1>5
  <2>2. Max({0, n}) = IF 0 >= n THEN 0 ELSE n
    BY MaxOfTwo
  <2> QED
    BY <2>1, <2>2
<1>7. ASSUME NEW k \in 1..n
      PROVE  l.buf[k] = ByteIn(w[c.file].bytes, c.offset + k - 1)
  <2>1. PICK i \in Nat : i = c.offset + k - 1
    BY <1>1
  <2>2. ByteIn(w[c.file].bytes, i) = ByteOf(x, d, i)
    BY <1>1, <1>2, <1>3, ByteInIs
  <2>3. l.buf[k] = ByteOf(x, d, i)
    BY <1>4, <1>5, <2>1 DEF ReadOK
  <2> QED
    BY <2>1, <2>2, <2>3
<1>8. l.buf = [k \in 1..n |-> l.buf[k]]
  <2>1. PICK s \in Seq(Byte \cup {0}) : s = l.buf
    BY LocalFacts
  <2>2. s = [k \in 1..Len(s) |-> s[k]]
    BY SequenceIsRow
  <2> QED
    BY <1>5, <2>1, <2>2
<1>9. PICK bytes : bytes = w[c.file].bytes
  OBVIOUS
<1>10. l.buf = Row(bytes, c, Reached(l))
  BY <1>6, <1>7, <1>8, <1>9 DEF Row
<1> QED
  BY <1>9, <1>10

\* Steps that end no call leave the view as it is.
LEMMA FlatStutter ==
    ASSUME UNCHANGED <<call, reply, written>>
    PROVE  UNCHANGED Flat!flatVars
BY DEF Flat!flatVars, Caller

LEMMA FlatBegin ==
    ASSUME OneThread, FileInv, DOMAIN reply = Thread, NEW t \in Thread, Begin(t)
    PROVE  Flat!FlatNext
<1>1. Caller = t
  BY CallerIs
<1>2. PICK c \in Call : call' = [call EXCEPT ![t] = c]
  BY DEF Begin
<1>3. call[t] = NoCall /\ call'[t] = c /\ reply'[t] = NoAnswer /\ written' = written
  BY <1>2 DEF Begin, FileInv
<1>4. Flat!Begin
  BY <1>1, <1>3, FlatUnchanged
     DEF Flat!Begin, Flat!NoCall, NoCall, Flat!NoAnswer, NoAnswer, Flat!Answer, Answer, Caller,
         Call
<1> QED
  BY <1>4 DEF Flat!FlatNext

LEMMA ToIntSmall ==
    ASSUME NEW x \in Nat, x <= IntMax
    PROVE  ToInt(x) = x
<1>1. PICK m \in Nat \ {0} : m = IntMax + 1
  BY FileAssumption
<1>2. PICK w \in Nat \ {0} : w = 2 * m
  BY <1>1
<1>3. PICK y \in Nat : y = x + m
  BY <1>1
<1>4. y <= w /\ y # w
  BY <1>1, <1>2, <1>3, FileAssumption
<1>5. y % w = y
  BY <1>4, ModSmall
<1>6. ToInt(x) = (y % w) - m
  <2>1. x + IntMax + 1 = y /\ 2 * (IntMax + 1) = w /\ IntMax + 1 = m
    BY <1>1, <1>2, <1>3, FileAssumption
  <2> QED
    BY <2>1, Zenon DEF ToInt
<1> QED
  BY <1>1, <1>3, <1>5, <1>6

\* A read that starts at or past the end, or seems to.
LEMMA FlatReadStart ==
    ASSUME OneThread, FileInv, Kept, DOMAIN reply = Thread, NEW t \in Thread, ReadStart(t)
    PROVE  Flat!FlatNext \/ UNCHANGED Flat!flatVars
<1>1. PICK c \in Call, l \in LocalType :
         /\ c = call[t] /\ l = loc[t] /\ c.op = "read" /\ l.pc = "start"
         /\ Sound(inode, data, free, written, c, l)
  BY KeptHere DEF ReadStart
<1>2. Caller = t /\ c.file \in File /\ c.offset \in Nat /\ c.n \in Nat
  BY CallerIs, CallFacts
<1>3. UNCHANGED <<inode, data, free, written>>
  BY DEF ReadStart
<1>4. CASE UNCHANGED call
  <2>1. UNCHANGED reply
    BY <1>1, <1>4, CallFacts DEF ReadStart, Return, FileInv
  <2> QED
    BY <1>3, <1>4, <2>1, FlatStutter
<1>5. CASE ~ UNCHANGED call
  <2>1. Return(t, NoAnswer) /\ call[t].offset >= GetSizeOfFile(inode[call[t].file])
    BY <1>5 DEF ReadStart
  <2>2. PICK row : row = <<>>
    OBVIOUS
  <2>3. Return(t, Answer(Len(row), row))
    <3>1. Len(row) = 0
      BY <2>2
    <3>2. Answer(Len(row), row) = NoAnswer
      BY <2>2, <3>1 DEF NoAnswer
    <3> QED
      BY <2>1, <3>2
  <2>4. Flat!Returned(row)
    BY <2>3, FlatReturned
  <2>5. PICK x \in InodeType : x = inode[c.file]
    BY <1>2 DEF FileInv
  <2>6. PICK size \in Nat : size = SizeInBytes(x)
    BY SizeFacts
  <2>7. written[c.file].size = size
    BY <1>1, <1>2, <2>5, <2>6 DEF Sound
  <2>8. [f \in File |-> written[f].size][c.file] = size
    BY <1>2, <2>7
  <2>9. c.offset >= ToInt(size)
    BY <1>1, <2>1, <2>5, <2>6 DEF GetSizeOfFile
  <2>10. CASE size > IntMax
    <3>1. Flat!ReadNothing
      BY <1>1, <1>2, <1>3, <2>2, <2>4, <2>8, <2>10, FlatUnchanged DEF Flat!ReadNothing
    <3> QED
      BY <3>1 DEF Flat!FlatNext
  <2>11. CASE ~ (size > IntMax)
    <3>1. c.offset >= size
      BY <2>9, <2>11, ToIntSmall, FileAssumption
    <3>2. PICK end \in Int : end = Min({c.offset + c.n, size}) /\ end <= size
      <4>1. Min({c.offset + c.n, size}) = IF c.offset + c.n <= size THEN c.offset + c.n ELSE size
        BY <1>2, MinOfTwo
      <4> QED
        BY <1>2, <4>1
    <3>3. Row(written[c.file].bytes, c, end) = row
      <4>1. PICK k \in Int : k = end - c.offset /\ k <= 0
        BY <1>2, <3>1, <3>2
      <4>2. Max({0, k}) = 0
        BY <4>1, MaxOfTwo
      <4>3. PICK r : r = Row(written[c.file].bytes, c, end)
        OBVIOUS
      <4>4. r = [j \in 1..0 |-> ByteIn(written[c.file].bytes, c.offset + j - 1)]
        BY <4>1, <4>2, <4>3 DEF Row
      <4>5. r \in [1..0 -> Nat]
        BY <4>4
      <4>6. r = <<>>
        BY <4>5, EmptyRow
      <4> QED
        BY <2>2, <4>3, <4>6
    <3>4. Flat!BytesUpTo(end) = row
      BY <1>1, <1>2, <3>3, FlatRow
    <3>5. Flat!Min({Flat!End, [f \in File |-> written[f].size][call[Caller].file]}) = end
      BY <1>1, <1>2, <2>8, <3>2 DEF Flat!End, Flat!Min, Min
    <3>6. Flat!Read
      BY <1>1, <1>2, <1>3, <2>4, <3>4, <3>5, FlatUnchanged DEF Flat!Read
    <3> QED
      BY <3>6 DEF Flat!FlatNext
  <2> QED
    BY <2>10, <2>11
<1> QED
  BY <1>4, <1>5

\* The read c with locals l where it may return: the bytes reached, and the size.
LEMMA ReadReached ==
    ASSUME NEW ino \in [File -> InodeType], NEW d, NEW fr, NEW w, NEW c \in Call,
           NEW l \in LocalType, Sound(ino, d, fr, w, c, l), InRead(c, l)
    PROVE  \E x \in InodeType : \E p \in Nat, j \in Nat, size \in Nat :
              /\ x = ino[c.file] /\ l.ino = x
              /\ p = l.pos - 1 /\ l.pos = p + 1 /\ j = p * BlockSize
              /\ Reached(l) = j + l.at
              /\ Reached(l) = c.offset + (c.n - l.rest) /\ l.rest <= c.n
              /\ size = SizeInBytes(x) /\ size = w[c.file].size
              /\ c.offset < size
              /\ x.numBlocks # 0
              /\ l.pos > x.numBlocks => x.used = BlockSize
<1>1. c.file \in File /\ c.offset \in Nat /\ c.n \in Nat
  BY CallFacts
<1>2. PICK x \in InodeType : x = ino[c.file]
  BY <1>1
<1>3. ReadOK(x, d, c, l) /\ Progress(c, l)
  BY <1>2 DEF Sound
<1>4. l.pos \in Nat \ {0} /\ l.rest <= c.n /\ Reached(l) = c.offset + (c.n - l.rest)
  BY <1>3 DEF Progress, InRead
<1>5. PICK p \in Nat : p = l.pos - 1 /\ l.pos = p + 1
  <2>1. l.pos - 1 \in Nat /\ l.pos = (l.pos - 1) + 1
    BY <1>4
  <2> QED
    BY <2>1
<1>6. PICK j \in Nat : j = p * BlockSize
  BY Constants, ProductNat
<1>7. Reached(l) = j + l.at
  BY <1>5, <1>6 DEF Reached
<1>8. PICK size \in Nat : size = SizeInBytes(x)
  BY SizeFacts
<1>9. size = w[c.file].size
  BY <1>1, <1>2, <1>8 DEF Sound
<1>10. l.ino = x /\ c.offset < size /\ (l.pos > x.numBlocks => x.used = BlockSize)
  BY <1>3, <1>8 DEF ReadOK
<1>11. x.numBlocks # 0
  <2>1. SUFFICES ASSUME x.numBlocks = 0 PROVE FALSE
    OBVIOUS
  <2>2. size = 0
    BY <1>8, <2>1 DEF SizeInBytes
  <2> QED
    BY <1>1, <1>10, <2>2
<1> QED
  BY <1>2, <1>4, <1>5, <1>6, <1>7, <1>8, <1>9, <1>10, <1>11

\* A read that has found the end answers all bytes up to it.
LEMMA FlatReadReachesEnd ==
    ASSUME OneThread, FileInv, Kept, DOMAIN reply = Thread, NEW t \in Thread,
           ReadReachesEnd(t)
    PROVE  Flat!FlatNext
<1>1. PICK c \in Call, l \in LocalType :
         /\ c = call[t] /\ l = loc[t] /\ c.op = "read" /\ l.pc = "turn"
         /\ Sound(inode, data, free, written, c, l)
  BY KeptHere DEF ReadReachesEnd
<1>2. Caller = t /\ c.file \in File /\ c.offset \in Nat /\ c.n \in Nat
  BY CallerIs, CallFacts
<1>3. UNCHANGED <<inode, data, free, written>> /\ inode \in [File -> InodeType]
  BY DEF ReadReachesEnd, FileInv
<1>4. InRead(c, l)
  BY <1>1 DEF InRead
<1>5. PICK x \in InodeType : \E p \in Nat, j \in Nat, size \in Nat :
         /\ x = inode[c.file] /\ l.ino = x
         /\ p = l.pos - 1 /\ l.pos = p + 1 /\ j = p * BlockSize
         /\ Reached(l) = j + l.at
         /\ Reached(l) = c.offset + (c.n - l.rest) /\ l.rest <= c.n
         /\ size = SizeInBytes(x) /\ size = written[c.file].size
         /\ x.numBlocks # 0
  BY <1>1, <1>3, <1>4, ReadReached
<1>6. PICK p \in Nat, j \in Nat, size \in Nat :
         /\ x = inode[c.file] /\ l.ino = x
         /\ p = l.pos - 1 /\ l.pos = p + 1 /\ j = p * BlockSize
         /\ Reached(l) = j + l.at
         /\ Reached(l) = c.offset + (c.n - l.rest) /\ l.rest <= c.n
         /\ size = SizeInBytes(x) /\ size = written[c.file].size
         /\ x.numBlocks # 0
  BY <1>5
<1>7. l.pos = x.numBlocks /\ l.at = x.used
  BY <1>1, <1>6 DEF ReadReachesEnd, AtEnd
<1>8. Reached(l) = size
  <2>1. size = (x.numBlocks - 1) * BlockSize + x.used
    BY <1>6 DEF SizeInBytes
  <2> QED
    BY <1>6, <1>7, <2>1
<1>9. size <= c.offset + c.n
  BY <1>2, <1>6, <1>8, LocalFacts
<1>10. Min({c.offset + c.n, size}) = size
  <2>1. PICK e \in Nat : e = c.offset + c.n
    BY <1>2
  <2>2. Min({e, size}) = IF e <= size THEN e ELSE size
    BY MinOfTwo
  <2> QED
    BY <1>9, <2>1, <2>2
<1>11. PICK row : row = l.buf
  OBVIOUS
<1>12. row = Row(written[c.file].bytes, c, size)
  <2>1. \E bytes : bytes = written[c.file].bytes /\ l.buf = Row(bytes, c, Reached(l))
    BY <1>1, <1>3, <1>4, BufferIsRow
  <2> QED
    BY <1>8, <1>11, <2>1
<1>13. Flat!Returned(row)
  <2>1. Return(t, Answer(Len(row), row))
    BY <1>1, <1>11 DEF ReadReachesEnd
  <2> QED
    BY <2>1, FlatReturned
<1>14. Flat!BytesUpTo(size) = row
  BY <1>1, <1>2, <1>12, FlatRow
<1>15. Flat!Min({Flat!End, [f \in File |-> written[f].size][call[Caller].file]}) = size
  BY <1>1, <1>2, <1>6, <1>10 DEF Flat!End, Flat!Min, Min
<1>16. Flat!Read
  BY <1>1, <1>2, <1>3, <1>13, <1>14, <1>15, FlatUnchanged DEF Flat!Read
<1> QED
  BY <1>16 DEF Flat!FlatNext

\* A read that has its n bytes: they end within the file, or the last block is full.
LEMMA FlatReadEnd ==
    ASSUME OneThread, FileInv, Kept, DOMAIN reply = Thread, NEW t \in Thread, ReadEnd(t)
    PROVE  Flat!FlatNext
<1>1. PICK c \in Call, l \in LocalType :
         /\ c = call[t] /\ l = loc[t] /\ c.op = "read" /\ l.pc = "turn"
         /\ LocalOK(l, c) /\ Sound(inode, data, free, written, c, l)
  BY KeptHere DEF ReadEnd
<1>2. Caller = t /\ c.file \in File /\ c.offset \in Nat /\ c.n \in Nat
  BY CallerIs, CallFacts
<1>3. written' = written /\ l.rest = 0 /\ inode \in [File -> InodeType]
  BY <1>1 DEF ReadEnd, FileInv
<1>4. InRead(c, l)
  BY <1>1 DEF InRead
<1>5. PICK x \in InodeType : \E p \in Nat, j \in Nat, size \in Nat :
         /\ x = inode[c.file] /\ l.ino = x
         /\ p = l.pos - 1 /\ l.pos = p + 1 /\ j = p * BlockSize
         /\ Reached(l) = j + l.at
         /\ Reached(l) = c.offset + (c.n - l.rest)
         /\ size = SizeInBytes(x) /\ size = written[c.file].size
         /\ c.offset < size
         /\ x.numBlocks # 0
         /\ l.pos > x.numBlocks => x.used = BlockSize
  BY <1>1, <1>3, <1>4, ReadReached
<1>6. PICK p \in Nat, j \in Nat, size \in Nat :
         /\ x = inode[c.file] /\ l.ino = x
         /\ p = l.pos - 1 /\ l.pos = p + 1 /\ j = p * BlockSize
         /\ Reached(l) = j + l.at
         /\ Reached(l) = c.offset + (c.n - l.rest)
         /\ size = SizeInBytes(x) /\ size = written[c.file].size
         /\ c.offset < size
         /\ x.numBlocks # 0
         /\ l.pos > x.numBlocks => x.used = BlockSize
  BY <1>5
<1>7. PICK end \in Nat : end = c.offset + c.n /\ Reached(l) = end
  <2>1. c.offset + (c.n - l.rest) = c.offset + c.n
    BY <1>2, <1>3
  <2> QED
    BY <1>2, <1>6, <2>1
<1>8. PICK row : row = l.buf
  OBVIOUS
<1>9. row = Row(written[c.file].bytes, c, end)
  <2>1. \E bytes : bytes = written[c.file].bytes /\ l.buf = Row(bytes, c, Reached(l))
    BY <1>1, <1>3, <1>4, BufferIsRow
  <2> QED
    BY <1>7, <1>8, <2>1
<1>10. Flat!Returned(row)
  <2>1. Return(t, Answer(Len(row), row))
    BY <1>1, <1>8 DEF ReadEnd
  <2> QED
    BY <2>1, FlatReturned
<1>11. Flat!BytesUpTo(end) = row
  BY <1>1, <1>2, <1>9, FlatRow
<1>12. Flat!End = end
  BY <1>1, <1>2, <1>7 DEF Flat!End
<1>13. [f \in File |-> written[f].size][c.file] = size
  BY <1>2, <1>6
<1>14. CASE end <= size
  <2>1. Min({end, size}) = end
    BY <1>14, MinOfTwo
  <2>2. Flat!Min({Flat!End, [f \in File |-> written[f].size][call[Caller].file]}) = end
    BY <1>1, <1>2, <1>12, <1>13, <2>1 DEF Flat!Min, Min
  <2>3. Flat!Read
    BY <1>1, <1>2, <1>3, <1>10, <1>11, <2>2, FlatUnchanged DEF Flat!Read
  <2> QED
    BY <2>3 DEF Flat!FlatNext
<1>15. CASE ~ (end <= size)
  <2>1. /\ x.numBlocks \in Nat /\ x.used \in 0..BlockSize /\ BlockSize \in Nat \ {0}
        /\ l.at \in 0..BlockSize - 1
    BY Constants, LocalFacts DEF InodeType
  <2>2. PICK q \in Nat : q = x.numBlocks - 1 /\ x.numBlocks = q + 1
    BY <1>6, <2>1
  <2>3. PICK s \in Nat : s = q * BlockSize
    BY <2>1, ProductNat
  <2>4. size = s + x.used
    BY <1>6, <2>2, <2>3 DEF SizeInBytes
  <2>5. j + l.at > s + x.used
    BY <1>6, <1>7, <1>15, <2>4
  <2>6. ~ (l.pos = x.numBlocks)
    <3>1. SUFFICES ASSUME l.pos = x.numBlocks PROVE FALSE
      OBVIOUS
    <3>2. l.at <= x.used
      BY <1>1, <1>6, <3>1 DEF LocalOK, ReadLoop
    <3>3. j = s
      BY <1>6, <2>2, <2>3, <3>1
    <3> QED
      BY <2>1, <2>5, <3>2, <3>3
  <2>7. ~ (p < q)
    <3>1. SUFFICES ASSUME p < q PROVE FALSE
      OBVIOUS
    <3>2. (p + 1) * BlockSize <= q * BlockSize
      BY <2>1, <3>1, ProductMonotone
    <3>3. (p + 1) * BlockSize = j + BlockSize
      <4>1. j = p * BlockSize
        BY <1>6
      <4> QED
        BY <2>1, <4>1
    <3> QED
      BY <2>1, <2>3, <2>5, <3>2, <3>3
  <2>8. x.used = BlockSize
    BY <1>6, <2>2, <2>6, <2>7
  <2>9. size % BlockSize = 0
    <3>1. x.numBlocks * BlockSize = s + BlockSize
      <4>1. (q + 1) * BlockSize = s + BlockSize
        BY <2>1, <2>3
      <4> QED
        BY <2>2, <4>1
    <3>2. Divides(size, BlockSize, x.numBlocks, 0)
      BY <2>1, <2>4, <2>8, <3>1 DEF Divides
    <3>3. PICK nb : nb = x.numBlocks
      OBVIOUS
    <3>4. Divides(size, BlockSize, nb, 0)
      BY <3>2, <3>3
    <3> QED
      BY <2>1, <3>4, QuotientIs
  <2>10. Flat!ReadOn
    BY <1>1, <1>2, <1>3, <1>6, <1>10, <1>11, <1>12, <1>13, <2>9, FlatUnchanged
       DEF Flat!ReadOn
  <2> QED
    BY <2>10 DEF Flat!FlatNext
<1> QED
  BY <1>14, <1>15

\* The rows of bytes, and the sizes, with what call c has written up to end.
NewRow(old, c, end) ==
    [i \in DOMAIN old |-> IF i \in c.offset..end - 1 THEN c.byte ELSE old[i]]

PutRow(rows, c, end) == [rows EXCEPT ![c.file] = NewRow(@, c, end)]

PutEnd(sizes, c, end) == [sizes EXCEPT ![c.file] = Flat!Max({@, end})]

LEMMA WriteOfRows ==
    ASSUME call[Caller].op = "write",
           Flat!Return(Flat!Answer(call[Caller].n, <<>>)),
           [f \in File |-> written'[f].bytes] =
               PutRow([f \in File |-> written[f].bytes], call[Caller], Flat!End),
           [f \in File |-> written'[f].size] =
               PutEnd([f \in File |-> written[f].size], call[Caller], Flat!End)
    PROVE  Flat!Write
BY DEF Flat!Write, PutRow, NewRow, PutEnd

\* The end of a write makes its size and its bytes those of the file at once.
LEMMA FlatWriteEnd ==
    ASSUME OneThread, FileInv, Kept, DOMAIN reply = Thread, NEW t \in Thread, WriteEnd(t)
    PROVE  Flat!FlatNext
<1>1. PICK c \in Call, l \in LocalType :
         /\ c = call[t] /\ l = loc[t] /\ c.op = "write"
         /\ Sound(inode, data, free, written, c, l)
  BY KeptHere DEF WriteEnd
<1>2. Caller = t /\ c.file \in File /\ c.offset \in Nat /\ c.n \in Nat
  BY CallerIs, CallFacts
<1>3. written \in [File -> WrittenType]
  BY <1>1 DEF Sound
<1>4. PICK size, bytes : /\ size = Max({written[c.file].size, c.offset + c.n})
                         /\ bytes = Overwritten(written[c.file].bytes, c.offset, c.n, c.byte)
  OBVIOUS
<1>5. /\ written' = [written EXCEPT ![c.file] = [size |-> size, bytes |-> bytes]]
      /\ Return(t, Answer(c.n, <<>>))
  BY <1>1, <1>4 DEF WriteEnd
<1>6. [size |-> size, bytes |-> bytes].size = size /\ [size |-> size, bytes |-> bytes].bytes = bytes
  OBVIOUS
<1>7. PICK u : u = [size |-> size, bytes |-> bytes] /\ u.size = size /\ u.bytes = bytes
  BY <1>6
<1>8. \A f \in File : written'[f] = IF f = c.file THEN u ELSE written[f]
  BY <1>3, <1>5, <1>7
<1>9. call'[t] = NoCall /\ reply'[t] = Answer(c.n, <<>>)
  BY <1>5 DEF Return, FileInv
<1>10. Flat!Return(Flat!Answer(call[Caller].n, <<>>))
  BY <1>1, <1>2, <1>9 DEF Flat!Return, Flat!NoCall, Flat!Answer, NoCall, Answer, Caller
<1>11. [f \in File |-> written'[f].size] =
          [[f \in File |-> written[f].size] EXCEPT ![c.file] = size]
  BY <1>2, <1>7, <1>8
<1>12. [f \in File |-> written'[f].bytes] =
          [[f \in File |-> written[f].bytes] EXCEPT ![c.file] = bytes]
  BY <1>2, <1>7, <1>8
<1>13. [f \in File |-> written[f].size][c.file] = written[c.file].size
  BY <1>2
<1>14. [f \in File |-> written[f].bytes][c.file] = written[c.file].bytes
  BY <1>2
<1>15. Flat!Max({written[c.file].size, c.offset + c.n}) = size
  BY <1>4 DEF Flat!Max, Max
<1>17. call[Caller] = c
  BY <1>1, <1>2
<1>18. PICK rows : rows = [f \in File |-> written[f].bytes]
  OBVIOUS
<1>19. PutRow(rows, c, c.offset + c.n) = [rows EXCEPT ![c.file] = bytes]
  <2>1. PICK old : old = written[c.file].bytes
    OBVIOUS
  <2>2. NewRow(old, c, c.offset + c.n) = bytes
    <3>1. bytes = Overwritten(old, c.offset, c.n, c.byte)
      BY <1>4, <2>1
    <3>2. (c.offset + c.n) - 1 = c.offset + (c.n - 1)
      BY <1>2
    <3>3. NewRow(old, c, c.offset + c.n) = Overwritten(old, c.offset, c.n, c.byte)
      BY <3>2, Zenon DEF NewRow, Overwritten
    <3> QED
      BY <3>1, <3>3
  <2>3. rows[c.file] = old
    BY <1>14, <1>18, <2>1
  <2>4. PutRow(rows, c, c.offset + c.n)
           = [rows EXCEPT ![c.file] = NewRow(rows[c.file], c, c.offset + c.n)]
    BY DEF PutRow
  <2> QED
    BY <2>2, <2>3, <2>4
<1>20. PICK sizes : sizes = [f \in File |-> written[f].size]
  OBVIOUS
<1>21. PutEnd(sizes, c, c.offset + c.n) = [sizes EXCEPT ![c.file] = size]
  BY <1>2, <1>13, <1>15, <1>20 DEF PutEnd
<1>22. Flat!End = c.offset + c.n
  BY <1>17 DEF Flat!End
<1>23. [f \in File |-> written'[f].bytes]
          = PutRow([f \in File |-> written[f].bytes], call[Caller], Flat!End)
  <2>1. PutRow(rows, c, c.offset + c.n) = PutRow(rows, call[Caller], Flat!End)
    BY <1>17, <1>22
  <2> QED
    BY <1>12, <1>18, <1>19, <2>1
<1>24. [f \in File |-> written'[f].size]
          = PutEnd([f \in File |-> written[f].size], call[Caller], Flat!End)
  <2>1. PutEnd(sizes, c, c.offset + c.n) = PutEnd(sizes, call[Caller], Flat!End)
    BY <1>17, <1>22
  <2> QED
    BY <1>11, <1>20, <1>21, <2>1
<1>25. call[Caller].op = "write"
  BY <1>1, <1>17
<1>26. Flat!Write
  BY <1>10, <1>23, <1>24, <1>25, WriteOfRows
<1> QED
  BY <1>26 DEF Flat!FlatNext

\* The rows of bytes with the byte of call c at these offsets.
RowAt(old, c, put) == [i \in DOMAIN old |-> IF i \in put THEN c.byte ELSE old[i]]

PutAt(rows, c, put) == [rows EXCEPT ![c.file] = RowAt(@, c, put)]

LEMMA FailureOfRows ==
    ASSUME call[Caller].op = "write",
           Flat!Return(Flat!Answer(-1, <<>>)),
           NEW put \in SUBSET ((call[Caller].offset..Flat!End - 1)
                                  \cap DOMAIN [f \in File |-> written[f].bytes][call[Caller].file]),
           [f \in File |-> written'[f].bytes] =
               PutAt([f \in File |-> written[f].bytes], call[Caller], put),
           [f \in File |-> written'[f].size] = [f \in File |-> written[f].size]
    PROVE  Flat!WriteFails
BY DEF Flat!WriteFails, PutAt, RowAt

\* A write that fails, at its start or later.
LEMMA FlatWriteFails ==
    ASSUME OneThread, FileInv, DOMAIN reply = Thread, NEW t \in Thread, WriteFails(t),
           NEW c \in Call, NEW l \in LocalType, c = call[t], c.op = "write",
           Sound(inode, data, free, written, c, l)
    PROVE  Flat!FlatNext
<1>1. Caller = t /\ c.file \in File /\ c.offset \in Nat /\ c.n \in Nat
  BY CallerIs, CallFacts
<1>2. /\ inode \in [File -> InodeType] /\ data \in [Block -> BlockType]
      /\ written \in [File -> WrittenType]
  BY DEF FileInv, Sound
<1>3. IsFailed(written', written, inode, data, c)
  BY DEF WriteFails, IsFailed, Content, ByteOf
<1>4. PICK v : v = written'
  OBVIOUS
<1>5. PICK old, new, x : x \in InodeType /\ AfterFailure(v, written, inode, data, c, old, new, x)
  BY <1>2, <1>3, <1>4, FailedRows
<1>6. /\ old = written[c.file].bytes
      /\ old \in [Index -> Byte \cup {0}] /\ new \in [Index -> Byte \cup {0}]
      /\ \A f \in File : v[f].size = written[f].size
      /\ \A f \in File : v[f].bytes = IF f = c.file THEN new ELSE written[f].bytes
  BY <1>5 DEF AfterFailure
<1>7. \A i \in Index : \/ new[i] = old[i]
                       \/ new[i] = c.byte /\ i \in c.offset..c.offset + c.n - 1
  BY <1>5 DEF AfterFailure
<1>8. PICK put : put = {i \in Index : new[i] # old[i]}
  OBVIOUS
<1>9. RowAt(old, c, put) = new
  <2>1. DOMAIN old = Index
    BY <1>6
  <2>2. RowAt(old, c, put) = [i \in Index |-> IF i \in put THEN c.byte ELSE old[i]]
    BY <2>1 DEF RowAt
  <2>3. \A i \in Index : new[i] = IF i \in put THEN c.byte ELSE old[i]
    BY <1>7, <1>8
  <2> QED
    BY <1>6, <2>2, <2>3
<1>10. PICK rows : rows = [f \in File |-> written[f].bytes]
  OBVIOUS
<1>11. rows[c.file] = old
  BY <1>1, <1>6, <1>10
<1>12. [f \in File |-> v[f].bytes] = PutAt(rows, c, put)
  <2>1. PutAt(rows, c, put) = [rows EXCEPT ![c.file] = new]
    BY <1>9, <1>11 DEF PutAt
  <2> QED
    BY <1>1, <1>6, <1>10, <2>1
<1>13. call[Caller] = c
  BY <1>1
<1>14. Flat!End = c.offset + c.n
  BY <1>13 DEF Flat!End
<1>15. put \in SUBSET ((c.offset..Flat!End - 1) \cap DOMAIN rows[c.file])
  <2>1. DOMAIN old = Index
    BY <1>6
  <2>2. (c.offset + c.n) - 1 = c.offset + c.n - 1
    BY <1>1
  <2>3. \A i \in put : i \in c.offset..Flat!End - 1
    BY <1>7, <1>8, <1>14, <2>2
  <2> QED
    BY <1>8, <1>11, <2>1, <2>3
<1>16. call'[t] = NoCall /\ reply'[t] = Answer(-1, <<>>)
  BY DEF WriteFails, Return, FileInv
<1>17. Flat!Return(Flat!Answer(-1, <<>>))
  BY <1>1, <1>16 DEF Flat!Return, Flat!NoCall, Flat!Answer, NoCall, Answer, Caller
<1>18. [f \in File |-> written'[f].bytes] =
          PutAt([f \in File |-> written[f].bytes], call[Caller], put)
  BY <1>4, <1>10, <1>12, <1>13
<1>19. [f \in File |-> written'[f].size] = [f \in File |-> written[f].size]
  BY <1>4, <1>6
<1>20. put \in SUBSET ((call[Caller].offset..Flat!End - 1)
                          \cap DOMAIN [f \in File |-> written[f].bytes][call[Caller].file])
  BY <1>10, <1>13, <1>15
<1>21. call[Caller].op = "write"
  BY <1>13
<1>22. Flat!WriteFails
  BY <1>17, <1>18, <1>19, <1>20, <1>21, FailureOfRows
<1> QED
  BY <1>22 DEF Flat!FlatNext

\* One step of the thread.
LEMMA FlatStep ==
    ASSUME OneThread, FileInv, Kept, DOMAIN reply = Thread, NEW t \in Thread, Step(t)
    PROVE  Flat!FlatNext \/ UNCHANGED Flat!flatVars
<1>1. ASSUME At(t, "start", "write") \/ At(t, "alloc", "write"), WriteFails(t)
      PROVE  Flat!FlatNext
  <2>1. PICK c \in Call, l \in LocalType :
           c = call[t] /\ c.op = "write" /\ Sound(inode, data, free, written, c, l)
    BY <1>1, KeptHere
  <2> QED
    BY <1>1, <2>1, FlatWriteFails
<1>2. ASSUME UNCHANGED <<call, reply, written>>
      PROVE  UNCHANGED Flat!flatVars
  BY <1>2, FlatStutter
<1>3. CASE ReadStart(t)
  BY <1>3, FlatReadStart
<1>4. CASE ReadTurn(t)
  BY <1>2, <1>4 DEF ReadTurn
<1>5. CASE ReadReachesEnd(t)
  BY <1>5, FlatReadReachesEnd
<1>6. CASE ReadEnd(t)
  BY <1>6, FlatReadEnd
<1>7. CASE WriteStart(t)
  <2>1. CASE WriteFails(t)
    BY <1>1, <1>7, <2>1 DEF WriteStart
  <2>2. CASE ~ WriteFails(t)
    BY <1>2, <1>7, <2>2 DEF WriteStart
  <2> QED
    BY <2>1, <2>2
<1>8. CASE WriteTurn(t)
  BY <1>2, <1>8 DEF WriteTurn
<1>9. CASE AllocRead(t)
  BY <1>2, <1>9 DEF AllocRead
<1>10. CASE AllocFull(t)
  BY <1>1, <1>10 DEF AllocFull
<1>11. CASE AllocWrite(t)
  <2>1. CASE WriteFails(t)
    BY <1>1, <1>11, <2>1 DEF AllocWrite
  <2>2. CASE ~ WriteFails(t)
    BY <1>2, <1>11, <2>2 DEF AllocWrite
  <2> QED
    BY <2>1, <2>2
<1>12. CASE WriteEnd(t)
  BY <1>12, FlatWriteEnd
<1> QED
  BY <1>3, <1>4, <1>5, <1>6, <1>7, <1>8, <1>9, <1>10, <1>11, <1>12 DEF Step

LEMMA FlatNextStep ==
    ASSUME OneThread, FileInv, Kept, DOMAIN reply = Thread, [Next]_vars
    PROVE  [Flat!FlatNext]_(Flat!flatVars)
<1>1. CASE UNCHANGED vars
  BY <1>1, FlatStutter DEF vars
<1>2. CASE Next
  <2>1. PICK t \in Thread : Begin(t) \/ Step(t)
    BY <1>2 DEF Next
  <2>2. Flat!FlatNext \/ UNCHANGED Flat!flatVars
    BY <2>1, FlatBegin, FlatStep
  <2> QED
    BY <2>2
<1> QED
  BY <1>1, <1>2

LEMMA FlatInitially == ASSUME OneThread, Init PROVE Flat!FlatInit
<1>1. PICK t : Thread = {t} /\ t \in Thread
  BY DEF OneThread
<1>2. Caller = t
  BY <1>1, CallerIs
<1>3. call[t] = NoCall /\ reply[t] = NoAnswer
  BY <1>1 DEF Init
<1>4. Settled(inode, data, free, written)
  <2>1. Kept
    BY InitKept
  <2>2. Sound(inode, data, free, written, NoCall, loc[t])
    BY <1>1, <1>3, <2>1 DEF Kept
  <2> QED
    BY <2>2, CallFacts, SettledIfNoWrite DEF InWrite
<1>5. ASSUME NEW f \in File
      PROVE  written[f].size = 0 /\ \A i \in DOMAIN written[f].bytes : written[f].bytes[i] = 0
  <2>1. inode[f] = EmptyInode
    BY <1>5 DEF Init
  <2>2. EmptyInode.numBlocks = 0 /\ EmptyInode.map = [k \in 0..EndOfMap - 1 |-> Unmapped]
    BY DEF EmptyInode
  <2>3. SizeInBytes(inode[f]) = 0
    BY <2>1, <2>2 DEF SizeInBytes
  <2>4. ASSUME NEW i \in Index PROVE ByteOf(inode[f], data, i) = 0
    <3>1. PICK x \in InodeType : x = inode[f]
      BY <1>5, InitFileInv DEF FileInv
    <3>2. PICK k \in Nat : k = IndexOf(i)
      BY Constants, OffsetIs DEF Index
    <3>3. BlockOf(x, k) = Unmapped
      <4>1. BlockOf(x, k) = IF k \in MapIndex THEN x.map[k] ELSE Unmapped
        BY BlockFacts
      <4>2. x.map = [j \in MapIndex |-> Unmapped]
        BY <2>1, <2>2, <3>1 DEF MapIndex
      <4> QED
        BY <4>1, <4>2
    <3> QED
      BY <3>1, <3>2, <3>3, ByteFacts
  <2> QED
    BY <1>4, <1>5, <2>3, <2>4 DEF Settled, WrittenType
<1>6. \A f \in File : /\ [g \in File |-> written[g].size][f] = 0
                      /\ \A i \in DOMAIN [g \in File |-> written[g].bytes][f] :
                            [g \in File |-> written[g].bytes][f][i] = 0
  BY <1>5
<1> QED
  BY <1>2, <1>3, <1>6
     DEF Flat!FlatInit, Flat!NoCall, NoCall, Flat!NoAnswer, NoAnswer, Flat!Answer, Answer, Caller

\* Only threads have answers.
Replies == DOMAIN reply = Thread

LEMMA RepliesInvariant == Spec => []Replies
<1>1. Init => Replies
  BY DEF Init, Replies
<1>2. Replies /\ [Next]_vars => Replies'
  <2> SUFFICES ASSUME Replies, [Next]_vars PROVE Replies'
    OBVIOUS
  <2>1. ASSUME NEW t, NEW answer, Return(t, answer) PROVE DOMAIN reply' = DOMAIN reply
    BY <2>1 DEF Return
  <2>2. CASE UNCHANGED vars
    BY <2>2 DEF vars, Replies
  <2>3. ASSUME NEW t \in Thread, Begin(t) PROVE Replies'
    BY <2>3 DEF Begin, Replies
  <2>4. ASSUME NEW t \in Thread, Step(t) PROVE DOMAIN reply' = DOMAIN reply
    <3>1. ASSUME WriteFails(t) PROVE DOMAIN reply' = DOMAIN reply
      BY <2>1, <3>1 DEF WriteFails
    <3>2. CASE ReadStart(t)
      BY <2>1, <3>2 DEF ReadStart
    <3>3. CASE WriteStart(t)
      BY <3>1, <3>3 DEF WriteStart
    <3>4. CASE ReadTurn(t) \/ WriteTurn(t) \/ AllocRead(t)
      BY <3>4 DEF ReadTurn, WriteTurn, AllocRead
    <3>5. CASE AllocFull(t)
      BY <3>1, <3>5 DEF AllocFull
    <3>6. CASE AllocWrite(t)
      BY <3>1, <3>6 DEF AllocWrite
    <3>7. CASE ReadReachesEnd(t)
      BY <2>1, <3>7 DEF ReadReachesEnd
    <3>8. CASE ReadEnd(t)
      BY <2>1, <3>8 DEF ReadEnd
    <3>9. CASE WriteEnd(t)
      BY <2>1, <3>9 DEF WriteEnd
    <3> QED
      BY <2>4, <3>2, <3>3, <3>4, <3>5, <3>6, <3>7, <3>8, <3>9 DEF Step
  <2>5. ASSUME NEW t \in Thread, Step(t) PROVE Replies'
    BY <2>4, <2>5 DEF Replies
  <2> QED
    BY <2>2, <2>3, <2>5 DEF Next
<1> QED
  BY <1>1, <1>2, PTL DEF Spec

\* As long as calls do not overlap, pread and pwrite, with their loops over blocks,
\* their copies of the inode and their ways to fail, are what FlatFile says: one
\* step each on a row of bytes and a size, at the moment they return.
THEOREM ImplementsFlat == ASSUME OneThread PROVE Spec => ImplementsFlatFile
<1>1. Init => Flat!FlatInit
  BY FlatInitially
<1>2. FileInv /\ Kept /\ Replies /\ [Next]_vars => [Flat!FlatNext]_(Flat!flatVars)
  BY FlatNextStep DEF Replies
<1> QED
  BY <1>1, <1>2, KeptInvariant, RepliesInvariant, PTL
     DEF Spec, ImplementsFlatFile, Flat!FlatSpec

=============================================================================

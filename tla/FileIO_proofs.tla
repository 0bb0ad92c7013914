---------------------------- MODULE FileIO_proofs ---------------------------
(***************************************************************************)
(* Proofs about FileIO, for every number of threads and of files, every    *)
(* size of blocks and of the block map.                                    *)
(***************************************************************************)
EXTENDS FileIO, NatFacts, FiniteSetTheorems, TLAPS

InodeType ==
    [numBlocks : Nat, used : 0..BlockSize,
     map : [0..EndOfMap - 1 -> Block \cup {Unmapped}]]

BlockType == [0..BlockSize - 1 -> Byte \cup {0}]

LocalType ==
    [pc : {"idle", "start", "turn", "alloc"}, ino : InodeType, pos : Nat,
     at : 0..BlockSize - 1, rest : Nat, buf : Seq(Byte \cup {0}), seen : SUBSET Block]

\* What the loop of pread keeps between its turns: in the last block it is not
\* past the end, and after the first turn it is at the start of a block, at the
\* end of the file, or done.
ReadLoop(l, c) ==
    l.pc = "turn" /\ c.op = "read" =>
        /\ l.pos = l.ino.numBlocks => l.at <= l.ino.used
        /\ l.rest = c.n \/ l.rest = 0 \/ l.at = 0 \/ AtEnd(l)

\* The locals l of a thread that is in call c.
LocalOK(l, c) ==
    /\ l \in LocalType
    /\ c \in Call \cup {NoCall}
    /\ l.pc = "idle" <=> c = NoCall
    /\ l.pc = "alloc" => l.rest > 0
    /\ ReadLoop(l, c)

\* The inductive invariant: types, also those of the locals, and ReadLoop.
FileInv ==
    /\ inode \in [File -> InodeType]
    /\ data \in [Block -> BlockType]
    /\ free \subseteq Block
    /\ loc \in [Thread -> LocalType]
    /\ call \in [Thread -> Call \cup {NoCall}]
    /\ \A t \in Thread : LocalOK(loc[t], call[t])

-----------------------------------------------------------------------------
(* Arithmetic *)

LEMMA MinOfTwo ==
    ASSUME NEW a \in Int, NEW b \in Int
    PROVE  Min({a, b}) = IF a <= b THEN a ELSE b
<1>1. CASE a <= b
  BY <1>1 DEF Min
<1>2. CASE ~ a <= b
  BY <1>2 DEF Min
<1> QED
  BY <1>1, <1>2

LEMMA MaxOfTwo ==
    ASSUME NEW a \in Int, NEW b \in Int
    PROVE  Max({a, b}) = IF a >= b THEN a ELSE b
<1>1. CASE a >= b
  BY <1>1 DEF Max
<1>2. CASE ~ a >= b
  BY <1>2 DEF Max
<1> QED
  BY <1>1, <1>2

LEMMA ModBelow ==
    ASSUME NEW a \in Nat, NEW m \in Nat \ {0}
    PROVE  a % m \in Nat /\ a % m <= a
<1> DEFINE q == a \div m
           r == a % m
<1>1. q \in Nat /\ r \in 0..m - 1 /\ a = q * m + r
  BY DivMod
<1>2. q * m \in Nat
  BY <1>1, ProductNat
<1> HIDE DEF q
<1> QED
  BY <1>1, <1>2

LEMMA ModSmall ==
    ASSUME NEW a \in Nat, NEW m \in Nat \ {0}, a <= m
    PROVE  a % m = IF a = m THEN 0 ELSE a
<1>1. PICK q \in Nat, r \in 0..m - 1 : r = a % m /\ a = q * m + r
  BY DivMod
<1>2. CASE q = 0
  BY <1>1, <1>2
<1>3. CASE q = 1
  BY <1>1, <1>3
<1>4. CASE q \in Nat \ {0, 1}
  <2>1. PICK k \in Nat : q = k + 2
    <3>1. q - 2 \in Nat /\ q = (q - 2) + 2
      BY <1>4
    <3> QED
      BY <3>1
  <2>2. q * m = k * m + m + m
    BY <2>1
  <2>3. k * m \in Nat
    BY ProductNat
  <2> QED
    BY <1>1, <2>2, <2>3
<1> QED
  BY <1>1, <1>2, <1>3, <1>4

\* An int is at most the number it was made from.
LEMMA ToIntBelow ==
    ASSUME NEW x \in Nat
    PROVE  ToInt(x) \in Int /\ ToInt(x) <= x
<1> DEFINE m == IntMax + 1
<1>1. m \in Nat \ {0}
  BY FileAssumption
<1>2. PICK w \in Nat \ {0} : w = 2 * m
  BY <1>1
<1>3. PICK y \in Nat : y = x + m
  BY <1>1
<1>4. y % w \in Nat /\ y % w <= y
  BY ModBelow
<1>5. ToInt(x) = (y % w) - m
  <2>1. x + IntMax + 1 = y /\ 2 * (IntMax + 1) = w
    BY <1>2, <1>3, FileAssumption
  <2> QED
    BY <2>1, Zenon DEF ToInt
<1> QED
  BY <1>1, <1>3, <1>4, <1>5

LEMMA MinInBlocks ==
    ASSUME NEW S \in SUBSET Block, S # {}
    PROVE  Min(S) \in S
<1>1. NumBlocks \in Nat /\ S \in SUBSET (0..NumBlocks)
  BY FileAssumption DEF Block
<1>2. \E k \in S : \A j \in S : k <= j
  BY <1>1, LeastInInterval
<1> QED
  BY <1>2 DEF Min

-----------------------------------------------------------------------------
(* Initial states and the frame of a step *)

LEMMA Constants ==
    /\ BlockSize \in Nat \ {0}
    /\ EndOfMap \in Nat
    /\ NumBlocks \in Nat
    /\ Block \subseteq Nat
    /\ Offset \subseteq Nat /\ Length \subseteq Nat
    /\ Unmapped \notin Block
BY FileAssumption DEF Block, Unmapped

LEMMA CallFacts ==
    /\ NoCall \notin Call
    /\ NoCall.op = "none"
    /\ \A c \in Call : /\ c.op \in {"read", "write"}
                       /\ c.file \in File
                       /\ c.offset \in Nat
                       /\ c.n \in Nat
                       /\ c.op = "write" => c.byte \in Byte
BY Constants DEF Call, NoCall

LEMMA IdleTyped == EmptyInode \in InodeType /\ Idle \in LocalType
<1>1. EmptyInode \in InodeType
  BY Constants DEF EmptyInode, InodeType, Unmapped
<1>2. <<>> \in Seq(Byte \cup {0})
  OBVIOUS
<1> QED
  BY <1>1, <1>2, Constants DEF Idle, LocalType

LEMMA InitFileInv == Init => FileInv
<1> SUFFICES ASSUME Init PROVE FileInv
  OBVIOUS
<1>1. inode \in [File -> InodeType] /\ data \in [Block -> BlockType] /\ free \subseteq Block
  BY IdleTyped DEF Init, BlockType
<1>2. loc = [t \in Thread |-> Idle] /\ call = [t \in Thread |-> NoCall]
  BY DEF Init
<1>3. LocalOK(Idle, NoCall)
  BY IdleTyped DEF LocalOK, ReadLoop, Idle
<1> QED
  BY <1>1, <1>2, <1>3, IdleTyped DEF FileInv

\* A step of thread t changes the locals and the call of no other thread.
LEMMA StepFrame ==
    ASSUME FileInv, NEW t \in Thread, NEW l, NEW c, LocalOK(l, c),
           loc' = [loc EXCEPT ![t] = l], call' = [call EXCEPT ![t] = c],
           inode' \in [File -> InodeType], data' \in [Block -> BlockType],
           free' \subseteq Block
    PROVE  FileInv'
<1>1. /\ loc \in [Thread -> LocalType]
      /\ call \in [Thread -> Call \cup {NoCall}]
      /\ \A u \in Thread : LocalOK(loc[u], call[u])
  BY DEF FileInv
<1>2. l \in LocalType /\ c \in Call \cup {NoCall}
  BY DEF LocalOK
<1>3. /\ loc' \in [Thread -> LocalType]
      /\ call' \in [Thread -> Call \cup {NoCall}]
  BY <1>1, <1>2
<1>4. ASSUME NEW u \in Thread PROVE LocalOK(loc'[u], call'[u])
  <2>1. CASE u = t
    <3>1. loc'[u] = l /\ call'[u] = c
      BY <1>1, <2>1
    <3> QED
      BY <3>1
  <2>2. CASE u # t
    <3>1. loc'[u] = loc[u] /\ call'[u] = call[u]
      BY <1>1, <2>2
    <3> QED
      BY <1>1, <3>1
  <2> QED
    BY <2>1, <2>2
<1>5. \A u \in Thread : LocalOK(loc'[u], call'[u])
  BY <1>4
<1> QED
  BY <1>3, <1>5 DEF FileInv, LocalOK, ReadLoop, AtEnd, LocalType, InodeType, BlockType, Block, Call, NoCall

-----------------------------------------------------------------------------
(* The turns of the loops *)

\* A turn that deals with n bytes, up to the end of its block.
LEMMA AdvancedFacts ==
    ASSUME NEW l \in LocalType, NEW n \in Nat \ {0}, n <= l.rest, l.at + n <= BlockSize
    PROVE  /\ Advanced(l, n) \in LocalType
           /\ Advanced(l, n).pc = "turn"
           /\ Advanced(l, n).ino = l.ino
           /\ Advanced(l, n).buf = l.buf
           /\ Advanced(l, n).rest = l.rest - n
           /\ Advanced(l, n).at = IF l.at + n = BlockSize THEN 0 ELSE l.at + n
           /\ Advanced(l, n).pos = IF l.at + n = BlockSize THEN l.pos + 1 ELSE l.pos
<1> DEFINE at  == (l.at + n) % BlockSize
           pos == IF at = 0 THEN l.pos + 1 ELSE l.pos
<1>1. l.at \in 0..BlockSize - 1 /\ l.rest \in Nat /\ l.pos \in Nat
  BY DEF LocalType
<1>2. at = IF l.at + n = BlockSize THEN 0 ELSE l.at + n
  <2>1. l.at + n \in Nat
    BY <1>1, Constants
  <2> QED
    BY <2>1, Constants, ModSmall
<1>3. at \in 0..BlockSize - 1 /\ (at = 0 <=> l.at + n = BlockSize)
  BY <1>1, <1>2, Constants
<1>4. pos \in Nat /\ l.rest - n \in Nat
  BY <1>1
<1>5. Advanced(l, n) = [l EXCEPT !.pc = "turn", !.at = at, !.rest = l.rest - n,
                                 !.seen = {}, !.pos = pos]
  BY DEF Advanced, LocalType
<1> HIDE DEF at, pos
<1>6. /\ Advanced(l, n) \in LocalType
      /\ Advanced(l, n).pc = "turn"
      /\ Advanced(l, n).ino = l.ino
      /\ Advanced(l, n).buf = l.buf
      /\ Advanced(l, n).rest = l.rest - n
      /\ Advanced(l, n).at = at
      /\ Advanced(l, n).pos = pos
  BY <1>3, <1>4, <1>5 DEF LocalType
<1> USE DEF at, pos
<1> QED
  BY <1>2, <1>3, <1>6

\* What a turn of pread copies: this is TurnsFit, from the invariant.
LEMMA ToCopyFits ==
    ASSUME NEW t \in Thread, LocalOK(loc[t], call[t]),
           At(t, "turn", "read"), loc[t].rest > 0, ~ AtEnd(loc[t])
    PROVE  /\ ToCopy(t) \in Nat \ {0}
           /\ ToCopy(t) <= loc[t].rest
           /\ loc[t].at + ToCopy(t) <= BlockSize
           /\ loc[t].pos = loc[t].ino.numBlocks =>
                  loc[t].at + ToCopy(t) <= loc[t].ino.used
           /\ \/ ToCopy(t) = loc[t].rest
              \/ loc[t].at + ToCopy(t) = BlockSize
              \/ /\ loc[t].pos = loc[t].ino.numBlocks
                 /\ loc[t].at + ToCopy(t) = loc[t].ino.used
<1> DEFINE l == loc[t]
           n == ToCopyOfBlock(t)
<1>1. /\ l.at \in 0..BlockSize - 1 /\ l.rest \in Nat /\ l.pos \in Nat
      /\ l.ino.used \in 0..BlockSize /\ l.ino.numBlocks \in Nat
  BY DEF LocalOK, LocalType, InodeType
<1>2. l.pos = l.ino.numBlocks => l.at < l.ino.used
  BY <1>1 DEF LocalOK, ReadLoop, At, AtEnd
<1>3. l.rest = call[t].n \/ l.at = 0
  BY DEF LocalOK, ReadLoop, At
<1>4. n = IF BlockSize - l.at <= l.rest THEN BlockSize - l.at ELSE l.rest
  <2>1. CASE l.rest = call[t].n
    <3>1. n = Min({BlockSize - l.at, l.rest})
      BY <2>1 DEF ToCopyOfBlock
    <3>2. BlockSize - l.at \in Int /\ l.rest \in Int
      BY <1>1, Constants
    <3> HIDE DEF l, n
    <3> QED
      BY <3>1, <3>2, MinOfTwo
  <2>2. CASE l.rest # call[t].n
    <3>1. n = Min({BlockSize, l.rest})
      BY <2>2 DEF ToCopyOfBlock
    <3> QED
      BY <1>1, <1>3, <2>2, <3>1, Constants, MinOfTwo
  <2> QED
    BY <2>1, <2>2
<1>5. n \in Nat \ {0} /\ n <= l.rest /\ l.at + n <= BlockSize
  BY <1>1, <1>4, Constants
<1>6. n = l.rest \/ l.at + n = BlockSize
  BY <1>1, <1>4, Constants
<1>7. CASE l.pos = l.ino.numBlocks
  <2>1. ToCopy(t) = Min({n, l.ino.used - l.at})
    BY <1>7 DEF ToCopy
  <2>2. ToCopy(t) = IF n <= l.ino.used - l.at THEN n ELSE l.ino.used - l.at
    <3> HIDE DEF n
    <3> QED
      BY <1>1, <1>5, <2>1, Constants, MinOfTwo
  <2> HIDE DEF n
  <2> QED
    BY <1>1, <1>2, <1>5, <1>6, <1>7, <2>2, Constants
<1>8. CASE l.pos # l.ino.numBlocks
  <2>1. ToCopy(t) = n
    BY <1>8 DEF ToCopy
  <2> HIDE DEF n
  <2> QED
    BY <1>5, <1>6, <1>8, <2>1
<1> QED
  BY <1>7, <1>8

-----------------------------------------------------------------------------
(* One lemma for every step *)

LEMMA BeginStep ==
    ASSUME FileInv, NEW t \in Thread, Begin(t)
    PROVE  FileInv'
<1>1. PICK c \in Call : call' = [call EXCEPT ![t] = c]
  BY DEF Begin
<1> DEFINE l == [loc[t] EXCEPT !.pc = "start"]
<1>2. loc' = [loc EXCEPT ![t] = l] /\ UNCHANGED <<inode, data, free>>
  BY DEF Begin, FileInv
<1>3. l \in LocalType /\ l.pc = "start"
  BY DEF FileInv, LocalType
<1>4. LocalOK(l, c)
  <2> HIDE DEF l
  <2> QED
    BY <1>3, CallFacts DEF LocalOK, ReadLoop
<1> HIDE DEF l
<1> QED
  BY <1>1, <1>2, <1>4, StepFrame DEF FileInv

\* The end of a call, with or without a put of an inode.
LEMMA ReturnStep ==
    ASSUME FileInv, NEW t \in Thread, NEW answer, Return(t, answer),
           inode' \in [File -> InodeType], UNCHANGED <<data, free>>
    PROVE  FileInv'
<1>1. LocalOK(Idle, NoCall)
  BY IdleTyped DEF LocalOK, ReadLoop, Idle
<1>2. loc' = [loc EXCEPT ![t] = Idle] /\ call' = [call EXCEPT ![t] = NoCall]
  BY DEF Return
<1> QED
  BY <1>1, <1>2, StepFrame DEF FileInv

\* What a call that has begun holds.
LEMMA InCall ==
    ASSUME FileInv, NEW t \in Thread, NEW pc, NEW op \in {"read", "write"}, At(t, pc, op)
    PROVE  /\ call[t] \in Call
           /\ call[t].file \in File /\ call[t].offset \in Nat /\ call[t].n \in Nat
           /\ LocalOK(loc[t], call[t]) /\ loc[t] \in LocalType /\ loc[t].pc = pc
           /\ call = [call EXCEPT ![t] = call[t]]
           /\ inode[call[t].file] \in InodeType
<1>1. call[t] \in Call \cup {NoCall} /\ call[t].op = op
  BY DEF FileInv, At
<1>2. call[t] \in Call
  BY <1>1, CallFacts
<1>3. call = [call EXCEPT ![t] = call[t]]
  BY DEF FileInv
<1> QED
  BY <1>2, <1>3, CallFacts DEF FileInv, At

\* The locals at the start of the loop, whose offset is within the file in a read.
LEMMA StartedOK ==
    ASSUME FileInv, NEW t \in Thread, call[t] \in Call,
           call[t].op = "read" => call[t].offset < SizeInBytes(inode[call[t].file])
    PROVE  LocalOK(Started(t), call[t])
<1> DEFINE c   == call[t]
           ino == inode[c.file]
           l   == Started(t)
<1>1. c.file \in File /\ c.offset \in Nat /\ c.n \in Nat
  BY CallFacts
<1>2. ino \in InodeType /\ ino.numBlocks \in Nat /\ ino.used \in 0..BlockSize
  BY <1>1 DEF FileInv, InodeType
<1>3. PICK q \in Nat, r \in 0..BlockSize - 1 :
        q = c.offset \div BlockSize /\ r = c.offset % BlockSize
            /\ c.offset = q * BlockSize + r
  BY <1>1, Constants, DivMod
<1>4. l = [pc |-> "turn", ino |-> ino, pos |-> q + 1, at |-> r, rest |-> c.n,
           buf |-> <<>>, seen |-> {}]
  <2>1. l = [Idle EXCEPT !.pc = "turn", !.ino = ino, !.rest = c.n, !.pos = q + 1, !.at = r]
    BY <1>3 DEF Started
  <2> HIDE DEF l, c, ino
  <2> QED
    BY <2>1 DEF Idle
<1>5. l \in LocalType /\ l.pc = "turn" /\ l.ino = ino /\ l.rest = c.n /\ l.pos = q + 1
      /\ l.at = r
  <2> HIDE DEF l, c, ino
  <2>1. <<>> \in Seq(Byte \cup {0}) /\ {} \in SUBSET Block
    OBVIOUS
  <2>2. q + 1 \in Nat /\ c.n \in Nat /\ r \in 0..BlockSize - 1
    BY <1>1
  <2> QED
    BY <1>2, <1>4, <2>1, <2>2 DEF LocalType
<1>6. ASSUME c.op = "read", l.pos = ino.numBlocks PROVE l.at <= ino.used
  <2>1. ino.numBlocks - 1 = q /\ ino.numBlocks # 0
    BY <1>2, <1>3, <1>5, <1>6
  <2>2. SizeInBytes(ino) = q * BlockSize + ino.used
    BY <2>1 DEF SizeInBytes
  <2>3. q * BlockSize \in Nat
    BY Constants, ProductNat
  <2>4. q * BlockSize + r < q * BlockSize + ino.used
    BY <1>3, <1>6, <2>2
  <2>5. l.at = r
    BY <1>5
  <2> HIDE DEF l, c, ino
  <2>6. PICK k \in Nat : k = q * BlockSize
    BY <2>3
  <2>7. k + r < k + ino.used
    BY <2>4, <2>6
  <2>8. k \in Int /\ r \in Int /\ ino.used \in Int
    BY <1>2, Constants
  <2>9. r <= ino.used
    BY <2>7, <2>8
  <2> QED
    BY <2>5, <2>9
<1>7. l.pc = "turn" /\ c # NoCall /\ c \in Call
  BY <1>5, CallFacts
<1> HIDE DEF l, c, ino
<1> QED
  BY <1>5, <1>6, <1>7 DEF LocalOK, ReadLoop, l, c

\* A turn of pread.
LEMMA ReadTurnStep ==
    ASSUME FileInv, NEW t \in Thread, ReadTurn(t)
    PROVE  FileInv'
<1> DEFINE l == loc[t]
           c == call[t]
           n == ToCopy(t)
           b == GetIthBlock(l.ino, l.pos)
           copied == [k \in 1..n |-> IF b = Unmapped THEN 0 ELSE data[b][l.at + k - 1]]
           m == Advanced(l, n)
           next == [m EXCEPT !.buf = @ \o copied]
<1>1. At(t, "turn", "read") /\ l.rest > 0 /\ ~ AtEnd(l)
  BY DEF ReadTurn
<1>2. /\ c \in Call /\ l \in LocalType /\ LocalOK(l, c)
      /\ call = [call EXCEPT ![t] = c] /\ c.op = "read" /\ c # NoCall
  BY <1>1, InCall, CallFacts DEF At
<1>3. /\ n \in Nat \ {0} /\ n <= l.rest /\ l.at + n <= BlockSize
      /\ l.pos = l.ino.numBlocks => l.at + n <= l.ino.used
      /\ \/ n = l.rest \/ l.at + n = BlockSize
         \/ l.pos = l.ino.numBlocks /\ l.at + n = l.ino.used
  BY <1>1, <1>2, ToCopyFits
<1>4. /\ loc' = [loc EXCEPT ![t] = next]
      /\ UNCHANGED <<inode, data, free, call>>
  BY DEF ReadTurn
<1>5. /\ m \in LocalType /\ m.pc = "turn" /\ m.ino = l.ino /\ m.rest = l.rest - n
      /\ m.at = (IF l.at + n = BlockSize THEN 0 ELSE l.at + n)
      /\ m.pos = (IF l.at + n = BlockSize THEN l.pos + 1 ELSE l.pos)
  <2> HIDE DEF l, n, m
  <2> QED
    BY <1>2, <1>3, AdvancedFacts DEF m
<1>6. /\ l.at \in 0..BlockSize - 1 /\ l.rest \in Nat /\ l.pos \in Nat
      /\ l.ino \in InodeType
  BY <1>2 DEF LocalType
<1>7. copied \in Seq(Byte \cup {0})
  <2>1. b \in Block \cup {Unmapped}
    <3>1. CASE InRange(l.pos)
      <4>1. l.pos - 1 \in 0..EndOfMap - 1
        BY <1>6, <3>1, Constants DEF InRange
      <4> HIDE DEF l
      <4> QED
        BY <1>6, <3>1, <4>1 DEF GetIthBlock, InodeType
    <3>2. CASE ~ InRange(l.pos)
      BY <3>2 DEF GetIthBlock
    <3> QED
      BY <3>1, <3>2
  <2>2. ASSUME NEW k \in 1..n PROVE copied[k] \in Byte \cup {0}
    <3>1. CASE b = Unmapped
      <4> HIDE DEF b, n
      <4> QED
        BY <3>1
    <3>2. CASE b # Unmapped
      <4>1. l.at + k - 1 \in 0..BlockSize - 1
        <5> HIDE DEF l, n
        <5> QED
          BY <1>3, <1>6, Constants
      <4>2. data[b] \in BlockType
        BY <2>1, <3>2 DEF FileInv
      <4>3. data[b][l.at + k - 1] \in Byte \cup {0}
        <5> HIDE DEF b, l
        <5> QED
          BY <4>1, <4>2 DEF BlockType
      <4>4. copied[k] = data[b][l.at + k - 1]
        <5> HIDE DEF b, l, n
        <5> QED
          BY <3>2
      <4> HIDE DEF copied, b, l, n
      <4> QED
        BY <4>3, <4>4
    <3> QED
      BY <3>1, <3>2
  <2>3. DOMAIN copied = 1..n /\ copied = [k \in 1..n |-> copied[k]]
    OBVIOUS
  <2> HIDE DEF copied, n
  <2>4. copied \in [1..n -> Byte \cup {0}] /\ n \in Nat
    BY <1>3, <2>2, <2>3
  <2> QED
    BY <2>4
<1>8. next \in LocalType /\ next.pc = "turn" /\ next.ino = m.ino /\ next.rest = m.rest
      /\ next.at = m.at /\ next.pos = m.pos
  <2> HIDE DEF m, copied
  <2>1. m.buf \o copied \in Seq(Byte \cup {0})
    BY <1>5, <1>7 DEF LocalType
  <2> QED
    BY <1>5, <2>1 DEF LocalType
<1> HIDE DEF next, m, copied, b, n, l
<1>9. next.pos = next.ino.numBlocks => next.at <= next.ino.used
  <2>1. l.ino.used \in 0..BlockSize
    BY <1>6 DEF InodeType
  <2> QED
    BY <1>3, <1>5, <1>6, <1>8, <2>1, Constants
<1>10. next.rest = 0 \/ next.at = 0 \/ AtEnd(next)
  BY <1>3, <1>5, <1>6, <1>8, Constants DEF AtEnd
<1>11. LocalOK(next, c)
  <2> HIDE DEF c
  <2> QED
    BY <1>2, <1>8, <1>9, <1>10 DEF LocalOK, ReadLoop
<1>12. call' = [call EXCEPT ![t] = c]
  BY <1>2, <1>4
<1>13. inode' \in [File -> InodeType] /\ data' \in [Block -> BlockType] /\ free' \subseteq Block
  BY <1>4 DEF FileInv
<1> HIDE DEF c
<1> QED
  BY <1>4, <1>11, <1>12, <1>13, StepFrame

\* The size that the code compares with is at most the size.
LEMMA SizeFacts ==
    ASSUME NEW ino \in InodeType
    PROVE  /\ SizeInBytes(ino) \in Nat
           /\ GetSizeOfFile(ino) \in Int
           /\ GetSizeOfFile(ino) <= SizeInBytes(ino)
<1>1. ino.numBlocks \in Nat /\ ino.used \in Nat
  BY Constants DEF InodeType
<1>2. SizeInBytes(ino) \in Nat
  <2>1. CASE ino.numBlocks = 0
    BY <2>1 DEF SizeInBytes
  <2>2. CASE ino.numBlocks # 0
    <3>1. PICK k \in Nat : k = ino.numBlocks - 1
      BY <1>1, <2>2
    <3>2. k * BlockSize \in Nat
      BY Constants, ProductNat
    <3>3. SizeInBytes(ino) = k * BlockSize + ino.used
      BY <2>2, <3>1 DEF SizeInBytes
    <3> QED
      BY <1>1, <3>2, <3>3
  <2> QED
    BY <2>1, <2>2
<1> QED
  BY <1>2, ToIntBelow DEF GetSizeOfFile

\* The locals are as at the start of the loop.
LEMMA StartedStep ==
    ASSUME FileInv, NEW t \in Thread, call[t] \in Call,
           LocalOK(Started(t), call[t]),
           loc' = [loc EXCEPT ![t] = Started(t)], UNCHANGED <<inode, data, free, call>>
    PROVE  FileInv'
<1>1. call' = [call EXCEPT ![t] = call[t]]
  BY DEF FileInv
<1>2. inode' \in [File -> InodeType] /\ data' \in [Block -> BlockType] /\ free' \subseteq Block
  BY DEF FileInv
<1> QED
  BY <1>1, <1>2, StepFrame

LEMMA ReadStartStep ==
    ASSUME FileInv, NEW t \in Thread, ReadStart(t)
    PROVE  FileInv'
<1> DEFINE ino == inode[call[t].file]
<1>1. call[t] \in Call /\ ino \in InodeType /\ call[t].offset \in Nat
  BY InCall DEF ReadStart
<1>2. UNCHANGED <<inode, data, free>> /\ inode \in [File -> InodeType]
  BY DEF ReadStart, FileInv
<1>3. CASE call[t].offset >= GetSizeOfFile(ino)
  <2>1. Return(t, NoAnswer)
    BY <1>3 DEF ReadStart
  <2> QED
    BY <1>2, <2>1, ReturnStep
<1>4. CASE ~ call[t].offset >= GetSizeOfFile(ino)
  <2>1. loc' = [loc EXCEPT ![t] = Started(t)] /\ call' = call
    BY <1>4 DEF ReadStart
  <2>2. call[t].offset < SizeInBytes(ino)
    <3>1. /\ SizeInBytes(ino) \in Nat /\ GetSizeOfFile(ino) \in Int
          /\ GetSizeOfFile(ino) <= SizeInBytes(ino)
      BY <1>1, SizeFacts
    <3> QED
      BY <1>1, <1>4, <3>1
  <2> QED
    BY <1>1, <1>2, <2>1, <2>2, StartedOK, StartedStep
<1> QED
  BY <1>3, <1>4

LEMMA ReadReachesEndStep ==
    ASSUME FileInv, NEW t \in Thread, ReadReachesEnd(t)
    PROVE  FileInv'
BY ReturnStep DEF ReadReachesEnd, FileInv

LEMMA ReadEndStep ==
    ASSUME FileInv, NEW t \in Thread, ReadEnd(t)
    PROVE  FileInv'
<1>1. loc[t] \in LocalType /\ inode \in [File -> InodeType]
  BY DEF FileInv
<1>2. inode' = [inode EXCEPT ![call[t].file] = loc[t].ino] /\ loc[t].ino \in InodeType
  BY <1>1 DEF ReadEnd, LocalType
<1>3. inode' \in [File -> InodeType]
  BY <1>1, <1>2
<1>4. Return(t, Answer(Len(loc[t].buf), loc[t].buf)) /\ UNCHANGED <<data, free>>
  BY DEF ReadEnd
<1> QED
  BY <1>3, <1>4, ReturnStep

LEMMA WriteFailsStep ==
    ASSUME FileInv, NEW t \in Thread, WriteFails(t), UNCHANGED <<data, free>>
    PROVE  FileInv'
BY ReturnStep DEF WriteFails, FileInv

LEMMA WriteStartStep ==
    ASSUME FileInv, NEW t \in Thread, WriteStart(t)
    PROVE  FileInv'
<1>1. call[t] \in Call /\ call[t].op = "write"
  BY InCall DEF WriteStart, At
<1>2. UNCHANGED <<data, free>>
  BY DEF WriteStart
<1>3. CASE WriteFails(t)
  BY <1>2, <1>3, WriteFailsStep
<1>4. CASE loc' = [loc EXCEPT ![t] = Started(t)] /\ UNCHANGED <<inode, call>>
  BY <1>1, <1>2, <1>4, StartedOK, StartedStep
<1> QED
  BY <1>3, <1>4 DEF WriteStart

\* A turn of pwrite writes within its block.
LEMMA ToWriteFits ==
    ASSUME NEW l \in LocalType, l.rest > 0
    PROVE  /\ ToWrite(l) \in Nat \ {0}
           /\ ToWrite(l) <= l.rest
           /\ l.at + ToWrite(l) <= BlockSize
<1>1. l.at \in 0..BlockSize - 1 /\ l.rest \in Nat
  BY DEF LocalType
<1>2. PICK a \in Nat \ {0} : a = BlockSize - l.at
  BY <1>1, Constants
<1>3. ToWrite(l) = Min({a, l.rest})
  BY <1>2 DEF ToWrite
<1>4. ToWrite(l) = IF a <= l.rest THEN a ELSE l.rest
  BY <1>1, <1>3, MinOfTwo
<1> QED
  BY <1>1, <1>2, <1>4, Constants

LEMMA OverwrittenTyped ==
    ASSUME NEW block \in BlockType, NEW at \in Nat, NEW n \in Nat, NEW byte \in Byte
    PROVE  Overwritten(block, at, n, byte) \in BlockType
BY DEF Overwritten, BlockType

\* In a write the locals have their types, and there are bytes left in an allocation.
LEMMA WriteLocalOK ==
    ASSUME NEW l \in LocalType, l.pc # "idle", l.pc = "alloc" => l.rest > 0, NEW c \in Call, c.op = "write"
    PROVE  LocalOK(l, c)
BY CallFacts DEF LocalOK, ReadLoop

LEMMA WriteTurnStep ==
    ASSUME FileInv, NEW t \in Thread, WriteTurn(t)
    PROVE  FileInv'
<1> DEFINE l == loc[t]
           c == call[t]
           b == GetIthBlock(l.ino, l.pos)
           m == Advanced(l, ToWrite(l))
           d == Overwritten(data[b], l.at, ToWrite(l), c.byte)
<1>1. At(t, "turn", "write") /\ l.rest > 0
  BY DEF WriteTurn
<1>2. /\ c \in Call /\ l \in LocalType /\ call = [call EXCEPT ![t] = c] /\ c.op = "write"
      /\ c.byte \in Byte
  BY <1>1, InCall, CallFacts DEF At
<1>3. ToWrite(l) \in Nat \ {0} /\ ToWrite(l) <= l.rest /\ l.at + ToWrite(l) <= BlockSize
  BY <1>1, <1>2, ToWriteFits
<1>4. m \in LocalType /\ m.pc = "turn"
  BY <1>2, <1>3, AdvancedFacts
<1>5. LocalOK(m, c)
  BY <1>2, <1>4, WriteLocalOK
<1>6. /\ data' = [data EXCEPT ![b] = d]
      /\ loc' = [loc EXCEPT ![t] = m]
      /\ UNCHANGED <<inode, free, call>>
  BY DEF WriteTurn
<1>7. data' \in [Block -> BlockType]
  <2>1. data \in [Block -> BlockType]
    BY DEF FileInv
  <2>2. CASE b \in Block
    <3>1. l.at \in Nat
      BY <1>2, Constants DEF LocalType
    <3>2. d \in BlockType
      BY <1>2, <1>3, <2>1, <2>2, <3>1, OverwrittenTyped
    <3> HIDE DEF d, b
    <3> QED
      BY <1>6, <2>1, <2>2, <3>2
  <2>3. CASE b \notin Block
    <3> HIDE DEF d, b
    <3> QED
      BY <1>6, <2>1, <2>3
  <2> QED
    BY <2>2, <2>3
<1>8. inode' \in [File -> InodeType] /\ free' \subseteq Block /\ call' = [call EXCEPT ![t] = c]
  BY <1>2, <1>6 DEF FileInv
<1> HIDE DEF m, c
<1> QED
  BY <1>5, <1>6, <1>7, <1>8, StepFrame

LEMMA AllocReadStep ==
    ASSUME FileInv, NEW t \in Thread, AllocRead(t)
    PROVE  FileInv'
<1> DEFINE c == call[t]
           m == [loc[t] EXCEPT !.pc = "alloc", !.seen = free]
<1>1. c \in Call /\ call = [call EXCEPT ![t] = c] /\ c.op = "write" /\ loc[t] \in LocalType
  BY InCall DEF AllocRead, At
<1>2. loc' = [loc EXCEPT ![t] = m] /\ UNCHANGED <<inode, data, free, call>>
  BY <1>1 DEF AllocRead, FileInv
<1>3. m \in LocalType /\ m.pc = "alloc" /\ m.rest > 0
  BY <1>1 DEF LocalType, FileInv, AllocRead
<1>4. LocalOK(m, c)
  BY <1>1, <1>3, WriteLocalOK
<1>5. /\ inode' \in [File -> InodeType] /\ data' \in [Block -> BlockType]
      /\ free' \subseteq Block /\ call' = [call EXCEPT ![t] = c]
  BY <1>1, <1>2 DEF FileInv
<1> HIDE DEF m, c
<1> QED
  BY <1>2, <1>4, <1>5, StepFrame

LEMMA AllocFullStep ==
    ASSUME FileInv, NEW t \in Thread, AllocFull(t)
    PROVE  FileInv'
BY WriteFailsStep DEF AllocFull

LEMMA SetIthBlockTyped ==
    ASSUME NEW ino \in InodeType, NEW pos \in Nat, InRange(pos), NEW b \in Block
    PROVE  SetIthBlock(ino, pos, b) \in InodeType
<1>1. ino.numBlocks \in Nat /\ ino.used \in 0..BlockSize /\ pos - 1 \in 0..EndOfMap - 1
  BY Constants DEF InodeType, InRange
<1>2. ino.map \in [0..EndOfMap - 1 -> Block \cup {Unmapped}]
  BY DEF InodeType
<1> DEFINE map  == [ino.map EXCEPT ![pos - 1] = b]
           used == IF ino.numBlocks < pos THEN 0 ELSE ino.used
           num  == Max({ino.numBlocks, pos})
<1>3. map \in [0..EndOfMap - 1 -> Block \cup {Unmapped}]
  BY <1>1, <1>2
<1>4. used \in 0..BlockSize
  BY <1>1, Constants
<1>5. num \in Nat
  BY <1>1, MaxOfTwo
<1>6. SetIthBlock(ino, pos, b) = [ino EXCEPT !.map = map, !.used = used, !.numBlocks = num]
  BY DEF SetIthBlock
<1> HIDE DEF map, used, num
<1> QED
  BY <1>3, <1>4, <1>5, <1>6 DEF InodeType

LEMMA AllocWriteStep ==
    ASSUME FileInv, NEW t \in Thread, AllocWrite(t)
    PROVE  FileInv'
<1> DEFINE l == loc[t]
           c == call[t]
           b == Min(l.seen)
           k == [l EXCEPT !.ino = SetIthBlock(@, l.pos, b)]
           n == ToWrite(l)
           m == Advanced(k, n)
           d == Overwritten(FreshBlock(b), l.at, n, c.byte)
<1>1. /\ At(t, "alloc", "write") /\ l.seen # {} /\ free' = l.seen \ {b}
  BY DEF AllocWrite
<1>2. /\ c \in Call /\ l \in LocalType /\ call = [call EXCEPT ![t] = c] /\ c.op = "write"
      /\ c.byte \in Byte
  BY <1>1, InCall, CallFacts DEF At
<1>3. l.seen \in SUBSET Block /\ l.pos \in Nat /\ l.at \in Nat /\ l.ino \in InodeType
  BY <1>2, Constants DEF LocalType
<1>4. b \in Block /\ free' \subseteq Block
  BY <1>1, <1>3, MinInBlocks
<1>5. FreshBlock(b) \in BlockType
  BY DEF FreshBlock, NoBytes, BlockType
<1>6. data \in [Block -> BlockType] /\ inode \in [File -> InodeType]
  BY DEF FileInv
<1>7. CASE InRange(l.pos)
  <2>1. /\ data' = [data EXCEPT ![b] = d]
        /\ loc' = [loc EXCEPT ![t] = m]
        /\ UNCHANGED <<inode, call>>
    BY <1>7 DEF AllocWrite
  <2>2. SetIthBlock(l.ino, l.pos, b) \in InodeType
    BY <1>3, <1>4, <1>7, SetIthBlockTyped
  <2>3. k \in LocalType /\ k.rest = l.rest /\ k.at = l.at /\ k.pc = l.pc
    <3>1. PICK ino \in InodeType : ino = SetIthBlock(l.ino, l.pos, b)
      BY <2>2
    <3>2. k = [l EXCEPT !.ino = ino]
      BY <3>1
    <3> HIDE DEF k, l
    <3> QED
      BY <1>2, <3>2 DEF LocalType
  <2>4. l.rest > 0
    BY <1>1, InCall DEF LocalOK, At
  <2>5. n \in Nat \ {0} /\ n <= l.rest /\ l.at + n <= BlockSize
    BY <1>2, <2>4, ToWriteFits
  <2>6. m \in LocalType /\ m.pc = "turn"
    <3> HIDE DEF k, n, l
    <3> QED
      BY <2>3, <2>5, AdvancedFacts
  <2>7. d \in BlockType
    <3> HIDE DEF b, n
    <3> QED
      BY <1>2, <1>3, <1>5, <2>5, OverwrittenTyped
  <2>8. data' \in [Block -> BlockType]
    <3> HIDE DEF d, b
    <3> QED
      BY <1>4, <1>6, <2>1, <2>7
  <2>9. LocalOK(m, c)
    BY <1>2, <2>6, WriteLocalOK
  <2>10. inode' \in [File -> InodeType] /\ call' = [call EXCEPT ![t] = c]
    BY <1>2, <1>6, <2>1
  <2> HIDE DEF m, c
  <2> QED
    BY <1>4, <2>1, <2>8, <2>9, <2>10, StepFrame
<1>8. CASE ~ InRange(l.pos)
  <2>1. data' = [data EXCEPT ![b] = FreshBlock(b)] /\ WriteFails(t)
    BY <1>8 DEF AllocWrite
  <2>2. data' \in [Block -> BlockType]
    <3> HIDE DEF b
    <3> QED
      BY <1>4, <1>5, <1>6, <2>1
  <2>3. LocalOK(Idle, NoCall)
    BY IdleTyped DEF LocalOK, ReadLoop, Idle
  <2>4. /\ loc' = [loc EXCEPT ![t] = Idle] /\ call' = [call EXCEPT ![t] = NoCall]
        /\ inode' \in [File -> InodeType]
    BY <1>6, <2>1 DEF WriteFails, Return
  <2> QED
    BY <1>4, <2>2, <2>3, <2>4, StepFrame
<1> QED
  BY <1>7, <1>8

LEMMA GrownTyped ==
    ASSUME NEW l \in LocalType
    PROVE  Grown(l) \in InodeType
<1>1. /\ l.ino \in InodeType /\ l.at \in 0..BlockSize - 1 /\ l.pos \in Nat
      /\ l.ino.numBlocks \in Nat /\ l.ino.used \in 0..BlockSize
  BY DEF LocalType, InodeType
<1>2. CASE Grown(l) = l.ino
  BY <1>1, <1>2
<1>3. CASE /\ l.pos > l.ino.numBlocks
           /\ Grown(l) = [l.ino EXCEPT !.numBlocks = l.pos - 1, !.used = BlockSize]
  <2>1. l.pos - 1 \in Nat /\ BlockSize \in 0..BlockSize
    BY <1>1, <1>3, Constants
  <2> QED
    BY <1>1, <1>3, <2>1 DEF InodeType
<1>4. CASE Grown(l) = [l.ino EXCEPT !.numBlocks = l.pos, !.used = l.at]
  <2>1. l.at \in 0..BlockSize
    BY <1>1, Constants
  <2> QED
    BY <1>1, <1>4, <2>1 DEF InodeType
<1> QED
  <2>1. l.pos = l.ino.numBlocks /\ l.at > l.ino.used => l.at # 0
    BY <1>1
  <2> QED
    BY <1>2, <1>3, <1>4, <2>1 DEF Grown

LEMMA WriteEndStep ==
    ASSUME FileInv, NEW t \in Thread, WriteEnd(t)
    PROVE  FileInv'
<1>1. loc[t] \in LocalType /\ inode \in [File -> InodeType]
  BY DEF FileInv
<1>2. inode' = [inode EXCEPT ![call[t].file] = Grown(loc[t])]
  BY DEF WriteEnd
<1>3. inode' \in [File -> InodeType]
  BY <1>1, <1>2, GrownTyped
<1>4. Return(t, Answer(call[t].n, <<>>)) /\ UNCHANGED <<data, free>>
  BY DEF WriteEnd
<1> QED
  BY <1>3, <1>4, ReturnStep

-----------------------------------------------------------------------------
(* The theorems *)

LEMMA NextFileInv == FileInv /\ [Next]_vars => FileInv'
<1> SUFFICES ASSUME FileInv, [Next]_vars PROVE FileInv'
  OBVIOUS
<1>1. CASE UNCHANGED vars
  BY <1>1 DEF vars, FileInv, LocalOK, ReadLoop, AtEnd
<1>2. ASSUME NEW t \in Thread, Begin(t) \/ Step(t) PROVE FileInv'
  <2>1. CASE Begin(t)
    BY <2>1, BeginStep
  <2>2. CASE ReadStart(t)
    BY <2>2, ReadStartStep
  <2>3. CASE ReadTurn(t)
    BY <2>3, ReadTurnStep
  <2>4. CASE ReadReachesEnd(t)
    BY <2>4, ReadReachesEndStep
  <2>5. CASE ReadEnd(t)
    BY <2>5, ReadEndStep
  <2>6. CASE WriteStart(t)
    BY <2>6, WriteStartStep
  <2>7. CASE WriteTurn(t)
    BY <2>7, WriteTurnStep
  <2>8. CASE AllocRead(t)
    BY <2>8, AllocReadStep
  <2>9. CASE AllocFull(t)
    BY <2>9, AllocFullStep
  <2>10. CASE AllocWrite(t)
    BY <2>10, AllocWriteStep
  <2>11. CASE WriteEnd(t)
    BY <2>11, WriteEndStep
  <2> QED
    BY <1>2, <2>1, <2>2, <2>3, <2>4, <2>5, <2>6, <2>7, <2>8, <2>9, <2>10, <2>11 DEF Step
<1> QED
  BY <1>1, <1>2 DEF Next

\* However many threads read and write, and however their steps interleave, the
\* locals of each loop of pread and pwrite keep their ranges.
THEOREM FileInvariant == Spec => []FileInv
BY InitFileInv, NextFileInv, PTL DEF Spec

\* The types of inodes, blocks, free list and locals: no call enters a block
\* number that is not on the disk, or an offset or end outside a block.
THEOREM FileTypeCorrect == Spec => []TypeOK
<1>1. FileInv => TypeOK
  BY DEF FileInv, LocalOK, TypeOK, LocalType, InodeType, BlockType
<1> QED
  BY <1>1, FileInvariant, PTL

\* No turn of pread copies bytes that are not in the block it has read, more than
\* the buffer of its caller has room for, or none.
THEOREM TurnsStayInBlock == Spec => []TurnsFit
<1>1. FileInv => TurnsFit
  <2> SUFFICES ASSUME FileInv, NEW t \in Thread, At(t, "turn", "read"),
                      loc[t].rest > 0, ~ AtEnd(loc[t])
               PROVE  ToCopy(t) \in 1..Min({loc[t].rest, BlockSize - loc[t].at})
    BY DEF TurnsFit
  <2> DEFINE n    == ToCopy(t)
             rest == loc[t].rest
             at   == loc[t].at
  <2>1. LocalOK(loc[t], call[t]) /\ rest \in Nat /\ at \in 0..BlockSize - 1
    BY DEF FileInv, LocalType
  <2>2. n \in Nat \ {0} /\ n <= rest /\ at + n <= BlockSize
    BY <2>1, ToCopyFits
  <2> HIDE DEF n, rest, at
  <2>3. PICK room \in Int : room = BlockSize - at
    BY <2>1, Constants
  <2>4. Min({rest, room}) = IF rest <= room THEN rest ELSE room
    BY <2>1, MinOfTwo
  <2>5. n <= room
    BY <2>1, <2>2, <2>3, Constants
  <2>6. n \in 1..Min({rest, room})
    BY <2>1, <2>2, <2>4, <2>5
  <2> QED
    BY <2>3, <2>6 DEF n, rest, at
<1> QED
  BY <1>1, FileInvariant, PTL

=============================================================================

---------------------------- MODULE Sha512Proofs ----------------------------
(***************************************************************************)
(* Proofs about module Sha512: for messages of any length and pieces of    *)
(* any lengths, what is compressed is the padded message.                  *)
(***************************************************************************)
EXTENDS Sha512, TLAPS

Block == [Buffer -> Int]

HashTypeOK ==
  /\ buf \in Block
  /\ blocks \in Seq(Block)
  /\ curlen \in Nat /\ length \in Nat /\ message \in Nat
  /\ given \in 0 .. MaxLength
  /\ inlen \in 0 .. given
  /\ closed \in BOOLEAN

\* The call of sha512_final comes after the last call of sha512_update, and
\* the two properties together are inductive.
HashInv ==
  /\ HashTypeOK
  /\ closed => inlen = 0
  /\ BlocksAreInOrder
  /\ BlocksArePaddedMessage

-----------------------------------------------------------------------------
(* Blocks. *)

\* The part of the assumption the steps need.
LEMMA MaxLengthIsNat == MaxLength \in Nat
BY BoundsAssumption

\* A byte of a message is a number.
LEMMA ByteIsInt ==
    ASSUME NEW m \in Nat, NEW k \in Int
    PROVE  Byte(m, k) \in Int
<1>1. MaxLength + 1 \in Int
  BY MaxLengthIsNat
<1>2. m * (MaxLength + 1) \in Int
  BY <1>1
<1> QED
  BY <1>2 DEF Byte

\* The blocks of a longer sequence: the old ones and the new one.
LEMMA AppendedBlock ==
    ASSUME NEW s \in Seq(Block), NEW e \in Block
    PROVE  /\ Append(s, e) \in Seq(Block)
           /\ Len(s) \in Nat
           /\ Len(Append(s, e)) = Len(s) + 1
           /\ \A b \in 1 .. Len(s) : Append(s, e)[b] = s[b]
           /\ Append(s, e)[Len(s) + 1] = e
OBVIOUS

\* Taking a piece into the buffer gives a block again.
LEMMA FilledIsBlock ==
    ASSUME HashTypeOK, NEW n \in Nat
    PROVE  Filled(n) \in Block
<1> SUFFICES ASSUME NEW i \in Buffer
             PROVE  (IF i \in curlen .. curlen + n - 1
                     THEN Byte(message, ReadAt + i - curlen)
                     ELSE buf[i]) \in Int
  BY DEF Filled, Block
<1>1. ReadAt + i - curlen \in Int /\ message \in Nat
  BY MaxLengthIsNat DEF HashTypeOK, ReadAt, Buffer
<1>2. Byte(message, ReadAt + i - curlen) \in Int
  BY <1>1, ByteIsInt
<1>3. buf[i] \in Int
  BY DEF HashTypeOK, Block
<1> QED
  BY <1>2, <1>3

\* Setting bytes to zero.
LEMMA ZeroedBytes ==
    ASSUME NEW block \in Block, NEW from \in Nat, NEW to \in Nat
    PROVE  /\ Zeroed(block, from, to) \in Block
           /\ \A i \in Buffer :
                Zeroed(block, from, to)[i]
                  = IF i >= from /\ i < to THEN 0 ELSE block[i]
BY DEF Zeroed, Block, Buffer

\* One byte overwritten.
LEMMA OneByteSet ==
    ASSUME NEW block \in Block, NEW c \in Buffer
    PROVE  /\ [block EXCEPT ![c] = 128] \in Block
           /\ [block EXCEPT ![c] = 128][c] = 128
           /\ \A i \in Buffer : i # c => [block EXCEPT ![c] = 128][i] = block[i]
BY DEF Block

\* How many blocks a message of m blocks and c bytes is padded to.
LEMMA PaddedCount ==
    ASSUME NEW m \in Nat, NEW c \in 0 .. 127, NEW n, n = 128 * m + c
    PROVE  PaddedBlocks(n) = IF c + 1 > 112 THEN m + 2 ELSE m + 1
BY DEF PaddedBlocks

\* A byte of the stored length.
LEMMA LengthByteIsInt ==
    ASSUME NEW bits \in Nat, NEW j \in 0 .. 3
    PROVE  (bits \div PlaceValue(j)) % 256 \in Int
<1>1. PlaceValue(j) \in {1, 256, 65536, 16777216}
  BY DEF PlaceValue
<1>2. bits \div PlaceValue(j) \in Int
  BY <1>1
<1> QED
  BY <1>2

\* w ends in the eight bytes of the length bits, and is block before them.
EndsInLength(w, block, bits) ==
    /\ w \in Block
    /\ \A i \in 0 .. 119 : w[i] = block[i]
    /\ \A i \in 120 .. 123 : w[i] = 0
    /\ \A i \in 124 .. 127 : w[i] = (bits \div PlaceValue(127 - i)) % 256

\* Storing the length leaves the first 120 bytes alone.
LEMMA LengthBytes ==
    ASSUME NEW block \in Block, NEW bits \in Nat
    PROVE  EndsInLength(WithLength(block, bits), block, bits)
<1> DEFINE w == WithLength(block, bits)
<1>1. ASSUME NEW i \in 124 .. 127
      PROVE  (bits \div PlaceValue(127 - i)) % 256 \in Int
  <2>1. 127 - i \in 0 .. 3
    OBVIOUS
  <2> QED
    BY <2>1, LengthByteIsInt
<1>2. /\ \A i \in 0 .. 119 : w[i] = block[i]
      /\ \A i \in 120 .. 123 : w[i] = 0
      /\ \A i \in 124 .. 127 : w[i] = (bits \div PlaceValue(127 - i)) % 256
  BY DEF WithLength, Buffer
<1>3. \A i \in Buffer : w[i] \in Int
  <2> TAKE i \in Buffer
  <2>1. i \in 0 .. 119 \/ i \in 120 .. 123 \/ i \in 124 .. 127
    BY DEF Buffer
  <2> QED
    BY <2>1, <1>1, <1>2 DEF Block, Buffer
<1>4. w = [i \in Buffer |-> w[i]]
  BY DEF WithLength
<1> HIDE DEF w
<1>5. w \in Block
  BY <1>3, <1>4 DEF Block
<1> QED
  BY <1>2, <1>5 DEF w, EndsInLength

-----------------------------------------------------------------------------
(* The steps of sha512_update. *)

\* A whole block straight from the input.
LEMMA TakeBlockKeepsOrder ==
    ASSUME HashInv, TakeBlock
    PROVE  HashInv'
<1> DEFINE e == [i \in Buffer |-> Byte(message, ReadAt + i)]
<1> USE DEF HashInv
<1>1. /\ blocks' = Append(blocks, e)
      /\ inlen \in Nat /\ given \in Nat /\ length \in Nat
      /\ inlen >= 128 /\ curlen = 0 /\ curlen' = 0
      /\ inlen' = inlen - 128 /\ given' = given /\ length' = length + 1024
      /\ ~closed /\ closed' = closed /\ message' = message /\ buf' = buf
  BY MaxLengthIsNat DEF TakeBlock, HashTypeOK
<1>2. e \in Block
  <2>1. \A i \in Buffer : ReadAt + i \in Int
    BY <1>1 DEF ReadAt, Buffer
  <2>2. \A i \in Buffer : Byte(message, ReadAt + i) \in Int
    BY <2>1, ByteIsInt DEF HashTypeOK
  <2> QED
    BY <2>2 DEF Block
<1> HIDE DEF e
<1>3. /\ blocks' \in Seq(Block)
      /\ Len(blocks) \in Nat /\ Len(blocks') = Len(blocks) + 1
      /\ \A b \in 1 .. Len(blocks) : blocks'[b] = blocks[b]
      /\ blocks'[Len(blocks) + 1] = e
  BY <1>1, <1>2, AppendedBlock DEF HashTypeOK
<1>4. HashTypeOK'
  <2>1. inlen' \in 0 .. given' /\ given' \in 0 .. MaxLength
    BY <1>1 DEF HashTypeOK
  <2>2. length' \in Nat /\ curlen' \in Nat /\ message' \in Nat
    BY <1>1 DEF HashTypeOK
  <2> QED
    BY <2>1, <2>2, <1>1, <1>3 DEF HashTypeOK
<1>5. /\ length = 1024 * Len(blocks)
      /\ 128 * Len(blocks) = given - inlen
      /\ \A b \in 1 .. Len(blocks) : \A i \in Buffer :
           blocks[b][i] = Byte(message, 128 * (b - 1) + i)
  BY <1>1, <1>3 DEF BlocksAreInOrder, ReadAt
<1>6. ASSUME NEW b \in 1 .. Len(blocks'), NEW i \in Buffer
      PROVE  blocks'[b][i] = Byte(message, 128 * (b - 1) + i)
  <2>1. CASE b \in 1 .. Len(blocks)
    BY <2>1, <1>3, <1>5
  <2>2. CASE b = Len(blocks) + 1
    <3>1. blocks'[b][i] = Byte(message, ReadAt + i)
      BY <2>2, <1>3 DEF e
    <3>2. ReadAt = 128 * (b - 1)
      BY <2>2, <1>3, <1>5 DEF ReadAt
    <3> QED
      BY <3>1, <3>2
  <2> QED
    BY <2>1, <2>2, <1>3
<1>7. BlocksAreInOrder'
  <2>1. curlen' \in 0 .. 127 /\ length' = 1024 * Len(blocks')
    BY <1>1, <1>3, <1>5
  <2>2. 128 * Len(blocks') + curlen' = given' - inlen'
    BY <1>1, <1>3, <1>5
  <2>3. 0 .. curlen' - 1 = {}
    BY <1>1
  <2> QED
    BY <2>1, <2>2, <2>3, <1>1, <1>6 DEF BlocksAreInOrder, ReadAt
<1> QED
  BY <1>1, <1>4, <1>7 DEF BlocksArePaddedMessage

\* A piece into the buffer, which is compressed when it is full.
LEMMA FillBufferKeepsOrder ==
    ASSUME HashInv, FillBuffer
    PROVE  HashInv'
<1> DEFINE n == Lesser(inlen, 128 - curlen)
           e == Filled(n)
<1> USE DEF HashInv
<1>1. /\ inlen \in Nat /\ given \in Nat /\ length \in Nat /\ curlen \in 0 .. 127
      /\ inlen > 0 /\ ~closed /\ ~closed' /\ message' = message
      /\ given' = given
  <2>1. inlen > 0 /\ ~closed
    BY DEF FillBuffer, HashTypeOK
  <2> QED
    BY <2>1, MaxLengthIsNat DEF FillBuffer, HashTypeOK, BlocksAreInOrder
<1>2. n \in Nat /\ n <= inlen /\ n <= 128 - curlen /\ n > 0
  BY <1>1 DEF Lesser
<1>3. e \in Block
  BY <1>2, FilledIsBlock
<1>4. /\ Len(blocks) \in Nat
      /\ length = 1024 * Len(blocks)
      /\ 128 * Len(blocks) + curlen = given - inlen
  BY <1>1 DEF BlocksAreInOrder, ReadAt, HashTypeOK
<1>q. /\ \A b \in 1 .. Len(blocks) : \A i \in Buffer :
           blocks[b][i] = Byte(message, 128 * (b - 1) + i)
      /\ \A i \in 0 .. curlen - 1 :
           buf[i] = Byte(message, 128 * Len(blocks) + i)
  BY <1>1 DEF BlocksAreInOrder
<1>5. buf' = e /\ inlen' = inlen - n
  BY DEF FillBuffer
<1>6. ASSUME NEW i \in 0 .. curlen + n - 1
      PROVE  e[i] = Byte(message, 128 * Len(blocks) + i)
  <2>1. i \in Buffer
    BY <1>1, <1>2 DEF Buffer
  <2>2. e[i] = IF i \in curlen .. curlen + n - 1
               THEN Byte(message, ReadAt + i - curlen)
               ELSE buf[i]
    BY <2>1 DEF Filled
  <2>3. CASE i \in 0 .. curlen - 1
    BY <2>2, <2>3, <1>1, <1>2, <1>4, <1>q
  <2>4. CASE i \in curlen .. curlen + n - 1
    <3>1. ReadAt + i - curlen = 128 * Len(blocks) + i
      BY <2>4, <1>1, <1>2, <1>4 DEF ReadAt
    <3> QED
      BY <2>2, <2>4, <3>1
  <2> QED
    BY <2>3, <2>4, <1>1, <1>2
<1> HIDE DEF n, e
<1>7. CASE curlen + n = 128
  <2>1. /\ blocks' = Append(blocks, e) /\ length' = length + 1024
        /\ curlen' = 0
    BY <1>7 DEF FillBuffer, n, e
  <2>2. /\ blocks' \in Seq(Block)
        /\ Len(blocks') = Len(blocks) + 1
        /\ \A b \in 1 .. Len(blocks) : blocks'[b] = blocks[b]
        /\ blocks'[Len(blocks) + 1] = e
    BY <2>1, <1>3, AppendedBlock DEF HashTypeOK
  <2>3. HashTypeOK'
    BY <2>1, <2>2, <1>1, <1>2, <1>3, <1>5, MaxLengthIsNat
    DEF HashTypeOK, FillBuffer
  <2>4. ASSUME NEW b \in 1 .. Len(blocks'), NEW i \in Buffer
        PROVE  blocks'[b][i] = Byte(message, 128 * (b - 1) + i)
    <3>1. CASE b \in 1 .. Len(blocks)
      BY <3>1, <2>2, <1>4, <1>q
    <3>2. CASE b = Len(blocks) + 1
      <4>1. i \in 0 .. curlen + n - 1
        BY <1>1, <1>2, <1>7 DEF Buffer
      <4>2. b - 1 = Len(blocks)
        BY <3>2, <1>4
      <4> QED
        BY <3>2, <4>1, <4>2, <2>2, <1>6
    <3> QED
      BY <3>1, <3>2, <2>2, <1>4
  <2>5. BlocksAreInOrder'
    <3>1. curlen' \in 0 .. 127 /\ length' = 1024 * Len(blocks')
      BY <2>1, <2>2, <1>4
    <3>2. 128 * Len(blocks') + curlen' = given' - inlen'
      <4> DEFINE m == Len(blocks)
      <4>1. m \in Nat /\ Len(blocks') = m + 1 /\ 128 * m + curlen = given - inlen
        BY <2>2, <1>4
      <4> HIDE DEF m
      <4> QED
        BY <4>1, <2>1, <1>1, <1>2, <1>5, <1>7
    <3>3. 0 .. curlen' - 1 = {}
      BY <2>1
    <3>4. \A b \in 1 .. Len(blocks') : \A i \in Buffer :
            blocks'[b][i] = Byte(message', 128 * (b - 1) + i)
      BY <2>4, <1>1
    <3>5. 128 * Len(blocks') + curlen' = ReadAt'
      BY <3>2 DEF ReadAt
    <3>6. \A i \in 0 .. curlen' - 1 :
            buf'[i] = Byte(message', 128 * Len(blocks') + i)
      BY <3>3
    <3> HIDE DEF HashInv
    <3> QED
      BY <3>1, <3>4, <3>5, <3>6 DEF BlocksAreInOrder
  <2> QED
    BY <2>3, <2>5, <1>1 DEF BlocksArePaddedMessage
<1>8. CASE curlen + n # 128
  <2>1. blocks' = blocks /\ length' = length /\ curlen' = curlen + n
    BY <1>8 DEF FillBuffer, n
  <2>2. HashTypeOK'
    BY <2>1, <1>1, <1>2, <1>3, <1>5, MaxLengthIsNat
    DEF HashTypeOK, FillBuffer
  <2>3. BlocksAreInOrder'
    BY <2>1, <1>1, <1>2, <1>4, <1>q, <1>5, <1>6, <1>8
    DEF BlocksAreInOrder, ReadAt
  <2> QED
    BY <2>2, <2>3, <1>1 DEF BlocksArePaddedMessage
<1> QED
  BY <1>7, <1>8

-----------------------------------------------------------------------------
(* The step of sha512_final. *)

\* The four kinds of byte of a padded message.
LEMMA PaddedByteKinds ==
    ASSUME NEW m, NEW n \in Nat, NEW count \in Nat, NEW k \in Int
    PROVE  /\ k < n => PaddedByte(m, n, count, k) = Byte(m, k)
           /\ k = n => PaddedByte(m, n, count, k) = 128
           /\ k > n /\ k < 128 * count - 4 => PaddedByte(m, n, count, k) = 0
           /\ k > n /\ k >= 128 * count - 4 =>
                PaddedByte(m, n, count, k)
                  = ((8 * n) \div PlaceValue(128 * count - 1 - k)) % 256
BY DEF PaddedByte

\* The padding, the bytes of which are read off the message's length.
LEMMA FinalPads ==
    ASSUME HashInv, sha512_final
    PROVE  HashInv'
<1> DEFINE bits == length + 8 * curlen
           one == [buf EXCEPT ![curlen] = 128]
           used == curlen + 1
           spill == used > 112
           full == Zeroed(one, used, 128)
           last == WithLength(IF spill THEN Zeroed(full, 0, 120)
                              ELSE Zeroed(one, used, 120), bits)
           m == Len(blocks)
           count == PaddedBlocks(given)
           held == IF spill THEN Append(blocks, full) ELSE blocks
<1>1. /\ inlen = 0 /\ ~closed /\ closed' = TRUE
      /\ inlen' = 0 /\ given' = given /\ message' = message
      /\ length' = bits /\ curlen' = 120 /\ buf' = last
      /\ blocks' = held \o <<last>>
  BY DEF sha512_final
<1>2. /\ m \in Nat /\ given \in Nat /\ length \in Nat /\ message \in Nat
      /\ given \in 0 .. MaxLength /\ curlen \in 0 .. 127
      /\ length = 1024 * m
      /\ 128 * m + curlen = given
  BY <1>1, MaxLengthIsNat DEF HashInv, HashTypeOK, BlocksAreInOrder, ReadAt
<1>b. buf \in Block
  BY DEF HashInv, HashTypeOK
<1>s. blocks \in Seq(Block)
  BY DEF HashInv, HashTypeOK
<1>m. /\ \A b \in 1 .. m : \A i \in Buffer :
           blocks[b][i] = Byte(message, 128 * (b - 1) + i)
      /\ \A i \in 0 .. curlen - 1 : buf[i] = Byte(message, 128 * m + i)
  BY <1>1 DEF HashInv, BlocksAreInOrder
<1>u. /\ used \in Nat
      /\ \A i \in Buffer : (i >= used) <=> (i > curlen)
  BY <1>2 DEF Buffer
<1> HIDE DEF full, last, held, count, m, used
<1>3. bits = 8 * given /\ bits \in Nat
  BY <1>2
<1>4. count = (IF spill THEN m + 2 ELSE m + 1) /\ count \in Nat
  <2>1. count = IF spill THEN m + 2 ELSE m + 1
    BY <1>2, PaddedCount DEF count, used
  <2> QED
    BY <2>1, <1>2
<1>5. /\ one \in Block /\ one[curlen] = 128
      /\ \A i \in Buffer : i # curlen => one[i] = buf[i]
  <2>1. curlen \in Buffer
    BY <1>2 DEF Buffer
  <2> QED
    BY <2>1, <1>b, OneByteSet
<1>t. one \in Block
  BY <1>5
<1> HIDE DEF bits, one
<1>6. /\ full \in Block
      /\ \A i \in Buffer : full[i] = IF i > curlen THEN 0 ELSE one[i]
  <2>2. /\ full \in Block
        /\ \A i \in Buffer :
             full[i] = IF i >= used /\ i < 128 THEN 0 ELSE one[i]
    BY <1>u, <1>t, ZeroedBytes DEF full
  <2>3. \A i \in Buffer : i < 128
    BY DEF Buffer
  <2> QED
    BY <2>2, <2>3, <1>u
<1> DEFINE body == IF spill THEN Zeroed(full, 0, 120) ELSE Zeroed(one, used, 120)
<1>7. /\ body \in Block
      /\ \A i \in 0 .. 119 :
           body[i] = IF spill \/ i > curlen THEN 0 ELSE one[i]
  <2>1. \A i \in 0 .. 119 : i \in Buffer
    BY DEF Buffer
  <2>2. CASE spill
    <3>1. /\ body \in Block
          /\ \A i \in Buffer :
               body[i] = IF i >= 0 /\ i < 120 THEN 0 ELSE full[i]
      BY <2>2, <1>6, ZeroedBytes
    <3> HIDE DEF body
    <3> QED
      BY <3>1, <2>1, <2>2
  <2>3. CASE ~spill
    <3>1. /\ body \in Block
          /\ \A i \in Buffer :
               body[i] = IF i >= used /\ i < 120 THEN 0 ELSE one[i]
      BY <2>3, <1>u, <1>t, ZeroedBytes
    <3> HIDE DEF body
    <3> QED
      BY <3>1, <2>1, <2>3, <1>u
  <2> QED
    BY <2>2, <2>3
<1> HIDE DEF body
<1>8. /\ last \in Block
      /\ \A i \in 0 .. 119 : last[i] = body[i]
      /\ \A i \in 120 .. 123 : last[i] = 0
      /\ \A i \in 124 .. 127 : last[i] = (bits \div PlaceValue(127 - i)) % 256
  <2>1. last = WithLength(body, bits)
    BY DEF last, body
  <2>2. body \in Block /\ bits \in Nat
    BY <1>3, <1>7
  <2> HIDE DEF last, body, bits
  <2>3. EndsInLength(last, body, bits)
    BY <2>1, <2>2, LengthBytes
  <2> QED
    BY <2>3 DEF EndsInLength
<1>9. HashTypeOK'
  <2>1. held \in Seq(Block)
    BY <1>s, <1>6, AppendedBlock DEF held
  <2>2. blocks' = Append(held, last)
    BY <2>1, <1>1, <1>8
  <2>3. blocks' \in Seq(Block)
    BY <2>1, <2>2, <1>8, AppendedBlock
  <2>4. /\ length' \in Nat /\ given' \in 0 .. MaxLength
        /\ inlen' \in 0 .. given' /\ message' \in Nat
    BY <1>1, <1>2, <1>3
  <2> QED
    BY <2>3, <2>4, <1>1, <1>8 DEF HashTypeOK
<1>10. /\ Len(blocks') = count
       /\ \A b \in 1 .. m : blocks'[b] = blocks[b]
       /\ spill => blocks'[m + 1] = full
       /\ blocks'[count] = last
  <2>1. CASE spill
    <3>1. /\ held \in Seq(Block) /\ Len(held) = m + 1
          /\ \A b \in 1 .. m : held[b] = blocks[b]
          /\ held[m + 1] = full
      BY <2>1, <1>s, <1>6, AppendedBlock DEF held, m
    <3>2. blocks' = Append(held, last)
      BY <3>1, <1>1, <1>8
    <3>3. /\ Len(Append(held, last)) = Len(held) + 1
          /\ Append(held, last)[Len(held) + 1] = last
          /\ \A b \in 1 .. Len(held) : Append(held, last)[b] = held[b]
      <4>1. held \in Seq(Block) /\ last \in Block
        BY <3>1, <1>8
      <4> HIDE DEF held, last
      <4> QED
        BY <4>1, AppendedBlock
    <3>4. /\ Len(blocks') = m + 2 /\ blocks'[m + 2] = last
          /\ \A b \in 1 .. m + 1 : blocks'[b] = held[b]
      BY <3>1, <3>2, <3>3, <1>2
    <3> QED
      BY <2>1, <3>1, <3>4, <1>2, <1>4
  <2>2. CASE ~spill
    <3>1. blocks' = Append(blocks, last)
      BY <2>2, <1>1, <1>s, <1>8 DEF held
    <3> QED
      BY <2>2, <3>1, <1>2, <1>4, <1>8, <1>s, AppendedBlock DEF m
  <2> QED
    BY <2>1, <2>2
<1>11. ASSUME NEW b \in 1 .. count, NEW i \in Buffer
       PROVE  blocks'[b][i]
                = PaddedByte(message, given, count, 128 * (b - 1) + i)
  <2> DEFINE k == 128 * (b - 1) + i
  <2>0. i \in 0 .. 127 /\ k \in Int /\ b \in Int /\ k = 128 * (b - 1) + i
    BY <1>2, <1>4 DEF Buffer
  <2> SUFFICES blocks'[b][i] = PaddedByte(message, given, count, k)
    OBVIOUS
  <2> HIDE DEF k
  <2>k. /\ k < given => PaddedByte(message, given, count, k) = Byte(message, k)
        /\ k = given => PaddedByte(message, given, count, k) = 128
        /\ k > given /\ k < 128 * count - 4 =>
             PaddedByte(message, given, count, k) = 0
        /\ k > given /\ k >= 128 * count - 4 =>
             PaddedByte(message, given, count, k)
               = ((8 * given) \div PlaceValue(128 * count - 1 - k)) % 256
    BY <2>0, <1>2, <1>4, PaddedByteKinds
  <2>1. CASE b \in 1 .. m
    <3>1. k < given
      BY <2>0, <2>1, <1>2
    <3> QED
      <4>1. blocks'[b][i] = Byte(message, k)
        BY <2>0, <2>1, <1>m, <1>10
      <4> QED
        BY <3>1, <4>1, <2>k
  <2>2. CASE b = m + 1 /\ spill
    <3>1. blocks'[b][i] = IF i > curlen THEN 0 ELSE one[i]
      BY <2>2, <1>6, <1>10
    <3>2. k = 128 * m + i /\ k < 128 * count - 8
      BY <2>0, <2>2, <1>2, <1>4 DEF used
    <3>3. CASE i < curlen
      BY <2>0, <3>1, <3>2, <3>3, <1>2, <1>m, <1>5, <2>k
    <3>4. CASE i = curlen
      BY <2>0, <3>1, <3>2, <3>4, <1>2, <1>5, <2>k
    <3>5. CASE i > curlen
      <4>1. k > given
        BY <2>0, <3>2, <3>5, <1>2
      <4> QED
        <5>1. PaddedByte(message, given, count, k) = 0
          BY <2>0, <3>2, <4>1, <1>4, <2>k
        <5> QED
          BY <3>1, <3>5, <5>1
    <3> QED
      BY <2>0, <3>3, <3>4, <3>5, <1>2
  <2>3. CASE b = count
    <3>1. blocks'[b][i] = last[i]
      BY <2>3, <1>10
    <3>2. k = 128 * count - 128 + i /\ 128 * count - 1 - k = 127 - i
      BY <2>0, <2>3
    <3>3. CASE i >= 120
      <4>1. k > given
        BY <2>0, <3>2, <3>3, <1>2, <1>4 DEF used
      <4>2. CASE i >= 124
        <5>1. last[i] = ((8 * given) \div PlaceValue(127 - i)) % 256
          BY <2>0, <4>2, <1>3, <1>8
        <5>2. k >= 128 * count - 4
          BY <2>0, <3>2, <4>2, <1>4
        <5> QED
          BY <3>1, <3>2, <4>1, <5>1, <5>2, <2>k
      <4>3. CASE i < 124
        <5>1. last[i] = 0
          BY <2>0, <3>3, <4>3, <1>8
        <5>2. k < 128 * count - 4
          BY <2>0, <3>2, <4>3, <1>4
        <5> QED
          BY <3>1, <4>1, <5>1, <5>2, <2>k
      <4> QED
        BY <2>0, <4>2, <4>3
    <3>4. CASE i < 120
      <4>1. last[i] = IF spill \/ i > curlen THEN 0 ELSE one[i]
        BY <2>0, <3>4, <1>7, <1>8
      <4>2. CASE spill \/ i > curlen
        <5>1. k > given
          BY <2>0, <3>2, <4>2, <1>2, <1>4 DEF used
        <5>2. k < 128 * count - 4
          BY <2>0, <3>2, <3>4, <1>4
        <5> QED
          BY <3>1, <4>1, <4>2, <5>1, <5>2, <2>k
      <4>3. CASE ~spill /\ i = curlen
        BY <2>0, <3>1, <3>2, <4>1, <4>3, <1>2, <1>4, <1>5, <2>k
      <4>4. CASE ~spill /\ i < curlen
        BY <2>0, <3>1, <3>2, <4>1, <4>4, <1>2, <1>m, <1>4, <1>5, <2>k
      <4> QED
        BY <2>0, <4>2, <4>3, <4>4, <1>2
    <3> QED
      BY <2>0, <3>3, <3>4
  <2> QED
    BY <2>1, <2>2, <2>3, <1>2, <1>4
<1>12. BlocksArePaddedMessage'
  BY <1>1, <1>10, <1>11 DEF BlocksArePaddedMessage, count
<1> QED
  BY <1>1, <1>9, <1>12 DEF HashInv, BlocksAreInOrder

-----------------------------------------------------------------------------
(* The invariant. *)

LEMMA HashInitEstablishes == HashInit => HashInv
<1> SUFFICES ASSUME HashInit PROVE HashInv
  OBVIOUS
<1>1. HashTypeOK
  <2>1. buf \in Block /\ blocks \in Seq(Block)
    BY DEF HashInit, Block, Unwritten
  <2>2. 0 \in 0 .. MaxLength /\ 0 \in 0 .. 0
    BY MaxLengthIsNat
  <2>3. /\ curlen \in Nat /\ length \in Nat /\ message \in Nat
        /\ given \in 0 .. MaxLength /\ inlen \in 0 .. given
        /\ closed \in BOOLEAN
    BY <2>2 DEF HashInit
  <2> QED
    BY <2>1, <2>3 DEF HashTypeOK
<1>2. Len(blocks) = 0 /\ 0 .. curlen - 1 = {} /\ 1 .. Len(blocks) = {}
  BY DEF HashInit
<1>3. BlocksAreInOrder
  BY <1>2 DEF HashInit, BlocksAreInOrder, ReadAt
<1> QED
  BY <1>1, <1>3 DEF HashInv, HashInit, BlocksArePaddedMessage

LEMMA HashNextPreserves == HashInv /\ [HashNext]_hashVars => HashInv'
<1> SUFFICES ASSUME HashInv, [HashNext]_hashVars PROVE HashInv'
  OBVIOUS
<1>1. CASE sha512_init
  <2>1. HashTypeOK'
    <3>1. buf' \in Block /\ blocks' \in Seq(Block)
      BY <1>1 DEF sha512_init, HashInv, HashTypeOK
    <3>2. message' \in Nat
      BY <1>1 DEF sha512_init, HashInv, HashTypeOK
    <3>3. 0 \in 0 .. MaxLength /\ 0 \in 0 .. 0
      BY MaxLengthIsNat
    <3>4. /\ curlen' \in Nat /\ length' \in Nat
          /\ given' \in 0 .. MaxLength /\ inlen' \in 0 .. given'
          /\ closed' \in BOOLEAN
      BY <1>1, <3>3 DEF sha512_init
    <3> QED
      BY <3>1, <3>2, <3>4 DEF HashTypeOK
  <2>2. /\ Len(blocks') = 0 /\ 0 .. curlen' - 1 = {}
        /\ 1 .. Len(blocks') = {}
    BY <1>1 DEF sha512_init
  <2>3. BlocksAreInOrder'
    BY <1>1, <2>2 DEF sha512_init, BlocksAreInOrder, ReadAt
  <2> QED
    BY <1>1, <2>1, <2>3 DEF HashInv, sha512_init, BlocksArePaddedMessage
<1>2. CASE sha512_update
  <2>1. HashTypeOK'
    BY <1>2, MaxLengthIsNat, PiecesAssumption
    DEF sha512_update, HashInv, HashTypeOK
  <2>2. ReadAt' = ReadAt
    BY <1>2, MaxLengthIsNat, PiecesAssumption
    DEF sha512_update, HashInv, HashTypeOK, ReadAt
  <2>3. BlocksAreInOrder'
    BY <1>2, <2>2 DEF sha512_update, HashInv, BlocksAreInOrder
  <2> QED
    BY <1>2, <2>1, <2>3 DEF HashInv, sha512_update, BlocksArePaddedMessage
<1>3. CASE TakeBlock
  BY <1>3, TakeBlockKeepsOrder
<1>4. CASE FillBuffer
  BY <1>4, FillBufferKeepsOrder
<1>5. CASE sha512_final
  BY <1>5, FinalPads
<1>6. CASE UNCHANGED hashVars
  BY <1>6 DEF hashVars, HashInv, HashTypeOK, BlocksAreInOrder,
              BlocksArePaddedMessage, ReadAt
<1> QED
  BY <1>1, <1>2, <1>3, <1>4, <1>5, <1>6 DEF HashNext

\* sha512_update compresses the blocks of a message in order, for any pieces
\* the callers cut it into.
THEOREM UpdateKeepsOrder == HashSpec => []BlocksAreInOrder
<1>1. HashInv => BlocksAreInOrder
  BY DEF HashInv
<1> QED
  BY <1>1, HashInitEstablishes, HashNextPreserves, PTL DEF HashSpec

\* sha512_final leaves exactly the padded message compressed, for a message
\* of any length, after any other message in the same context.
THEOREM DigestIsOfThePaddedMessage == HashSpec => []BlocksArePaddedMessage
<1>1. HashInv => BlocksArePaddedMessage
  BY DEF HashInv
<1> QED
  BY <1>1, HashInitEstablishes, HashNextPreserves, PTL DEF HashSpec
=============================================================================

------------------------------- MODULE Sha512 -------------------------------
(***************************************************************************)
(* The buffering and padding of lib/ed25519/sha512.c: one sha512_context,  *)
(* used for one message after another, each given in pieces.  Compressing  *)
(* is recorded, not computed: blocks holds what sha512_compress was given. *)
(*                                                                         *)
(* A byte below 256 is itself; a byte of the message is known by its       *)
(* message and its place there, so that a byte left over from before is    *)
(* never mistaken for one of this message.                                 *)
(***************************************************************************)
EXTENDS Integers, Sequences

CONSTANTS
  Pieces,       \* lengths sha512_update is called with
  MaxLength,    \* bytes of a message
  MaxHashes     \* messages hashed with the context

ASSUME PiecesAssumption == Pieces \subseteq Nat

\* The number of a message's bits fits in the last four bytes of a block.
ASSUME BoundsAssumption ==
  /\ MaxLength \in Nat /\ MaxLength < 2^28
  /\ MaxHashes \in Nat

VARIABLES
  buf, curlen, length,   \* the context, but for its eight words
  blocks,                \* blocks compressed since sha512_init
  given,                 \* bytes of the message passed in so far
  inlen,                 \* those the call in progress has not consumed
  message,               \* which message this is
  closed                 \* sha512_final has run

hashVars == <<buf, curlen, length, blocks, given, inlen, message, closed>>

Byte(m, k) == 256 + m * (MaxLength + 1) + k

Buffer == 0 .. 127

\* The first byte the call in progress has not consumed.
ReadAt == given - inlen

Lesser(a, b) == IF a < b THEN a ELSE b

\* Nothing is known of the buffer of a context on the stack.
Unwritten == -1

HashInit ==
  /\ buf = [i \in Buffer |-> Unwritten]
  /\ curlen = 0 /\ length = 0
  /\ blocks = <<>>
  /\ given = 0 /\ inlen = 0
  /\ message = 0
  /\ closed = FALSE

\* sha512_init on the same context: the buffer stays as it was.
sha512_init ==
  /\ closed
  /\ message < MaxHashes - 1
  /\ message' = message + 1
  /\ curlen' = 0 /\ length' = 0
  /\ blocks' = <<>>
  /\ given' = 0 /\ inlen' = 0
  /\ closed' = FALSE
  /\ UNCHANGED buf

\* The call of sha512_update; its loop follows.
sha512_update ==
  /\ inlen = 0 /\ ~closed
  /\ \E n \in Pieces :
       /\ given + n <= MaxLength
       /\ given' = given + n
       /\ inlen' = n
  /\ UNCHANGED <<buf, curlen, length, blocks, message, closed>>

\* A whole block, taken straight from the input.
TakeBlock ==
  /\ inlen >= 128
  /\ curlen = 0
  /\ blocks' = Append(blocks, [i \in Buffer |-> Byte(message, ReadAt + i)])
  /\ length' = length + 128 * 8
  /\ inlen' = inlen - 128
  /\ UNCHANGED <<buf, curlen, given, message, closed>>

Filled(n) ==
  [i \in Buffer |-> IF i \in curlen .. curlen + n - 1
                    THEN Byte(message, ReadAt + i - curlen)
                    ELSE buf[i]]

\* Mutant: a full buffer is compressed and kept.
FillBufferKept ==
  /\ inlen > 0
  /\ ~ (curlen = 0 /\ inlen >= 128)
  /\ LET n == Lesser(inlen, 128 - curlen)
     IN  /\ buf' = Filled(n)
         /\ inlen' = inlen - n
         /\ curlen' = curlen + n
         /\ IF curlen + n = 128
            THEN /\ blocks' = Append(blocks, Filled(n))
                 /\ length' = length + 8 * 128
            ELSE UNCHANGED <<blocks, length>>
  /\ UNCHANGED <<given, message, closed>>

\* Otherwise into the buffer, which is compressed and emptied when full.
FillBuffer ==
  /\ inlen > 0
  /\ ~ (curlen = 0 /\ inlen >= 128)
  /\ LET n == Lesser(inlen, 128 - curlen)
     IN  /\ buf' = Filled(n)
         /\ inlen' = inlen - n
         /\ IF curlen + n = 128
            THEN /\ blocks' = Append(blocks, Filled(n))
                 /\ length' = length + 8 * 128
                 /\ curlen' = 0
            ELSE /\ curlen' = curlen + n
                 /\ UNCHANGED <<blocks, length>>
  /\ UNCHANGED <<given, message, closed>>

\* Bytes from .. to - 1 of a block set to zero.
Zeroed(block, from, to) ==
  [i \in Buffer |-> IF i \in from .. to - 1 THEN 0 ELSE block[i]]

\* What a byte counts with j bytes after it.
PlaceValue(j) == <<1, 256, 65536, 16777216>>[j + 1]

\* STORE64H at the end of a block.
WithLength(block, bits) ==
  [i \in Buffer |-> IF i >= 120
                    THEN IF i < 124 THEN 0
                         ELSE (bits \div PlaceValue(127 - i)) % 256
                    ELSE block[i]]

\* Mutant: a block with 113 bytes used is taken to have room for the length.
sha512_final_113 ==
  /\ inlen = 0 /\ ~closed
  /\ LET bits == length + 8 * curlen
         one == [buf EXCEPT ![curlen] = 128]
         used == curlen + 1
         spill == used > 113
         full == Zeroed(one, used, 128)
         last == WithLength(IF spill THEN Zeroed(full, 0, 120)
                            ELSE Zeroed(one, used, 120), bits)
     IN  /\ length' = bits
         /\ blocks' = (IF spill THEN Append(blocks, full) ELSE blocks)
                        \o <<last>>
         /\ buf' = last
         /\ curlen' = 120
  /\ closed' = TRUE
  /\ UNCHANGED <<given, inlen, message>>

\* The bit after the message; if it leaves no room for the length the block
\* is closed with zeros and the length goes into one more.
sha512_final ==
  /\ inlen = 0 /\ ~closed
  /\ LET bits == length + 8 * curlen
         one == [buf EXCEPT ![curlen] = 128]
         used == curlen + 1
         spill == used > 112
         full == Zeroed(one, used, 128)
         last == WithLength(IF spill THEN Zeroed(full, 0, 120)
                            ELSE Zeroed(one, used, 120), bits)
     IN  /\ length' = bits
         /\ blocks' = (IF spill THEN Append(blocks, full) ELSE blocks)
                        \o <<last>>
         /\ buf' = last
         /\ curlen' = 120
  /\ closed' = TRUE
  /\ UNCHANGED <<given, inlen, message>>

HashNext ==
  \/ sha512_init
  \/ sha512_update
  \/ TakeBlock
  \/ FillBuffer
  \/ sha512_final

HashSpec == HashInit /\ [][HashNext]_hashVars

-----------------------------------------------------------------------------
\* The padded message of the standard: the message, a one bit, zeros, and the
\* number of its bits at the end of a block (BoundsAssumption).
PaddedByte(m, n, count, k) ==
  IF k < n THEN Byte(m, k)
  ELSE IF k = n THEN 128
  ELSE IF k < 128 * count - 4 THEN 0
  ELSE ((8 * n) \div PlaceValue(128 * count - 1 - k)) % 256

PaddedBlocks(n) == (n + 17 + 127) \div 128

\* Whatever pieces a message came in, and whatever an earlier message left in
\* the buffer, sha512_final has compressed the padded message and nothing
\* else.  sign and verify hash the same bytes in different pieces.
BlocksArePaddedMessage ==
  closed =>
    LET count == PaddedBlocks(given)
    IN  /\ Len(blocks) = count
        /\ \A b \in 1 .. count : \A i \in Buffer :
             blocks[b][i]
               = PaddedByte(message, given, count, 128 * (b - 1) + i)

\* Before that, sha512_update has compressed the blocks of the message in
\* their order, holds less than a block back, and counts what it compressed.
BlocksAreInOrder ==
  ~closed =>
    /\ curlen \in 0 .. 127
    /\ length = 1024 * Len(blocks)
    /\ 128 * Len(blocks) + curlen = ReadAt
    /\ \A b \in 1 .. Len(blocks) : \A i \in Buffer :
         blocks[b][i] = Byte(message, 128 * (b - 1) + i)
    /\ \A i \in 0 .. curlen - 1 :
         buf[i] = Byte(message, 128 * Len(blocks) + i)
=============================================================================

------------------------------ MODULE FecCode ------------------------------
(***************************************************************************)
(* The fountain code of fec.cpp with its real coefficients: arithmetic in  *)
(* GF(256), the coefficient row of a packet, the symbol it carries and the *)
(* elimination that recovers the block.  One round of it runs here: a      *)
(* sender repeats its 32-byte key under one hint and epoch, the link loses *)
(* the packets of a given pattern and delivers others again, and the       *)
(* receiver caches what comes.                                             *)
(***************************************************************************)
EXTENDS GF256, Sequences, FiniteSetsExt, SequencesExt

CONSTANTS
    FEC_SOURCE_SYMBOLS,         \* 16
    FEC_MAX_EQUATIONS,          \* 64
    g_fec_systematic_head,      \* 10, option --fec-head
    g_fec_interleave_recovery,  \* 4, option --fec-mid-recovery
    Source,                     \* the block of the sender: two bytes a column
    Headings,                   \* the (hint, epoch) pairs to try
    Losses,                     \* the sets of counters the link may lose
    Repeats,                    \* the sets of counters it may deliver again
    Copies,                     \* bound: how often it delivers each of them again
    LastCounter                 \* bound: the round stops after this counter

Columns == 0 .. FEC_SOURCE_SYMBOLS - 1
Rows == [Columns -> Bytes]
Symbols == Bytes \X Bytes
Blocks == [Columns -> Symbols]

ASSUME FecCodeAssumption ==
    /\ FEC_SOURCE_SYMBOLS \in Nat \ {0}
    /\ FEC_MAX_EQUATIONS \in Nat
    /\ g_fec_systematic_head \in Nat
    /\ g_fec_interleave_recovery \in Nat
    /\ Source \in Blocks

-----------------------------------------------------------------------------
(* The coefficient row of packet n.  A 32-bit word is the set of the          *)
(* positions of its one bits.                                                 *)

Bits(n) == {i \in 0 .. 15 : (n \div 2^i) % 2 = 1}
Low(word) ==
    LET bit(i) == IF i \in word THEN 1 ELSE 0
    IN  bit(0) + 2 * bit(1) + 4 * bit(2) + 8 * bit(3)
          + 16 * bit(4) + 32 * bit(5) + 64 * bit(6) + 128 * bit(7)
Shl(word, n) == {i + n : i \in {j \in word : j + n < 32}}
Shr(word, n) == {i - n : i \in {j \in word : j >= n}}

fec_rng_next(x) ==
    LET y == SymDiff(x, Shl(x, 13))
        z == SymDiff(y, Shr(y, 17))
    IN  SymDiff(z, Shl(z, 5))

\* 0x9e3779b9
Golden == Shl(Bits(40503), 16) \cup Bits(31161)

Systematic(column) == [c \in Columns |-> IF c = column THEN 1 ELSE 0]

Recovery(hint, epoch, n) ==
    LET seed == SymDiff(SymDiff(Golden, Shl(Bits(hint), 24)),
                        SymDiff(Shl(Bits(epoch), 16), Bits(n)))
        rng[i \in 0 .. FEC_SOURCE_SYMBOLS + 1] ==
            IF i = 0 THEN seed ELSE fec_rng_next(rng[i - 1])
        row == [c \in Columns |-> Low(rng[c + 1])]
    IN  IF \E c \in Columns : row[c] # 0
        THEN row
        ELSE Systematic(Low(rng[FEC_SOURCE_SYMBOLS + 1]) % FEC_SOURCE_SYMBOLS)

head == IF g_fec_systematic_head > FEC_SOURCE_SYMBOLS
        THEN FEC_SOURCE_SYMBOLS ELSE g_fec_systematic_head
tail_start == head + g_fec_interleave_recovery
tail_end == tail_start + FEC_SOURCE_SYMBOLS - head

\* forgets that the tail of the block starts after the recovery rows
fec_equation_coeffs_shifted(hint, epoch, n) ==
    CASE n < head -> Systematic(n)
      [] n \in tail_start .. tail_end - 1 -> Systematic(n - tail_start)
      [] OTHER -> Recovery(hint, epoch, n)

fec_equation_coeffs(hint, epoch, n) ==
    CASE n < head -> Systematic(n)
      [] n \in tail_start .. tail_end - 1 ->
            Systematic(n - g_fec_interleave_recovery)
      [] OTHER -> Recovery(hint, epoch, n)

\* Sum of coefficient times symbol, in each of the two bytes of a symbol.
Dot(coeffs, bytes) ==
    LET out[c \in 0 .. FEC_SOURCE_SYMBOLS] ==
            IF c = 0 THEN 0
            ELSE Xor[out[c - 1]][Times[coeffs[c - 1]][bytes[c - 1]]]
    IN  out[FEC_SOURCE_SYMBOLS]

fec_encode_symbol(source, coeffs) ==
    << Dot(coeffs, [c \in Columns |-> source[c][1]]),
       Dot(coeffs, [c \in Columns |-> source[c][2]]) >>

-----------------------------------------------------------------------------
(* fec_try_decode: an equation is its row a and its two right-hand bytes b. *)

\* scales the row and forgets its right-hand side
Scaled_row_only(eq, k) == [eq EXCEPT !.a = [c \in Columns |-> Times[eq.a[c]][k]]]

Scaled(eq, k) ==
    [a |-> [c \in Columns |-> Times[eq.a[c]][k]],
     b |-> << Times[eq.b[1]][k], Times[eq.b[2]][k] >>]

Minus(eq, factor, pivot) ==
    [a |-> [c \in Columns |-> Xor[eq.a[c]][Times[factor][pivot.a[c]]]],
     b |-> << Xor[eq.b[1]][Times[factor][pivot.b[1]]],
              Xor[eq.b[2]][Times[factor][pivot.b[2]]] >>]

\* Makes column col a unit column, when a row below rank has an entry there.
Eliminated(m, col) ==
    LET rows == {r \in m.rank + 1 .. Len(m.eqs) : m.eqs[r].a[col] # 0}
        row == m.rank + 1
        sel == Min(rows)
        pivot == Scaled(m.eqs[sel], gf256_inv(m.eqs[sel].a[col]))
        swapped == [m.eqs EXCEPT ![sel] = m.eqs[row], ![row] = pivot]
    IN  IF rows = {} THEN m
        ELSE [eqs |-> [r \in 1 .. Len(m.eqs) |->
                         IF r = row \/ swapped[r].a[col] = 0 THEN swapped[r]
                         ELSE Minus(swapped[r], swapped[r].a[col], pivot)],
              rank |-> row]

\* The block, or <<>> when the rows have no full rank.  With full rank the
\* pivot of column c is row c + 1.
fec_try_decode(eqs) ==
    LET m[col \in 0 .. FEC_SOURCE_SYMBOLS] ==
            IF col = 0 THEN [eqs |-> eqs, rank |-> 0]
            ELSE Eliminated(m[col - 1], col - 1)
        end == m[FEC_SOURCE_SYMBOLS]
    IN  IF Len(eqs) < FEC_SOURCE_SYMBOLS \/ end.rank < FEC_SOURCE_SYMBOLS
        THEN <<>>
        ELSE [c \in Columns |-> end.eqs[c + 1].b]

-----------------------------------------------------------------------------
VARIABLES
    heading,    \* the hint and epoch of the round
    lost,       \* the counters the link loses
    repeated,   \* the counters it delivers again
    again,      \* how often the last packet has still to come
    counter,    \* send_counter of the sender
    cache,      \* the counters and symbols of FecRxState, in order of arrival
    block       \* what fec_rx_try_decode_candidate last wrote, or <<>>

codeVars == <<heading, lost, repeated, again, counter, cache, block>>

CodeInit ==
    /\ heading \in Headings
    /\ lost \in Losses
    /\ repeated \in Repeats
    /\ again = 0
    /\ counter = 0
    /\ cache = <<>>
    /\ block = <<>>

Row(n) == fec_equation_coeffs(heading[1], heading[2], n)

fec_rx_try_decode_candidate(rx) ==
    fec_try_decode([i \in DOMAIN rx |-> [a |-> Row(rx[i].counter), b |-> rx[i].symbol]])

\* caches a packet again that comes again
fec_rx_add_symbol_anew(rx, n, symbol) ==
    IF Len(rx) >= FEC_MAX_EQUATIONS THEN rx
    ELSE Append(rx, [counter |-> n, symbol |-> symbol])

\* A full cache takes no more, and no counter is taken twice.
fec_rx_add_symbol(rx, n, symbol) ==
    IF Len(rx) >= FEC_MAX_EQUATIONS \/ \E i \in DOMAIN rx : rx[i].counter = n THEN rx
    ELSE Append(rx, [counter |-> n, symbol |-> symbol])

\* The packet is authentic, so its symbol is the sender's.  The cache is tried
\* again even when it has taken nothing.
Collected(n) ==
    /\ cache' = fec_rx_add_symbol(cache, n, fec_encode_symbol(Source, Row(n)))
    /\ block' = IF Len(cache') < FEC_SOURCE_SYMBOLS THEN <<>>
                ELSE fec_rx_try_decode_candidate(cache')

Lose ==
    /\ again = 0
    /\ counter \in lost
    /\ counter' = counter + 1
    /\ UNCHANGED <<again, cache, block>>

Gather ==
    /\ again = 0
    /\ counter \notin lost
    /\ counter' = counter + 1
    /\ again' = IF counter \in repeated THEN Copies ELSE 0
    /\ Collected(counter)

Repeat ==
    /\ again > 0
    /\ again' = again - 1
    /\ Collected(counter - 1)
    /\ UNCHANGED counter

CodeNext ==
    /\ block = <<>>
    /\ counter < LastCounter
    /\ Lose \/ Gather \/ Repeat
    /\ UNCHANGED <<heading, lost, repeated>>

CodeSpec == CodeInit /\ [][CodeNext]_codeVars

-----------------------------------------------------------------------------
\* What the elimination writes is the sender's key, whatever was lost.
DecodesTheSource == block # <<>> => block = Source

\* When no systematic packet is lost, the round is over once the last of them
\* has come, whatever happens to the recovery rows between head and tail.
SystematicSuffices ==
    (/\ tail_end <= FEC_MAX_EQUATIONS /\ tail_end <= counter
     /\ lost \cap ((0 .. head - 1) \cup (tail_start .. tail_end - 1)) = {})
        => block # <<>>

\* A full cache determines the block: the round can never wait for an equation
\* it has no room for, however often a packet is delivered again.
FullCacheDecodes == Len(cache) = FEC_MAX_EQUATIONS => block # <<>>
=============================================================================

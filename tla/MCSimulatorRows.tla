--------------------------- MODULE MCSimulatorRows ---------------------------
(***************************************************************************)
(* The simulator with the rank of the real rows of fec.cpp, which depends  *)
(* on the hint and the epoch of the round.  No packet is lost or overtaken *)
(* in this instance, so only the first packets of a round matter.          *)
(***************************************************************************)
EXTENDS MCSimulator

Code == INSTANCE FecCode WITH
            g_fec_systematic_head <- 10, g_fec_interleave_recovery <- 4,
            Source <- [c \in 0 .. 15 |-> <<0, 0>>],
            Headings <- {}, Losses <- {}, Repeats <- {}, Copies <- 0,
            LastCounter <- 0, repeated <- {}, again <- 0,
            heading <- <<0, 0>>, lost <- {}, counter <- 0, cache <- <<>>, block <- <<>>

Row(hint, epoch, n) == Code!fec_equation_coeffs(hint, epoch, n)

\* The rows of the first n packets of a round have full rank.
FullRank(hint, epoch, n) ==
    Code!fec_try_decode([i \in 1 .. n |-> [a |-> Row(hint, epoch, i - 1), b |-> <<0, 0>>]])
        # <<>>

\* How many packets in a row are enough for a heading, up to MaxCounter.
Enough ==
    [hint \in Hints |-> [epoch \in Epochs |->
        {n \in FEC_SOURCE_SYMBOLS .. MaxCounter : FullRank(hint, epoch, n)}]]

FirstRows(hint, epoch) == {0 .. n - 1 : n \in Enough[hint][epoch]}

-----------------------------------------------------------------------------
(* Every heading of the program.  A systematic row settles its column and     *)
(* touches no other.  After sixteen packets in a row the recovery rows 10 to  *)
(* 13 are left with the columns 12 to 15, and with one column less for each   *)
(* of the next packets.                                                       *)

Sum(x, y) == Code!Xor[x][y]
Product(x, y) == Code!Times[x][y]

Minor(a, b, i, j) == Sum(Product(a[i], b[j]), Product(a[j], b[i]))

Determinant(a, b, c) ==
    Sum(Product(a[1], Minor(b, c, 2, 3)),
        Sum(Product(a[2], Minor(b, c, 1, 3)), Product(a[3], Minor(b, c, 1, 2))))

\* What two rows of three columns leave without the first column.
LastColumns(a, b) == Minor(a, b, 2, 3)

\* The four rows cancel in every column, so sixteen packets are never enough:
\* what they settle, any three of them do.  Seventeen packets are, when three
\* rows settle the last three columns, and eighteen when they settle the last two.
SettledBy(hint, epoch, n) ==
    LET last(row) == << row[13], row[14], row[15] >>
        a == last(Row(hint, epoch, 10))
        b == last(Row(hint, epoch, 11))
        c == last(Row(hint, epoch, 12))
    IN  IF n = 17 THEN Determinant(a, b, c) # 0 ELSE LastColumns(a, b) # 0

Cancel(hint, epoch, column) ==
    Sum(Row(hint, epoch, 10)[column], Row(hint, epoch, 11)[column])
       = Sum(Row(hint, epoch, 12)[column], Row(hint, epoch, 13)[column])

ASSUME RowsAssumption ==
    \A hint \in 0 .. 255, epoch \in 0 .. 14 :
        /\ \A column \in 12 .. 15 : Cancel(hint, epoch, column)
        /\ SettledBy(hint, epoch, 17) \/ SettledBy(hint, epoch, 18)

\* For the headings of this instance the elimination of fec_try_decode agrees;
\* some of them are slow, in the bootstrap epoch and later.
ASSUME HintsAssumption ==
    /\ \A hint \in Hints, epoch \in Epochs :
          /\ 16 \notin Enough[hint][epoch] /\ 18 \in Enough[hint][epoch]
          /\ 17 \in Enough[hint][epoch] <=> SettledBy(hint, epoch, 17)
    /\ \E hint \in Hints \ {0} : 17 \notin Enough[hint][0]
    /\ \E hint \in Hints, epoch \in Epochs \ {0} : 17 \notin Enough[hint][epoch]
=============================================================================

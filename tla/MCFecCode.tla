----------------------------- MODULE MCFecCode -----------------------------
(* Loss patterns for the real fountain code. *)
EXTENDS FecCode

\* a block whose thirty-two bytes all differ
DifferentBytes == [c \in Columns |-> << 3 + 16 * c, 250 - 15 * c >>]

TwoHeadings == { <<23, 0>>, <<164, 14>> }
OneHeading == { <<23, 0>> }

\* The link is down for up to eight packets, from the first packet of the
\* round, in the systematic head, the recovery rows or the systematic tail.
ShortBursts == { first .. first + length - 1 : first \in {0, 5, 10, 14}, length \in 0 .. 8 }

\* Nothing comes twice; or two of the head, a recovery row and the packet that
\* is the first to complete a round do.
FewCopies == { {}, {3, 9, 12, 16} }
NoCopies == { {} }

\* The first nine packets are lost.
LongBurst == { 0 .. 8 }
=============================================================================

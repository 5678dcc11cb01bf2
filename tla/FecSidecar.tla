----------------------------- MODULE FecSidecar -----------------------------
(***************************************************************************)
(* The receive side of the fountain code (FecRxState and the fec_rx_*      *)
(* functions of fec.cpp).  A peer's 32-byte candidate key is cut into      *)
(* FEC_SOURCE_SYMBOLS symbols; each packet carries one linear equation     *)
(* over them, whose coefficients both ends compute from the hint, the      *)
(* epoch and the counter of the packet.  Which sets of counters have full  *)
(* rank under a hint and an epoch is a property of the coefficients        *)
(* (module FecCode computes the real ones); here it is a parameter.        *)
(***************************************************************************)
EXTENDS Integers, FiniteSets

CONSTANTS
    FEC_SOURCE_SYMBOLS,    \* equations needed before a solve; 16 in fec.h
    FEC_MAX_EQUATIONS,     \* capacity of the equation cache; 64 in fec.h
    Decodable(_, _)        \* Decodable(hint, epoch): the sets of counters whose
                           \* equations have full rank in that round

ASSUME FecAssumption ==
    /\ FEC_SOURCE_SYMBOLS \in Nat \ {0}
    /\ FEC_MAX_EQUATIONS \in Nat
    /\ FEC_MAX_EQUATIONS >= FEC_SOURCE_SYMBOLS

\* The coefficient row of a packet, named by what it is derived from.
fec_equation_coeffs(hint, epoch, counter) == <<hint, epoch, counter>>

\* The symbol a packet carries: the source block seen through one row.  Its
\* source is history: it is there for fec_rx_decoded, and not on the air.
fec_encode_symbol(source, coeffs) == [of |-> source, row |-> coeffs]

\* The two bytes on the air.  Symbols of two blocks may have the same bytes;
\* here they always do when their rows are the same, which is the worst case
\* for whoever wants to tell two packets apart by them.
symbol_bytes(symbol) == symbol.row

fec_rx_clear == [active |-> FALSE, hint |-> 0, epoch |-> 0, equations |-> {}]

fec_rx_eq_count(rx) == IF rx.active THEN Cardinality(rx.equations) ELSE 0

fec_rx_ensure_round(rx, hint, epoch) ==
    IF ~rx.active \/ rx.hint # hint \/ rx.epoch # epoch
    THEN [active |-> TRUE, hint |-> hint, epoch |-> epoch, equations |-> {}]
    ELSE rx

fec_rx_add_symbol(rx, counter, symbol) ==
    IF \/ ~rx.active
       \/ Cardinality(rx.equations) >= FEC_MAX_EQUATIONS
       \/ \E e \in rx.equations : e.counter = counter
    THEN rx
    ELSE [rx EXCEPT !.equations = @ \cup {[counter |-> counter, symbol |-> symbol]}]

\* c explains every cached equation under the rows the receiver recomputes.
Explains(rx, c) ==
    \A e \in rx.equations :
        e.symbol = fec_encode_symbol(c, fec_equation_coeffs(rx.hint, rx.epoch, e.counter))

\* fec_rx_try_decode_candidate returns true: enough equations, of full rank.
fec_rx_can_decode(rx) ==
    /\ fec_rx_eq_count(rx) >= FEC_SOURCE_SYMBOLS
    /\ {e.counter : e \in rx.equations} \in Decodable(rx.hint, rx.epoch)

\* The block it writes.  The elimination never looks at the rows it did not
\* pivot on, so equations of two blocks would decode to neither: garbled.
fec_rx_decoded(rx, garbled) ==
    LET sources == {e.symbol.of : e \in rx.equations}
    IN  IF \E c \in sources : Explains(rx, c)
        THEN CHOOSE c \in sources : Explains(rx, c)
        ELSE garbled
=============================================================================

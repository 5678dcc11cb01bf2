--------------------------- MODULE SealedLetters ----------------------------
(***************************************************************************)
(* One packet: its key derived and ascon_encrypt on one side, damage on    *)
(* the way, the key derived again and ascon_decrypt on the other.          *)
(***************************************************************************)
EXTENDS AsconModes

CONSTANTS
  ChainKeys,   \* 32-byte keys
  Headers,     \* the six bytes before the tag
  Texts        \* what is sealed

VARIABLES
  letter,      \* what the opener has: a packet, its header and a chain key for it
  text,        \* what was sealed
  state,       \* "blank", "sealed", "damaged", "opened" or "refused"
  opened       \* what ascon_decrypt made of it

vars == <<letter, text, state, opened>>

NothingOpened == [returned |-> 0, dest |-> Empty]

Init ==
  /\ \E k \in ChainKeys, h \in Headers, t \in Texts :
       /\ letter = [ck |-> k, ad |-> h, packet |-> [siv |-> Empty, ct |-> Empty]]
       /\ text = t
  /\ state = "blank"
  /\ opened = NothingOpened

Seal ==
  /\ state = "blank"
  /\ letter' = [letter EXCEPT !.packet =
                  ascon_encrypt(PacketKey(letter.ck, letter.ad), text, letter.ad)]
  /\ state' = "sealed"
  /\ UNCHANGED <<text, opened>>

Flipped(string, bit) == [string EXCEPT !.bits = SymDiff(@, {bit})]

\* One bit of a string, its first or its last.
Ends(string) == IF string.len = 0 THEN {} ELSE {0, 8 * string.len - 1}

\* The bits that meet when one string is absorbed after the other.
Meeting(s, t) == {b \in Ends(s) \cup Ends(t) : b < 8 * s.len /\ b < 8 * t.len}

\* The wrong key or header, a bit changed, the same bit of header and ciphertext
\* changed, or the end of the packet missing.
Damage ==
  /\ state = "sealed"
  /\ state' = "damaged"
  /\ \/ \E k \in ChainKeys \ {letter.ck} : letter' = [letter EXCEPT !.ck = k]
     \/ \E h \in Headers \ {letter.ad} : letter' = [letter EXCEPT !.ad = h]
     \/ \E b \in Ends(letter.ad) :
          letter' = [letter EXCEPT !.ad = Flipped(@, b)]
     \/ \E b \in Ends(letter.packet.siv) :
          letter' = [letter EXCEPT !.packet.siv = Flipped(@, b)]
     \/ \E b \in Ends(letter.packet.ct) :
          letter' = [letter EXCEPT !.packet.ct = Flipped(@, b)]
     \/ \E b \in Meeting(letter.ad, letter.packet.ct) :
          letter' = [letter EXCEPT !.ad = Flipped(@, b),
                                   !.packet.ct = Flipped(@, b)]
     \/ /\ letter.packet.ct.len > 0
        /\ letter' = [letter EXCEPT !.packet.ct =
             [len |-> @.len - 1, bits |-> {b \in @.bits : b < 8 * (@.len - 1)}]]
     \/ letter' = [letter EXCEPT !.packet =
          [siv |-> [len |-> TAG_SIZE - 1,
                    bits |-> {b \in @.siv.bits : b < 8 * (TAG_SIZE - 1)}],
           ct |-> Empty]]
  /\ UNCHANGED <<text, opened>>

Open ==
  /\ state \in {"sealed", "damaged"}
  /\ opened' = ascon_decrypt(PacketKey(letter.ck, letter.ad), letter.packet, letter.ad)
  /\ state' = IF state = "sealed" THEN "opened" ELSE "refused"
  /\ UNCHANGED <<letter, text>>

Next == Seal \/ Damage \/ Open

-----------------------------------------------------------------------------
\* The opener gets the text that was sealed and its length, whatever its length
\* is to the blocks of the sponge, and 0 when the chain key is another, or the
\* header, or a bit is changed or cut off.  That header and ciphertext changed
\* together are refused is not owed to the tag ("authentication failure" of
\* ascon_decrypt) but to the key, which kdf(key, key, 32, pkt, 6, ...) derives
\* from the header.  For the empty text both answers are 0.
OpensWhatWasSealed ==
  /\ state = "opened" => opened = [returned |-> text.len, dest |-> text]
  /\ state = "refused" => opened.returned = 0
=============================================================================

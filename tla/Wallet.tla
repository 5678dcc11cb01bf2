------------------------------- MODULE Wallet -------------------------------
(***************************************************************************)
(* The holder of a private key, someone who knows only its public key, and *)
(* a verifier: sequences of create_keypair, add_scalar, sign and verify.   *)
(* The program links these functions and calls only the first; they are    *)
(* modelled as the library offers them.                                    *)
(***************************************************************************)
EXTENDS Ed25519

CONSTANTS
  p, B,
  Seeds,
  Scalars,     \* numbers added to a key
  Messages,
  Strings,     \* public keys as they may arrive
  MaxEdits     \* calls made after the key is created

VARIABLES
  key,        \* the holder's private and public key
  watch,      \* the public key the other follows the holder's with
  letter,     \* a message, its signature and the key to verify it with
  genuine,    \* nobody changed the letter since it was signed
  edits

vars == <<key, watch, letter, genuine, edits>>

Curve == INSTANCE EdwardsCurve

NoLetter == [message |-> 0, signature |-> <<0, 0>>, public |-> 0]

Init ==
  /\ \E seed \in Seeds : key = ed25519_create_keypair(seed)
  /\ watch = key.public
  /\ letter = NoLetter
  /\ genuine = FALSE
  /\ edits = 0

Edit == edits < MaxEdits /\ edits' = edits + 1

AddScalar(n) ==
  /\ Edit
  /\ key' = ed25519_add_scalar(key.private, n)
  /\ watch' = ed25519_add_scalar_public(watch, n)
  /\ UNCHANGED <<letter, genuine>>

\* The verifier has the holder's public key from the one who follows it.
Sign(m) ==
  /\ Edit
  /\ letter' = [message |-> m, public |-> watch,
                signature |-> ed25519_sign(m, key.public, key.private)]
  /\ genuine' = TRUE
  /\ UNCHANGED <<key, watch>>

\* What arrives is not what was sent.
Corrupt ==
  /\ Edit
  /\ genuine
  /\ \/ \E m \in Messages \ {letter.message} :
          letter' = [letter EXCEPT !.message = m]
     \/ \E s \in Scalars : letter' = [letter EXCEPT !.signature[2] = s]
     \/ \E t \in Strings : letter' = [letter EXCEPT !.public = t]
  /\ genuine' = FALSE
  /\ UNCHANGED <<key, watch>>

Next ==
  \/ \E n \in Scalars : AddScalar(n)
  \/ \E m \in Messages : Sign(m)
  \/ Corrupt

Verified == ed25519_verify(letter.signature, letter.message, letter.public)

-----------------------------------------------------------------------------
\* A signature of the holder verifies under the key that is followed by its
\* public half alone, whatever sequence of numbers is added, though the two
\* routes share no arithmetic: scalars modulo L, and points that are unpacked
\* negated, negated back and added.
SignaturesVerify == genuine => Verified

\* x^2 of a point whose y is the string's, and whether there is such a point.
SquareOfX(t) ==
  LET yy == ((t % TopBit) * (t % TopBit)) % p
  IN  ((yy - 1) * Curve!Inverse(d * yy + 1)) % p

Decodable(t) == Curve!PowerMod(SquareOfX(t), (p - 1) \div 2, p) # p - 1

\* The point ge_frombytes_negate_vartime returns, as <<x, y>>.
Negated(t) ==
  LET A == ge_frombytes_negate_vartime(t).point IN <<A.X, A.Y>>

\* A string is refused exactly when no point has its y; otherwise the point
\* is on the curve and its negative has this very string, up to y modulo p
\* and the sign of a zero x.
DecodeIsTheInverse ==
  LET t == letter.public
      P == Negated(t)
  IN  /\ ge_frombytes_negate_vartime(t).valid = Decodable(t)
      /\ Decodable(t) =>
           /\ Curve!OnCurve(P)
           /\ Curve!Encoded(Curve!Minus(P))
                = ((t % TopBit) % p)
                    + (IF P[1] = 0 THEN 0 ELSE TopBit * (t \div TopBit))

\* The answer to any letter, genuine or not, is whether S is below
\* 2^(StringBits - 3) and R is the string of S * B - h * A: the sliding
\* windows of both scalars, run together, compute that sum.
VerifyIsTheEquation ==
  LET h == Reduced(sha512(<<letter.signature[1], letter.public,
                            letter.message>>))
      S == letter.signature[2]
  IN  Verified = /\ S < 2^(StringBits - 3)
                 /\ Decodable(letter.public)
                 /\ letter.signature[1] =
                      Curve!Encoded(Curve!Plus(Curve!TimesPoint(S, B),
                        Curve!TimesPoint(h, Negated(letter.public))))
=============================================================================

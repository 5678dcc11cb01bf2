------------------------------- MODULE Ed25519 -------------------------------
(***************************************************************************)
(* Keys, shared secrets, signatures and derived keys: key_exchange.c,      *)
(* keypair.c, sign.c, verify.c and add_scalar.c of lib/ed25519, over the   *)
(* group of GroupElement.                                                  *)
(*                                                                         *)
(* A 32-byte string is a number.  The 64-byte strings are pairs of them: a *)
(* private key (scalar, prefix), a signature (R, S) and a digest.          *)
(***************************************************************************)
EXTENDS GroupElement

CONSTANTS
  sha512(_),              \* the digest <<low, high>> of a sequence of strings
  sc_reduce(_, _),        \* the scalar of a digest's low and high half
  sc_muladd(_, _, _)

\* Multiples of 8, with the top bit clear and the next one set.
Clamped(n) == (n % 2^(StringBits - 2)) - (n % 8) + 2^(StringBits - 2)

-----------------------------------------------------------------------------
(* key_exchange.c: the Montgomery ladder. *)

\* (1 + y) / (1 - y), the Montgomery coordinate of an Edwards point.
MontgomeryX(public_key) ==
  LET y == fe_frombytes(public_key)
  IN  fe_mul(fe_add(y, fe_1), fe_invert(fe_sub(fe_1, y)))

Ladders == [x2 : fe, z2 : fe, x3 : fe, z3 : fe, swap : 0 .. 1]

LadderStart(x1) ==
  [x2 |-> fe_1, z2 |-> fe_0, x3 |-> x1, z3 |-> fe_1, swap |-> 0]

Swapped(s, swap) ==
  IF swap = 1 THEN [s EXCEPT !.x2 = s.x3, !.z2 = s.z3,
                             !.x3 = s.x2, !.z3 = s.z2]
  ELSE s

\* Mutant: the swap forgets that of the bit before.
LadderStepForgetful(was, x1, b) ==
  LET s    == Swapped(was, b)
      dif3 == fe_sub(s.x3, s.z3)
      dif2 == fe_sub(s.x2, s.z2)
      sum2 == fe_add(s.x2, s.z2)
      sum3 == fe_add(s.x3, s.z3)
      da   == fe_mul(dif3, sum2)
      cb   == fe_mul(sum3, dif2)
      bb   == fe_sq(dif2)
      aa   == fe_sq(sum2)
      e    == fe_sub(aa, bb)
  IN  [x2 |-> fe_mul(aa, bb),
       z2 |-> fe_mul(e, fe_add(bb, fe_mul121666(e))),
       x3 |-> fe_sq(fe_add(da, cb)),
       z3 |-> fe_mul(x1, fe_sq(fe_sub(da, cb))),
       swap |-> b]

\* One bit of the scalar.
LadderStep(was, x1, b) ==
  LET s    == Swapped(was, (was.swap + b) % 2)
      dif3 == fe_sub(s.x3, s.z3)
      dif2 == fe_sub(s.x2, s.z2)
      sum2 == fe_add(s.x2, s.z2)
      sum3 == fe_add(s.x3, s.z3)
      da   == fe_mul(dif3, sum2)
      cb   == fe_mul(sum3, dif2)
      bb   == fe_sq(dif2)
      aa   == fe_sq(sum2)
      e    == fe_sub(aa, bb)
  IN  [x2 |-> fe_mul(aa, bb),
       z2 |-> fe_mul(e, fe_add(bb, fe_mul121666(e))),
       x3 |-> fe_sq(fe_add(da, cb)),
       z3 |-> fe_mul(x1, fe_sq(fe_sub(da, cb))),
       swap |-> b]

ed25519_key_exchange(public_key, private_key) ==
  LET e  == Clamped(private_key)
      x1 == MontgomeryX(public_key)
      top == StringBits - 2
      step[was \in Ladders, i \in 0 .. top] == LadderStep(was, x1, Bit(e, i))
      after[n \in 0 .. top + 1] ==
        IF n = 0 THEN LadderStart(x1) ELSE step[after[n - 1], top + 1 - n]
      last == after[top + 1]
      s == Swapped(last, last.swap)
  IN  fe_tobytes(fe_mul(s.x2, fe_invert(s.z2)))

-----------------------------------------------------------------------------
(* keypair.c *)

ed25519_derive_pub(private_key) == ge_tobytes(ge_scalarmult_base(private_key))

\* The private key is written as 64 bytes: the clamped scalar and the rest of
\* the digest.
ed25519_create_keypair(seed) ==
  LET digest == sha512(<<seed>>)
      scalar == Clamped(digest[1])
  IN  [private |-> <<scalar, digest[2]>>,
       public  |-> ed25519_derive_pub(scalar)]

-----------------------------------------------------------------------------
(* sign.c and verify.c *)

Reduced(digest) == sc_reduce(digest[1], digest[2])

\* Mutant: the challenge hashes the message before the public key.
ed25519_sign_swapped(message, public_key, private_key) ==
  LET r == Reduced(sha512(<<private_key[2], message>>))
      R == ge_tobytes(ge_scalarmult_base(r))
      hram == Reduced(sha512(<<R, message, public_key>>))
  IN  <<R, sc_muladd(hram, private_key[1], r)>>

ed25519_sign(message, public_key, private_key) ==
  LET r == Reduced(sha512(<<private_key[2], message>>))
      R == ge_tobytes(ge_scalarmult_base(r))
      hram == Reduced(sha512(<<R, public_key, message>>))
  IN  <<R, sc_muladd(hram, private_key[1], r)>>

ed25519_verify(signature, message, public_key) ==
  LET A == ge_frombytes_negate_vartime(public_key)
      h == Reduced(sha512(<<signature[1], public_key, message>>))
  IN  /\ signature[2] < 2^(StringBits - 3)
      /\ A.valid
      /\ ge_tobytes(ge_double_scalarmult_vartime(h, A.point, signature[2]))
           = signature[1]

-----------------------------------------------------------------------------
(* add_scalar.c: a new key from a key and a public number. *)

\* The number added: the scalar without its top bit.
Added(scalar) == scalar % TopBit

\* With the private key: both halves of the pair.
ed25519_add_scalar(private_key, scalar) ==
  LET a == sc_muladd(1, Added(scalar), private_key[1])
  IN  [private |-> <<a, sha512(<<private_key[2], scalar>>)[1]>>,
       public  |-> ed25519_derive_pub(a)]

\* Mutant: only X is negated back.
ed25519_add_scalar_public_stale(public_key, scalar) ==
  LET A == ge_frombytes_negate_vartime(public_key).point
      T == [A EXCEPT !.X = fe_neg(A.X)]
      nB == ge_scalarmult_base(Added(scalar))
  IN  ge_tobytes(ge_p1p1_to_p3(ge_add(nB, ge_p3_to_cached(T))))

\* With the public key only.
ed25519_add_scalar_public(public_key, scalar) ==
  LET A == ge_frombytes_negate_vartime(public_key).point
      T == [A EXCEPT !.X = fe_neg(A.X), !.T = fe_neg(A.T)]
      nB == ge_scalarmult_base(Added(scalar))
  IN  ge_tobytes(ge_p1p1_to_p3(ge_add(nB, ge_p3_to_cached(T))))
=============================================================================

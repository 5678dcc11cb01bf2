----------------------------- MODULE FieldPower -----------------------------
(***************************************************************************)
(* The two fixed powers lib/ed25519/fe.c computes: fe_invert, z^(p-2), and *)
(* fe_pow22523, z^((p-5)/8), which square roots are taken with.  Each is a *)
(* straight program of squarings and multiplications over four temporaries *)
(* that are overwritten as it goes.  The machine below runs such a program *)
(* one fe_sq or fe_mul at a time, over any multiplication and squaring, so *)
(* that it can also be run on exponents.                                   *)
(***************************************************************************)
EXTENDS Integers, Sequences

CONSTANTS fe_mul(_, _), fe_sq(_)

VARIABLES
  program,   \* the steps of the function that was called
  reg,       \* z, the temporaries and out
  pc,        \* the current step
  done       \* squarings of the current step that are done

vars == <<program, reg, pc, done>>

Registers == {"z", "t0", "t1", "t2", "t3", "out"}

\* n squarings: the first from another register, the rest in place.
Sq(to, from, n) == [to |-> to, from |-> from, times |-> n, with |-> to]

\* A multiplication counts as no squaring.
Mul(to, from, with) == [to |-> to, from |-> from, times |-> 0, with |-> with]

fe_invert ==
  << Sq("t0", "z", 1), Sq("t1", "t0", 2),
     Mul("t1", "z", "t1"), Mul("t0", "t0", "t1"),
     Sq("t2", "t0", 1), Mul("t1", "t1", "t2"),
     Sq("t2", "t1", 5), Mul("t1", "t2", "t1"),
     Sq("t2", "t1", 10), Mul("t2", "t2", "t1"),
     Sq("t3", "t2", 20), Mul("t2", "t3", "t2"),
     Sq("t2", "t2", 10), Mul("t1", "t2", "t1"),
     Sq("t2", "t1", 50), Mul("t2", "t2", "t1"),
     Sq("t3", "t2", 100), Mul("t2", "t3", "t2"),
     Sq("t2", "t2", 50), Mul("t1", "t2", "t1"),
     Sq("t1", "t1", 5), Mul("out", "t1", "t0") >>

\* Mutant: one squaring too few in the first chain of fifty.
fe_pow22523_49 ==
  << Sq("t0", "z", 1), Sq("t1", "t0", 2),
     Mul("t1", "z", "t1"), Mul("t0", "t0", "t1"),
     Sq("t0", "t0", 1), Mul("t0", "t1", "t0"),
     Sq("t1", "t0", 5), Mul("t0", "t1", "t0"),
     Sq("t1", "t0", 10), Mul("t1", "t1", "t0"),
     Sq("t2", "t1", 20), Mul("t1", "t2", "t1"),
     Sq("t1", "t1", 10), Mul("t0", "t1", "t0"),
     Sq("t1", "t0", 49), Mul("t1", "t1", "t0"),
     Sq("t2", "t1", 100), Mul("t1", "t2", "t1"),
     Sq("t1", "t1", 50), Mul("t0", "t1", "t0"),
     Sq("t0", "t0", 2), Mul("out", "t0", "z") >>

fe_pow22523 ==
  << Sq("t0", "z", 1), Sq("t1", "t0", 2),
     Mul("t1", "z", "t1"), Mul("t0", "t0", "t1"),
     Sq("t0", "t0", 1), Mul("t0", "t1", "t0"),
     Sq("t1", "t0", 5), Mul("t0", "t1", "t0"),
     Sq("t1", "t0", 10), Mul("t1", "t1", "t0"),
     Sq("t2", "t1", 20), Mul("t1", "t2", "t1"),
     Sq("t1", "t1", 10), Mul("t0", "t1", "t0"),
     Sq("t1", "t0", 50), Mul("t1", "t1", "t0"),
     Sq("t2", "t1", 100), Mul("t1", "t2", "t1"),
     Sq("t1", "t1", 50), Mul("t0", "t1", "t0"),
     Sq("t0", "t0", 2), Mul("out", "t0", "z") >>

\* z is anything; the temporaries are not initialised.
Start(z, noise) ==
  /\ program \in {fe_invert, fe_pow22523}
  /\ reg = [r \in Registers |-> IF r = "z" THEN z ELSE noise]
  /\ pc = 1
  /\ done = 0

Running == pc <= Len(program)

Square ==
  LET step == program[pc]
      from == IF done = 0 THEN step.from ELSE step.to
  IN  /\ Running
      /\ step.times > 0
      /\ reg' = [reg EXCEPT ![step.to] = fe_sq(reg[from])]
      /\ IF done + 1 = step.times THEN pc' = pc + 1 /\ done' = 0
         ELSE pc' = pc /\ done' = done + 1
      /\ UNCHANGED program

Multiply ==
  LET step == program[pc]
  IN  /\ Running
      /\ step.times = 0
      /\ reg' = [reg EXCEPT ![step.to] = fe_mul(reg[step.from], reg[step.with])]
      /\ pc' = pc + 1
      /\ UNCHANGED <<program, done>>

Next == Square \/ Multiply

\* At its end the program has put z^n into out, and has not changed z.
Computes(z, n) == ~Running => reg["z"] = z /\ reg["out"] = n
=============================================================================

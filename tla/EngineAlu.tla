----------------------------- MODULE EngineAlu -----------------------------
(***************************************************************************)
(* The single-cycle execution units of the Curve25519 engine, as functions *)
(* of their operands: ExecMask, ExecLogic, ExecAddSub and ExecTestReduce,  *)
(* and the sequences of them that their notes prescribe for arithmetic in  *)
(* the field.  width stands for the 256 bits of a register, prime for      *)
(* 2^255 - 19.                                                             *)
(***************************************************************************)
EXTENDS Integers, Sequences, Bitwise

\* ExecMask.
MSK(width, x, y) == IF x % 2 = 1 THEN y ELSE 0

\* ExecLogic.  XBT reports the bit below the top one, SHL drops the top one.
XOR(x, y) == x ^^ y
NOT(width, x) == 2^width - 1 - x
PSA(x, y) == x
PSB(x, y) == y
XBT(width, x) == (x \div 2^(width - 2)) % 2
SHL(width, x) == 2 * (x % 2^(width - 1))

\* ExecAddSub.
ADD(width, x, y) == (x + y) % 2^width
SUB(width, x, y) == (x - y) % 2^width

\* Fault: the prime itself is not reduced.
TRDAbove(prime, x) == IF x > prime THEN prime ELSE 0

\* ExecTestReduce: what is to be subtracted to reduce x.
TRD(prime, x) == IF x >= prime THEN prime ELSE 0

-----------------------------------------------------------------------------
(* The prescribed sequences. *)

Reduced(width, prime, x) == SUB(width, x, TRD(prime, x))
FieldAdd(width, prime, x, y) == Reduced(width, prime, ADD(width, x, y))
FieldSub(width, prime, x, y) == FieldAdd(width, prime, x, SUB(width, prime, y))
CSwap(width, swap, x, y) == LET dummy == MSK(width, swap, XOR(x, y)) IN <<XOR(x, dummy), XOR(y, dummy)>>

\* They compute in the field, for two of its members.
SequencesCorrect(width, prime, x, y) ==
  /\ FieldAdd(width, prime, x, y) = (x + y) % prime
  /\ FieldSub(width, prime, x, y) = (x - y) % prime
  /\ x # 0 => SUB(width, prime, x) = (-x) % prime
  /\ CSwap(width, 0, x, y) = <<x, y>>
  /\ CSwap(width, 1, x, y) = <<y, x>>
  /\ SHL(width, x) = 2 * x
  /\ XBT(width, NOT(width, x)) = 1 - XBT(width, x)
=============================================================================

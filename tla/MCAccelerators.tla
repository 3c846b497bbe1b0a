--------------------------- MODULE MCAccelerators ---------------------------
(***************************************************************************)
(* The two accelerators: the multiplier of the Curve25519 engine and the   *)
(* SHA-512 block.  They share no signal in the code, so a behaviour here   *)
(* is one of one of them, the unit, while the other stays in an initial    *)
(* state.                                                                  *)
(***************************************************************************)
EXTENDS EngineMul, Sha512

VARIABLE unit

ASSUME AcceleratorsAssumption == MulAssumption /\ ShaAssumption

allVars == <<unit, vars, shaVars>>

AcceleratorsInit == /\ unit \in {"mul", "sha"}
                    /\ Init /\ (unit # "mul" => a = 0 /\ b = 0)
                    /\ ShaInit

OfMul(A) == unit = "mul" /\ A /\ UNCHANGED <<unit, shaVars>>
OfSha(A) == unit = "sha" /\ A /\ UNCHANGED <<unit, vars>>

AcceleratorsNext == OfMul(Next) \/ OfSha(ShaNext)

(* The clocks run, and the event of the hash reaches software. *)
AcceleratorsSpec ==
  /\ AcceleratorsInit /\ [][AcceleratorsNext]_allVars
  /\ WF_allVars(AcceleratorsNext) /\ WF_allVars(OfSha(TakesEvent))

-----------------------------------------------------------------------------
(* The multiplier loses no carry and no wrapped limb, and its result is the  *)
(* product in the field whenever the limbs hold less than twice the prime    *)
(* before NORMALIZE (engine.py:1009); the sequences of operations that the   *)
(* notes give for field arithmetic compute it (engine.py:385, 431).          *)
FieldArithmetic == TypeOK /\ ProductCorrect /\ SumCongruent /\ FieldSequences

(* The product is latched once, at an edge of the slower clock, while it is  *)
(* shown (engine.py:1391).                                                   *)
ProductTaken == <>[](unit = "mul" => Len(taken) = 1)
=============================================================================

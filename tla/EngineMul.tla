----------------------------- MODULE EngineMul -----------------------------
(***************************************************************************)
(* ExecMul of the Curve25519 engine, cycle by cycle of mul_clk: fifteen    *)
(* DSP blocks, one per limb of 17 bits, driven by the machine mseq.  The   *)
(* product of two field elements is formed by rotating the partial sums    *)
(* through the blocks, collapsed, carried through, normalised once and     *)
(* carried through again.                                                  *)
(*                                                                         *)
(* Limbs, W and Fold stand for 15, 17 and 19; the field is that of         *)
(* 2^(Limbs * W) - Fold.  A DSP block is modelled by its registers A1, A2, *)
(* B2, D and P and by the operation that INMODE and OPMODE select; its     *)
(* 48 bits never overflow.  One step is one cycle of mul_clk; phase tells  *)
(* the two cycles of an eng_clk period apart.                              *)
(***************************************************************************)
EXTENDS EngineAlu

CONSTANTS Limbs, W, Fold

MulAssumption == Limbs \in Nat /\ Limbs > 2 /\ Limbs % 2 = 1 /\ W \in Nat \ {0} /\ Fold \in 1 .. 2^W

VARIABLES
  a, b,         \* the operands, held by the register file while the instruction runs
  phase,        \* 1 in the second half of an eng_clk period
  start, start_pipe, mseq, step, prop, inmode_sel,
  A1, A2, B2, D, P,   \* the registers of the blocks, functions of the limb
  q, q_valid,
  sum,          \* history: the number held by the limbs when NORMALIZE looks at them
  taken         \* history: the results latched at edges of eng_clk

vars == <<a, b, phase, start, start_pipe, mseq, step, prop, inmode_sel, A1, A2, B2, D, P, q, q_valid, sum, taken>>

Limb == 0 .. Limbs - 1
Top == Limbs - 1
fieldBits == Limbs * W
fieldPrime == 2^fieldBits - Fold

Low(x) == x % 2^W
High(x) == x \div 2^W
a_17(i) == Low(a \div 2^(W * i))
b_17(i) == Low(b \div 2^(W * i))

States == {"IDLE", "SETUP_A", "MULTIPLY", "P_DELAY", "PSUM_LSB", "PSUM_MSB", "CARRYPROP", "NORMALIZE", "DONE", "DONE2", "DONE3"}

-----------------------------------------------------------------------------
(* The wires between mseq and the blocks. *)

entering == mseq = "IDLE" /\ start_pipe
multiplying == mseq = "MULTIPLY"

dsp_a1_ce == \/ entering
             \/ multiplying /\ step = 0
             \/ mseq = "P_DELAY"
dsp_a2_ce == \/ multiplying /\ step = 0
             \/ mseq = "PSUM_LSB"
dsp_b2_ce == \/ entering
             \/ mseq \in {"SETUP_A", "P_DELAY", "PSUM_LSB"}
             \/ multiplying /\ step # Top
             \/ mseq = "CARRYPROP" /\ step = Top - 1
dsp_d_ce == mseq \in {"P_DELAY", "PSUM_LSB"}
dsp_p_ce(i) == \/ mseq \in {"SETUP_A", "MULTIPLY", "P_DELAY", "PSUM_LSB", "PSUM_MSB", "NORMALIZE"}
               \/ mseq = "CARRYPROP" /\ i > 0 /\ step = i - 1

dsp_a(i) == IF entering THEN a_17(i) ELSE IF multiplying /\ step = 0 THEN P[i] ELSE 0

dsp_b(i) == CASE entering -> Fold
              [] mseq = "SETUP_A" -> b_17(0)
              [] multiplying -> b_17(step + 1)
              [] mseq = "P_DELAY" -> IF i = 0 THEN Fold ELSE 1
              [] mseq = "PSUM_LSB" -> IF i < 2 THEN Fold ELSE 1
              [] mseq = "CARRYPROP" -> IF i = 0 THEN Fold ELSE 0
              [] OTHER -> 0

\* The partial sums turn by one block in each step; then a limb sees its own low word, or the carry from the limb below.
dsp_c(i) == CASE multiplying \/ mseq = "P_DELAY" -> P[(i + 1) % Limbs]
              [] mseq \in {"PSUM_LSB", "NORMALIZE"} -> Low(P[i])
              [] mseq = "CARRYPROP" /\ i > 0 -> High(P[i - 1])
              [] OTHER -> 0

\* Fault: the partial sum is not yet turned when the middle word is taken.
dsp_dUnturned(i) == CASE mseq = "P_DELAY" -> Low(High(P[(i + Limbs - 1) % Limbs]))
                      [] mseq = "PSUM_LSB" -> Low(High(High(P[(i + Limbs - 2) % Limbs])))
                      [] OTHER -> 0

\* The middle word of the limb below, taken before the last turn, then the upper word of the limb below that.
dsp_d(i) == CASE mseq = "P_DELAY" -> Low(High(P[i]))
              [] mseq = "PSUM_LSB" -> Low(High(High(P[(i + Limbs - 2) % Limbs])))
              [] OTHER -> 0

\* The pattern detectors and the comparison of the lowest limb: all ones up to the last Fold numbers.
overflow_25519 == /\ \A i \in Limb \ {0} : Low(P[i]) = 2^W - 1
                  /\ Low(P[0]) >= 2^W - Fold

\* What the multiplier of a block is fed.
Multiplicand(i) == CASE inmode_sel = "IDLE" -> A1[i]
                     [] inmode_sel = "MPY" -> IF step = 0 \/ i > Top - step THEN A1[i] ELSE A2[i]
                     [] inmode_sel = "PROP1" -> D[i]
                     [] OTHER -> 0

M(i) == Multiplicand(i) * B2[i]

Sum(i) == CASE mseq = "SETUP_A" \/ (multiplying /\ step = 0) -> M(i)
            [] multiplying \/ mseq = "PSUM_LSB" -> M(i) + dsp_c(i)
            [] mseq = "P_DELAY" -> dsp_c(i)
            [] mseq = "PSUM_MSB" -> M(i) + P[i]
            [] mseq = "CARRYPROP" -> dsp_c(i) + P[i]
            [] mseq = "NORMALIZE" -> dsp_c(i) + (IF overflow_25519 \/ High(P[Top]) % 2 = 1 THEN A2[i] * 2^W + B2[i] ELSE 0)
            [] OTHER -> 0

-----------------------------------------------------------------------------
(* The machine. *)

Goto(s, k) == mseq' = s /\ step' = k /\ UNCHANGED prop

Idle == /\ mseq = "IDLE"
        /\ step' = 0
        /\ prop' = 0
        /\ mseq' = IF start_pipe THEN "SETUP_A" ELSE "IDLE"

SetupA == mseq = "SETUP_A" /\ Goto("MULTIPLY", step)

Multiply == /\ multiplying
            /\ IF step < Top THEN Goto("MULTIPLY", step + 1) ELSE Goto("P_DELAY", 0)

PDelay == mseq = "P_DELAY" /\ Goto("PSUM_LSB", step)
PsumLsb == mseq = "PSUM_LSB" /\ Goto("PSUM_MSB", step)
PsumMsb == mseq = "PSUM_MSB" /\ Goto("CARRYPROP", step)

\* Fault: the carries are not carried through again after the addition.
CarryPropOnce == /\ mseq = "CARRYPROP"
                 /\ \/ step # Top - 1 /\ prop = 0 /\ Goto("CARRYPROP", step + 1)
                    \/ step = Top - 1 /\ prop = 0 /\ Goto("NORMALIZE", 0)
                    \/ prop = 1 /\ Goto("DONE", step)

CarryProp == /\ mseq = "CARRYPROP"
             /\ \/ step # Top - 1 /\ Goto("CARRYPROP", step + 1)
                \/ step = Top - 1 /\ prop = 0 /\ Goto("NORMALIZE", 0)
                \/ step = Top - 1 /\ prop = 1 /\ Goto("DONE", step)

Normalize == /\ mseq = "NORMALIZE"
             /\ mseq' = "CARRYPROP"
             /\ prop' = 1
             /\ step' = 0

\* Fault: the result is shown for one cycle of mul_clk only.
Done2Short == mseq = "DONE2" /\ Goto("IDLE", step)

\* The result is ready in the wrong half of an eng_clk period: one state more before it is shown.
Done == mseq = "DONE" /\ Goto("DONE2", step)
Done2 == mseq = "DONE2" /\ Goto("DONE3", step)

Done3 == mseq = "DONE3" /\ Goto("IDLE", step)

Machine == \/ Idle \/ SetupA \/ Multiply \/ PDelay \/ PsumLsb \/ PsumMsb
           \/ CarryProp \/ Normalize \/ Done \/ Done2 \/ Done3

Inmode == inmode_sel' = CASE mseq \in {"IDLE", "SETUP_A"} -> "IDLE"
                          [] multiplying -> "MPY"
                          [] mseq \in {"P_DELAY", "PSUM_LSB"} -> "PROP1"
                          [] OTHER -> "PROP2"

Blocks == /\ A1' = IF dsp_a1_ce THEN [i \in Limb |-> dsp_a(i)] ELSE A1
          /\ A2' = IF dsp_a2_ce THEN A1 ELSE A2
          /\ B2' = IF dsp_b2_ce THEN [i \in Limb |-> dsp_b(i)] ELSE B2
          /\ D' = IF dsp_d_ce THEN [i \in Limb |-> dsp_d(i)] ELSE D
          /\ P' = [i \in Limb |-> IF dsp_p_ce(i) THEN Sum(i) ELSE P[i]]

Value(limbs) == LET v[i \in Limb] == limbs[i] * 2^(W * i) + (IF i = 0 THEN 0 ELSE v[i - 1]) IN v[Top]

Result == /\ q' = IF mseq = "DONE" THEN Value([i \in Limb |-> Low(P[i])]) ELSE q
          /\ q_valid' = (mseq \in {"DONE2", "DONE3"})

\* eng_clk: the sequencer's start lasts one of its periods, and the result is latched when an edge finds q_valid.
Engine == /\ phase' = 1 - phase
          /\ start' = (start /\ phase = 0)
          /\ start_pipe' = start
          /\ taken' = IF phase = 1 /\ q_valid THEN Append(taken, q) ELSE taken

Init == /\ a \in 0 .. fieldPrime - 1
        /\ b \in 0 .. fieldPrime - 1
        /\ phase = 0 /\ start = TRUE /\ start_pipe = FALSE
        /\ mseq = "IDLE" /\ step = 0 /\ prop = 0 /\ inmode_sel = "IDLE"
        /\ A1 = [i \in Limb |-> 0] /\ A2 = A1 /\ B2 = A1 /\ D = A1 /\ P = A1
        /\ q = 0 /\ q_valid = FALSE
        /\ sum = 0 /\ taken = <<>>

Next == /\ Machine
        /\ Inmode
        /\ Blocks
        /\ Result
        /\ Engine
        /\ sum' = IF mseq = "NORMALIZE" THEN Value([i \in Limb |-> IF i = Top THEN P[i] ELSE Low(P[i])]) ELSE sum
        /\ UNCHANGED <<a, b>>

Spec == Init /\ [][Next]_vars

\* The clock runs.
FairSpec == Spec /\ WF_vars(Next)

-----------------------------------------------------------------------------

TypeOK == /\ a \in 0 .. fieldPrime - 1 /\ b \in 0 .. fieldPrime - 1
          /\ phase \in {0, 1} /\ start \in BOOLEAN /\ start_pipe \in BOOLEAN
          /\ mseq \in States /\ step \in Limb /\ prop \in {0, 1}
          /\ inmode_sel \in {"IDLE", "MPY", "PROP1", "PROP2"}
          /\ \A r \in {A1, A2, B2, D, P} : r \in [Limb -> Nat]
          /\ q \in 0 .. 2^fieldBits - 1 /\ q_valid \in BOOLEAN
          /\ sum \in Nat /\ Len(taken) < 2

(* One subtraction of the prime is all that NORMALIZE can do: when the     *)
(* limbs held less than twice the prime, the result the engine latches is  *)
(* the product of the operands in the field, fully reduced.                *)
ProductCorrect == \A k \in DOMAIN taken : sum < 2 * fieldPrime => taken[k] = (a * b) % fieldPrime

(* Whatever the operands, the limbs hold a number congruent to the product *)
(* when NORMALIZE looks at them: no carry, no wrapped limb is lost before. *)
SumCongruent == prop = 1 => sum % fieldPrime = (a * b) % fieldPrime

(* The result meets an edge of the slower clock while it is shown, once.   *)
ResultTaken == <>[](Len(taken) = 1)

(* "It takes in two inputs, Ra and Rb, and both must be members of the     *)
(* field.  The result is also reduced to a member of the field."           *)
ProductInField == \A k \in DOMAIN taken : taken[k] = (a * b) % fieldPrime

(* The sequences of operations that the notes of the units give for sums,  *)
(* differences and negatives in the field and for the conditional swap.    *)
FieldSequences == SequencesCorrect(fieldBits + 1, fieldPrime, a, b)
=============================================================================

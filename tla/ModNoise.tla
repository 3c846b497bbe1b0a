------------------------------ MODULE ModNoise ------------------------------
(***************************************************************************)
(* ModNoise, the driver of the modular noise generator: two clock phases   *)
(* that must not overlap, and the word that collects one bit per phase.    *)
(* One step is one cycle of the system clock.  Bits stands for the 32 of a *)
(* word; all that is kept of a bit is whether a word that was shown        *)
(* already holds it.                                                       *)
(***************************************************************************)
EXTENDS Integers, Sequences

CONSTANTS Bits,
          Durations    \* what software may write to period and deadtime

NoiseAssumption == Bits \in Nat \ {0} /\ Durations \subseteq Nat

VARIABLES
  ena, period, deadtime,   \* the power-up signal and the fields of ctl
  state, counter, phase0, phase1,
  rand_cnt, rand,          \* the shift register, its newest bit last
  word, fresh,             \* the register rand that is read, <<>> for 0xDEADBEEF
  low, gap                 \* history: cycles both phases have been low, counted up to one more than
                           \*   the dead time that was in force when the last phase ended

driver == <<state, counter, phase0, phase1, low, gap>>
collector == <<rand_cnt, rand, word, fresh>>
noiseVars == <<ena, period, deadtime, driver, collector>>

States == {"RESET", "DEADTIME0", "PHASE0", "DEADTIME1", "PHASE1"}

-----------------------------------------------------------------------------
(* The phases.  Each state sets the outputs of the next cycle. *)

Outputs(p0, p1) == phase0' = p0 /\ phase1' = p1

Rest == /\ state = "RESET"
        /\ Outputs(FALSE, FALSE)
        /\ \/ ena /\ state' = "DEADTIME0" /\ counter' = deadtime /\ gap' = deadtime
           \/ ~ena /\ UNCHANGED <<state, counter, gap>>

\* Fault: the next phase is driven one cycle early.
DeadEager(from, to) ==
  /\ state = from
  /\ Outputs(to = "PHASE0" /\ counter = 0, to = "PHASE1" /\ counter = 0)
  /\ \/ counter > 0 /\ counter' = counter - 1 /\ UNCHANGED state
     \/ counter = 0 /\ state' = to /\ counter' = period
  /\ UNCHANGED gap

Dead(from, to) ==
  /\ state = from
  /\ Outputs(FALSE, FALSE)
  /\ \/ counter > 0 /\ counter' = counter - 1 /\ UNCHANGED state
     \/ counter = 0 /\ state' = to /\ counter' = period
  /\ UNCHANGED gap

Phase0 == /\ state = "PHASE0"
          /\ Outputs(TRUE, FALSE)
          /\ \/ counter > 0 /\ counter' = counter - 1 /\ UNCHANGED <<state, gap>>
             \/ counter = 0 /\ state' = "DEADTIME1" /\ counter' = deadtime /\ gap' = deadtime

Phase1 == /\ state = "PHASE1"
          /\ Outputs(FALSE, TRUE)
          /\ \/ counter > 0 /\ counter' = counter - 1 /\ UNCHANGED <<state, gap>>
             \/ counter = 0 /\ ena /\ state' = "DEADTIME0" /\ counter' = deadtime /\ gap' = deadtime
             \/ counter = 0 /\ ~ena /\ state' = "RESET" /\ UNCHANGED <<counter, gap>>

Driver == /\ \/ Rest
             \/ Dead("DEADTIME0", "PHASE0")
             \/ Phase0
             \/ Dead("DEADTIME1", "PHASE1")
             \/ Phase1
          /\ low' = IF phase0 \/ phase1 THEN 0 ELSE IF low > gap THEN low ELSE low + 1

\* A sample at the end of each phase, but for the last one before the generator is switched off.
shift_rand == counter = 0 /\ (state = "PHASE0" \/ (state = "PHASE1" /\ ena))

-----------------------------------------------------------------------------
(* The word.  A read, or the generator being off, takes precedence. *)

Clear == /\ fresh' = FALSE
         /\ word' = <<>>
         /\ UNCHANGED <<rand_cnt, rand>>

Shift == /\ rand_cnt < Bits + 1
         /\ rand_cnt' = rand_cnt + 1
         /\ rand' = Append(IF Len(rand) < Bits THEN rand ELSE Tail(rand), FALSE)
         /\ UNCHANGED <<word, fresh>>

\* Fault: the count is not started again.
PublishAgain == /\ rand_cnt = Bits + 1
                /\ word' = rand
                /\ fresh' = TRUE
                /\ rand' = [k \in DOMAIN rand |-> TRUE]
                /\ UNCHANGED rand_cnt

Publish == /\ rand_cnt = Bits + 1
           /\ word' = rand
           /\ fresh' = TRUE
           /\ rand_cnt' = 0
           /\ rand' = [k \in DOMAIN rand |-> TRUE]

Collector(read) == \/ (read \/ ~ena) /\ Clear
                   \/ ~read /\ ena /\ shift_rand /\ (Shift \/ Publish)
                   \/ ~read /\ ena /\ ~shift_rand /\ UNCHANGED collector

NoiseInit == /\ ena = FALSE /\ period \in Durations /\ deadtime \in Durations
             /\ state = "RESET" /\ counter = 0 /\ phase0 = FALSE /\ phase1 = FALSE
             /\ rand_cnt = 0 /\ rand = <<>> /\ word = <<>> /\ fresh = FALSE
             /\ low = 0 /\ gap = 0

\* Power may change and ctl be written in any cycle.
Inputs == /\ ena' \in BOOLEAN
          /\ \/ UNCHANGED <<period, deadtime>>
             \/ period' \in Durations /\ deadtime' \in Durations

NoiseNext == /\ Inputs
             /\ Driver
             /\ \E read \in BOOLEAN : Collector(read)

NoiseSpec == NoiseInit /\ [][NoiseNext]_noiseVars

-----------------------------------------------------------------------------

NoiseTypeOK == /\ ena \in BOOLEAN /\ period \in Durations /\ deadtime \in Durations
               /\ state \in States /\ counter \in Nat
               /\ phase0 \in BOOLEAN /\ phase1 \in BOOLEAN
               /\ low \in Nat /\ gap \in Nat

(* "Generates non-overlapping clocks": a phase rises only when both have   *)
(* been low for longer than the dead time that was in force when the last  *)
(* one ended, whatever software writes meanwhile.                          *)
DeadTimeKept == [][ (phase0' /\ ~phase0) \/ (phase1' /\ ~phase1) => low' > gap ]_noiseVars

(* No sample is a bit of two words.                                        *)
WordsDisjoint == \A k \in DOMAIN word : ~word[k]
=============================================================================

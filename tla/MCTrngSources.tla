---------------------------- MODULE MCTrngSources ---------------------------
(***************************************************************************)
(* The sources of the TRNG: the refill machine that powers, tests and      *)
(* drains them, the health tests, and the driver of the modular noise      *)
(* generator.  A behaviour is one of one of them, the unit, while the      *)
(* others stay in an initial state: TrngRefill takes the verdicts of the   *)
(* tests as inputs, and the driver is only powered by it.                  *)
(***************************************************************************)
EXTENDS TrngRefill, ModNoise, TrngHealth

VARIABLE unit

(* Managed operation: enabled, at least one source; avalanche required or not. *)
Managed == {c \in [enable : {TRUE}, av_dis : BOOLEAN, ro_dis : BOOLEAN, powersave : BOOLEAN, required : BOOLEAN] :
              ~(c.av_dis /\ c.ro_dis) /\ (c.required => ~c.av_dis /\ ~c.ro_dis)}

(* How often runs of one and of two bits may end in a window. *)
RunsAtLeast == <<1, 0>>
RunsAtMost == <<2, 1>>

(* A window and the beginning of the next; a ring oscillator's take longer. *)
SamplesOf == [av0 |-> 5, av1 |-> 5, ro0 |-> 6]

ASSUME SourcesAssumption == RefillAssumption /\ NoiseAssumption /\ HealthAssumption

allVars == <<unit, vars, noiseVars, healthVars>>

SourcesInit ==
  /\ unit \in {"refill", "tests", "noise"}
  /\ Init /\ (unit # "refill" => control = CHOOSE c \in Controls : TRUE)
  /\ NoiseInit /\ (unit # "noise" => period = deadtime /\ period = CHOOSE d \in Durations : TRUE)
  /\ HealthInit /\ (unit # "tests" => source = "av0")

SourcesNext ==
  \/ unit = "noise" /\ NoiseNext /\ UNCHANGED <<unit, vars, healthVars>>
  \/ unit = "refill" /\ Next /\ UNCHANGED <<unit, noiseVars, healthVars>>
  \/ unit = "tests" /\ HealthNext /\ UNCHANGED <<unit, vars, noiseVars>>

SourcesSpec == SourcesInit /\ [][SourcesNext]_allVars

-----------------------------------------------------------------------------
(* The repetition count and adaptive proportion tests fail when and only     *)
(* when the samples since the last clear contain what they look for          *)
(* (trng_managed.py:252, 328), with cutoffs one above those documented; the  *)
(* excursion test judges every window by its samples and no others (421),    *)
(* the run test by its runs but for those at its ends (530).                 *)
TestsExact == NistTestsExact /\ WindowsJudged

(* No sample is used twice: not by the refill machine, whose words are new   *)
(* and hold none from before the generator was stable (trng_managed.py:747,  *)
(* 1242), nor by two words of the modular noise generator (1957).            *)
WordsSound == NoiseWordsSound /\ WordsDisjoint
=============================================================================

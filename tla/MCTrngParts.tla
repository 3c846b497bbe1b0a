----------------------------- MODULE MCTrngParts ----------------------------
(***************************************************************************)
(* Two parts of the TRNG, each by itself: the output side of the           *)
(* conditioner, and the refill machine with sources that pass their tests. *)
(* A behaviour is one of one of them, the unit, while the other stays in   *)
(* its initial state.                                                      *)
(***************************************************************************)
EXTENDS ChaChaOutput

VARIABLE unit

VARIABLES
  control, refill, powerup, av_config_noise, avpwr, av_powerstate, avn, av_noisecnt,
  av_noiseout_ready, av_pass, ro_test, ro_on, ro_fresh, xadc, romadr, noise_mode,
  reconfigure_r, kernel_level, server_level, reading, av_used, ro_used, av_cold, adc_noise

refillVars == <<control, refill, powerup, av_config_noise, avpwr, av_powerstate, avn, av_noisecnt,
                av_noiseout_ready, av_pass, ro_test, ro_on, ro_fresh, xadc, romadr, noise_mode,
                reconfigure_r, kernel_level, server_level, reading, av_used, ro_used, av_cold, adc_noise>>

(* The refill for its liveness: both sources, in power-save mode. *)
BothSources == {[enable |-> TRUE, av_dis |-> FALSE, ro_dis |-> FALSE,
                 powersave |-> TRUE, required |-> FALSE]}
Re == INSTANCE TrngRefill WITH
  Depth <- 2, Mark <- 1, Samples <- 1, RomSize <- 1, Controls <- BothSources, Reconfigure <- FALSE

ASSUME PartsAssumption == Re!RefillAssumption

allVars == <<unit, vars, refillVars>>

PartsInit ==
  /\ unit \in {"output", "refill"}
  /\ Init /\ Re!Init

OfOutput(A) == unit = "output" /\ A /\ UNCHANGED <<unit, refillVars>>
OfRefill(A) == unit = "refill" /\ A /\ UNCHANGED <<unit, vars>>

PartsNext == OfOutput(Next) \/ OfRefill(Re!GoodNext)

(* The fairness of the parts (see ChaChaOutput and TrngRefill). *)
PartsSpec ==
  /\ PartsInit /\ [][PartsNext]_allVars
  /\ \A tick \in BOOLEAN : WF_allVars(OfOutput(Access(tick)))
  /\ WF_allVars(OfRefill(Re!GoodNext /\ UNCHANGED control))
  /\ WF_allVars(OfRefill(\E f, d, g \in BOOLEAN : Re!Good(TRUE, f, d, g)))
  /\ WF_allVars(OfRefill(\E e, d, g \in BOOLEAN : Re!Good(e, TRUE, d, g)))
  /\ WF_allVars(OfRefill(\E e, f, g \in BOOLEAN : Re!ro_ena /\ Re!Good(e, f, TRUE, g)))
  /\ WF_allVars(OfRefill(\E e, f, d \in BOOLEAN : Re!Good(e, f, d, TRUE)))

-----------------------------------------------------------------------------
(* A port of the conditioner without a valid word gets one, unless the core  *)
(* has dealt out its last block (chacha.py:271).                             *)
PortsRefilled == unit = "output" => PortRefilled

(* A refill that is needed ends with both FIFOs topped off, once the readers *)
(* leave them alone (trng_managed.py:1091).                                  *)
RefillCompletes == unit = "refill" => Re!RefillCompletes
=============================================================================

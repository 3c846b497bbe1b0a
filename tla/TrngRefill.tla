----------------------------- MODULE TrngRefill -----------------------------
(***************************************************************************)
(* The refill machine of TrngManaged (trng/trng_managed.py) with what it   *)
(* drives and waits for: the power sequencer of the avalanche generator,   *)
(* the machine that assembles noise words, the XADC reconfiguration, the   *)
(* ring oscillator's word register, the self-test verdicts, and the two    *)
(* FIFOs it tops up.  One step is one cycle of the system clock.           *)
(***************************************************************************)
EXTENDS Integers

CONSTANTS Depth,        \* FIFO level at which ALMOSTFULL rises
          Mark,         \* level at or below which ALMOSTEMPTY is high (refill_mark)
          Samples,      \* samples folded into one noise word (av_config.samples)
          RomSize,      \* entries of an XADC configuration table (8)
          Controls,     \* values software gives to the control registers
          Reconfigure   \* software changes more than powersave at run time

Control == [enable : BOOLEAN, av_dis : BOOLEAN, ro_dis : BOOLEAN,
            powersave : BOOLEAN, required : BOOLEAN]

RefillAssumption == /\ Depth \in Nat /\ Mark \in Nat /\ Mark < Depth
                    /\ Samples \in Nat /\ RomSize \in Nat \ {0}
                    /\ Controls \subseteq Control /\ Reconfigure \in BOOLEAN

VARIABLES
  control,                                  \* server.control and av_config.required
  refill, powerup, av_config_noise,         \* the refill machine
  avpwr, av_powerstate,                     \* power of the avalanche generator
  avn, av_noisecnt, av_noiseout_ready,      \* assembly of a noise word
  av_pass, ro_test,                         \* self-test verdicts
  ro_on, ro_fresh,                          \* ring oscillator runs; unread word of it
  xadc, romadr, noise_mode, reconfigure_r,  \* XADC configuration machine
  kernel_level, server_level,               \* words in the FIFOs
  reading,                                  \* the CPU still takes words out
  av_used, ro_used,      \* history: the current word is in a FIFO already
  av_cold,               \* history: a sample of it predates stable power
  adc_noise              \* history: table the XADC was last loaded from

powerVars == <<avpwr, av_powerstate>>
avnVars == <<avn, av_noisecnt, av_noiseout_ready, av_used, av_cold>>
xadcVars == <<xadc, romadr, noise_mode, reconfigure_r, adc_noise>>
vars == <<control, refill, powerup, av_config_noise, powerVars, avnVars, av_pass, ro_test,
          ro_on, ro_fresh, ro_used, xadcVars, kernel_level, server_level, reading>>

Init ==
  /\ control \in Controls
  /\ refill = "IDLE" /\ powerup = FALSE /\ av_config_noise = FALSE
  /\ avpwr = "DOWN" /\ av_powerstate = FALSE
  /\ avn = "IDLE" /\ av_noisecnt = 0 /\ av_noiseout_ready = FALSE
  /\ av_pass = FALSE /\ ro_test = "off" /\ ro_on = FALSE /\ ro_fresh = FALSE
  /\ xadc = "IDLE" /\ romadr = 0 /\ noise_mode = FALSE /\ reconfigure_r = FALSE
  /\ kernel_level = 0 /\ server_level = 0 /\ reading = TRUE
  /\ av_used = FALSE /\ ro_used = FALSE /\ av_cold = FALSE /\ adc_noise = FALSE

-----------------------------------------------------------------------------
(* Combinational signals. *)

(* Fault: in power-save mode the sources are not powered for a refill. *)
powered_always == control.enable /\ ~control.powersave
powered == control.enable /\ (powerup \/ ~control.powersave)
av_ena == powered /\ ~control.av_dis
ro_ena == powered /\ ~control.ro_dis
ro_pass == ro_test # "off"
av_configured == xadc = "IDLE"
av_reconfigure == refill \in {"CONFIG", "GO_IDLE"}

kernel_fifo_full == kernel_level >= Depth
server_fifo_full == server_level >= Depth
refill_needed == kernel_level <= Mark \/ server_level <= Mark

(* A word can be merged from the enabled sources. *)
word_ready == /\ av_noiseout_ready \/ control.av_dis
              /\ ro_fresh \/ control.ro_dis
              /\ av_pass \/ ro_pass
kernel_fifo_wren == refill = "REFILL_KERNEL" /\ ~kernel_fifo_full /\ word_ready
server_fifo_wren == refill = "REFILL_SERVER" /\ ~server_fifo_full /\ word_ready
wren == kernel_fifo_wren \/ server_fifo_wren

(* Fault: a write does not retire the word for the server FIFO. *)
ro_rand_read_kernel ==
  kernel_fifo_wren \/ (refill = "SELFTEST" /\ ro_fresh /\ ~control.ro_dis)
av_noiseout_read == wren \/ (refill = "SELFTEST" /\ av_noiseout_ready /\ ~control.av_dis)
ro_rand_read == wren \/ (refill = "SELFTEST" /\ ro_fresh /\ ~control.ro_dis)

-----------------------------------------------------------------------------
(* The refill machine. *)

Idle ==
  /\ refill = "IDLE"
  /\ powerup' = refill_needed
  /\ av_config_noise' = (av_config_noise \/ (refill_needed /\ ~control.av_dis))
  /\ refill' = IF ~refill_needed THEN "IDLE"
               ELSE IF control.av_dis THEN "SELFTEST" ELSE "CONFIG"

Config == /\ refill = "CONFIG" /\ refill' = "WAIT_ON"
          /\ UNCHANGED <<powerup, av_config_noise>>

av_on == av_powerstate /\ av_configured

(* Fault: the choice of the noise table is left to GO_IDLE to withdraw. *)
WaitOnKeepsNoise ==
  /\ refill = "WAIT_ON"
  /\ refill' = IF av_on THEN "SELFTEST" ELSE "WAIT_ON"
  /\ UNCHANGED <<powerup, av_config_noise>>

WaitOn ==
  /\ refill = "WAIT_ON"
  /\ refill' = IF av_on THEN "SELFTEST" ELSE "WAIT_ON"
  /\ av_config_noise' = (av_config_noise /\ ~av_on)
  /\ UNCHANGED powerup

SelfTest ==
  /\ refill = "SELFTEST"
  /\ refill' = IF av_pass \/ (ro_pass /\ ~control.required) THEN "REFILL_KERNEL"
               ELSE "SELFTEST"
  /\ UNCHANGED <<powerup, av_config_noise>>

RefillKernel ==
  /\ refill = "REFILL_KERNEL"
  /\ refill' = IF kernel_fifo_full THEN "REFILL_SERVER" ELSE refill
  /\ UNCHANGED <<powerup, av_config_noise>>

RefillServer ==
  /\ refill = "REFILL_SERVER"
  /\ refill' = IF server_fifo_full THEN "GO_IDLE" ELSE refill
  /\ UNCHANGED <<powerup, av_config_noise>>

GoIdle == /\ refill = "GO_IDLE" /\ refill' = "IDLE"
          /\ av_config_noise' = FALSE /\ UNCHANGED powerup

Refill == \/ Idle \/ Config \/ WaitOn \/ SelfTest
          \/ RefillKernel \/ RefillServer \/ GoIdle

-----------------------------------------------------------------------------
(* The avalanche generator.  settled: the power-up delay of this cycle has  *)
(* run out.  The delay (50 ms) outlasts the assembly of a word (< 1 ms).    *)

AvPower(settled) ==
  /\ av_powerstate' = (avpwr = "UP")
  /\ avpwr' = CASE avpwr = "DOWN" -> IF av_ena THEN "WAIT" ELSE "DOWN"
                [] avpwr = "WAIT" -> IF settled THEN "UP" ELSE "WAIT"
                [] avpwr = "UP"   -> IF av_ena THEN "UP" ELSE "DOWN"

(* fresh: both noise channels hold a new sample.  A new word starts when    *)
(* the generator is up, and is finished even if it is switched off.         *)
AvNoise(fresh) ==
  /\ \/ /\ avn = "IDLE"
        /\ avn' = IF av_powerstate THEN "ASSEMBLE" ELSE "IDLE"
        /\ av_noisecnt' = Samples /\ av_noiseout_ready' = FALSE
        /\ av_used' = FALSE /\ av_cold' = FALSE
     \/ /\ avn = "ASSEMBLE"
        /\ avn' = IF av_noisecnt = 0 THEN "READY" ELSE "ASSEMBLE"
        /\ av_noisecnt' = IF fresh /\ av_noisecnt # 0 THEN av_noisecnt - 1 ELSE av_noisecnt
        /\ av_cold' = (av_cold \/ (fresh /\ av_noisecnt # 0 /\ avpwr # "UP"))
        /\ av_noiseout_ready' = FALSE /\ UNCHANGED av_used
     \/ /\ avn = "READY"
        /\ avn' = IF av_noiseout_read THEN "IDLE" ELSE "READY"
        /\ av_noiseout_ready' = ~av_noiseout_read
        /\ av_used' = (av_used \/ wren)
        /\ UNCHANGED <<av_noisecnt, av_cold>>

(* done: enough bits have been shifted in for a ring oscillator word.  One    *)
(* more bit may be shifted in after the oscillator is switched off.         *)
RingOsc(done) ==
  /\ ro_on' \in IF ro_ena THEN {TRUE} ELSE IF done THEN {FALSE} ELSE {ro_on, FALSE}
  /\ ro_fresh' = (~ro_rand_read /\ (ro_fresh \/ done))
  /\ ro_used' = IF done /\ ~ro_rand_read THEN FALSE ELSE ro_used \/ wren

(* Verdicts come and go while a source is on.  Without power the excursion  *)
(* test withdraws av_pass at once; ro_pass may outlive ro_ena by a cycle,   *)
(* when the adaptive test was closing its window.                           *)
Health ==
  /\ av_pass' \in IF av_powerstate THEN BOOLEAN ELSE {FALSE}
  /\ ro_test' \in IF ro_ena THEN {"off", "on"}
                  ELSE IF ro_test = "on" THEN {"off", "late"} ELSE {"off"}

-----------------------------------------------------------------------------
(* The XADC.  It looks at reconfigure and config_noise only in IDLE.  go:   *)
(* the converter is not busy, or its data-ready is what is waited for.      *)

Xadc(go) ==
  /\ reconfigure_r' = av_reconfigure
  /\ \/ /\ xadc = "IDLE"
        /\ romadr' = 0 /\ noise_mode' = av_config_noise
        /\ xadc' = IF av_reconfigure /\ ~reconfigure_r THEN "WAIT_UNBUSY" ELSE "IDLE"
        /\ UNCHANGED adc_noise
     \/ /\ xadc = "WAIT_UNBUSY"
        /\ xadc' = IF go THEN "LOAD_DRP" ELSE xadc
        /\ UNCHANGED <<romadr, noise_mode, adc_noise>>
     \/ /\ xadc = "LOAD_DRP" /\ xadc' = "WAIT_DRDY"
        /\ adc_noise' = noise_mode
        /\ UNCHANGED <<romadr, noise_mode>>
     \/ /\ xadc = "WAIT_DRDY"
        /\ xadc' = IF go THEN "ADV" ELSE xadc
        /\ UNCHANGED <<romadr, noise_mode, adc_noise>>
     \/ /\ xadc = "ADV" /\ xadc' = "WAIT_DRDY_LOW"
        /\ romadr' = (romadr + 1) % RomSize
        /\ UNCHANGED <<noise_mode, adc_noise>>
     \/ /\ xadc = "WAIT_DRDY_LOW"
        /\ xadc' = IF romadr = 0 THEN "IDLE" ELSE IF go THEN "LOAD_DRP" ELSE xadc
        /\ UNCHANGED <<romadr, noise_mode, adc_noise>>

-----------------------------------------------------------------------------
(* The FIFOs: a word goes in on wren, the CPU or the seeding takes one out. *)

Level(level, write, take) == level + (IF write THEN 1 ELSE 0) - (IF take THEN 1 ELSE 0)

Fifos(taken) ==
  /\ kernel_level' = Level(kernel_level, kernel_fifo_wren, taken = "kernel")
  /\ server_level' = Level(server_level, server_fifo_wren, taken = "server")

(* Software rewrites a control register, at any moment. *)
Software ==
  /\ control' \in {c \in Controls :
                     Reconfigure \/ c = control
                     \/ [c EXCEPT !.powersave = control.powersave] = control}
  /\ reading' \in {reading, FALSE}

(* The power-up delay ends while it runs, and never while a word is being     *)
(* assembled, which takes less; samples, bits and conversions come only from *)
(* what is on and configured; words are taken from a FIFO that has some.     *)
Possible(settled, fresh, done, go, taken) ==
  /\ settled => avpwr = "WAIT" /\ avn # "ASSEMBLE"
  /\ fresh => av_configured /\ avn = "ASSEMBLE"
  /\ done => ro_on
  /\ go => xadc \in {"WAIT_UNBUSY", "WAIT_DRDY", "WAIT_DRDY_LOW"}
  /\ taken # "none" => reading
  /\ taken = "kernel" => kernel_level > 0
  /\ taken = "server" => server_level > 0

Cycle(settled, fresh, done, go, taken) ==
  /\ Possible(settled, fresh, done, go, taken)
  /\ Refill /\ AvPower(settled) /\ AvNoise(fresh) /\ RingOsc(done) /\ Health
  /\ Xadc(go) /\ Fifos(taken) /\ Software

Step(settled, fresh, done, go) ==
  \E taken \in {"none", "kernel", "server"} : Cycle(settled, fresh, done, go, taken)

Next == \E settled, fresh, done, go \in BOOLEAN : Step(settled, fresh, done, go)

Spec == Init /\ [][Next]_vars
(* For liveness: sources that are on pass their tests, the clock runs, and  *)
(* power-up delays, conversions and ring oscillator words come to an end.   *)
(* Software need not do anything, nor does it write control in every cycle. *)
SourcesGood == (av_powerstate => av_pass') /\ (ro_ena => ro_test' = "on")

GoodNext == Next /\ SourcesGood

Good(settled, fresh, done, go) ==
  Step(settled, fresh, done, go) /\ SourcesGood /\ UNCHANGED control

FairSpec ==
  /\ Init /\ [][GoodNext]_vars
  /\ WF_vars(GoodNext /\ UNCHANGED control)
  /\ WF_vars(\E f, d, g \in BOOLEAN : Good(TRUE, f, d, g))
  /\ WF_vars(\E e, d, g \in BOOLEAN : Good(e, TRUE, d, g))
  /\ WF_vars(\E e, f, g \in BOOLEAN : ro_ena /\ Good(e, f, TRUE, g))
  /\ WF_vars(\E e, f, d \in BOOLEAN : Good(e, f, d, TRUE))

-----------------------------------------------------------------------------
(* Types of the state. *)
TypeOK ==
  /\ control \in Controls
  /\ refill \in {"IDLE", "CONFIG", "WAIT_ON", "SELFTEST", "REFILL_KERNEL",
                 "REFILL_SERVER", "GO_IDLE"}
  /\ avpwr \in {"DOWN", "WAIT", "UP"} /\ avn \in {"IDLE", "ASSEMBLE", "READY"}
  /\ {powerup, av_config_noise, av_powerstate, av_noiseout_ready, av_pass, ro_on, ro_fresh,
      noise_mode, reconfigure_r, reading, av_used, ro_used, av_cold, adc_noise}
        \subseteq BOOLEAN
  /\ ro_test \in {"off", "on", "late"} /\ av_noisecnt \in 0..Samples
  /\ xadc \in {"IDLE", "WAIT_UNBUSY", "LOAD_DRP", "WAIT_DRDY", "ADV", "WAIT_DRDY_LOW"}
  /\ romadr \in 0..RomSize-1
  /\ kernel_level \in 0..Depth /\ server_level \in 0..Depth

(* No noise word reaches a FIFO twice: the read strobe that goes with every  *)
(* write retires the word before the next write can see it.                  *)
WordsUsedOnce ==
  wren => (control.av_dis \/ ~av_used) /\ (control.ro_dis \/ ~ro_used)

(* The words in the FIFOs hold no avalanche sample taken before the          *)
(* generator was stable: the word left over from the last power-down is      *)
(* always thrown away by the self-test.                                      *)
NoColdNoise == wren /\ ~control.av_dis => ~av_cold

(* Every noise word that is written is new and was sampled from a stable     *)
(* generator, and the registers stay in their ranges                         *)
(* (trng_managed.py:747, 1242).                                              *)
NoiseWordsSound == TypeOK /\ WordsUsedOnce /\ NoColdNoise

(* When the refill is over, the XADC is back on the table that samples the   *)
(* system's voltages as soon as it is configured: the pulse of GO_IDLE is    *)
(* never swallowed by a reconfiguration still going on                       *)
(* (trng_managed.py:1268).                                                   *)
XadcBackToSense ==
  refill = "IDLE" /\ av_configured => ~adc_noise

(* A refill that is needed ends with both FIFOs topped off, once the readers  *)
(* leave them alone.                                                         *)
RefillCompletes ==
  <>[](~reading) => (refill_needed ~> refill = "IDLE" /\ ~refill_needed)

=============================================================================

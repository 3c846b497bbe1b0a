------------------------ MODULE MCTrngSources_proofs ------------------------
(***************************************************************************)
(* The sources of the TRNG, for every size.  First the refill machine, for *)
(* every depth of the FIFOs, every number of samples in a noise word and   *)
(* every length of the XADC's table; then ModNoise, its dead time for      *)
(* every period and dead time that software may write, its words for every *)
(* width; then the health tests, for every cutoff, width of a counter and  *)
(* length of a window.                                                     *)
(***************************************************************************)
EXTENDS MCTrngSources, FiniteSetTheorems, SequenceTheorems, TLAPS

(* A word that is offered to the FIFOs is in neither of them. *)
Unused ==
  /\ av_noiseout_ready => avn = "READY"
  /\ avn # "IDLE" => ~av_used
  /\ ro_fresh => ~ro_used

(* Once the refill has asked for the avalanche generator it stays powered    *)
(* until the refill is over.                                                 *)
Powered ==
  /\ refill # "IDLE" => powerup
  /\ refill \in {"CONFIG", "WAIT_ON"} => ~control.av_dis
  /\ avpwr # "DOWN" => control.enable
  /\ avpwr = "WAIT" => ~av_powerstate
  /\ refill = "WAIT_ON" /\ av_powerstate => avpwr = "UP"
  /\ refill \in {"SELFTEST", "REFILL_KERNEL", "REFILL_SERVER"} /\ ~control.av_dis
       => avpwr = "UP" /\ av_powerstate

(* A word that holds a sample from before the generator was stable: it is    *)
(* complete when power is up again, on offer when power is reported, and is  *)
(* taken away by the first cycle of the self-test.                           *)
ColdRetired ==
  av_cold => /\ avpwr = "UP" => avn # "ASSEMBLE"
             /\ avpwr = "UP" /\ av_powerstate /\ avn = "READY" => av_noiseout_ready
             /\ refill \in {"REFILL_KERNEL", "REFILL_SERVER"} /\ ~control.av_dis => avn = "IDLE"

(* From the self-test on the XADC waits for the pulse of GO_IDLE, which makes *)
(* it load the sense table before it is configured again.                    *)
SenseNext ==
  /\ control.av_dis => ~av_config_noise /\ ~noise_mode /\ ~adc_noise
  /\ refill \notin {"CONFIG", "WAIT_ON"} => ~av_config_noise
  /\ refill \in {"SELFTEST", "REFILL_KERNEL", "REFILL_SERVER", "GO_IDLE"} /\ ~control.av_dis
       => xadc = "IDLE" /\ ~reconfigure_r
  /\ refill = "IDLE" => /\ adc_noise => xadc \in {"WAIT_UNBUSY", "LOAD_DRP"}
                        /\ xadc # "IDLE" => ~noise_mode

RefillInv == TypeOK /\ Unused /\ Powered /\ ColdRetired /\ SenseNext

-----------------------------------------------------------------------------
(* A step is one cycle of every part. *)
LEMMA NextCycle ==
  ASSUME Next
  PROVE  \E settled, moved, done, go \in BOOLEAN, taken \in {"none", "kernel", "server"} :
           Cycle(settled, moved, done, go, taken)
BY DEF Next, Step

(* The registers of one bit. *)
LEMMA OneBit ==
  ASSUME TypeOK
  PROVE  /\ powerup \in BOOLEAN /\ av_config_noise \in BOOLEAN /\ av_powerstate \in BOOLEAN
         /\ av_noiseout_ready \in BOOLEAN /\ av_pass \in BOOLEAN /\ ro_on \in BOOLEAN
         /\ ro_fresh \in BOOLEAN /\ noise_mode \in BOOLEAN /\ reconfigure_r \in BOOLEAN
         /\ reading \in BOOLEAN /\ av_used \in BOOLEAN /\ ro_used \in BOOLEAN
         /\ av_cold \in BOOLEAN /\ adc_noise \in BOOLEAN
BY DEF TypeOK

(* A word goes only into a FIFO that has room for it. *)
LEMMA LevelStep ==
  ASSUME RefillAssumption, TypeOK, NEW settled, NEW moved, NEW done, NEW go, NEW taken,
         Cycle(settled, moved, done, go, taken)
  PROVE  kernel_level' \in 0..Depth /\ server_level' \in 0..Depth
<1>1. /\ kernel_fifo_wren => kernel_level < Depth
      /\ server_fifo_wren => server_level < Depth
  BY DEF TypeOK, RefillAssumption, kernel_fifo_wren, server_fifo_wren, kernel_fifo_full,
         server_fifo_full
<1>2. /\ taken = "kernel" => kernel_level > 0
      /\ taken = "server" => server_level > 0
  BY DEF Cycle, Possible
<1>3. /\ kernel_level' = Level(kernel_level, kernel_fifo_wren, taken = "kernel")
      /\ server_level' = Level(server_level, server_fifo_wren, taken = "server")
  BY DEF Cycle, Fifos
<1> QED BY <1>1, <1>2, <1>3 DEF TypeOK, RefillAssumption, Level

(* Every part leaves its registers within their types. *)
LEMMA RefillTypeStep == ASSUME RefillAssumption, TypeOK, Next PROVE TypeOK'
<1>0. PICK settled, moved, done, go \in BOOLEAN, taken \in {"none", "kernel", "server"} :
        Cycle(settled, moved, done, go, taken)
  BY NextCycle
<1>1. control' \in Controls /\ reading' \in BOOLEAN
  BY <1>0, OneBit DEF Cycle, Software
<1>2. /\ refill' \in {"IDLE", "CONFIG", "WAIT_ON", "SELFTEST", "REFILL_KERNEL",
                      "REFILL_SERVER", "GO_IDLE"}
      /\ powerup' \in BOOLEAN
  BY <1>0, OneBit DEF Cycle, Refill, Idle, Config, WaitOn, SelfTest, RefillKernel, RefillServer,
                    GoIdle, refill_needed
<1>3. av_config_noise' \in BOOLEAN
  BY <1>0, OneBit, Zenon DEF Cycle, Refill, Idle, Config, WaitOn, SelfTest, RefillKernel,
                           RefillServer, GoIdle
<1>4. avpwr' \in {"DOWN", "WAIT", "UP"} /\ av_powerstate' \in BOOLEAN
  BY <1>0 DEF TypeOK, Cycle, AvPower
<1>5. avn' \in {"IDLE", "ASSEMBLE", "READY"} /\ av_noisecnt' \in 0..Samples
  BY <1>0 DEF TypeOK, RefillAssumption, Cycle, AvNoise
<1>6. av_noiseout_ready' \in BOOLEAN /\ av_used' \in BOOLEAN /\ av_cold' \in BOOLEAN
  BY <1>0, OneBit, Zenon DEF Cycle, AvNoise
<1>7. ro_on' \in BOOLEAN /\ ro_fresh' \in BOOLEAN /\ ro_used' \in BOOLEAN
  BY <1>0, OneBit DEF Cycle, RingOsc
<1>8. av_pass' \in BOOLEAN /\ ro_test' \in {"off", "on", "late"}
  BY <1>0 DEF Cycle, Health
<1>9. /\ xadc' \in {"IDLE", "WAIT_UNBUSY", "LOAD_DRP", "WAIT_DRDY", "ADV", "WAIT_DRDY_LOW"}
      /\ romadr' \in 0..RomSize-1
  BY <1>0 DEF TypeOK, RefillAssumption, Cycle, Xadc
<1>10. noise_mode' \in BOOLEAN /\ adc_noise' \in BOOLEAN /\ reconfigure_r' \in BOOLEAN
  BY <1>0, OneBit DEF Cycle, Xadc, av_reconfigure
<1>11. kernel_level' \in 0..Depth /\ server_level' \in 0..Depth
  BY <1>0, LevelStep
<1> QED
  BY <1>1, <1>2, <1>3, <1>4, <1>5, <1>6, <1>7, <1>8, <1>9, <1>10, <1>11 DEF TypeOK

(* The strobe that goes with a write takes the word away in the same cycle. *)
LEMMA UnusedStep == ASSUME TypeOK, Unused, Next PROVE Unused'
<1>0. PICK settled, moved, done, go \in BOOLEAN, taken \in {"none", "kernel", "server"} :
        Cycle(settled, moved, done, go, taken)
  BY NextCycle
<1>1. wren => av_noiseout_read /\ ro_rand_read
  BY DEF av_noiseout_read, ro_rand_read
<1>2. (av_noiseout_ready' => avn' = "READY") /\ (avn' # "IDLE" => ~av_used')
  <2>1. AvNoise(moved)
    BY <1>0 DEF Cycle
  <2>2. CASE avn = "IDLE"
    BY <2>1, <2>2 DEF AvNoise
  <2>3. CASE avn = "ASSEMBLE"
    BY <2>1, <2>3 DEF AvNoise, Unused
  <2>4. CASE avn = "READY"
    BY <1>1, <2>1, <2>4 DEF AvNoise, Unused
  <2> QED BY <2>2, <2>3, <2>4 DEF TypeOK
<1>3. ro_fresh' => ~ro_used'
  BY <1>0, <1>1, Zenon DEF Cycle, RingOsc, Unused
<1> QED BY <1>2, <1>3 DEF Unused

(* Unless software reconfigures while the TRNG runs, only powersave changes. *)
LEMMA SoftwareStep ==
  ASSUME RefillAssumption, Reconfigure = FALSE, control \in Controls, Software
  PROVE  control'.enable = control.enable /\ control'.av_dis = control.av_dis
<1>1. control' = control \/ [control' EXCEPT !.powersave = control.powersave] = control
  BY DEF Software
<1>2. control' \in Control /\ control \in Control
  BY DEF Software, RefillAssumption
<1> QED BY <1>1, <1>2 DEF Control

(* What the refill machine does to its state, without the conditions. *)
LEMMA RefillMoves ==
  ASSUME Refill
  PROVE  /\ refill = "IDLE" => IF refill_needed THEN refill' = IF control.av_dis THEN "SELFTEST"
                                                              ELSE "CONFIG"
                               ELSE refill' = "IDLE"
         /\ refill = "CONFIG" => refill' = "WAIT_ON"
         /\ refill = "WAIT_ON" => refill' = IF av_on THEN "SELFTEST" ELSE "WAIT_ON"
         /\ refill = "SELFTEST" => refill' \in {"SELFTEST", "REFILL_KERNEL"}
         /\ refill = "REFILL_KERNEL" => refill' \in {"REFILL_KERNEL", "REFILL_SERVER"}
         /\ refill = "REFILL_SERVER" => refill' \in {"REFILL_SERVER", "GO_IDLE"}
         /\ refill = "GO_IDLE" => refill' = "IDLE"
         /\ powerup' = IF refill = "IDLE" THEN refill_needed ELSE powerup
BY DEF Refill, Idle, Config, WaitOn, SelfTest, RefillKernel, RefillServer, GoIdle

(* The generator is asked for throughout a refill. *)
LEMMA PoweredStep ==
  ASSUME RefillAssumption, Reconfigure = FALSE, TypeOK, Powered, Next PROVE Powered'
<1>0. PICK settled, moved, done, go \in BOOLEAN, taken \in {"none", "kernel", "server"} :
        Cycle(settled, moved, done, go, taken)
  BY NextCycle
<1>1. control'.enable = control.enable /\ control'.av_dis = control.av_dis
  BY <1>0, SoftwareStep DEF Cycle, TypeOK
<1>2. Refill /\ AvPower(settled)
  BY <1>0 DEF Cycle
<1>3. refill' # "IDLE" => powerup'
  BY <1>2, RefillMoves DEF Powered, TypeOK
<1>a. refill' \in {"CONFIG", "WAIT_ON"} => ~control'.av_dis
  BY <1>1, <1>2, RefillMoves DEF Powered, TypeOK
<1>4. /\ av_powerstate' <=> avpwr = "UP"
      /\ avpwr' = IF avpwr = "DOWN" THEN IF av_ena THEN "WAIT" ELSE "DOWN"
                  ELSE IF avpwr = "WAIT" THEN IF settled THEN "UP" ELSE "WAIT"
                  ELSE IF av_ena THEN "UP" ELSE "DOWN"
  BY <1>2 DEF AvPower, TypeOK
<1>5. avpwr' # "DOWN" => control'.enable
  BY <1>1, <1>4 DEF Powered, av_ena, powered
<1>6. avpwr' = "WAIT" => ~av_powerstate'
  BY <1>4
<1>7. refill # "IDLE" /\ ~control.av_dis /\ avpwr = "UP" => avpwr' = "UP" /\ av_powerstate'
  BY <1>4 DEF Powered, av_ena, powered
<1>8. refill' = "WAIT_ON" /\ av_powerstate' => avpwr' = "UP"
  <2> SUFFICES ASSUME refill' = "WAIT_ON", avpwr = "UP" PROVE avpwr' = "UP"
    BY <1>4
  <2>1. refill \in {"CONFIG", "WAIT_ON"}
    BY <1>2, RefillMoves DEF TypeOK
  <2> QED BY <1>4, <2>1 DEF Powered, av_ena, powered
<1>9. ASSUME refill' \in {"SELFTEST", "REFILL_KERNEL", "REFILL_SERVER"}, ~control'.av_dis
      PROVE  avpwr' = "UP" /\ av_powerstate'
  <2>1. \/ refill \in {"SELFTEST", "REFILL_KERNEL", "REFILL_SERVER"}
        \/ refill = "WAIT_ON" /\ av_powerstate
    BY <1>1, <1>2, <1>9, RefillMoves DEF TypeOK, av_on
  <2>2. avpwr = "UP"
    BY <1>1, <1>9, <2>1 DEF Powered
  <2> QED BY <1>1, <1>7, <1>9, <2>1, <2>2
<1> QED BY <1>3, <1>a, <1>5, <1>6, <1>8, <1>9 DEF Powered

(* What the noise machine does to a word with a cold sample. *)
LEMMA ColdMoves ==
  ASSUME TypeOK, NEW settled \in BOOLEAN, NEW moved \in BOOLEAN,
         AvPower(settled), AvNoise(moved), settled => avpwr = "WAIT" /\ avn # "ASSEMBLE"
  PROVE  /\ avn = "IDLE" => ~av_cold' /\ (~av_powerstate => avn' = "IDLE")
         /\ avn = "ASSEMBLE" /\ ~av_cold /\ avpwr = "UP" => ~av_cold'
         /\ avn = "READY" => /\ av_cold' = av_cold
                             /\ avn' = IF av_noiseout_read THEN "IDLE" ELSE "READY"
                             /\ av_noiseout_ready' = ~av_noiseout_read
         /\ avpwr' = "UP" => avpwr = "UP" \/ (avpwr = "WAIT" /\ avn # "ASSEMBLE")
         /\ av_powerstate' <=> avpwr = "UP"
<1>1. avn = "IDLE" => ~av_cold' /\ (~av_powerstate => avn' = "IDLE")
  BY DEF AvNoise
<1>2. avn = "ASSEMBLE" /\ ~av_cold /\ avpwr = "UP" => ~av_cold'
  BY DEF AvNoise
<1>3. avn = "READY" => /\ av_cold' = av_cold
                       /\ avn' = IF av_noiseout_read THEN "IDLE" ELSE "READY"
                       /\ av_noiseout_ready' = ~av_noiseout_read
  BY DEF AvNoise
<1>4. /\ avpwr' = "UP" => avpwr = "UP" \/ (avpwr = "WAIT" /\ avn # "ASSEMBLE")
      /\ av_powerstate' <=> avpwr = "UP"
  BY DEF AvPower, TypeOK
<1> QED BY <1>1, <1>2, <1>3, <1>4

(* A cold word does not get past the self-test. *)
LEMMA ColdRetiredStep ==
  ASSUME RefillAssumption, Reconfigure = FALSE, TypeOK, Powered, ColdRetired, Next
  PROVE  ColdRetired'
<1>0. PICK settled, moved, done, go \in BOOLEAN, taken \in {"none", "kernel", "server"} :
        Cycle(settled, moved, done, go, taken)
  BY NextCycle
<1>1. control'.av_dis = control.av_dis
  BY <1>0, SoftwareStep DEF Cycle, TypeOK
<1>2. /\ avn = "IDLE" => ~av_cold' /\ (~av_powerstate => avn' = "IDLE")
      /\ avn = "ASSEMBLE" /\ ~av_cold /\ avpwr = "UP" => ~av_cold'
      /\ avn = "READY" => /\ av_cold' = av_cold
                          /\ avn' = IF av_noiseout_read THEN "IDLE" ELSE "READY"
                          /\ av_noiseout_ready' = ~av_noiseout_read
      /\ avpwr' = "UP" => avpwr = "UP" \/ (avpwr = "WAIT" /\ avn # "ASSEMBLE")
      /\ av_powerstate' <=> avpwr = "UP"
  BY <1>0, ColdMoves DEF Cycle, Possible
<1>3. avn \in {"IDLE", "ASSEMBLE", "READY"} /\ av_cold \in BOOLEAN
  BY DEF TypeOK
<1> SUFFICES ASSUME av_cold'
             PROVE  /\ avpwr' = "UP" => avn' # "ASSEMBLE"
                    /\ avpwr' = "UP" /\ av_powerstate' /\ avn' = "READY" => av_noiseout_ready'
                    /\ refill' \in {"REFILL_KERNEL", "REFILL_SERVER"} /\ ~control'.av_dis
                         => avn' = "IDLE"
  BY DEF ColdRetired
<1>4. ASSUME avpwr' = "UP" PROVE avn' # "ASSEMBLE"
  BY <1>2, <1>3, <1>4 DEF ColdRetired, Powered
<1>5. ASSUME avpwr' = "UP", av_powerstate', avn' = "READY" PROVE av_noiseout_ready'
  BY <1>2, <1>3, <1>5 DEF ColdRetired
<1>6. ASSUME refill' \in {"REFILL_KERNEL", "REFILL_SERVER"}, ~control'.av_dis
      PROVE  avn' = "IDLE"
  <2>1. refill \in {"SELFTEST", "REFILL_KERNEL", "REFILL_SERVER"} /\ ~control.av_dis
    BY <1>0, <1>1, <1>6, RefillMoves DEF Cycle, TypeOK
  <2>2. avpwr = "UP" /\ av_powerstate
    BY <2>1 DEF Powered
  <2>3. avn = "READY" /\ av_cold
    BY <1>2, <1>3, <2>2 DEF ColdRetired
  <2>4. refill = "SELFTEST" /\ av_noiseout_ready
    BY <2>1, <2>2, <2>3 DEF ColdRetired
  <2>5. av_noiseout_read
    BY <2>1, <2>4 DEF av_noiseout_read
  <2> QED BY <1>2, <2>3, <2>5
<1> QED BY <1>4, <1>5, <1>6

(* The choice of the XADC's table in a cycle of the refill machine. *)
LEMMA NoiseChoice ==
  ASSUME TypeOK, SenseNext, Refill
  PROVE  /\ control.av_dis => ~av_config_noise'
         /\ refill' \notin {"CONFIG", "WAIT_ON"} => ~av_config_noise'
         /\ refill = "GO_IDLE" => ~av_config_noise
<1>1. control.av_dis => ~av_config_noise'
  BY Zenon DEF SenseNext, Refill, Idle, Config, WaitOn, SelfTest, RefillKernel, RefillServer,
               GoIdle
<1>2. refill = "GO_IDLE" => ~av_config_noise
  BY DEF SenseNext
<1>3. ASSUME refill' \notin {"CONFIG", "WAIT_ON"} PROVE ~av_config_noise'
  <2>1. CASE Idle
    BY <1>1, <1>3, <2>1 DEF Idle, SenseNext
  <2>2. CASE Config \/ SelfTest \/ RefillKernel \/ RefillServer
    BY <1>3, <2>2 DEF Config, SelfTest, RefillKernel, RefillServer, SenseNext
  <2>3. CASE WaitOn
    BY <1>3, <2>3 DEF WaitOn
  <2>4. CASE GoIdle
    BY <2>4 DEF GoIdle
  <2> QED BY <2>1, <2>2, <2>3, <2>4 DEF Refill
<1> QED BY <1>1, <1>2, <1>3

(* ... and in a cycle of the XADC: it starts on a pulse, and looks at the     *)
(* choice only then.                                                         *)
LEMMA XadcMoves ==
  ASSUME TypeOK, NEW go \in BOOLEAN, Xadc(go)
  PROVE  /\ reconfigure_r' <=> refill \in {"CONFIG", "GO_IDLE"}
         /\ xadc = "IDLE" =>
              /\ xadc' = IF av_reconfigure /\ ~reconfigure_r THEN "WAIT_UNBUSY" ELSE "IDLE"
              /\ noise_mode' = av_config_noise /\ adc_noise' = adc_noise
         /\ xadc # "IDLE" => noise_mode' = noise_mode
         /\ xadc = "LOAD_DRP" => adc_noise' = noise_mode
         /\ xadc # "LOAD_DRP" => adc_noise' = adc_noise
         /\ xadc = "WAIT_UNBUSY" => xadc' \in {"WAIT_UNBUSY", "LOAD_DRP"}
<1>1. reconfigure_r' <=> refill \in {"CONFIG", "GO_IDLE"}
  BY DEF Xadc, av_reconfigure
<1> QED BY <1>1 DEF Xadc, TypeOK

(* The pulse of GO_IDLE is never swallowed. *)
LEMMA SenseNextStep ==
  ASSUME RefillAssumption, Reconfigure = FALSE, TypeOK, SenseNext, Next PROVE SenseNext'
<1>0. PICK settled, moved, done, go \in BOOLEAN, taken \in {"none", "kernel", "server"} :
        Cycle(settled, moved, done, go, taken)
  BY NextCycle
<1>1. control'.av_dis = control.av_dis
  BY <1>0, SoftwareStep DEF Cycle, TypeOK
<1>2. Refill /\ Xadc(go)
  BY <1>0 DEF Cycle
<1>3. /\ control.av_dis => ~av_config_noise'
      /\ refill' \notin {"CONFIG", "WAIT_ON"} => ~av_config_noise'
      /\ refill = "GO_IDLE" => ~av_config_noise
  BY <1>2, NoiseChoice
<1>4. /\ reconfigure_r' <=> refill \in {"CONFIG", "GO_IDLE"}
      /\ xadc = "IDLE" =>
           /\ xadc' = IF av_reconfigure /\ ~reconfigure_r THEN "WAIT_UNBUSY" ELSE "IDLE"
           /\ noise_mode' = av_config_noise /\ adc_noise' = adc_noise
      /\ xadc # "IDLE" => noise_mode' = noise_mode
      /\ xadc = "LOAD_DRP" => adc_noise' = noise_mode
      /\ xadc # "LOAD_DRP" => adc_noise' = adc_noise
      /\ xadc = "WAIT_UNBUSY" => xadc' \in {"WAIT_UNBUSY", "LOAD_DRP"}
  BY <1>2, XadcMoves
<1>5. control'.av_dis => ~av_config_noise' /\ ~noise_mode' /\ ~adc_noise'
  BY <1>1, <1>3, <1>4 DEF SenseNext
<1>6. ASSUME refill' \in {"SELFTEST", "REFILL_KERNEL", "REFILL_SERVER", "GO_IDLE"}, ~control'.av_dis
      PROVE  xadc' = "IDLE" /\ ~reconfigure_r'
  <2>1. \/ refill \in {"SELFTEST", "REFILL_KERNEL", "REFILL_SERVER"}
        \/ refill = "WAIT_ON" /\ av_on
    BY <1>1, <1>2, <1>6, RefillMoves DEF TypeOK
  <2>2. xadc = "IDLE" /\ ~av_reconfigure
    BY <1>1, <1>6, <2>1 DEF SenseNext, av_on, av_configured, av_reconfigure
  <2> QED BY <1>4, <2>1, <2>2
<1>7. ASSUME refill' = "IDLE"
      PROVE  /\ adc_noise' => xadc' \in {"WAIT_UNBUSY", "LOAD_DRP"}
             /\ xadc' # "IDLE" => ~noise_mode'
  <2>1. CASE control.av_dis
    BY <1>1, <1>5, <2>1
  <2>2. CASE refill = "GO_IDLE" /\ ~control.av_dis
    <3>1. xadc' = "WAIT_UNBUSY" /\ noise_mode' = av_config_noise
      BY <1>4, <2>2 DEF SenseNext, av_reconfigure
    <3> QED BY <1>3, <2>2, <3>1
  <2>3. CASE refill = "IDLE"
    <3>1. ~av_reconfigure
      BY <2>3 DEF av_reconfigure
    <3>2. CASE xadc = "IDLE"
      BY <1>4, <2>3, <3>1, <3>2 DEF SenseNext
    <3>3. CASE xadc = "WAIT_UNBUSY"
      BY <1>4, <2>3, <3>3 DEF SenseNext
    <3>4. CASE xadc = "LOAD_DRP"
      BY <1>4, <2>3, <3>4 DEF SenseNext
    <3>5. CASE xadc \notin {"IDLE", "WAIT_UNBUSY", "LOAD_DRP"}
      BY <1>4, <2>3, <3>5 DEF SenseNext
    <3> QED BY <3>2, <3>3, <3>4, <3>5
  <2> QED BY <1>2, <1>7, <2>1, <2>2, <2>3, RefillMoves DEF TypeOK
<1> QED BY <1>3, <1>5, <1>6, <1>7 DEF SenseNext

-----------------------------------------------------------------------------
(* What holds whatever software does. *)
WordInv == TypeOK /\ Unused

(* Out of reset the generators are off and no word is on offer. *)
LEMMA InitRefillInv == ASSUME RefillAssumption PROVE Init => RefillInv
<1> SUFFICES ASSUME Init PROVE RefillInv
  OBVIOUS
<1> USE DEF Init
<1>1. TypeOK
  <2>1. 0 \in 0..Samples /\ 0 \in 0..Depth /\ 0 \in 0..RomSize-1
    BY DEF RefillAssumption
  <2>2. {powerup, av_config_noise, av_powerstate, av_noiseout_ready, av_pass, ro_on, ro_fresh,
         noise_mode, reconfigure_r, reading, av_used, ro_used, av_cold, adc_noise}
           \subseteq BOOLEAN
    BY Zenon
  <2> QED BY <2>1, <2>2 DEF TypeOK
<1>2. Unused /\ Powered /\ ColdRetired /\ SenseNext
  BY DEF Unused, Powered, ColdRetired, SenseNext
<1> QED BY <1>1, <1>2 DEF RefillInv

(* A cycle keeps the words unused that are on offer, whatever software does. *)
LEMMA WordInvStep == ASSUME RefillAssumption, WordInv, [Next]_vars PROVE WordInv'
<1>1. CASE Next
  BY <1>1, RefillTypeStep, UnusedStep DEF WordInv
<1>2. CASE UNCHANGED vars
  BY <1>2 DEF vars, powerVars, avnVars, xadcVars, WordInv, TypeOK, Unused
<1> QED BY <1>1, <1>2

(* A cycle keeps the whole invariant as long as software leaves the control word *)
(* alone while the machine runs.                                                 *)
LEMMA RefillInvStep ==
  ASSUME RefillAssumption, Reconfigure = FALSE, RefillInv, [Next]_vars PROVE RefillInv'
<1>1. TypeOK' /\ Unused'
  BY WordInvStep DEF RefillInv, WordInv
<1>2. CASE Next
  BY <1>1, <1>2, PoweredStep, ColdRetiredStep, SenseNextStep DEF RefillInv
<1>3. CASE UNCHANGED vars
  BY <1>1, <1>3 DEF vars, powerVars, avnVars, xadcVars, RefillInv, Powered, ColdRetired, SenseNext
<1> QED BY <1>2, <1>3

(* Whatever software writes to the control registers and whenever: no noise   *)
(* word, of either source, goes into the FIFOs twice.                         *)
THEOREM WordsUsedOnceCorrect == ASSUME RefillAssumption PROVE Spec => []WordsUsedOnce
<1>1. Init => WordInv
  BY InitRefillInv DEF RefillInv, WordInv
<1>2. WordInv /\ [Next]_vars => WordInv'
  BY WordInvStep
<1>3. WordInv => WordsUsedOnce
  BY DEF WordInv, Unused, WordsUsedOnce, wren, kernel_fifo_wren, server_fifo_wren, word_ready
<1> QED BY <1>1, <1>2, <1>3, PTL DEF Spec

(* Power, the cold word and the table of the XADC are as the refill left them, in    *)
(* every reachable state, as long as software does not change the sources meanwhile. *)
THEOREM RefillInvariance ==
  ASSUME RefillAssumption, Reconfigure = FALSE PROVE Spec => []RefillInv
<1>1. Init => RefillInv
  BY InitRefillInv
<1>2. RefillInv /\ [Next]_vars => RefillInv'
  BY RefillInvStep
<1> QED BY <1>1, <1>2, PTL DEF Spec

(* Unless software switches sources while the TRNG runs: every word that is   *)
(* written is new and holds no sample from before the generator was stable.   *)
THEOREM NoiseWordsSoundCorrect ==
  ASSUME RefillAssumption, Reconfigure = FALSE PROVE Spec => []NoiseWordsSound
<1>1. RefillInv => NoiseWordsSound
  <2> SUFFICES ASSUME RefillInv PROVE WordsUsedOnce /\ NoColdNoise
    BY DEF RefillInv, NoiseWordsSound
  <2> USE DEF wren, kernel_fifo_wren, server_fifo_wren, word_ready
  <2>1. WordsUsedOnce
    BY DEF RefillInv, Unused, WordsUsedOnce
  <2>2. NoColdNoise
    BY DEF RefillInv, Unused, ColdRetired, NoColdNoise
  <2> QED BY <2>1, <2>2
<1> QED BY <1>1, RefillInvariance, PTL

(* When a refill is over and the XADC is configured again, it samples what it *)
(* is for, not the noise.                                                     *)
THEOREM XadcBackToSenseCorrect ==
  ASSUME RefillAssumption, Reconfigure = FALSE PROVE Spec => []XadcBackToSense
<1>1. RefillInv => XadcBackToSense
  BY DEF RefillInv, SenseNext, XadcBackToSense, av_configured
<1> QED BY <1>1, RefillInvariance, PTL

-----------------------------------------------------------------------------
Off == ~phase0 /\ ~phase1

(* In a dead time the cycles it has lasted and those it still has to last  *)
(* make up the whole, but for the cycle in which the phase that it follows *)
(* goes low; a phase that is about to rise finds all of them behind it.    *)
Elapsed ==
  /\ state \in {"DEADTIME0", "DEADTIME1"} => \/ ~Off /\ counter = gap
                                             \/ Off /\ low + counter >= gap - 1
  /\ state = "PHASE0" => ~phase1 /\ (~phase0 => low >= gap)
  /\ state = "PHASE1" => ~phase0 /\ (~phase1 => low >= gap)

PhaseInv == NoiseTypeOK /\ Elapsed

(* The invariant holds at power-up, *)
LEMMA InitPhaseInv == ASSUME NoiseAssumption PROVE NoiseInit => PhaseInv
<1> SUFFICES ASSUME NoiseInit PROVE PhaseInv
  OBVIOUS
<1>1. NoiseTypeOK
  BY DEF NoiseInit, NoiseTypeOK, States
<1>2. Elapsed
  BY DEF NoiseInit, Elapsed
<1> QED BY <1>1, <1>2 DEF PhaseInv

(* and every cycle keeps it: the registers stay in their ranges, *)
LEMMA NoiseTypeStep == ASSUME NoiseAssumption, NoiseTypeOK, NoiseNext PROVE NoiseTypeOK'
<1>1. ena' \in BOOLEAN /\ period' \in Durations /\ deadtime' \in Durations
  BY DEF NoiseTypeOK, NoiseNext, Inputs
<1>2. period \in Nat /\ deadtime \in Nat /\ counter \in Nat /\ gap \in Nat
  BY DEF NoiseTypeOK, NoiseAssumption
<1>3. low' \in Nat
  BY DEF NoiseTypeOK, NoiseNext, Driver
<1>4. phase0' \in BOOLEAN /\ phase1' \in BOOLEAN
  BY Zenon DEF NoiseNext, Driver, Rest, Dead, Phase0, Phase1, Outputs
<1>5. state' \in States
  BY DEF NoiseTypeOK, States, NoiseNext, Driver, Rest, Dead, Phase0, Phase1
<1>6. counter' \in Nat /\ gap' \in Nat
  <2>1. \/ counter' = deadtime \/ counter' = period \/ counter' = counter
        \/ counter > 0 /\ counter' = counter - 1
    BY DEF NoiseNext, Driver, Rest, Dead, Phase0, Phase1
  <2>2. gap' = deadtime \/ gap' = gap
    BY DEF NoiseNext, Driver, Rest, Dead, Phase0, Phase1
  <2> QED BY <1>2, <2>1, <2>2
<1> QED BY <1>1, <1>3, <1>4, <1>5, <1>6 DEF NoiseTypeOK

(* What a cycle does to the count of low cycles. *)
LEMMA LowStep ==
  ASSUME NoiseTypeOK, Driver
  PROVE  /\ ~Off => low' = 0
         /\ Off => low' > gap \/ low' = low + 1
         /\ low' \in Nat
BY DEF NoiseTypeOK, Driver, Off

(* The arithmetic of it: n is the count of low cycles after the step, c what *)
(* the counter held before it and d what it holds afterwards, of a dead time *)
(* of g.                                                                     *)
LEMMA Full == \A n, c, g \in Nat : c = g => n + c >= g - 1
OBVIOUS

(* A counter that goes on by one, or starts over when the gap has run out, keeps up with it. *)
LEMMA CountUp ==
  \A l, n, c, g \in Nat :
     (n = 0 /\ c = g) \/ ((n > g \/ n = l + 1) /\ l + c >= g - 1) => n + c >= g
OBVIOUS

(* One cycle of the gap costs the sum of counter and gap one, and no more. *)
LEMMA CountDown ==
  \A n, c, d, g \in Nat : n + c >= g => /\ c > 0 /\ d = c - 1 => n + d >= g - 1
                                        /\ c = 0 => n >= g
OBVIOUS

(* and the dead time is counted down as it is waited out. *)
LEMMA ElapsedStep == ASSUME NoiseAssumption, PhaseInv, NoiseNext PROVE Elapsed'
<1> USE DEF PhaseInv
<1>1. NoiseTypeOK /\ NoiseTypeOK' /\ Driver
  BY NoiseTypeStep DEF NoiseNext
<1>2. deadtime \in Nat /\ period \in Nat
  BY DEF NoiseTypeOK, NoiseAssumption
<1>3. counter \in Nat /\ gap \in Nat /\ low \in Nat /\ counter' \in Nat /\ gap' \in Nat /\ low' \in Nat
  BY <1>1 DEF NoiseTypeOK
<1>4. /\ ~Off => low' = 0
      /\ Off => low' > gap \/ low' = low + 1
  BY <1>1, LowStep
<1>5. CASE Rest
  <2>1. ~phase0' /\ ~phase1' /\ Off'
    BY <1>5 DEF Rest, Outputs, Off
  <2>2. state' = "RESET" \/ (state' = "DEADTIME0" /\ counter' = gap')
    BY <1>5 DEF Rest, Elapsed
  <2>3. counter' = gap' => low' + counter' >= gap' - 1
    BY <1>3, Full, Zenon
  <2> QED BY <2>1, <2>2, <2>3, Zenon DEF Elapsed
<1>6. CASE Dead("DEADTIME0", "PHASE0")
  <2>1. ~phase0' /\ ~phase1' /\ gap' = gap /\ state = "DEADTIME0"
    BY <1>6 DEF Dead, Outputs
  <2>2. \/ counter > 0 /\ counter' = counter - 1 /\ state' = "DEADTIME0"
        \/ counter = 0 /\ state' = "PHASE0"
    BY <1>6 DEF Dead
  <2>3. (~Off /\ counter = gap) \/ (Off /\ low + counter >= gap - 1)
    BY <2>1, Zenon DEF Elapsed
  <2>4. low' + counter >= gap
    BY <1>3, <1>4, <2>3, CountUp, Zenon
  <2>5. CASE state' = "DEADTIME0"
    <3>1. counter > 0 /\ counter' = counter - 1 BY <2>2, <2>5
    <3>2. low' + counter' >= gap' - 1
      BY <1>3, <2>1, <2>4, <3>1, CountDown, Zenon
    <3> QED BY <2>1, <2>5, <3>2, Zenon DEF Elapsed, Off
  <2>6. CASE state' = "PHASE0"
    <3>1. counter = 0 BY <2>2, <2>6
    <3>2. low' >= gap'
      BY <1>3, <2>1, <2>4, <3>1, CountDown, Zenon
    <3> QED BY <2>1, <2>6, <3>2, Zenon DEF Elapsed
  <2> QED BY <2>2, <2>5, <2>6
<1>7. CASE Phase0
  <2>1. phase0' /\ ~phase1' /\ ~Off'
    BY <1>7 DEF Phase0, Outputs, Off
  <2>2. state' = "PHASE0" \/ (state' = "DEADTIME1" /\ counter' = gap')
    BY <1>7 DEF Phase0
  <2> QED BY <2>1, <2>2 DEF Elapsed
<1>8. CASE Dead("DEADTIME1", "PHASE1")
  <2>1. ~phase0' /\ ~phase1' /\ gap' = gap /\ state = "DEADTIME1"
    BY <1>8 DEF Dead, Outputs
  <2>2. \/ counter > 0 /\ counter' = counter - 1 /\ state' = "DEADTIME1"
        \/ counter = 0 /\ state' = "PHASE1"
    BY <1>8 DEF Dead
  <2>3. (~Off /\ counter = gap) \/ (Off /\ low + counter >= gap - 1)
    BY <2>1, Zenon DEF Elapsed
  <2>4. low' + counter >= gap
    BY <1>3, <1>4, <2>3, CountUp, Zenon
  <2>5. CASE state' = "DEADTIME1"
    <3>1. counter > 0 /\ counter' = counter - 1 BY <2>2, <2>5
    <3>2. low' + counter' >= gap' - 1
      BY <1>3, <2>1, <2>4, <3>1, CountDown, Zenon
    <3> QED BY <2>1, <2>5, <3>2, Zenon DEF Elapsed, Off
  <2>6. CASE state' = "PHASE1"
    <3>1. counter = 0 BY <2>2, <2>6
    <3>2. low' >= gap'
      BY <1>3, <2>1, <2>4, <3>1, CountDown, Zenon
    <3> QED BY <2>1, <2>6, <3>2, Zenon DEF Elapsed
  <2> QED BY <2>2, <2>5, <2>6
<1>9. CASE Phase1
  <2>1. phase1' /\ ~phase0' /\ ~Off'
    BY <1>9 DEF Phase1, Outputs, Off
  <2>2. state' = "PHASE1" \/ (state' = "DEADTIME0" /\ counter' = gap') \/ state' = "RESET"
    BY <1>9 DEF Phase1
  <2> QED BY <2>1, <2>2 DEF Elapsed
<1> QED BY <1>1, <1>5, <1>6, <1>7, <1>8, <1>9 DEF Driver

(* What the invariant is for: a phase rises only after its dead time. *)
LEMMA RiseStep ==
  ASSUME PhaseInv, NoiseNext, (phase0' /\ ~phase0) \/ (phase1' /\ ~phase1)
  PROVE  low' > gap
<1>1. NoiseTypeOK /\ Driver /\ counter \in Nat /\ gap \in Nat /\ low \in Nat
  BY DEF PhaseInv, NoiseTypeOK, NoiseNext
<1>2. Off => low' > gap \/ low' = low + 1
  BY <1>1, LowStep
<1>3. CASE state = "PHASE0"
  <2>1. Phase0 BY <1>1, <1>3 DEF Driver, Rest, Dead, Phase0, Phase1
  <2>2. Off /\ low >= gap BY <1>3, <2>1 DEF PhaseInv, Elapsed, Phase0, Outputs, Off
  <2> QED BY <1>1, <1>2, <2>2
<1>4. CASE state = "PHASE1"
  <2>1. Phase1 BY <1>1, <1>4 DEF Driver, Rest, Dead, Phase0, Phase1
  <2>2. Off /\ low >= gap BY <1>4, <2>1 DEF PhaseInv, Elapsed, Phase1, Outputs, Off
  <2> QED BY <1>1, <1>2, <2>2
<1>5. CASE state \notin {"PHASE0", "PHASE1"}
  BY <1>1, <1>5 DEF Driver, Rest, Dead, Phase0, Phase1, Outputs
<1> QED BY <1>3, <1>4, <1>5

(* Both parts of the invariant together. *)
LEMMA PhaseInvStep == ASSUME NoiseAssumption, PhaseInv, [NoiseNext]_noiseVars PROVE PhaseInv'
<1>1. CASE NoiseNext BY <1>1, NoiseTypeStep, ElapsedStep DEF PhaseInv
<1>2. CASE UNCHANGED noiseVars
  BY <1>2 DEF noiseVars, driver, collector, PhaseInv, NoiseTypeOK, Elapsed, Off
<1> QED BY <1>1, <1>2

(* "Generates non-overlapping clocks" (trng_managed.py:1982): between two    *)
(* phases lies the dead time that was in force when the first one ended, for *)
(* every word length and for every period and dead time software can write.  *)
THEOREM DeadTimeCorrect == ASSUME NoiseAssumption PROVE NoiseSpec => DeadTimeKept
<1>1. NoiseInit => PhaseInv BY InitPhaseInv
<1>2. PhaseInv /\ [NoiseNext]_noiseVars => PhaseInv' BY PhaseInvStep
<1>3. PhaseInv /\ [NoiseNext]_noiseVars => [(phase0' /\ ~phase0) \/ (phase1' /\ ~phase1) => low' > gap]_noiseVars
  BY RiseStep
<1> QED BY <1>1, <1>2, <1>3, PTL DEF NoiseSpec, DeadTimeKept

-----------------------------------------------------------------------------
(* The bits collected since the last word are the newest ones, and they are   *)
(* not bits of that word.                                                     *)
Collected ==
  /\ rand \in Seq(BOOLEAN) /\ Len(rand) <= Bits
  /\ rand_cnt \in 0..Bits+1
  /\ \A k \in 1..Len(rand) : k > Len(rand) - rand_cnt => ~rand[k]

CollectInv == Collected /\ WordsDisjoint

(* A shift pushes the oldest bit out and a new one in. *)
LEMMA ShiftStep == ASSUME NoiseAssumption, Collected, Shift PROVE Collected'
<1>1. /\ rand \in Seq(BOOLEAN) /\ Len(rand) \in Nat /\ Len(rand) <= Bits
      /\ Bits \in Nat \ {0} /\ rand_cnt \in 0..Bits+1
  BY DEF Collected, NoiseAssumption
<1>2. rand_cnt' = rand_cnt + 1 /\ rand_cnt' \in 0..Bits+1
  BY <1>1 DEF Shift
<1>3. CASE Len(rand) < Bits
  <2>1. rand' = Append(rand, FALSE)
    BY <1>3 DEF Shift
  <2>2. /\ rand' \in Seq(BOOLEAN) /\ Len(rand') = Len(rand) + 1
        /\ \A k \in 1..Len(rand) : rand'[k] = rand[k]
        /\ rand'[Len(rand) + 1] = FALSE
    BY <1>1, <2>1
  <2>3. ASSUME NEW k \in 1..Len(rand'), k > Len(rand') - rand_cnt' PROVE ~rand'[k]
    <3>1. CASE k = Len(rand) + 1
      BY <2>2, <3>1
    <3>2. CASE k # Len(rand) + 1
      <4>1. k \in 1..Len(rand) /\ k > Len(rand) - rand_cnt
        BY <1>1, <1>2, <2>2, <2>3, <3>2
      <4> QED BY <2>2, <4>1 DEF Collected
    <3> QED BY <3>1, <3>2
  <2> QED BY <1>1, <1>2, <1>3, <2>2, <2>3 DEF Collected
<1>4. CASE Len(rand) = Bits
  <2>1. rand' = Append(Tail(rand), FALSE) /\ Len(rand) >= 1
    <3>1. ~(Len(rand) < Bits) /\ Len(rand) >= 1
      BY <1>1, <1>4
    <3> QED BY <3>1 DEF Shift
  <2> DEFINE t == Tail(rand)
  <2>2. /\ t \in Seq(BOOLEAN) /\ Len(t) = Len(rand) - 1
        /\ \A k \in 1..Len(rand)-1 : t[k] = rand[k + 1]
    <3>1. rand # <<>>
      BY <1>1, <2>1
    <3> QED BY <1>1, <3>1
  <2>3. /\ rand' \in Seq(BOOLEAN) /\ Len(rand') = Len(rand)
        /\ \A k \in 1..Len(rand)-1 : rand'[k] = rand[k + 1]
        /\ rand'[Len(rand)] = FALSE
    <3>1. rand' = Append(t, FALSE)
      BY <2>1
    <3> HIDE DEF t
    <3>2. /\ rand' \in Seq(BOOLEAN) /\ Len(rand') = Len(t) + 1
          /\ \A k \in 1..Len(t) : rand'[k] = t[k]
          /\ rand'[Len(t) + 1] = FALSE
      <4>1. t \in Seq(BOOLEAN) /\ Len(t) \in Nat
        BY <2>2
      <4> QED BY <3>1, <4>1
    <3> QED BY <1>1, <2>2, <3>2
  <2>4. ASSUME NEW k \in 1..Len(rand'), k > Len(rand') - rand_cnt' PROVE ~rand'[k]
    <3>1. CASE k = Len(rand)
      BY <2>3, <3>1
    <3>2. CASE k # Len(rand)
      <4>1. k + 1 \in 1..Len(rand) /\ k + 1 > Len(rand) - rand_cnt /\ k \in 1..Len(rand)-1
        BY <1>1, <1>2, <2>3, <2>4, <3>2
      <4> QED BY <2>3, <4>1 DEF Collected
    <3> QED BY <3>1, <3>2
  <2> QED BY <1>1, <1>2, <2>3, <2>4 DEF Collected
<1> QED BY <1>1, <1>3, <1>4

(* By the time a word is shown all its bits are new; showing it makes them old. *)
LEMMA PublishStep ==
  ASSUME NoiseAssumption, Collected, Publish PROVE Collected' /\ WordsDisjoint'
<1>1. /\ rand \in Seq(BOOLEAN) /\ Len(rand) \in Nat /\ Len(rand) <= Bits
      /\ Bits \in Nat /\ rand_cnt = Bits + 1 /\ DOMAIN rand = 1..Len(rand)
  BY DEF Collected, NoiseAssumption, Publish
<1>2. word' = rand /\ rand_cnt' = 0 /\ rand' = [k \in 1..Len(rand) |-> TRUE]
  BY <1>1 DEF Publish
<1>3. \A k \in 1..Len(rand) : ~rand[k]
  BY <1>1 DEF Collected
<1>4. WordsDisjoint'
  BY <1>1, <1>2, <1>3 DEF WordsDisjoint
<1>5. rand' \in Seq(BOOLEAN) /\ Len(rand') = Len(rand)
  BY <1>1, <1>2
<1>6. \A k \in 1..Len(rand') : ~(k > Len(rand') - rand_cnt')
  BY <1>1, <1>2, <1>5
<1> QED BY <1>1, <1>2, <1>4, <1>5, <1>6 DEF Collected

(* A cycle of the generator keeps what has been collected where it belongs. *)
LEMMA CollectStep == ASSUME NoiseAssumption, CollectInv, [NoiseNext]_noiseVars PROVE CollectInv'
<1>1. CASE Shift
  BY <1>1, ShiftStep DEF CollectInv, WordsDisjoint, Shift
<1>2. CASE Publish
  BY <1>2, PublishStep DEF CollectInv
<1>3. CASE Clear
  <2>1. word' = <<>> /\ rand' = rand /\ rand_cnt' = rand_cnt
    BY <1>3 DEF Clear
  <2> QED BY <2>1 DEF CollectInv, Collected, WordsDisjoint
<1>4. CASE UNCHANGED collector
  BY <1>4 DEF collector, CollectInv, Collected, WordsDisjoint
<1> QED BY <1>1, <1>2, <1>3, <1>4 DEF NoiseNext, Collector, noiseVars

(* No sample is a bit of two words, however long a word is, whenever it is    *)
(* read and whenever the generator is switched off in the middle of one.      *)
THEOREM WordsDisjointCorrect == ASSUME NoiseAssumption PROVE NoiseSpec => []WordsDisjoint
<1>1. NoiseInit => CollectInv
  <2> SUFFICES ASSUME NoiseInit PROVE CollectInv
    OBVIOUS
  <2>1. rand = <<>> /\ word = <<>> /\ rand_cnt = 0 /\ Bits \in Nat
    BY DEF NoiseInit, NoiseAssumption
  <2> QED BY <2>1 DEF CollectInv, Collected, WordsDisjoint
<1>2. CollectInv /\ [NoiseNext]_noiseVars => CollectInv'
  BY CollectStep
<1>3. CollectInv => WordsDisjoint
  BY DEF CollectInv
<1> QED BY <1>1, <1>2, <1>3, PTL DEF NoiseSpec

-----------------------------------------------------------------------------
(* The health tests.  A sequence that has grown by a sample. *)
Grown(s, v, t) == /\ t \in Seq(Nat) /\ Len(t) = Len(s) + 1 /\ t[Len(s) + 1] = v
                  /\ \A j \in 1..Len(s) : t[j] = s[j]
Sample == Nat \union {NoSample}

(* What a sequence of samples is after a cycle. *)
LEMMA TakenMoves ==
  ASSUME NEW s \in Seq(Nat), NEW v \in Sample
  PROVE  /\ v = NoSample => s \o Taken(v) = s /\ Taken(v) = <<>>
         /\ v # NoSample => Grown(s, v, s \o Taken(v)) /\ Grown(<<>>, v, Taken(v))
<1>1. CASE v = NoSample
  BY <1>1 DEF Taken
<1>2. CASE v # NoSample
  <2>1. v \in Nat /\ Taken(v) = <<v>> /\ <<v>> \in Seq(Nat) /\ Len(<<v>>) = 1 /\ <<v>>[1] = v
    BY <1>2 DEF Taken, Sample
  <2>2. <<>> \in Seq(Nat) /\ Len(<<>>) = 0
    OBVIOUS
  <2>3. s \o <<v>> \in Seq(Nat) /\ Len(s \o <<v>>) = Len(s) + 1 /\ (s \o <<v>>)[Len(s) + 1] = v
        /\ \A j \in 1..Len(s) : (s \o <<v>>)[j] = s[j]
    BY <2>1
  <2> QED BY <1>2, <2>1, <2>2, <2>3 DEF Grown
<1> QED BY <1>1, <1>2

(* The repetition count: the last b + 1 samples are equal, and no more unless *)
(* the counter is full; failure is a cycle behind.                            *)
RepRegs == [state : {"START", "ITERATE"}, a : Nat, b : 0..rep_max, top : Nat, failure : BOOLEAN]

Repeated(s) == \E i \in 1 .. Len(s) - rep_cutoff : \A j \in i .. i + rep_cutoff : s[j] = s[i]

(* Which is the documented test with a cutoff one larger. *)
LEMMA RepeatedTest ==
  ASSUME HealthAssumption, NEW s \in Seq(Nat) PROVE RepetitionTest(s, rep_cutoff + 1) <=> Repeated(s)
<1>1. rep_cutoff \in Nat /\ Len(s) \in Nat
  BY DEF HealthAssumption
<1>2. Len(s) - (rep_cutoff + 1) + 1 = Len(s) - rep_cutoff
      /\ \A i \in 1..Len(s) - rep_cutoff : i + (rep_cutoff + 1) - 1 = i + rep_cutoff
  BY <1>1
<1> QED BY <1>2, Zenon DEF RepetitionTest, Repeated

RepKept(r, seen, due) ==
  /\ r \in RepRegs /\ seen \in Seq(Nat) /\ due \in Seq(Nat)
  /\ r.state = "START" => seen = <<>> /\ due = <<>>
  /\ r.state = "ITERATE" => /\ r.b + 1 <= Len(seen)
                            /\ \A j \in Len(seen) - r.b..Len(seen) : seen[j] = r.a
                            /\ r.b < rep_max /\ r.b + 1 < Len(seen) => seen[Len(seen) - r.b - 1] # r.a
  /\ Repeated(seen) <=> Repeated(due) \/ (r.state = "ITERATE" /\ r.b >= rep_cutoff)
  /\ r.failure <=> Repeated(due)

(* Nothing is repeated in fewer samples than that. *)
LEMMA NoneRepeated == ASSUME HealthAssumption, NEW s \in Seq(Nat), Len(s) <= rep_cutoff PROVE ~Repeated(s)
<1>1. Len(s) \in Nat /\ rep_cutoff \in Nat /\ rep_cutoff >= 1
  BY DEF HealthAssumption
<1> QED BY <1>1 DEF Repeated

(* A sample adds a repetition when it is equal to as many as the cutoff. *)
LEMMA RepeatedMoves ==
  ASSUME HealthAssumption, NEW s \in Seq(Nat), NEW v \in Nat, NEW t, Grown(s, v, t)
  PROVE  Repeated(t) <=> \/ Repeated(s)
                         \/ Len(s) >= rep_cutoff /\ \A j \in Len(s) + 1 - rep_cutoff..Len(s) : s[j] = v
<1> DEFINE n == Len(s)
<1>1. n \in Nat /\ Len(t) = n + 1 /\ rep_cutoff \in Nat /\ rep_cutoff >= 1 /\ t[n + 1] = v
      /\ \A j \in 1..n : t[j] = s[j]
  BY DEF HealthAssumption, Grown
<1>2. Repeated(s) <=> \E i \in 1..n - rep_cutoff : \A j \in i..i + rep_cutoff : s[j] = s[i]
  BY DEF Repeated
<1>3. Repeated(t) <=> \E i \in 1..n + 1 - rep_cutoff : \A j \in i..i + rep_cutoff : t[j] = t[i]
  BY <1>1 DEF Repeated
<1> HIDE DEF n
<1>4. ASSUME NEW i \in 1..n - rep_cutoff
      PROVE  (\A j \in i..i + rep_cutoff : t[j] = t[i]) <=> (\A j \in i..i + rep_cutoff : s[j] = s[i])
  <2>1. i \in 1..n /\ \A j \in i..i + rep_cutoff : j \in 1..n
    BY <1>1
  <2> QED BY <1>1, <2>1
<1>5. ASSUME n >= rep_cutoff
      PROVE  (\A j \in n + 1 - rep_cutoff..n + 1 : t[j] = t[n + 1 - rep_cutoff])
               <=> (\A j \in n + 1 - rep_cutoff..n : s[j] = v)
  <2>1. \A j \in n + 1 - rep_cutoff..n : j \in 1..n
    BY <1>1, <1>5
  <2>2. n + 1 - rep_cutoff \in n + 1 - rep_cutoff..n /\ n + 1 \in n + 1 - rep_cutoff..n + 1
        /\ (\A j \in n + 1 - rep_cutoff..n + 1 : j \in n + 1 - rep_cutoff..n \/ j = n + 1)
        /\ (\A j \in n + 1 - rep_cutoff..n : j \in n + 1 - rep_cutoff..n + 1)
    BY <1>1, <1>5
  <2>3. ASSUME \A j \in n + 1 - rep_cutoff..n + 1 : t[j] = t[n + 1 - rep_cutoff], NEW k \in n + 1 - rep_cutoff..n
        PROVE  s[k] = v
    BY <1>1, <2>1, <2>2, <2>3
  <2>4. ASSUME \A j \in n + 1 - rep_cutoff..n : s[j] = v, NEW k \in n + 1 - rep_cutoff..n + 1
        PROVE  t[k] = t[n + 1 - rep_cutoff]
    BY <1>1, <2>1, <2>2, <2>4
  <2> QED BY <2>3, <2>4
<1>6. ASSUME Repeated(t) PROVE Repeated(s) \/ (n >= rep_cutoff /\ \A j \in n + 1 - rep_cutoff..n : s[j] = v)
  <2>1. PICK i \in 1..n + 1 - rep_cutoff : \A j \in i..i + rep_cutoff : t[j] = t[i]
    BY <1>3, <1>6
  <2>2. CASE i \in 1..n - rep_cutoff
    BY <1>2, <1>4, <2>1, <2>2
  <2>3. CASE i \notin 1..n - rep_cutoff
    <3>1. i = n + 1 - rep_cutoff /\ i + rep_cutoff = n + 1 /\ n >= rep_cutoff
      BY <1>1, <2>1, <2>3
    <3> QED BY <1>5, <2>1, <3>1
  <2> QED BY <2>2, <2>3
<1>7. ASSUME Repeated(s) PROVE Repeated(t)
  <2>1. PICK i \in 1..n - rep_cutoff : \A j \in i..i + rep_cutoff : s[j] = s[i]
    BY <1>2, <1>7
  <2>2. i \in 1..n + 1 - rep_cutoff
    BY <1>1
  <2> QED BY <1>3, <1>4, <2>1, <2>2
<1>8. ASSUME n >= rep_cutoff, \A j \in n + 1 - rep_cutoff..n : s[j] = v PROVE Repeated(t)
  <2>1. n + 1 - rep_cutoff \in 1..n + 1 - rep_cutoff /\ n + 1 - rep_cutoff + rep_cutoff = n + 1
    BY <1>1, <1>8
  <2> QED BY <1>3, <1>5, <1>8, <2>1
<1> QED BY <1>6, <1>7, <1>8 DEF n

(* A cycle of the test keeps what it knows of its samples. *)
LEMMA RepStep ==
  ASSUME HealthAssumption, NEW r, NEW seen, NEW due, RepKept(r, seen, due), NEW v \in Sample, NEW clear \in BOOLEAN,
         NEW new, new = IF r.state = "START" THEN Taken(v) ELSE IF clear THEN <<>> ELSE seen \o Taken(v)
  PROVE  RepKept(RepCountTest(r, v, clear), new, IF clear THEN <<>> ELSE seen)
<1>1. /\ r \in RepRegs /\ seen \in Seq(Nat) /\ due \in Seq(Nat) /\ <<>> \in Seq(Nat) /\ Len(seen) \in Nat
      /\ rep_cutoff \in Nat /\ rep_cutoff >= 1 /\ rep_max \in Nat /\ rep_cutoff <= rep_max
  BY DEF RepKept, HealthAssumption
<1>2. ~Repeated(<<>>) /\ 0 \in 0..rep_max
  <2>1. PICK e \in Seq(Nat) : e = <<>> /\ Len(e) = 0
    <3>1. Len(<<>>) = 0
      OBVIOUS
    <3>2. <<>> \in Seq(Nat)
      OBVIOUS
    <3> QED BY <3>1, <3>2, Zenon
  <2>2. Len(e) <= rep_cutoff
    BY <1>1, <2>1
  <2>3. ~Repeated(e)
    BY <2>2, NoneRepeated
  <2> QED BY <1>1, <2>1, <2>3
<1> DEFINE top == IF clear THEN 0 ELSE IF r.top < r.b THEN r.b ELSE r.top
           to == RepCountTest(r, v, clear)
<1>3. top \in Nat
  BY <1>1 DEF RepRegs
<1> HIDE DEF top
<1>4. CASE r.state = "START"
  <2>1. new = Taken(v) /\ (IF clear THEN <<>> ELSE seen) = <<>>
    BY <1>4 DEF RepKept
  <2>2. to = [RepStart(r, v) EXCEPT !.top = top]
    BY <1>4 DEF RepCountTest, top
  <2>3. CASE v = NoSample
    <3>1. to = [[r EXCEPT !.failure = FALSE] EXCEPT !.top = top]
      BY <2>2, <2>3 DEF RepStart
    <3>2. to \in RepRegs /\ to.state = "START" /\ to.failure = FALSE
      BY <1>1, <1>3, <1>4, <3>1 DEF RepRegs
    <3>3. new = <<>>
      BY <1>1, <2>1, <2>3, TakenMoves
    <3> HIDE DEF to
    <3>4. RepKept(to, <<>>, <<>>)
      BY <1>1, <1>2, <3>2 DEF RepKept
    <3> QED BY <2>1, <3>3, <3>4 DEF to
  <2>4. CASE v # NoSample
    <3>1. to = [[r EXCEPT !.state = "ITERATE", !.failure = FALSE, !.a = v, !.b = 0] EXCEPT !.top = top] /\ v \in Nat
      BY <2>2, <2>4 DEF RepStart, Sample
    <3>2. to \in RepRegs /\ to.state = "ITERATE" /\ to.failure = FALSE /\ to.a = v /\ to.b = 0
      BY <1>1, <1>2, <1>3, <3>1 DEF RepRegs
    <3>3. new \in Seq(Nat) /\ Len(new) = 1 /\ new[1] = v
      BY <1>1, <2>1, <2>4, TakenMoves DEF Grown
    <3>4. ~Repeated(new)
      BY <1>1, <3>3, NoneRepeated
    <3> HIDE DEF to
    <3>5. RepKept(to, new, <<>>)
      BY <1>1, <1>2, <3>2, <3>3, <3>4 DEF RepKept
    <3> QED BY <2>1, <3>5 DEF to
  <2> QED BY <2>3, <2>4
<1>5. CASE r.state # "START" /\ clear
  <2>1. to = [[r EXCEPT !.state = "START", !.failure = FALSE] EXCEPT !.top = top] /\ new = <<>>
    BY <1>5 DEF RepCountTest, top
  <2>2. to \in RepRegs /\ to.state = "START" /\ to.failure = FALSE
    BY <1>1, <1>3, <2>1 DEF RepRegs
  <2> HIDE DEF to
  <2>3. RepKept(to, <<>>, <<>>)
    BY <1>1, <1>2, <2>2 DEF RepKept
  <2> QED BY <1>5, <2>1, <2>3 DEF to
<1>6. CASE r.state # "START" /\ ~clear
  <2>1. r.state = "ITERATE" /\ to = [RepIterate(r, v) EXCEPT !.top = top] /\ new = seen \o Taken(v)
        /\ (IF clear THEN <<>> ELSE seen) = seen
    BY <1>1, <1>6 DEF RepCountTest, top, RepRegs
  <2> DEFINE n == Len(seen)
             b == r.b
             fails == r.failure \/ r.b >= rep_cutoff
  <2>2. /\ b \in 0..rep_max /\ n \in Nat /\ b + 1 <= n /\ r.a \in Nat
        /\ \A j \in n - b..n : seen[j] = r.a
        /\ b < rep_max /\ b + 1 < n => seen[n - b - 1] # r.a
        /\ Repeated(seen) <=> Repeated(due) \/ b >= rep_cutoff
        /\ r.failure <=> Repeated(due)
    BY <1>1, <2>1 DEF RepKept, RepRegs
  <2>3. (fails <=> Repeated(seen)) /\ fails \in BOOLEAN
    BY <2>2
  <2>7. n = Len(seen) /\ b = r.b
    OBVIOUS
  <2> HIDE DEF fails, n, b
  <2>4. CASE v = NoSample
    <3>1. to = [[r EXCEPT !.failure = fails] EXCEPT !.top = top] /\ new = seen
      BY <1>1, <2>1, <2>4, TakenMoves DEF RepIterate, fails, b
    <3>2. to \in RepRegs /\ to.state = "ITERATE" /\ to.failure = fails /\ to.a = r.a /\ to.b = b
      BY <1>1, <1>3, <2>1, <2>3, <2>7, <3>1 DEF RepRegs
    <3> HIDE DEF to
    <3>3. RepKept(to, seen, seen)
      BY <1>1, <2>2, <2>3, <2>7, <3>2 DEF RepKept
    <3> QED BY <2>1, <3>1, <3>3 DEF to
  <2>5. CASE v # NoSample /\ v # r.a
    <3>1. to = [[[r EXCEPT !.failure = fails] EXCEPT !.a = v, !.b = 0] EXCEPT !.top = top] /\ v \in Nat
      BY <1>1, <2>1, <2>5 DEF RepIterate, fails, b, Sample
    <3>2. to \in RepRegs /\ to.state = "ITERATE" /\ to.failure = fails /\ to.a = v /\ to.b = 0
      BY <1>1, <1>2, <1>3, <2>1, <2>3, <3>1 DEF RepRegs
    <3>3. Grown(seen, v, new)
      BY <1>1, <2>1, <2>5, TakenMoves
    <3>4. /\ new \in Seq(Nat) /\ Len(new) = n + 1 /\ new[n + 1] = v
          /\ new[n] = r.a
      <4>1. n \in 1..n /\ n \in n - b..n
        BY <2>2
      <4>2. new \in Seq(Nat) /\ Len(new) = n + 1 /\ new[n + 1] = v /\ \A j \in 1..n : new[j] = seen[j]
        BY <2>7, <3>3 DEF Grown
      <4> QED BY <2>2, <4>1, <4>2
    <3>5. Repeated(new) <=> Repeated(seen)
      <4>1. seen[n] # v
        <5>1. n \in n - b..n
          BY <2>2
        <5> QED BY <2>2, <2>5, <5>1
      <4>2. rep_cutoff <= n => n \in n + 1 - rep_cutoff..n
        BY <1>1, <2>2
      <4> QED BY <1>1, <3>1, <3>3, <4>1, <4>2, RepeatedMoves, <2>7
    <3> HIDE DEF to
    <3>6. RepKept(to, new, seen)
      <4>1. Repeated(new) <=> Repeated(seen) \/ 0 >= rep_cutoff
        BY <1>1, <3>5
      <4>2. 0 + 1 <= Len(new) /\ (0 + 1 < Len(new) => Len(new) - 0 - 1 = n) /\ Len(new) - 0 = Len(new)
            /\ \A j \in Len(new)..Len(new) : j = n + 1
        BY <2>2, <3>4
      <4> QED BY <1>1, <2>3, <2>5, <3>2, <3>4, <4>1, <4>2 DEF RepKept
    <3> QED BY <2>1, <3>6 DEF to
  <2>6. CASE v # NoSample /\ v = r.a
    <3> DEFINE more == IF b + 1 <= rep_max THEN b + 1 ELSE b
    <3>1. to = [[[r EXCEPT !.failure = fails] EXCEPT !.b = more] EXCEPT !.top = top] /\ v \in Nat
      BY <1>1, <2>1, <2>6 DEF RepIterate, fails, b, Sample, RepRegs
    <3>2. more \in 0..rep_max
      BY <1>1, <2>2
    <3>3. to \in RepRegs /\ to.state = "ITERATE" /\ to.failure = fails /\ to.a = v /\ to.b = more
      BY <1>1, <1>3, <2>1, <2>3, <2>6, <3>1, <3>2 DEF RepRegs
    <3>4. Grown(seen, v, new)
      BY <1>1, <2>1, <2>6, TakenMoves
    <3>5. /\ new \in Seq(Nat) /\ Len(new) = n + 1 /\ new[n + 1] = v
          /\ \A j \in 1..n : new[j] = seen[j]
      BY <2>7, <3>4 DEF Grown
    <3>6. /\ more + 1 <= Len(new)
          /\ \A j \in Len(new) - more..Len(new) : new[j] = v
          /\ more < rep_max /\ more + 1 < Len(new) => new[Len(new) - more - 1] # v
      <4>1. more + 1 <= Len(new) /\ (more = b + 1 \/ (more = b /\ more = rep_max))
        BY <1>1, <2>2, <3>5
      <4> HIDE DEF more
      <4>2. ASSUME NEW j \in Len(new) - more..Len(new) PROVE new[j] = v
        <5>1. CASE j = Len(new)
          BY <3>5, <5>1
        <5>2. CASE j # Len(new)
          <6>1. Len(new) = n + 1 /\ b \in Nat
            BY <1>1, <2>2, <3>5
          <6>2. j \in n + 1 - more..n + 1 /\ j # n + 1
            BY <1>1, <2>2, <3>2, <4>2, <5>2, <6>1
          <6>3. j \in n - b..n /\ j \in 1..n
            BY <1>1, <2>2, <4>1, <6>1, <6>2
          <6> QED BY <2>2, <2>6, <3>5, <6>3
        <5> QED BY <5>1, <5>2
      <4>3. ASSUME more < rep_max, more + 1 < Len(new) PROVE new[Len(new) - more - 1] # v
        <5>1. Len(new) - more - 1 = n - b - 1 /\ b < rep_max /\ b + 1 < n
              /\ n - b - 1 \in 1..n
          <6>1. Len(new) = n + 1 /\ b \in Nat /\ rep_max \in Nat
            BY <1>1, <2>2, <3>5
          <6>2. more = b + 1
            BY <4>1, <4>3, <6>1
          <6> QED BY <2>2, <4>3, <6>1, <6>2
        <5> QED BY <2>2, <2>6, <3>5, <5>1
      <4> QED BY <4>1, <4>2, <4>3
    <3>7. Repeated(new) <=> Repeated(seen) \/ more >= rep_cutoff
      <4>1. CASE more >= rep_cutoff
        <5>1. n >= rep_cutoff /\ \A j \in n + 1 - rep_cutoff..n : j \in n - b..n
          BY <1>1, <2>2, <4>1
        <5> QED BY <1>1, <2>2, <2>6, <3>1, <3>4, <4>1, <5>1, RepeatedMoves, <2>7
      <4>2. CASE ~(more >= rep_cutoff)
        <5>1. more = b + 1 /\ b + 1 < rep_cutoff /\ b < rep_max
          BY <1>1, <2>2, <4>2
        <5>2. ASSUME n >= rep_cutoff
              PROVE  seen[n - b - 1] # v /\ n - b - 1 \in n + 1 - rep_cutoff..n
          BY <1>1, <2>2, <2>6, <5>1, <5>2
        <5> QED BY <1>1, <3>1, <3>4, <4>2, <5>2, RepeatedMoves, <2>7
      <4> QED BY <4>1, <4>2
    <3> HIDE DEF to, more
    <3>8. RepKept(to, new, seen)
      BY <1>1, <2>3, <2>6, <3>3, <3>5, <3>6, <3>7 DEF RepKept
    <3> QED BY <2>1, <3>8 DEF to
  <2> QED BY <2>4, <2>5, <2>6
<1> QED BY <1>4, <1>5, <1>6

(* A number without a remainder is a multiple. *)
LEMMA Multiple ==
  ASSUME NEW m \in Nat \ {0}, NEW x \in Nat
  PROVE  x % m = 0 <=> \E q \in Nat : x = q * m
<1>1. ASSUME NEW q \in Nat, NEW o \in Int, q = x \div m, o = x % m PROVE x = q * m + o
  BY <1>1
<1>2. x \div m \in Nat /\ x % m \in Int
  OBVIOUS
<1>3. ASSUME x % m = 0 PROVE \E q \in Nat : x = q * m
  <2>1. PICK q \in Nat : q = x \div m
    BY <1>2
  <2>2. PICK o \in Int : o = x % m
    BY <1>2
  <2>3. x = q * m + o /\ o = 0 /\ q * m \in Int
    BY <1>1, <1>3, <2>1, <2>2
  <2>4. x = q * m
    BY <2>3
  <2> QED BY <2>4
<1>4. ASSUME NEW q \in Nat PROVE (q * m) % m = 0
  OBVIOUS
<1> QED BY <1>3, <1>4

(* The windows of the proportion test begin where the count of the samples is *)
(* a multiple of their length, and nowhere in between.                        *)
LEMMA WindowStarts ==
  ASSUME NEW m \in Nat \ {0}, NEW x \in Nat, x % m = 0
  PROVE  /\ (x + m) % m = 0
         /\ \A y \in Nat : x < y /\ y < x + m => y % m # 0
<1>1. PICK q \in Nat : x = q * m
  BY Multiple
<1>2. q + 1 \in Nat /\ (q + 1) * m = x + m /\ x + m \in Nat
  BY <1>1
<1>3. (x + m) % m = 0
  BY <1>2, Multiple
<1>4. ASSUME NEW y \in Nat, x < y, y < x + m, y % m = 0 PROVE FALSE
  <2>1. PICK p \in Nat : y = p * m
    BY <1>4, Multiple
  <2>2. ASSUME p <= q PROVE p * m <= q * m
    BY <2>2
  <2>3. ASSUME p >= q + 1 PROVE p * m >= (q + 1) * m
    BY <2>3
  <2>4. p <= q \/ p >= q + 1
    OBVIOUS
  <2> QED BY <1>1, <1>2, <1>4, <2>1, <2>2, <2>3, <2>4
<1> QED BY <1>3, <1>4

(* A window of the proportion test that starts at i: the samples that are     *)
(* equal to its first one, it and the window's last sample not counted.       *)
Matches(s, i) == {j \in i + 1 .. i + window_max - 2 : j <= Len(s) /\ s[j] = s[i]}
Disproportionate(s) == \E i \in 1 .. Len(s) : /\ (i - 1) % window_max = 0
                                             /\ Cardinality(Matches(s, i)) >= adp_cutoff

(* What a sample adds to the matches of an earlier one. *)
LEMMA MatchesMoves ==
  ASSUME HealthAssumption, NEW s \in Seq(Nat), NEW v \in Nat, NEW t, Grown(s, v, t), NEW i \in 1..Len(s)
  PROVE  /\ Cardinality(Matches(s, i)) \in Nat
         /\ Cardinality(Matches(t, i)) = Cardinality(Matches(s, i))
              + (IF Len(s) + 1 <= i + window_max - 2 /\ v = s[i] THEN 1 ELSE 0)
         /\ Cardinality(Matches(t, Len(s) + 1)) = 0
<1> DEFINE n == Len(s)
           last == i + window_max - 2
<1>1. /\ n \in Nat /\ i \in 1..n /\ window_max \in Nat /\ last \in Int
      /\ Len(t) = n + 1 /\ t[n + 1] = v /\ (\A j \in 1..n : t[j] = s[j])
  BY DEF HealthAssumption, Grown
<1>2. /\ Matches(s, i) = {j \in i + 1..last : j <= n /\ s[j] = s[i]}
      /\ Matches(t, i) = {j \in i + 1..last : j <= n + 1 /\ t[j] = t[i]}
      /\ Matches(t, n + 1) = {j \in n + 2..n + window_max - 1 : j <= n + 1 /\ t[j] = t[n + 1]}
  <2>1. n + 1 + 1 = n + 2 /\ n + 1 + window_max - 2 = n + window_max - 1
    BY <1>1
  <2> QED BY <1>1, <2>1 DEF Matches
<1> HIDE DEF n, last
<1>3. IsFiniteSet(Matches(s, i)) /\ Cardinality(Matches(s, i)) \in Nat
  <2>1. IsFiniteSet(i + 1..last) /\ Matches(s, i) \in SUBSET (i + 1..last)
    <3>1. i + 1 \in Int
      BY <1>1
    <3>2. IsFiniteSet(i + 1..last)
      BY <1>1, <3>1, FS_Interval
    <3> QED BY <1>2, <3>2
  <2>2. IsFiniteSet(Matches(s, i))
    BY <2>1, FS_Subset
  <2> QED BY <2>2, FS_CardinalityType
<1>4. Cardinality(Matches(t, n + 1)) = 0
  <2>1. Matches(t, n + 1) = {}
    BY <1>1, <1>2
  <2> QED BY <2>1, FS_EmptySet
<1>5. CASE n + 1 <= last /\ v = s[i]
  <2>1. Matches(t, i) = Matches(s, i) \union {n + 1}
    <3>1. ASSUME NEW j \in Matches(t, i) PROVE j \in Matches(s, i) \union {n + 1}
      <4>1. j \in i + 1..last /\ j <= n + 1 /\ t[j] = t[i]
        BY <1>2, <3>1
      <4>2. j = n + 1 \/ j \in 1..n
        BY <1>1, <4>1
      <4> QED BY <1>1, <1>2, <4>1, <4>2
    <3>2. ASSUME NEW j \in Matches(s, i) PROVE j \in Matches(t, i)
      <4>1. j \in i + 1..last /\ j <= n /\ s[j] = s[i] /\ j \in 1..n
        BY <1>1, <1>2, <3>2
      <4>2. j <= n + 1 /\ t[j] = t[i]
        BY <1>1, <4>1
      <4> QED BY <1>2, <4>1, <4>2
    <3>3. n + 1 \in Matches(t, i)
      <4>1. n + 1 \in i + 1..last /\ t[n + 1] = t[i]
        BY <1>1, <1>5
      <4> QED BY <1>1, <1>2, <4>1
    <3> QED BY <3>1, <3>2, <3>3
  <2>2. n + 1 \notin Matches(s, i)
    BY <1>1, <1>2
  <2>3. Cardinality(Matches(t, i)) = Cardinality(Matches(s, i)) + 1
    BY <1>3, <2>1, <2>2, FS_AddElement
  <2> QED BY <1>3, <1>4, <1>5, <2>3 DEF n, last
<1>6. CASE ~(n + 1 <= last /\ v = s[i])
  <2>1. Matches(t, i) = Matches(s, i)
    <3>1. ASSUME NEW j \in Matches(t, i) PROVE j \in Matches(s, i)
      <4>1. j \in i + 1..last /\ j <= n + 1 /\ t[j] = t[i]
        BY <1>2, <3>1
      <4>2. j \in 1..n
        BY <1>1, <1>6, <4>1
      <4> QED BY <1>1, <1>2, <4>1, <4>2
    <3>2. ASSUME NEW j \in Matches(s, i) PROVE j \in Matches(t, i)
      <4>1. j \in i + 1..last /\ j <= n /\ s[j] = s[i] /\ j \in 1..n
        BY <1>1, <1>2, <3>2
      <4>2. j <= n + 1 /\ t[j] = t[i]
        BY <1>1, <4>1
      <4> QED BY <1>2, <4>1, <4>2
    <3> QED BY <3>1, <3>2
  <2> QED BY <1>3, <1>4, <1>6, <2>1 DEF n, last
<1> QED BY <1>5, <1>6

(* A sample changes the verdict on the window under way only, and there only  *)
(* when it is not the last one.                                               *)
LEMMA WindowMoves ==
  ASSUME HealthAssumption, NEW s \in Seq(Nat), NEW v \in Nat, NEW t, Grown(s, v, t),
         NEW w \in 0..window_max - 2, w + 1 <= Len(s), (Len(s) - w - 1) % window_max = 0
  PROVE  /\ Cardinality(Matches(s, Len(s) - w)) \in Nat
         /\ w + 1 < window_max - 1 => Cardinality(Matches(t, Len(s) - w)) = Cardinality(Matches(s, Len(s) - w))
                                                                  + (IF v = s[Len(s) - w] THEN 1 ELSE 0)
         /\ Disproportionate(t) <=> \/ Disproportionate(s)
                                    \/ /\ w + 1 < window_max - 1
                                       /\ Cardinality(Matches(t, Len(s) - w)) >= adp_cutoff
<1> DEFINE n == Len(s)
           m == window_max
           p == n - w
<1>1. /\ n \in Nat /\ m \in Nat \ {0} /\ m >= 2 /\ w \in Nat /\ w <= m - 2 /\ p \in 1..n /\ Len(t) = n + 1 /\ n = p + w
      /\ adp_cutoff \in Nat /\ adp_cutoff >= 1 /\ p - 1 \in Nat /\ (p - 1) % m = 0
  <2>1. n \in Nat /\ m \in Nat /\ m >= 2 /\ Len(t) = n + 1 /\ adp_cutoff \in Nat /\ adp_cutoff >= 1
    BY DEF HealthAssumption, Grown
  <2>2. p \in 1..n /\ p - 1 = n - w - 1 /\ p - 1 \in Nat /\ n = p + w
    BY <2>1
  <2> QED BY <2>1, <2>2
<1> HIDE DEF n, m, p
<1>2. n = Len(s) /\ m = window_max /\ p = Len(s) - w
  BY DEF n, m, p
<1>3. ASSUME NEW i \in 1..n
      PROVE  /\ Cardinality(Matches(s, i)) \in Nat
             /\ Cardinality(Matches(t, i)) = Cardinality(Matches(s, i)) + (IF n + 1 <= i + m - 2 /\ v = s[i] THEN 1 ELSE 0)
             /\ Cardinality(Matches(t, n + 1)) = 0
  BY <1>2, MatchesMoves
<1>4. ASSUME NEW i \in 1..n, (i - 1) % m = 0, i # p PROVE ~(n + 1 <= i + m - 2)
  <2>1. i - 1 \in Nat
    BY <1>1
  <2>2. ~(p - 1 < i - 1 /\ i - 1 < p - 1 + m)
    BY <1>1, <1>4, <2>1, WindowStarts
  <2>3. ~(i - 1 < p - 1 /\ p - 1 < i - 1 + m)
    BY <1>1, <1>4, <2>1, WindowStarts
  <2> QED BY <1>1, <1>4, <2>1, <2>2, <2>3
<1>5. n + 1 <= p + m - 2 <=> w + 1 < m - 1
  BY <1>1
<1>6. ASSUME NEW i \in 1..n, (i - 1) % m = 0, i # p PROVE Cardinality(Matches(t, i)) = Cardinality(Matches(s, i))
  BY <1>3, <1>4, <1>6
<1>7. /\ Cardinality(Matches(s, p)) \in Nat
      /\ Cardinality(Matches(t, p)) = Cardinality(Matches(s, p)) + (IF w + 1 < m - 1 /\ v = s[p] THEN 1 ELSE 0)
  BY <1>1, <1>3, <1>5
<1>8. /\ Disproportionate(s) <=> \E i \in 1..n : (i - 1) % m = 0 /\ Cardinality(Matches(s, i)) >= adp_cutoff
      /\ Disproportionate(t) <=> \E i \in 1..n + 1 : (i - 1) % m = 0 /\ Cardinality(Matches(t, i)) >= adp_cutoff
  BY <1>1, <1>2 DEF Disproportionate
<1>9. ASSUME Disproportionate(s) PROVE Disproportionate(t)
  <2>1. PICK i \in 1..n : (i - 1) % m = 0 /\ Cardinality(Matches(s, i)) >= adp_cutoff
    BY <1>8, <1>9
  <2>2. Cardinality(Matches(t, i)) >= adp_cutoff /\ i \in 1..n + 1
    <3>1. i \in 1..n + 1
      BY <1>1
    <3>2. CASE i = p
      BY <1>1, <1>7, <2>1, <3>1, <3>2
    <3>3. CASE i # p
      BY <1>6, <2>1, <3>1, <3>3
    <3> QED BY <3>2, <3>3
  <2> QED BY <1>8, <2>1, <2>2
<1>10. ASSUME w + 1 < m - 1, Cardinality(Matches(t, p)) >= adp_cutoff PROVE Disproportionate(t)
  <2>1. p \in 1..n + 1
    BY <1>1
  <2> QED BY <1>1, <1>8, <1>10, <2>1
<1>11. ASSUME Disproportionate(t), ~(w + 1 < m - 1 /\ Cardinality(Matches(t, p)) >= adp_cutoff) PROVE Disproportionate(s)
  <2>1. PICK i \in 1..n + 1 : (i - 1) % m = 0 /\ Cardinality(Matches(t, i)) >= adp_cutoff
    BY <1>8, <1>11
  <2>2. i \in 1..n
    <3>1. Cardinality(Matches(t, n + 1)) = 0
      BY <1>1, <1>3
    <3>2. i # n + 1
      BY <1>1, <2>1, <3>1
    <3> QED BY <1>1, <3>2
  <2>3. CASE i = p
    <3>1. ~(w + 1 < m - 1)
      BY <1>11, <2>1, <2>3
    <3>2. Cardinality(Matches(s, p)) >= adp_cutoff
      BY <1>7, <2>1, <2>3, <3>1
    <3> QED BY <1>1, <1>8, <3>2
  <2>4. CASE i # p
    BY <1>6, <1>8, <2>1, <2>2, <2>4
  <2> QED BY <2>3, <2>4
<1> QED BY <1>2, <1>7, <1>9, <1>10, <1>11

(* A window's first sample changes no verdict. *)
LEMMA WindowOpens ==
  ASSUME HealthAssumption, NEW s \in Seq(Nat), NEW v \in Nat, NEW t, Grown(s, v, t), Len(s) % window_max = 0
  PROVE  /\ Disproportionate(t) <=> Disproportionate(s)
         /\ Cardinality(Matches(t, Len(s) + 1)) = 0
<1> DEFINE n == Len(s)
           m == window_max
<1>1. /\ n \in Nat /\ m \in Nat \ {0} /\ m >= 2 /\ Len(t) = n + 1 /\ adp_cutoff \in Nat /\ adp_cutoff >= 1
      /\ n % m = 0
  BY DEF HealthAssumption, Grown
<1>2. n = Len(s) /\ m = window_max
  OBVIOUS
<1>3. Cardinality(Matches(t, n + 1)) = 0
  <2>1. Matches(t, n + 1) = {}
    BY <1>1 DEF Matches
  <2> QED BY <2>1, FS_EmptySet
<1> HIDE DEF n, m
<1>4. ASSUME NEW i \in 1..n, (i - 1) % m = 0 PROVE Cardinality(Matches(t, i)) = Cardinality(Matches(s, i))
  <2>1. i - 1 \in Nat /\ i - 1 < n
    BY <1>1
  <2>2. ~(i - 1 < n /\ n < i - 1 + m)
    BY <1>1, <1>4, <2>1, WindowStarts
  <2>3. ~(n + 1 <= i + m - 2)
    BY <1>1, <2>1, <2>2
  <2>4. /\ Cardinality(Matches(s, i)) \in Nat
        /\ Cardinality(Matches(t, i)) = Cardinality(Matches(s, i)) + (IF n + 1 <= i + m - 2 /\ v = s[i] THEN 1 ELSE 0)
    BY <1>2, MatchesMoves
  <2> QED BY <2>3, <2>4
<1>5. /\ Disproportionate(s) <=> \E i \in 1..n : (i - 1) % m = 0 /\ Cardinality(Matches(s, i)) >= adp_cutoff
      /\ Disproportionate(t) <=> \E i \in 1..n + 1 : (i - 1) % m = 0 /\ Cardinality(Matches(t, i)) >= adp_cutoff
  BY <1>1, <1>2 DEF Disproportionate
<1>6. 1..n + 1 = 1..n \union {n + 1} /\ ~(0 >= adp_cutoff)
  BY <1>1
<1> QED BY <1>2, <1>3, <1>4, <1>5, <1>6

(* How far back a sample of a window lies when another one has arrived. *)
LEMMA Shifted ==
  ASSUME NEW n \in Nat, NEW w \in Nat, w + 1 <= n, NEW l, l = n + 1, NEW k, k = w + 1
  PROVE  l - k = n - w /\ l - k - 1 = n - w - 1 /\ k + 1 <= l
OBVIOUS

(* The proportion test: b counts, up to adp_max, how often the first sample   *)
(* of the window under way has come back; failure is a cycle behind.          *)
AdpRegs == [state : {"START", "ITERATE"}, a : Nat, b : Nat, w : 0..window_max - 1, shown : Nat, failure : BOOLEAN,
            ready : BOOLEAN, b_fresh : BOOLEAN]
Counts(b, matches) == matches \in Nat /\ b = IF matches <= adp_max THEN matches ELSE adp_max

AdpKept(r, seen, due) ==
  /\ r \in AdpRegs /\ seen \in Seq(Nat) /\ due \in Seq(Nat)
  /\ r.state = "START" => Len(seen) % window_max = 0
  /\ r.state = "ITERATE" => /\ r.w + 1 <= Len(seen) /\ (Len(seen) - r.w - 1) % window_max = 0
                            /\ r.a = seen[Len(seen) - r.w]
                            /\ r.w # window_max - 1 => Counts(r.b, Cardinality(Matches(seen, Len(seen) - r.w)))
  /\ Disproportionate(seen) <=> \/ Disproportionate(due)
                                \/ r.state = "ITERATE" /\ r.w # window_max - 1 /\ r.b >= adp_cutoff
  /\ r.failure <=> Disproportionate(due)

(* The test begins with no samples. *)
LEMMA NoneSeen == ASSUME HealthAssumption PROVE ~Disproportionate(<<>>) /\ Len(<<>>) % window_max = 0
<1>1. window_max \in Nat \ {0} /\ Len(<<>>) = 0
  BY DEF HealthAssumption
<1>2. 0 \in Nat /\ 0 * window_max = 0 /\ 0 = 0 * window_max
  BY <1>1
<1>3. 0 % window_max = 0
  BY <1>1, <1>2, Multiple
<1> QED BY <1>1, <1>3 DEF Disproportionate

(* A cycle of the test keeps what it knows of its samples: none arrives when  *)
(* a window ends.                                                             *)
LEMMA AdpStep ==
  ASSUME HealthAssumption, NEW r, NEW seen, NEW due, AdpKept(r, seen, due), NEW v \in Sample, NEW clear \in BOOLEAN,
         NEW enabled \in BOOLEAN, NEW b_read \in BOOLEAN, WindowEnds(r) => v = NoSample,
         NEW new, new = IF r.state = "START" /\ (~enabled \/ clear) THEN Taken(v)
                        ELSE IF clear THEN <<>> ELSE seen \o Taken(v),
         NEW old, old = IF clear \/ (r.state = "START" /\ ~enabled) THEN <<>> ELSE seen
  PROVE  /\ AdpKept(AdaptivePropTest(r, v, clear, enabled, b_read), new, old)
         /\ WindowEnds(AdaptivePropTest(r, v, clear, enabled, b_read)) => v # NoSample
<1> DEFINE unread == (WindowEnds(r) /\ ~clear) \/ (r.b_fresh /\ ~b_read)
           to == AdaptivePropTest(r, v, clear, enabled, b_read)
           ends == window_max - 1
<1>1. /\ r \in AdpRegs /\ seen \in Seq(Nat) /\ due \in Seq(Nat) /\ <<>> \in Seq(Nat) /\ Len(seen) \in Nat
      /\ window_max \in Nat \ {0} /\ ends \in Nat /\ ends >= 1 /\ ends # 0 /\ 0 \in 0..ends
      /\ adp_cutoff \in Nat /\ adp_cutoff >= 1 /\ adp_max \in Nat /\ adp_cutoff <= adp_max
      /\ unread \in BOOLEAN
  BY DEF AdpKept, HealthAssumption, AdpRegs, WindowEnds
<1>2. ~Disproportionate(<<>>) /\ Len(<<>>) % window_max = 0
  BY NoneSeen
<1> HIDE DEF unread
<1>3. CASE r.state = "START"
  <2> DEFINE stops == clear \/ ~enabled
             held == IF stops THEN [r EXCEPT !.ready = FALSE, !.failure = FALSE] ELSE r
             from == IF stops THEN <<>> ELSE seen
  <2>1. to = [AdpStart(r, v, clear, enabled) EXCEPT !.b_fresh = unread] /\ old = from /\ ~WindowEnds(r)
    BY <1>3 DEF AdaptivePropTest, unread, WindowEnds
  <2>2. held \in AdpRegs /\ held.state = "START" /\ (held.failure <=> Disproportionate(from))
        /\ from \in Seq(Nat) /\ Len(from) % window_max = 0
    <3>1. CASE stops
      <4>1. held = [r EXCEPT !.ready = FALSE, !.failure = FALSE] /\ from = <<>>
        BY <3>1
      <4> HIDE DEF held, from
      <4>2. held \in AdpRegs /\ held.state = "START" /\ held.failure = FALSE
        BY <1>1, <1>3, <4>1 DEF AdpRegs
      <4>3. ~Disproportionate(from) /\ Len(from) % window_max = 0 /\ from \in Seq(Nat)
        BY <1>1, <1>2, <4>1, Zenon
      <4> QED BY <4>2, <4>3
    <3>2. CASE ~stops
      <4>1. held = r /\ from = seen
        BY <3>2
      <4> HIDE DEF held, from
      <4>2. Len(seen) % window_max = 0 /\ (r.failure <=> Disproportionate(seen))
        BY <1>1, <1>3 DEF AdpKept
      <4> QED BY <1>1, <1>3, <4>1, <4>2
    <3> QED BY <3>1, <3>2
  <2>3. new = from \o Taken(v)
    <3>1. <<>> \o Taken(v) = Taken(v)
      BY DEF Taken
    <3> QED BY <1>3, <3>1
  <2> HIDE DEF held, from
  <2>4. CASE v = NoSample
    <3>1. to = [held EXCEPT !.b_fresh = unread]
      BY <2>1, <2>4 DEF AdpStart, held
    <3>2. to \in AdpRegs /\ to.state = "START" /\ to.failure = held.failure
      BY <1>1, <2>2, <3>1 DEF AdpRegs
    <3>3. new = from
      BY <2>2, <2>3, <2>4, TakenMoves
    <3> HIDE DEF to
    <3>4. AdpKept(to, from, from) /\ ~WindowEnds(to)
      BY <2>2, <3>2 DEF AdpKept, WindowEnds
    <3> QED BY <2>1, <3>3, <3>4 DEF to
  <2>5. CASE v # NoSample
    <3>1. to = [[held EXCEPT !.state = "ITERATE", !.a = v, !.b = 0, !.w = 0] EXCEPT !.b_fresh = unread] /\ v \in Nat
      BY <2>1, <2>5 DEF AdpStart, held, Sample
    <3>2. to \in AdpRegs /\ to.state = "ITERATE" /\ to.failure = held.failure /\ to.a = v /\ to.b = 0 /\ to.w = 0
      <4>1. held \in AdpRegs /\ 0 \in 0..window_max - 1 /\ 0 \in Nat /\ v \in Nat /\ unread \in BOOLEAN
        BY <1>1, <2>2, <3>1
      <4> HIDE DEF to
      <4>2. to.state = "ITERATE" /\ to.failure = held.failure /\ to.a = v /\ to.b = 0 /\ to.w = 0
        BY <3>1, <4>1 DEF AdpRegs
      <4>3. to \in AdpRegs
        BY <3>1, <4>1 DEF AdpRegs
      <4> QED BY <4>2, <4>3
    <3>3. Grown(from, v, new)
      BY <2>2, <2>3, <2>5, TakenMoves
    <3>4. PICK n \in Nat : n = Len(from)
      BY <2>2
    <3>5. new \in Seq(Nat) /\ Len(new) = n + 1 /\ new[n + 1] = v
      BY <3>3, <3>4 DEF Grown
    <3>6. (Disproportionate(new) <=> Disproportionate(from)) /\ Cardinality(Matches(new, n + 1)) = 0
      BY <2>2, <3>1, <3>3, <3>4, WindowOpens
    <3>7. Counts(0, 0) /\ ~(0 >= adp_cutoff) /\ 0 + 1 <= n + 1 /\ n + 1 - 0 = n + 1 /\ n + 1 - 0 - 1 = n
      BY <1>1, <3>4 DEF Counts
    <3> HIDE DEF to
    <3>8. AdpKept(to, new, from)
      <4>1. Len(new) - to.w = n + 1 /\ Len(new) - to.w - 1 = n /\ to.w + 1 <= Len(new) /\ n % window_max = 0
        BY <2>2, <3>2, <3>4, <3>5
      <4>2. Counts(to.b, Cardinality(Matches(new, Len(new) - to.w))) /\ to.a = new[Len(new) - to.w]
        BY <3>2, <3>5, <3>6, <3>7, <4>1
      <4>3. ~(to.b >= adp_cutoff)
        BY <3>2, <3>7
      <4> QED BY <2>2, <3>2, <3>5, <3>6, <4>1, <4>2, <4>3 DEF AdpKept
    <3>9. ~WindowEnds(to)
      BY <1>1, <3>2 DEF WindowEnds
    <3> QED BY <2>1, <3>8, <3>9 DEF to
  <2> QED BY <2>4, <2>5
<1>4. CASE r.state # "START" /\ clear
  <2>1. to = [[r EXCEPT !.state = "START", !.failure = FALSE, !.ready = FALSE] EXCEPT !.b_fresh = unread]
        /\ new = <<>> /\ old = <<>>
    BY <1>4 DEF AdaptivePropTest, unread
  <2>2. to \in AdpRegs /\ to.state = "START" /\ to.failure = FALSE
    BY <1>1, <2>1 DEF AdpRegs
  <2> HIDE DEF to
  <2>3. AdpKept(to, <<>>, <<>>) /\ ~WindowEnds(to)
    BY <1>1, <1>2, <2>2 DEF AdpKept, WindowEnds
  <2> QED BY <2>1, <2>3 DEF to
<1>5. CASE r.state # "START" /\ ~clear
  <2> DEFINE n == Len(seen)
             b == r.b
             w == r.w
  <2>1. r.state = "ITERATE" /\ new = seen \o Taken(v) /\ old = seen /\ (WindowEnds(r) <=> w = ends)
    BY <1>1, <1>5 DEF AdpRegs, WindowEnds
  <2>2. /\ n \in Nat /\ w \in 0..ends /\ b \in Nat /\ w + 1 <= n /\ (n - w - 1) % window_max = 0
        /\ r.a \in Nat /\ r.a = seen[n - w]
        /\ w # ends => Counts(b, Cardinality(Matches(seen, n - w)))
        /\ Disproportionate(seen) <=> Disproportionate(due) \/ (w # ends /\ b >= adp_cutoff)
        /\ r.failure <=> Disproportionate(due)
    BY <1>1, <2>1 DEF AdpKept, AdpRegs
  <2>3. n = Len(seen) /\ b = r.b /\ w = r.w
    OBVIOUS
  <2> HIDE DEF n, b, w
  <2>4. CASE w = ends
    <3> DEFINE ready == r.ready \/ (~r.failure /\ enabled)
    <3>1. to = [[r EXCEPT !.state = "START", !.shown = r.b, !.ready = ready] EXCEPT !.b_fresh = unread]
      BY <1>5, <2>1, <2>4 DEF AdaptivePropTest, AdpWindow, unread
    <3>2. ready \in BOOLEAN /\ r.b \in Nat
      BY <1>1 DEF AdpRegs
    <3> HIDE DEF ready
    <3>3. to \in AdpRegs /\ to.state = "START" /\ to.failure = r.failure
      BY <1>1, <3>1, <3>2 DEF AdpRegs
    <3>4. new = seen
      BY <1>1, <2>1, <2>4, TakenMoves
    <3>5. n % window_max = 0
      <4>1. n - w - 1 \in Nat /\ n - w - 1 + window_max = n
        BY <1>1, <2>2, <2>4
      <4>2. (n - w - 1 + window_max) % window_max = 0
        BY <1>1, <2>2, <4>1, WindowStarts
      <4> QED BY <4>1, <4>2
    <3> HIDE DEF to
    <3>6. AdpKept(to, seen, seen) /\ ~WindowEnds(to)
      BY <1>1, <2>2, <2>3, <2>4, <3>3, <3>5 DEF AdpKept, WindowEnds
    <3> QED BY <2>1, <3>4, <3>6 DEF to
  <2>5. CASE w # ends
    <3> DEFINE fails == r.failure \/ r.b >= adp_cutoff
               ready == r.ready /\ enabled
    <3>1. to = [AdpIterate(r, v, enabled) EXCEPT !.b_fresh = unread]
      BY <1>5, <2>1, <2>5 DEF AdaptivePropTest, unread
    <3>2. (fails <=> Disproportionate(seen)) /\ fails \in BOOLEAN /\ ready \in BOOLEAN
      BY <1>1, <2>2, <2>3, <2>5 DEF AdpRegs
    <3> HIDE DEF fails, ready
    <3>3. CASE v = NoSample
      <4>1. to = [[r EXCEPT !.failure = fails, !.ready = ready] EXCEPT !.b_fresh = unread]
        BY <3>1, <3>3 DEF AdpIterate, fails, ready
      <4>2. to \in AdpRegs /\ to.state = "ITERATE" /\ to.failure = fails /\ to.a = r.a /\ to.b = b /\ to.w = w
        BY <1>1, <2>1, <2>3, <3>2, <4>1 DEF AdpRegs
      <4>3. new = seen
        BY <1>1, <2>1, <3>3, TakenMoves
      <4> HIDE DEF to
      <4>4. AdpKept(to, seen, seen)
        BY <1>1, <2>2, <2>3, <2>5, <3>2, <4>2 DEF AdpKept
      <4>5. ~WindowEnds(to)
        BY <2>5, <4>2 DEF WindowEnds
      <4> QED BY <2>1, <4>3, <4>4, <4>5 DEF to
    <3>4. CASE v # NoSample
      <4> DEFINE more == IF v = r.a /\ b + 1 <= adp_max THEN b + 1 ELSE b
                 card == Cardinality(Matches(seen, n - w))
                 next == Cardinality(Matches(new, n - w))
      <4>1. to = [[[r EXCEPT !.failure = fails, !.ready = ready] EXCEPT !.w = w + 1, !.b = more] EXCEPT !.b_fresh = unread]
            /\ v \in Nat
        BY <1>1, <2>3, <3>1, <3>4 DEF AdpIterate, fails, ready, Sample, AdpRegs
      <4>2. more \in Nat /\ w + 1 \in 0..ends /\ w \in 0..window_max - 2
        BY <1>1, <2>2, <2>5
      <4>3. to \in AdpRegs /\ to.state = "ITERATE" /\ to.failure = fails /\ to.a = r.a /\ to.b = more /\ to.w = w + 1
        BY <1>1, <2>1, <3>2, <4>1, <4>2 DEF AdpRegs
      <4>4. Grown(seen, v, new)
        BY <1>1, <2>1, <3>4, TakenMoves
      <4>5. /\ new \in Seq(Nat) /\ Len(new) = n + 1 /\ n - w \in 1..n
            /\ \A j \in 1..n : new[j] = seen[j]
        BY <2>2, <2>3, <4>4 DEF Grown
      <4>6. /\ card \in Nat
            /\ w + 1 # ends => next = card + (IF v = r.a THEN 1 ELSE 0)
            /\ Disproportionate(new) <=> Disproportionate(seen) \/ (w + 1 # ends /\ next >= adp_cutoff)
        <5>1. w + 1 < window_max - 1 <=> w + 1 # ends
          BY <1>1, <4>2
        <5>2. /\ Cardinality(Matches(seen, Len(seen) - w)) \in Nat
              /\ w + 1 < window_max - 1 => Cardinality(Matches(new, Len(seen) - w)) = Cardinality(Matches(seen, Len(seen) - w))
                                                                  + (IF v = seen[Len(seen) - w] THEN 1 ELSE 0)
              /\ Disproportionate(new) <=> \/ Disproportionate(seen)
                                            \/ /\ w + 1 < window_max - 1
                                               /\ Cardinality(Matches(new, Len(seen) - w)) >= adp_cutoff
          <6>1. w + 1 <= Len(seen) /\ (Len(seen) - w - 1) % window_max = 0
            BY <2>2, <2>3
          <6>2. seen \in Seq(Nat) /\ v \in Nat /\ w \in 0..window_max - 2 /\ Grown(seen, v, new)
            BY <1>1, <4>1, <4>2, <4>4
          <6> HIDE DEF to
          <6> QED BY <6>1, <6>2, WindowMoves
        <5>3. n = Len(seen) /\ r.a = seen[n - w]
          BY <2>2, <2>3
        <5> QED BY <5>1, <5>2, <5>3
      <4>7. Counts(b, card)
        BY <2>2, <2>5
      <4> HIDE DEF card, next
      <4>8. w + 1 # ends => Counts(more, next) /\ (next >= adp_cutoff <=> more >= adp_cutoff)
        <5>1. SUFFICES ASSUME w + 1 # ends PROVE Counts(more, next) /\ (next >= adp_cutoff <=> more >= adp_cutoff)
          OBVIOUS
        <5>2. adp_max \in Nat /\ adp_cutoff \in Nat /\ adp_cutoff <= adp_max /\ b \in Nat /\ card \in Nat
              /\ b = IF card <= adp_max THEN card ELSE adp_max
          BY <1>1, <2>2, <4>6, <4>7 DEF Counts
        <5>3. CASE v = r.a
          <6>1. next = card + 1 /\ more = IF b + 1 <= adp_max THEN b + 1 ELSE b
            BY <4>6, <5>1, <5>3
          <6> HIDE DEF more
          <6> QED BY <5>2, <6>1 DEF Counts
        <5>4. CASE v # r.a
          <6>1. next = card /\ more = b
            BY <4>6, <5>1, <5>2, <5>4
          <6> HIDE DEF more
          <6> QED BY <5>2, <6>1 DEF Counts
        <5> QED BY <5>3, <5>4
      <4> HIDE DEF more, to
      <4>9. AdpKept(to, new, seen)
        <5>1. n + 1 - (w + 1) = n - w /\ n + 1 - (w + 1) - 1 = n - w - 1 /\ w + 1 + 1 <= n + 1
          BY <1>1, <2>2
        <5>2. new[n - w] = r.a
          BY <2>2, <4>5
        <5>3. Disproportionate(new) <=> Disproportionate(seen) \/ (w + 1 # ends /\ more >= adp_cutoff)
          BY <4>6, <4>8
        <5>4. Len(new) - to.w = n - w /\ Len(new) - to.w - 1 = n - w - 1 /\ to.w + 1 <= Len(new)
          <6>1. Len(new) = n + 1 /\ to.w = w + 1
            BY <4>3, <4>5
          <6>2. n \in Nat /\ w \in Nat /\ w + 1 <= n
            BY <1>1, <2>2
          <6> QED BY <6>1, <6>2, Shifted
        <5>5. to.w # window_max - 1 => Counts(to.b, Cardinality(Matches(new, Len(new) - to.w)))
          BY <4>3, <4>8, <5>4 DEF next
        <5>6. to.a = new[Len(new) - to.w] /\ (Len(new) - to.w - 1) % window_max = 0
          BY <2>2, <4>3, <5>2, <5>4
        <5> QED BY <1>1, <3>2, <4>3, <4>5, <5>3, <5>4, <5>5, <5>6 DEF AdpKept
      <4> QED BY <2>1, <3>4, <4>9 DEF to
    <3> QED BY <3>3, <3>4
  <2> QED BY <2>4, <2>5
<1> QED BY <1>3, <1>4, <1>5


(* The smallest and the largest element of a set are what they are called. *)
LEMMA ExtremeOne ==
  ASSUME NEW S \in SUBSET Int, NEW m \in S
  PROVE  /\ (\A y \in S : m <= y) => Min(S) = m
         /\ (\A y \in S : y <= m) => Max(S) = m
<1>1. ASSUME \A y \in S : m <= y PROVE Min(S) = m
  <2>1. \A x \in S : (\A y \in S : x <= y) => x = m
    BY <1>1
  <2> QED BY <1>1, <2>1 DEF Min
<1>2. ASSUME \A y \in S : y <= m PROVE Max(S) = m
  <2>1. \A x \in S : (\A y \in S : x >= y) => x = m
    BY <1>2
  <2>2. \A y \in S : m >= y
    BY <1>2
  <2> QED BY <2>1, <2>2 DEF Max
<1> QED BY <1>1, <1>2

(* The values of a window when it begins and when a sample arrives. *)
LEMMA ValuesMove ==
  ASSUME NEW s \in Seq(Nat)
  PROVE  /\ Values(s) \in SUBSET Int
         /\ Len(s) \in Nat /\ (Len(s) = 0 <=> s = <<>>)
         /\ \A v, t : Grown(s, v, t) => Values(t) = Values(s) \union {v}
<1>1. Len(s) \in Nat /\ DOMAIN s = 1..Len(s) /\ \A k \in 1..Len(s) : s[k] \in Nat
  OBVIOUS
<1>2. Len(s) = 0 <=> s = <<>>
  BY EmptySeq
<1>3. Values(s) \in SUBSET Int
  BY <1>1 DEF Values
<1>4. ASSUME NEW v, NEW t, Grown(s, v, t) PROVE Values(t) = Values(s) \union {v}
  <2>1. t \in Seq(Nat) /\ Len(t) = Len(s) + 1 /\ t[Len(s) + 1] = v /\ \A j \in 1..Len(s) : t[j] = s[j]
    BY <1>4 DEF Grown
  <2>2. DOMAIN t = 1..Len(s) \union {Len(s) + 1}
    BY <1>1, <2>1
  <2>3. ASSUME NEW x \in Values(t) PROVE x \in Values(s) \union {v}
    <3>1. PICK k \in 1..Len(s) \union {Len(s) + 1} : x = t[k]
      BY <2>2 DEF Values
    <3> QED BY <1>1, <2>1, <3>1 DEF Values
  <2>4. ASSUME NEW x \in Values(s) PROVE x \in Values(t)
    <3>1. PICK k \in 1..Len(s) : x = s[k]
      BY <1>1 DEF Values
    <3> QED BY <2>1, <2>2, <3>1 DEF Values
  <2>5. v \in Values(t)
    BY <2>1, <2>2 DEF Values
  <2> QED BY <2>3, <2>4, <2>5
<1> QED BY <1>1, <1>2, <1>3, <1>4

(* The excursion test: w counts the samples that the window under way lacks, *)
(* min and max are its extremes.                                             *)
ExcRegs == [state : {"OFF", "RUN"}, w : 0..exc_window, min : Nat, max : Nat, cur_min : Nat, cur_max : Nat,
            err_min : Nat, err_max : Nat, ready : BOOLEAN, failing_r : BOOLEAN, failure : BOOLEAN]

Extremes(r, seen) ==
  IF seen = <<>> THEN r.min = AvMax + 1 /\ r.max = 0
  ELSE r.min \in Values(seen) /\ r.max \in Values(seen) /\ \A y \in Values(seen) : r.min <= y /\ y <= r.max

Judged(r, last) ==
  /\ r.ready <=> last # <<>> /\ Spread(last) >= exc_cutoff
  /\ last # <<>> => r.cur_min = Min(Values(last)) /\ r.cur_max = Max(Values(last))
  /\ last # <<>> /\ ~r.ready => r.err_min = r.cur_min /\ r.err_max = r.cur_max

ExcKept(r, seen, last) ==
  /\ r \in ExcRegs /\ seen \in Seq(Nat) /\ last \in Seq(Nat)
  /\ r.state = "OFF" => seen = <<>> /\ last = <<>>
  /\ r.state = "RUN" => r.w + Len(seen) = exc_window /\ Extremes(r, seen)
  /\ Judged(r, last)

(* A cycle of the test keeps what it knows of its samples. *)
LEMMA ExcStep ==
  ASSUME HealthAssumption, power \in BOOLEAN, NEW r, NEW seen, NEW last, ExcKept(r, seen, last),
         NEW v \in {NoSample} \union 0..AvMax, NEW reset \in BOOLEAN, NEW new, NEW judged,
         IF ExcDue(r, reset) THEN judged = seen /\ new = <<>>
         ELSE IF r.state = "RUN" /\ power /\ ~reset THEN new = seen \o Taken(v) /\ judged = last
         ELSE new = <<>> /\ judged = <<>>
  PROVE  ExcKept(ExcursionTest(r, v, reset), new, judged)
<1> DEFINE fails == failing(r, reset)
           rose == fails /\ ~r.failing_r
           to == ExcursionTest(r, v, reset)
<1>1. /\ r \in ExcRegs /\ seen \in Seq(Nat) /\ last \in Seq(Nat) /\ Len(seen) \in Nat
      /\ AvMax \in Nat /\ exc_window \in Nat /\ exc_window >= 1 /\ exc_cutoff \in Nat /\ AvMax + 1 \in Nat
      /\ r.state \in {"OFF", "RUN"} /\ 0 \in Nat /\ exc_window \in 0..exc_window
  BY DEF ExcKept, ExcRegs, HealthAssumption
<1>2. /\ <<>> \in Seq(Nat) /\ Len(<<>>) = 0
      /\ fails \in BOOLEAN /\ rose \in BOOLEAN /\ (fails => ExcDue(r, reset))
  <2>1. <<>> \in Seq(Nat) /\ Len(<<>>) = 0
    OBVIOUS
  <2>2. fails \in BOOLEAN /\ rose \in BOOLEAN /\ (fails => ExcDue(r, reset))
    BY DEF failing, ExcDue
  <2> QED BY <2>1, <2>2, Zenon
<1>3. Judged(r, last)
  BY DEF ExcKept
<1>4. exc_window + Len(<<>>) = exc_window
  BY <1>1, <1>2
<1>5. fails <=> ExcDue(r, reset) /\ r.max - r.min < exc_cutoff
  BY DEF failing
<1> HIDE DEF fails, rose
<1>6. CASE r.state = "OFF" \/ ~power \/ reset
  <2>1. new = <<>> /\ judged = <<>>
    BY <1>6 DEF ExcDue
  <2>2. ~r.ready \/ r.state = "RUN"
    BY <1>1, <1>6 DEF ExcKept, Judged
  <2>3. to \in ExcRegs /\ ~to.ready /\ (to.state = "RUN" => to.w = exc_window /\ to.min = AvMax + 1 /\ to.max = 0)
    <3>1. CASE r.state = "OFF" /\ power
      <4>1. to = [[ExcStarted(r) EXCEPT !.state = "RUN"] EXCEPT !.failing_r = fails, !.failure = rose]
        BY <3>1 DEF ExcursionTest, ExcDue, fails, rose
      <4>2. to = [[[r EXCEPT !.w = exc_window, !.min = AvMax + 1, !.max = 0] EXCEPT !.state = "RUN"]
                    EXCEPT !.failing_r = fails, !.failure = rose]
        BY <4>1 DEF ExcStarted
      <4> HIDE DEF to
      <4>3. to.ready = r.ready /\ to.state = "RUN" /\ to.w = exc_window /\ to.min = AvMax + 1 /\ to.max = 0
        BY <1>1, <4>2 DEF ExcRegs
      <4>4. to \in ExcRegs
        BY <1>1, <1>2, <4>2 DEF ExcRegs
      <4> QED BY <2>2, <3>1, <4>3, <4>4
    <3>2. CASE r.state = "RUN" \/ ~power
      <4>1. r.state = "RUN" => ~power \/ reset
        BY <1>6
      <4>2. to = [[r EXCEPT !.state = "OFF", !.ready = FALSE] EXCEPT !.failing_r = fails, !.failure = rose]
        <5>1. CASE r.state = "RUN"
          BY <4>1, <5>1 DEF ExcursionTest, ExcDue, fails, rose
        <5>2. CASE r.state = "OFF"
          <6>1. to = [[r EXCEPT !.ready = FALSE] EXCEPT !.failing_r = fails, !.failure = rose]
            BY <3>2, <5>2 DEF ExcursionTest, ExcDue, fails, rose
          <6>2. [r EXCEPT !.ready = FALSE] = [r EXCEPT !.state = "OFF", !.ready = FALSE]
            BY <1>1, <5>2 DEF ExcRegs
          <6> QED BY <6>1, <6>2
        <5> QED BY <1>1, <5>1, <5>2
      <4> HIDE DEF to
      <4>3. to.ready = FALSE /\ to.state = "OFF" /\ to \in ExcRegs
        BY <1>1, <1>2, <4>2 DEF ExcRegs
      <4> QED BY <4>3
    <3> QED BY <1>1, <3>1, <3>2
  <2> HIDE DEF to
  <2>4. Judged(to, <<>>)
    BY <2>3 DEF Judged
  <2>5. to.state = "RUN" => to.w + Len(<<>>) = exc_window /\ Extremes(to, <<>>)
    BY <1>1, <1>4, <2>3 DEF Extremes
  <2>6. ExcKept(to, <<>>, <<>>)
    BY <1>2, <2>3, <2>4, <2>5 DEF ExcKept
  <2> QED BY <2>1, <2>6 DEF to
<1>7. CASE r.state = "RUN" /\ power /\ ~reset
  <2>1. r.w + Len(seen) = exc_window /\ Extremes(r, seen) /\ r.w \in Nat /\ r.min \in Nat /\ r.max \in Nat
        /\ (ExcDue(r, reset) <=> r.w = 0)
    BY <1>1, <1>7 DEF ExcKept, ExcRegs, ExcDue
  <2>2. Values(seen) \in SUBSET Int /\ (Len(seen) = 0 <=> seen = <<>>)
    BY <1>1, ValuesMove
  <2>3. CASE r.w = 0
    <3>1. new = <<>> /\ judged = seen
      BY <2>1, <2>3
    <3>2. seen # <<>> /\ r.min \in Values(seen) /\ r.max \in Values(seen)
          /\ \A y \in Values(seen) : r.min <= y /\ y <= r.max
      BY <1>1, <2>1, <2>2, <2>3 DEF Extremes
    <3>3. Min(Values(seen)) = r.min /\ Max(Values(seen)) = r.max
      BY <2>2, <3>2, ExtremeOne
    <3>4. Spread(seen) >= exc_cutoff <=> ~fails
      <4>1. Spread(seen) = r.max - r.min
        BY <3>3 DEF Spread
      <4>2. fails <=> r.max - r.min < exc_cutoff
        BY <1>5, <2>1, <2>3
      <4> QED BY <1>1, <2>1, <4>1, <4>2
    <3> DEFINE shown == [ExcStarted(r) EXCEPT !.cur_min = r.min, !.cur_max = r.max, !.ready = ~fails]
               kept == IF fails THEN [shown EXCEPT !.err_min = r.min, !.err_max = r.max] ELSE shown
    <3>5. to = [kept EXCEPT !.failing_r = fails, !.failure = rose]
      <4>1. ExcJudge(r, reset) = kept
        BY DEF ExcJudge, fails
      <4> HIDE DEF kept
      <4> QED BY <1>7, <2>1, <2>3, <4>1 DEF ExcursionTest, fails, rose
    <3>6. shown = [[r EXCEPT !.w = exc_window, !.min = AvMax + 1, !.max = 0]
                     EXCEPT !.cur_min = r.min, !.cur_max = r.max, !.ready = ~fails]
      BY DEF ExcStarted
    <3>7. /\ shown \in ExcRegs /\ shown.state = "RUN" /\ shown.ready = ~fails /\ shown.w = exc_window
          /\ shown.min = AvMax + 1 /\ shown.max = 0 /\ shown.cur_min = r.min /\ shown.cur_max = r.max
      <4> HIDE DEF shown
      <4>1. (~fails) \in BOOLEAN
        OBVIOUS
      <4>2. shown \in ExcRegs
        BY <1>1, <2>1, <3>6, <4>1 DEF ExcRegs
      <4>3. /\ shown.state = "RUN" /\ shown.ready = ~fails /\ shown.w = exc_window
            /\ shown.min = AvMax + 1 /\ shown.max = 0 /\ shown.cur_min = r.min /\ shown.cur_max = r.max
        BY <1>1, <1>7, <3>6 DEF ExcRegs
      <4> QED BY <4>2, <4>3
    <3> HIDE DEF shown
    <3>8. /\ kept \in ExcRegs /\ kept.state = "RUN" /\ kept.ready = ~fails /\ kept.w = exc_window
          /\ kept.min = AvMax + 1 /\ kept.max = 0 /\ kept.cur_min = r.min /\ kept.cur_max = r.max
          /\ fails => kept.err_min = r.min /\ kept.err_max = r.max
      <4>1. CASE fails
        <5>1. kept = [shown EXCEPT !.err_min = r.min, !.err_max = r.max]
          BY <4>1
        <5> HIDE DEF kept
        <5>2. kept.err_min = r.min /\ kept.err_max = r.max /\ kept.state = shown.state /\ kept.ready = shown.ready
              /\ kept.w = shown.w /\ kept.min = shown.min /\ kept.max = shown.max /\ kept.cur_min = shown.cur_min
              /\ kept.cur_max = shown.cur_max /\ kept \in ExcRegs
          BY <2>1, <3>7, <5>1 DEF ExcRegs
        <5> QED BY <3>7, <5>2
      <4>2. CASE ~fails
        BY <3>7, <4>2
      <4> QED BY <4>1, <4>2
    <3> HIDE DEF kept
    <3>9. /\ to \in ExcRegs /\ to.state = "RUN" /\ to.ready = ~fails /\ to.w = exc_window
          /\ to.min = AvMax + 1 /\ to.max = 0 /\ to.cur_min = r.min /\ to.cur_max = r.max
          /\ fails => to.err_min = r.min /\ to.err_max = r.max
      <4> HIDE DEF to
      <4>1. /\ to.state = kept.state /\ to.ready = kept.ready /\ to.w = kept.w
            /\ to.min = kept.min /\ to.max = kept.max /\ to.cur_min = kept.cur_min /\ to.cur_max = kept.cur_max
            /\ to.err_min = kept.err_min /\ to.err_max = kept.err_max /\ to \in ExcRegs
        BY <1>2, <3>5, <3>8 DEF ExcRegs
      <4> QED BY <3>8, <4>1
    <3> HIDE DEF to
    <3>10. Judged(to, seen)
      BY <3>2, <3>3, <3>4, <3>9 DEF Judged
    <3>11. to.w + Len(<<>>) = exc_window /\ Extremes(to, <<>>)
      BY <1>4, <3>9 DEF Extremes
    <3>12. ExcKept(to, <<>>, seen)
      BY <1>1, <1>2, <3>9, <3>10, <3>11 DEF ExcKept
    <3> QED BY <3>1, <3>12 DEF to
  <2>4. CASE r.w # 0
    <3>1. new = seen \o Taken(v) /\ judged = last /\ ~fails
      BY <1>5, <1>7, <2>1, <2>4
    <3>2. to = [ExcTake(r, v) EXCEPT !.failing_r = fails, !.failure = rose]
      BY <1>7, <2>1, <2>4 DEF ExcursionTest, fails, rose
    <3>3. CASE v = NoSample
      <4>1. new = seen
        <5>1. v \in Sample
          BY <3>3 DEF Sample
        <5> QED BY <1>1, <3>1, <3>3, <5>1, TakenMoves
      <4>2. to = [r EXCEPT !.failing_r = fails, !.failure = rose]
        BY <3>2, <3>3 DEF ExcTake
      <4> HIDE DEF to
      <4>3. /\ to \in ExcRegs /\ to.state = r.state /\ to.ready = r.ready /\ to.w = r.w
            /\ to.min = r.min /\ to.max = r.max /\ to.cur_min = r.cur_min /\ to.cur_max = r.cur_max
            /\ to.err_min = r.err_min /\ to.err_max = r.err_max
        BY <1>1, <1>2, <4>2 DEF ExcRegs
      <4>4. Judged(to, last) /\ Extremes(to, seen)
        BY <1>3, <2>1, <4>3 DEF Judged, Extremes
      <4>5. ExcKept(to, seen, last)
        BY <1>1, <1>7, <2>1, <4>3, <4>4 DEF ExcKept
      <4> QED BY <3>1, <4>1, <4>5 DEF to
    <3>4. CASE v # NoSample
      <4> DEFINE lo == IF v < r.min THEN v ELSE r.min
                 hi == IF v > r.max THEN v ELSE r.max
                 left == r.w - 1
      <4>1. v \in Nat /\ v <= AvMax
        BY <1>1, <3>4
      <4>2. lo \in Nat /\ hi \in Nat /\ left \in 0..exc_window /\ (lo = v \/ lo = r.min) /\ (hi = v \/ hi = r.max)
            /\ lo <= v /\ v <= hi /\ lo <= r.min /\ r.max <= hi
        <5>1. lo \in Nat /\ (lo = v \/ lo = r.min) /\ lo <= v /\ lo <= r.min
          BY <2>1, <4>1
        <5>2. hi \in Nat /\ (hi = v \/ hi = r.max) /\ v <= hi /\ r.max <= hi
          BY <2>1, <4>1
        <5>3. left \in 0..exc_window
          BY <1>1, <2>1, <2>4
        <5> QED BY <5>1, <5>2, <5>3
      <4>3. to = [[r EXCEPT !.w = left, !.min = lo, !.max = hi] EXCEPT !.failing_r = fails, !.failure = rose]
        BY <1>1, <3>2, <3>4 DEF ExcTake, ExcRegs
      <4>4. Extremes(r, seen) => (seen = <<>> => lo = v /\ hi = v)
        BY <1>1, <4>1 DEF Extremes
      <4>5. left + 1 = r.w
        BY <2>1
      <4> HIDE DEF lo, hi, left, to
      <4>6. /\ to \in ExcRegs /\ to.state = r.state /\ to.ready = r.ready /\ to.w = left
            /\ to.min = lo /\ to.max = hi /\ to.cur_min = r.cur_min /\ to.cur_max = r.cur_max
            /\ to.err_min = r.err_min /\ to.err_max = r.err_max
        <5>1. to \in ExcRegs
          BY <1>1, <1>2, <4>2, <4>3 DEF ExcRegs
        <5>2. /\ to.state = r.state /\ to.ready = r.ready /\ to.w = left
              /\ to.min = lo /\ to.max = hi /\ to.cur_min = r.cur_min /\ to.cur_max = r.cur_max
              /\ to.err_min = r.err_min /\ to.err_max = r.err_max
          BY <1>1, <4>3 DEF ExcRegs
        <5> QED BY <5>1, <5>2
      <4>7. Grown(seen, v, new)
        <5>1. v \in Sample
          BY <4>1 DEF Sample
        <5> QED BY <1>1, <3>1, <3>4, <5>1, TakenMoves
      <4>8. new \in Seq(Nat) /\ Len(new) = Len(seen) + 1 /\ Values(new) = Values(seen) \union {v} /\ new # <<>>
        <5>1. new \in Seq(Nat) /\ Len(new) = Len(seen) + 1
          BY <4>7 DEF Grown
        <5>2. Values(new) = Values(seen) \union {v}
          BY <1>1, <4>7, ValuesMove
        <5>3. new # <<>>
          BY <1>1, <5>1, ValuesMove
        <5> QED BY <5>1, <5>2, <5>3
      <4>9. Extremes(to, new)
        <5>1. CASE seen = <<>>
          <6>1. Values(seen) = {}
            BY <5>1 DEF Values
          <6> QED BY <2>1, <4>1, <4>4, <4>6, <4>8, <5>1, <6>1 DEF Extremes
        <5>2. CASE seen # <<>>
          <6>1. r.min \in Values(seen) /\ r.max \in Values(seen) /\ \A y \in Values(seen) : r.min <= y /\ y <= r.max
            BY <2>1, <5>2 DEF Extremes
          <6>2. lo \in Values(new) /\ hi \in Values(new)
            BY <4>2, <4>8, <6>1
          <6>3. \A y \in Values(new) : lo <= y /\ y <= hi
            BY <2>1, <2>2, <4>1, <4>2, <4>8, <6>1
          <6> QED BY <4>6, <4>8, <6>2, <6>3 DEF Extremes
        <5> QED BY <5>1, <5>2
      <4>10. left + Len(new) = exc_window
        BY <1>1, <2>1, <4>2, <4>5, <4>8
      <4>11. Judged(to, last)
        BY <1>3, <4>6 DEF Judged
      <4>12. ExcKept(to, new, last)
        BY <1>1, <1>7, <4>6, <4>8, <4>9, <4>10, <4>11 DEF ExcKept
      <4> QED BY <3>1, <4>12 DEF to
    <3> QED BY <3>3, <3>4
  <2> QED BY <2>3, <2>4
<1> QED BY <1>1, <1>6, <1>7

(* A run of at least n bits ends at bit p. *)
RunAt(s, p, n) == (\A k \in 1..n : s[p + k - 1] = s[p]) /\ s[p + n] # s[p]

(* The shift register sees a run where its bits are those of the samples. *)
LEMMA RunOfBits ==
  ASSUME HealthAssumption, NEW n \in Run, NEW bits, NEW s, NEW p \in Int,
         \A k \in 1..maxrun + 1 : bits[k] = s[p + k - 1]
  PROVE  RunOf(n, bits) <=> RunAt(s, p, n)
<1>1. maxrun \in Nat /\ n \in 1..maxrun
  BY DEF HealthAssumption, Run
<1>2. 1 \in 1..maxrun + 1 /\ n + 1 \in 1..maxrun + 1 /\ p + 1 - 1 = p /\ p + (n + 1) - 1 = p + n
      /\ \A k \in 1..n : k \in 1..maxrun + 1
  BY <1>1
<1>3. bits[1] = s[p] /\ bits[n + 1] = s[p + n]
  BY <1>2
<1>4. \A k \in 1..n : bits[k] = s[p + k - 1]
  BY <1>2
<1> QED BY <1>3, <1>4 DEF RunOf, RunAt

(* Where the runs ended that a window holds. *)
LEMMA EndedAt ==
  ASSUME HealthAssumption, NEW s \in Seq(Nat), NEW n \in Run
  PROVE  /\ Ended(s, n) = {p \in 1..Len(s) - maxrun - 1 : RunAt(s, p, n)}
         /\ IsFiniteSet(Ended(s, n)) /\ Cardinality(Ended(s, n)) \in Nat
         /\ Len(s) = maxrun + 1 => Cardinality(Ended(s, n)) = 0
<1>1. maxrun \in Nat /\ Len(s) \in Nat /\ Len(s) - maxrun - 1 \in Int /\ 1 \in Int /\ \A j \in 1..Len(s) : s[j] \in Nat
  BY DEF HealthAssumption
<1>2. ASSUME NEW p \in 1..Len(s) - maxrun - 1
      PROVE  RunOf(n, SubSeq(s, p, p + maxrun)) <=> RunAt(s, p, n)
  <2>1. PICK q \in Int : q = p + maxrun
    BY <1>1
  <2>2. p \in Int /\ q - p + 1 = maxrun + 1 /\ \A j \in p..q : s[j] \in Nat
    BY <1>1, <2>1
  <2>3. \A k \in 1..q - p + 1 : SubSeq(s, p, q)[k] = s[p + k - 1]
    BY <2>2, SubSeqProperties
  <2>4. \A k \in 1..maxrun + 1 : SubSeq(s, p, q)[k] = s[p + k - 1]
    BY <2>2, <2>3
  <2>5. RunOf(n, SubSeq(s, p, q)) <=> RunAt(s, p, n)
    BY <2>2, <2>4, RunOfBits
  <2> QED BY <2>1, <2>5, Zenon
<1>3. Ended(s, n) = {p \in 1..Len(s) - maxrun - 1 : RunAt(s, p, n)}
  BY <1>2 DEF Ended
<1>4. IsFiniteSet(Ended(s, n))
  <2>1. IsFiniteSet(1..Len(s) - maxrun - 1)
    BY <1>1, FS_Interval
  <2>2. Ended(s, n) \in SUBSET (1..Len(s) - maxrun - 1)
    BY <1>3
  <2> QED BY <2>1, <2>2, FS_Subset
<1>5. ASSUME Len(s) = maxrun + 1 PROVE Cardinality(Ended(s, n)) = 0
  <2>1. Ended(s, n) = {}
    BY <1>1, <1>3, <1>5
  <2> QED BY <2>1, FS_EmptySet
<1> QED BY <1>3, <1>4, <1>5, FS_CardinalityType

(* A bit that follows the register's last one shows whether a run ended. *)
LEMMA EndedMoves ==
  ASSUME HealthAssumption, NEW s \in Seq(Nat), Len(s) >= maxrun + 1, NEW v, NEW t, Grown(s, v, t), NEW n \in Run
  PROVE  Cardinality(Ended(t, n)) = Cardinality(Ended(s, n)) + IF RunAt(s, Len(s) - maxrun, n) THEN 1 ELSE 0
<1> DEFINE l == Len(s)
           new == l - maxrun
<1>1. /\ maxrun \in Nat /\ l \in Nat /\ new \in Nat /\ new >= 1 /\ new + maxrun = l /\ n \in 1..maxrun
      /\ t \in Seq(Nat) /\ Len(t) = l + 1 /\ \A j \in 1..l : t[j] = s[j]
  <2>1. maxrun \in Nat /\ l \in Nat /\ l >= maxrun + 1 /\ n \in 1..maxrun
    BY DEF HealthAssumption, Run
  <2>2. t \in Seq(Nat) /\ Len(t) = l + 1 /\ \A j \in 1..l : t[j] = s[j]
    BY DEF Grown
  <2> HIDE DEF l
  <2>3. new \in Nat /\ new >= 1 /\ new + maxrun = l
    BY <2>1
  <2> QED BY <2>1, <2>2, <2>3
<1>11. maxrun \in Nat /\ l \in Nat /\ new \in Nat /\ new + maxrun = l /\ n \in 1..maxrun
  BY <1>1
<1>2. /\ Ended(s, n) = {p \in 1..l - maxrun - 1 : RunAt(s, p, n)}
      /\ IsFiniteSet(Ended(s, n)) /\ Cardinality(Ended(s, n)) \in Nat
  BY EndedAt
<1>3. Ended(t, n) = {p \in 1..Len(t) - maxrun - 1 : RunAt(t, p, n)}
  BY <1>1, EndedAt
<1> HIDE DEF l
<1>4. l - maxrun - 1 = new - 1 /\ Len(t) - maxrun - 1 = new
  BY <1>1
<1>5. l = Len(s) /\ new = Len(s) - maxrun
  BY DEF l
<1> HIDE DEF new
<1>6. ASSUME NEW p \in 1..new PROVE RunAt(t, p, n) <=> RunAt(s, p, n)
  <2>1. p \in 1..l /\ p + n \in 1..l /\ \A k \in 1..n : p + k - 1 \in 1..l
    <3>1. maxrun \in Nat /\ l \in Nat /\ new + maxrun = l /\ p \in Nat /\ p >= 1 /\ p <= new /\ new \in Nat
          /\ n \in Nat /\ n <= maxrun /\ n >= 1
      BY <1>11
    <3>2. p <= l /\ p + n >= 1 /\ p + n <= l
      BY <3>1
    <3>3. ASSUME NEW k \in 1..n PROVE p + k - 1 \in 1..l
      BY <3>1, <3>3
    <3> QED BY <3>1, <3>2, <3>3
  <2>2. t[p] = s[p] /\ t[p + n] = s[p + n] /\ \A k \in 1..n : t[p + k - 1] = s[p + k - 1]
    BY <1>1, <2>1
  <2> QED BY <2>2 DEF RunAt
<1>7. Ended(s, n) = {p \in 1..new - 1 : RunAt(s, p, n)} /\ Ended(t, n) = {p \in 1..new : RunAt(t, p, n)}
  BY <1>2, <1>3, <1>4
<1>8. 1..new = (1..new - 1) \union {new} /\ new \notin 1..new - 1 /\ new \in 1..new
  <2>1. new \in Nat /\ new >= 1
    BY <1>1
  <2> QED BY <2>1
<1>9. CASE RunAt(s, new, n)
  <2>1. Ended(t, n) = Ended(s, n) \union {new} /\ new \notin Ended(s, n)
    BY <1>6, <1>7, <1>8, <1>9
  <2>2. Cardinality(Ended(t, n)) = Cardinality(Ended(s, n)) + 1
    BY <1>2, <2>1, FS_AddElement
  <2> QED BY <1>5, <1>9, <2>2
<1>10. CASE ~RunAt(s, new, n)
  <2>1. Ended(t, n) = Ended(s, n)
    BY <1>6, <1>7, <1>8, <1>10
  <2>2. ~RunAt(s, Len(s) - maxrun, n)
    BY <1>5, <1>10, Zenon
  <2>3. Cardinality(Ended(s, n)) + 0 = Cardinality(Ended(s, n))
    BY <1>2
  <2> QED BY <2>1, <2>2, <2>3
<1> QED BY <1>9, <1>10

(* The run counters: the shift register holds the last bits of the window    *)
(* under way; before the first window these are all there are.               *)
RunRegs == [shifter : Seq(Nat), initcount : Nat, ready : BOOLEAN, w : Nat, window_end : BOOLEAN, runcount : [Run -> Nat],
            count : [Run -> Nat], fresh : SUBSET Run, failure : BOOLEAN]

RunKept(r, seen) ==
  /\ r \in RunRegs /\ Len(r.shifter) = maxrun + 1
  /\ seen \in Seq(Nat) /\ Len(seen) >= maxrun + 1
  /\ \A k \in 1..maxrun + 1 : r.shifter[k] = seen[Len(seen) - maxrun + k - 1]
  /\ r.ready => r.initcount = 0
  /\ ~r.ready => Len(seen) = maxrun + 1
  /\ \A n \in Run : r.runcount[n] = Cardinality(Ended(seen, n))

(* A bit enters the shift register at its end. *)
LEMMA Shifts ==
  ASSUME HealthAssumption, NEW bits \in Seq(Nat), Len(bits) = maxrun + 1, NEW v \in Nat
  PROVE  /\ Append(Tail(bits), v) \in Seq(Nat) /\ Len(Append(Tail(bits), v)) = maxrun + 1
         /\ \A k \in 1..maxrun : Append(Tail(bits), v)[k] = bits[k + 1]
         /\ Append(Tail(bits), v)[maxrun + 1] = v
<1>1. maxrun \in Nat /\ bits # <<>>
  BY EmptySeq DEF HealthAssumption
<1>2. PICK rest : rest = Tail(bits)
  OBVIOUS
<1>3. rest \in Seq(Nat) /\ Len(rest) = Len(bits) - 1 /\ \A i \in 1..Len(rest) : rest[i] = bits[i + 1]
  BY <1>1, <1>2, HeadTailProperties
<1>4. Len(rest) = maxrun
  BY <1>1, <1>3
<1>5. /\ Append(rest, v) \in Seq(Nat) /\ Len(Append(rest, v)) = maxrun + 1
      /\ \A i \in 1..maxrun : Append(rest, v)[i] = rest[i]
      /\ Append(rest, v)[maxrun + 1] = v
  BY <1>3, <1>4, AppendProperties
<1> QED BY <1>2, <1>3, <1>4, <1>5

(* What a cycle of the test does to its registers. *)
RunMoved(r, v, clear, to) ==
  /\ to.shifter = IF v = NoSample THEN r.shifter ELSE Append(Tail(r.shifter), v)
  /\ to.initcount = IF ~power THEN maxrun + 1 ELSE IF r.initcount > 0 THEN r.initcount - 1 ELSE 0
  /\ to.ready <=> power /\ r.initcount = 0
  /\ to.runcount = IF ~power THEN [n \in Run |-> 0]
                   ELSE IF r.ready /\ v # NoSample THEN CountRuns(r) ELSE r.runcount
  /\ to.count = IF power /\ r.ready /\ v # NoSample /\ r.w >= runs_window THEN r.runcount ELSE r.count
  /\ to.failure = (~clear /\ (r.failure \/ runs_fail(r)))
  /\ to.w = IF ~power THEN 0 ELSE IF ~(r.ready /\ v # NoSample) THEN r.w
            ELSE IF r.w < runs_window THEN r.w + 1 ELSE 0
  /\ to.window_end = IF ~power THEN FALSE ELSE IF ~(r.ready /\ v # NoSample) THEN r.window_end
                     ELSE ~(r.w < runs_window)

(* And that they stay in their ranges. *)
LEMMA RunMoves ==
  ASSUME HealthAssumption, power \in BOOLEAN, NEW r \in RunRegs, Len(r.shifter) = maxrun + 1,
         NEW v \in Sample, NEW clear \in BOOLEAN, NEW read
  PROVE  MiniRuns(r, v, clear, read) \in RunRegs /\ RunMoved(r, v, clear, MiniRuns(r, v, clear, read))
<1> DEFINE counting == r.ready /\ v # NoSample
           shown == IF power /\ r.ready THEN Snapshot(r, counting, read) ELSE r
           moved == IF power THEN Window(shown, counting) ELSE [shown EXCEPT !.w = 0, !.window_end = FALSE]
           counted == IF ~power THEN [moved EXCEPT !.runcount = [n \in Run |-> 0]]
                      ELSE IF counting THEN [moved EXCEPT !.runcount = CountRuns(r)]
                      ELSE moved
           shifter == IF v = NoSample THEN r.shifter ELSE Append(Tail(r.shifter), v)
           initcount == IF ~power THEN maxrun + 1 ELSE IF r.initcount > 0 THEN r.initcount - 1 ELSE 0
           runcount == IF ~power THEN [n \in Run |-> 0] ELSE IF counting THEN CountRuns(r) ELSE r.runcount
           ready == power /\ r.initcount = 0
           failure == ~clear /\ (r.failure \/ runs_fail(r))
           count == IF power /\ r.ready /\ counting /\ r.w >= runs_window THEN r.runcount ELSE r.count
           w == IF ~power THEN 0 ELSE IF ~counting THEN r.w ELSE IF r.w < runs_window THEN r.w + 1 ELSE 0
           window_end == IF ~power THEN FALSE ELSE IF ~counting THEN r.window_end ELSE ~(r.w < runs_window)
           to == MiniRuns(r, v, clear, read)
<1>1. maxrun \in Nat /\ runs_window \in Nat /\ r.shifter \in Seq(Nat) /\ r.initcount \in Nat /\ r.runcount \in [Run -> Nat]
      /\ r.w \in Nat /\ 0 \in Nat /\ maxrun + 1 \in Nat
  BY DEF HealthAssumption, RunRegs
<1>2. shifter \in Seq(Nat)
  BY <1>1, Shifts DEF Sample
<1>3. initcount \in Nat /\ ready \in BOOLEAN /\ counting \in BOOLEAN
  BY <1>1
<1>4. CountRuns(r) \in [Run -> Nat] /\ [n \in Run |-> 0] \in [Run -> Nat]
  BY <1>1 DEF CountRuns
<1>5. runcount \in [Run -> Nat]
  BY <1>1, <1>4
<1>6. failure \in BOOLEAN
  BY DEF RunRegs
<1> HIDE DEF counting, ready, failure
<1>19. /\ count = (IF power /\ r.ready /\ counting /\ r.w >= runs_window THEN r.runcount ELSE r.count)
       /\ w = (IF ~power THEN 0 ELSE IF ~counting THEN r.w ELSE IF r.w < runs_window THEN r.w + 1 ELSE 0)
       /\ window_end = (IF ~power THEN FALSE ELSE IF ~counting THEN r.window_end ELSE ~(r.w < runs_window))
  OBVIOUS
<1>20. w = (IF ~power THEN 0 ELSE IF ~(r.ready /\ v # NoSample) THEN r.w
            ELSE IF r.w < runs_window THEN r.w + 1 ELSE 0)
       /\ window_end = (IF ~power THEN FALSE ELSE IF ~(r.ready /\ v # NoSample) THEN r.window_end
                        ELSE ~(r.w < runs_window))
       /\ count = (IF power /\ r.ready /\ v # NoSample /\ r.w >= runs_window THEN r.runcount ELSE r.count)
  BY Zenon DEF counting
<1> HIDE DEF count, w, window_end
<1>7. shown \in RunRegs /\ shown.shifter = r.shifter /\ shown.initcount = r.initcount /\ shown.runcount = r.runcount
      /\ shown.failure = r.failure /\ shown.w = r.w /\ shown.window_end = r.window_end /\ shown.count = count
  <2>1. Run \in SUBSET Run /\ r.fresh \ read \in SUBSET Run
    BY DEF RunRegs
  <2>2. CASE power /\ r.ready /\ counting /\ r.w >= runs_window
    <3>1. shown = [r EXCEPT !.count = r.runcount, !.fresh = Run] /\ count = r.runcount
      BY <1>19, <2>2 DEF Snapshot
    <3> HIDE DEF shown
    <3> QED BY <1>1, <2>1, <3>1 DEF RunRegs
  <2>3. CASE power /\ r.ready /\ ~(counting /\ r.w >= runs_window)
    <3>1. shown = [r EXCEPT !.fresh = r.fresh \ read]
      BY <2>3 DEF Snapshot, RunRegs
    <3>2. count = r.count
      BY <1>19, <2>3
    <3> HIDE DEF shown
    <3> QED BY <1>1, <2>1, <3>1, <3>2 DEF RunRegs
  <2>4. CASE ~(power /\ r.ready)
    <3>1. shown = r /\ count = r.count
      BY <1>19, <2>4
    <3> HIDE DEF shown
    <3> QED BY <3>1
  <2> QED BY <2>2, <2>3, <2>4
<1> HIDE DEF shown
<1>8. moved \in RunRegs /\ moved.shifter = r.shifter /\ moved.initcount = r.initcount /\ moved.runcount = r.runcount
      /\ moved.failure = r.failure /\ moved.count = count /\ moved.w = w /\ moved.window_end = window_end
  <2>1. CASE power /\ ~counting
    <3>1. moved = shown /\ w = r.w /\ window_end = r.window_end
      BY <1>19, <2>1 DEF Window
    <3> HIDE DEF moved
    <3> QED BY <1>7, <3>1
  <2>2. CASE power /\ counting /\ shown.w < runs_window
    <3>1. moved = [shown EXCEPT !.w = shown.w + 1, !.window_end = FALSE] /\ shown.w + 1 \in Nat
      BY <1>1, <1>7, <2>2 DEF Window, RunRegs
    <3>2. w = shown.w + 1 /\ window_end = FALSE
      BY <1>7, <1>19, <2>2
    <3> HIDE DEF moved
    <3> QED BY <1>7, <3>1, <3>2 DEF RunRegs
  <2>3. CASE power /\ counting /\ ~(shown.w < runs_window)
    <3>1. moved = [shown EXCEPT !.w = 0, !.window_end = TRUE]
      BY <2>3 DEF Window
    <3>2. w = 0 /\ window_end = TRUE
      BY <1>7, <1>19, <2>3
    <3> HIDE DEF moved
    <3> QED BY <1>7, <3>1, <3>2 DEF RunRegs
  <2>4. CASE ~power
    <3>1. moved = [shown EXCEPT !.w = 0, !.window_end = FALSE]
      BY <2>4
    <3>2. w = 0 /\ window_end = FALSE
      BY <1>19, <2>4
    <3> HIDE DEF moved
    <3> QED BY <1>7, <3>1, <3>2 DEF RunRegs
  <2> QED BY <2>1, <2>2, <2>3, <2>4
<1> HIDE DEF moved
<1>9. counted = [moved EXCEPT !.runcount = runcount]
  <2>1. moved = [moved EXCEPT !.runcount = moved.runcount]
    BY <1>8 DEF RunRegs
  <2>2. CASE power /\ ~counting
    <3>1. counted = moved /\ runcount = moved.runcount
      BY <1>8, <2>2
    <3> QED BY <2>1, <3>1
  <2>3. CASE ~power \/ counting
    BY <2>3
  <2> QED BY <2>2, <2>3
<1>10. to = [counted EXCEPT !.shifter = IF v = NoSample THEN counted.shifter ELSE Append(Tail(counted.shifter), v),
                           !.initcount = IF ~power THEN maxrun + 1 ELSE IF counted.initcount > 0 THEN counted.initcount - 1 ELSE 0,
                           !.ready = power /\ r.initcount = 0,
                           !.failure = ~clear /\ (counted.failure \/ runs_fail(r))]
  <2>1. counted \in RunRegs
    <3> HIDE DEF counted, runcount
    <3> QED BY <1>5, <1>8, <1>9 DEF RunRegs
  <2> QED BY <2>1 DEF MiniRuns, counted, moved, shown, counting, RunRegs
<1>11. runcount = IF ~power THEN [n \in Run |-> 0] ELSE IF r.ready /\ v # NoSample THEN CountRuns(r) ELSE r.runcount
  BY DEF counting
<1> HIDE DEF counted, runcount, to
<1>12. counted \in RunRegs /\ counted.shifter = r.shifter /\ counted.initcount = r.initcount /\ counted.runcount = runcount
       /\ counted.failure = r.failure /\ counted.count = count /\ counted.w = w /\ counted.window_end = window_end
  BY <1>5, <1>8, <1>9 DEF RunRegs
<1>13. to = [counted EXCEPT !.shifter = shifter, !.initcount = initcount, !.ready = ready, !.failure = failure]
  BY <1>10, <1>12 DEF ready, failure
<1>14. ready <=> power /\ r.initcount = 0
  BY DEF ready
<1>15. shifter = (IF v = NoSample THEN r.shifter ELSE Append(Tail(r.shifter), v))
       /\ initcount = (IF ~power THEN maxrun + 1 ELSE IF r.initcount > 0 THEN r.initcount - 1 ELSE 0)
  OBVIOUS
<1> HIDE DEF shifter, initcount
<1>16. /\ to \in RunRegs /\ to.shifter = shifter /\ to.initcount = initcount /\ to.ready = ready /\ to.runcount = runcount
       /\ to.failure = failure /\ to.count = count /\ to.w = w /\ to.window_end = window_end
  <2>1. to \in RunRegs
    BY <1>2, <1>3, <1>6, <1>12, <1>13 DEF RunRegs
  <2>2. to.shifter = shifter /\ to.initcount = initcount /\ to.ready = ready /\ to.runcount = runcount
    BY <1>12, <1>13 DEF RunRegs
  <2>3. to.failure = failure /\ to.count = count /\ to.w = w /\ to.window_end = window_end
    BY <1>12, <1>13 DEF RunRegs
  <2> QED BY <2>1, <2>2, <2>3
<1>18. failure = (~clear /\ (r.failure \/ runs_fail(r)))
  BY DEF failure
<1>21. RunMoved(r, v, clear, to)
  BY <1>11, <1>14, <1>15, <1>16, <1>18, <1>20, Zenon DEF RunMoved
<1> QED BY <1>16, <1>21 DEF to

(* Where a bit of the register is found when another one has arrived. *)
LEMMA Shifted1 ==
  ASSUME NEW l \in Nat, NEW m \in Nat, l >= m + 1, NEW k \in 1..m, NEW e, e = l + 1
  PROVE  l - m + (k + 1) - 1 = e - m + k - 1 /\ e - m + k - 1 \in 1..l
OBVIOUS

(* A cycle of the run test keeps what it knows of its samples. *)
LEMMA RunStep ==
  ASSUME HealthAssumption, power \in BOOLEAN, NEW r, NEW seen, RunKept(r, seen),
         NEW v \in Sample, NEW clear \in BOOLEAN, NEW read, NEW new,
         new = IF power /\ r.ready /\ ~r.window_end THEN seen \o Taken(v)
               ELSE IF power /\ r.ready /\ v = NoSample THEN seen
               ELSE MiniRuns(r, v, clear, read).shifter
  PROVE  RunKept(MiniRuns(r, v, clear, read), new)
<1> DEFINE l == Len(seen)
<1>1. PICK to : to = MiniRuns(r, v, clear, read)
  OBVIOUS
<1>2. /\ r \in RunRegs /\ r.shifter \in Seq(Nat) /\ Len(r.shifter) = maxrun + 1 /\ maxrun \in Nat /\ r.initcount \in Nat
      /\ seen \in Seq(Nat) /\ l \in Nat /\ l >= maxrun + 1 /\ r.window_end \in BOOLEAN /\ r.ready \in BOOLEAN
      /\ \A k \in 1..maxrun + 1 : r.shifter[k] = seen[l - maxrun + k - 1]
      /\ r.ready => r.initcount = 0
      /\ ~r.ready => l = maxrun + 1
      /\ \A n \in Run : r.runcount[n] = Cardinality(Ended(seen, n))
  <2>1. /\ r \in RunRegs /\ Len(r.shifter) = maxrun + 1 /\ seen \in Seq(Nat) /\ l >= maxrun + 1
        /\ \A k \in 1..maxrun + 1 : r.shifter[k] = seen[l - maxrun + k - 1]
        /\ r.ready => r.initcount = 0
        /\ ~r.ready => l = maxrun + 1
        /\ \A n \in Run : r.runcount[n] = Cardinality(Ended(seen, n))
    BY DEF RunKept
  <2>2. r.shifter \in Seq(Nat) /\ r.initcount \in Nat /\ r.window_end \in BOOLEAN /\ r.ready \in BOOLEAN
    BY <2>1 DEF RunRegs
  <2>3. maxrun \in Nat
    BY DEF HealthAssumption
  <2>4. l \in Nat
    BY <2>1
  <2> HIDE DEF l
  <2> QED BY <2>1, <2>2, <2>3, <2>4
<1>12. maxrun \in Nat
  BY DEF HealthAssumption
<1>3. /\ to \in RunRegs
      /\ to.shifter = IF v = NoSample THEN r.shifter ELSE Append(Tail(r.shifter), v)
      /\ to.initcount = IF ~power THEN maxrun + 1 ELSE IF r.initcount > 0 THEN r.initcount - 1 ELSE 0
      /\ to.ready <=> power /\ r.initcount = 0
      /\ to.runcount = IF ~power THEN [n \in Run |-> 0]
                       ELSE IF r.ready /\ v # NoSample THEN CountRuns(r) ELSE r.runcount
  <2>1. to \in RunRegs /\ RunMoved(r, v, clear, to)
    BY <1>1, <1>2, RunMoves
  <2> QED BY <2>1, Zenon DEF RunMoved
<1>4. to.shifter \in Seq(Nat) /\ Len(to.shifter) = maxrun + 1
  BY <1>2, <1>3, Shifts DEF Sample
<1>5. to.ready => to.initcount = 0
  BY <1>2, <1>3
<1>6. ASSUME new = to.shifter, \A n \in Run : to.runcount[n] = 0 PROVE RunKept(to, new)
  <2>1. \A n \in Run : to.runcount[n] = Cardinality(Ended(new, n))
    BY <1>4, <1>6, EndedAt
  <2>2. \A k \in 1..maxrun + 1 : k = Len(new) - maxrun + k - 1
    <3>1. \A e \in Nat : e = maxrun + 1 => \A k \in 1..maxrun + 1 : k = e - maxrun + k - 1
      BY <1>12
    <3>2. Len(new) = maxrun + 1 /\ Len(new) \in Nat
      BY <1>4, <1>6, <1>12
    <3> QED BY <3>1, <3>2, Zenon
  <2>3. Len(new) >= maxrun + 1
    BY <1>4, <1>6, <1>12
  <2> QED BY <1>3, <1>4, <1>5, <1>6, <2>1, <2>2, <2>3 DEF RunKept
<1>7. CASE ~power
  BY <1>1, <1>3, <1>6, <1>7
<1>8. CASE power /\ ~r.ready
  <2>1. \A n \in Run : to.runcount[n] = 0
    BY <1>2, <1>3, <1>8, EndedAt
  <2> QED BY <1>1, <1>6, <1>8, <2>1
<1>9. CASE power /\ r.ready /\ v = NoSample
  <2>1. new = seen
    BY <1>2, <1>9, TakenMoves
  <2>2. to.ready /\ to.shifter = r.shifter /\ to.runcount = r.runcount
    BY <1>2, <1>3, <1>9
  <2>3. RunKept(to, seen)
    BY <1>2, <1>3, <1>5, <2>2 DEF RunKept
  <2> QED BY <2>1, <2>3, <1>1
<1>10. CASE power /\ r.ready /\ v # NoSample /\ r.window_end
  <2>1. \A n \in Run : to.runcount[n] = 0
    BY <1>3, <1>10 DEF CountRuns
  <2> QED BY <1>1, <1>6, <1>10, <2>1
<1>11. CASE power /\ r.ready /\ v # NoSample /\ ~r.window_end
  <2>1. v \in Nat /\ Grown(seen, v, new)
    BY <1>2, <1>11, TakenMoves DEF Sample
  <2>2. to.ready /\ to.shifter = Append(Tail(r.shifter), v)
        /\ \A n \in Run : to.runcount[n] = IF RunOf(n, r.shifter) THEN r.runcount[n] + 1 ELSE r.runcount[n]
    BY <1>2, <1>3, <1>11 DEF CountRuns
  <2>3. new \in Seq(Nat) /\ Len(new) = l + 1 /\ new[l + 1] = v /\ \A j \in 1..l : new[j] = seen[j]
    BY <2>1 DEF Grown
  <2>8. /\ \A k \in 1..maxrun : Append(Tail(r.shifter), v)[k] = r.shifter[k + 1]
        /\ Append(Tail(r.shifter), v)[maxrun + 1] = v
    BY <1>2, <2>1, Shifts
  <2>4. ASSUME NEW k \in 1..maxrun + 1 PROVE to.shifter[k] = new[Len(new) - maxrun + k - 1]
    <3>1. CASE k = maxrun + 1
      <4>1. Len(new) - maxrun + k - 1 = l + 1
        BY <1>2, <2>3, <3>1
      <4>2. to.shifter[k] = v
        BY <2>2, <2>8, <3>1, Zenon
      <4> QED BY <2>3, <4>1, <4>2
    <3>2. CASE k # maxrun + 1
      <4>1. k \in 1..maxrun /\ k + 1 \in 1..maxrun + 1
        <5>1. maxrun \in Nat
          BY <1>2
        <5> QED BY <3>2, <5>1
      <4>2. to.shifter[k] = r.shifter[k + 1]
        BY <2>2, <2>8, <4>1, Zenon
      <4>3. r.shifter[k + 1] = seen[l - maxrun + (k + 1) - 1]
        BY <1>2, <4>1
      <4>4. l - maxrun + (k + 1) - 1 = Len(new) - maxrun + k - 1 /\ Len(new) - maxrun + k - 1 \in 1..l
        BY <1>2, <2>3, <4>1, Shifted1
      <4> QED BY <2>3, <4>2, <4>3, <4>4
    <3> QED BY <3>1, <3>2
  <2>5. ASSUME NEW n \in Run PROVE to.runcount[n] = Cardinality(Ended(new, n))
    <3>1. Cardinality(Ended(new, n)) = Cardinality(Ended(seen, n)) + IF RunAt(seen, l - maxrun, n) THEN 1 ELSE 0
      BY <1>2, <2>1, EndedMoves
    <3>2. l - maxrun \in Int
      BY <1>2
    <3>3. RunOf(n, r.shifter) <=> RunAt(seen, l - maxrun, n)
      BY <1>2, <3>2, RunOfBits
    <3>4. r.runcount[n] = Cardinality(Ended(seen, n)) /\ Cardinality(Ended(seen, n)) \in Nat
      BY <1>2, EndedAt
    <3> QED BY <2>2, <3>1, <3>3, <3>4
  <2>6. Len(new) >= maxrun + 1
    BY <1>2, <2>3
  <2>7. RunKept(to, new)
    BY <1>3, <1>4, <1>5, <2>2, <2>3, <2>4, <2>5, <2>6 DEF RunKept
  <2> QED BY <2>7, <1>1
<1> QED BY <1>1, <1>2, <1>7, <1>8, <1>9, <1>10, <1>11

(* What is on show was counted among the bits of a whole window, but for those *)
(* at its ends, and the verdict follows from it.                              *)
ShownKept(r, seen, shown, flagged) ==
  /\ r.w <= runs_window
  /\ ~r.ready \/ r.window_end => r.w = 0
  /\ ~r.ready => ~r.window_end
  /\ ~r.window_end => Len(seen) = maxrun + 1 + r.w \/ Len(seen) = maxrun + r.w
  /\ shown \in Seq(Nat)
  /\ \A n \in Run : r.count[n] = Cardinality(Ended(shown, n))
  /\ shown # <<>> => Len(shown) = maxrun + 1 + runs_window \/ Len(shown) = maxrun + runs_window
  /\ r.failure <=> flagged

(* What has been seen, shown and found bad is new, on and bad a cycle later. *)
ShownMoved(r, to, v, clear, seen, shown, flagged, new, on, bad) ==
  /\ new = IF power /\ r.ready /\ ~r.window_end THEN seen \o Taken(v)
           ELSE IF power /\ r.ready /\ v = NoSample THEN seen
           ELSE to.shifter
  /\ on = IF power /\ r.ready /\ v # NoSample /\ r.w >= runs_window THEN seen ELSE shown
  /\ bad <=> ~clear /\ (flagged \/ (r.fresh # {} /\ OutOfBounds(shown)))

(* The bits of a window, with one more. *)
LEMMA OneMore ==
  ASSUME NEW m \in Nat, NEW w \in Nat, NEW window \in Nat, w < window, NEW l \in Nat, l = m + 1 + w \/ l = m + w
  PROVE  w + 1 <= window /\ (l + 1 = m + 1 + (w + 1) \/ l + 1 = m + (w + 1))
OBVIOUS

(* The next window is shown when it is complete. *)
LEMMA ShownStep ==
  ASSUME HealthAssumption, power \in BOOLEAN, NEW r, NEW seen, RunKept(r, seen),
         NEW shown, NEW flagged, ShownKept(r, seen, shown, flagged),
         NEW v \in Sample, NEW clear \in BOOLEAN, NEW read, NEW new, NEW on, NEW bad,
         ShownMoved(r, MiniRuns(r, v, clear, read), v, clear, seen, shown, flagged, new, on, bad)
  PROVE  ShownKept(MiniRuns(r, v, clear, read), new, on, bad)
<1>0. /\ new = IF power /\ r.ready /\ ~r.window_end THEN seen \o Taken(v)
               ELSE IF power /\ r.ready /\ v = NoSample THEN seen
               ELSE MiniRuns(r, v, clear, read).shifter
      /\ on = IF power /\ r.ready /\ v # NoSample /\ r.w >= runs_window THEN seen ELSE shown
      /\ bad <=> ~clear /\ (flagged \/ (r.fresh # {} /\ OutOfBounds(shown)))
  BY Zenon DEF ShownMoved
<1>1. PICK to : to = MiniRuns(r, v, clear, read)
  OBVIOUS
<1>2. /\ r \in RunRegs /\ Len(r.shifter) = maxrun + 1 /\ seen \in Seq(Nat) /\ Len(seen) \in Nat
      /\ r.w \in Nat /\ r.window_end \in BOOLEAN /\ r.ready \in BOOLEAN /\ r.failure \in BOOLEAN
      /\ r.ready => r.initcount = 0
      /\ \A n \in Run : r.runcount[n] = Cardinality(Ended(seen, n))
  BY DEF RunKept, RunRegs
<1>3. maxrun \in Nat /\ runs_window \in Nat /\ runs_window >= 1
  BY DEF HealthAssumption
<1>4. /\ to.shifter = IF v = NoSample THEN r.shifter ELSE Append(Tail(r.shifter), v)
      /\ to.ready <=> power /\ r.initcount = 0
      /\ to.count = IF power /\ r.ready /\ v # NoSample /\ r.w >= runs_window THEN r.runcount ELSE r.count
      /\ to.failure = (~clear /\ (r.failure \/ runs_fail(r)))
      /\ to.w = IF ~power THEN 0 ELSE IF ~(r.ready /\ v # NoSample) THEN r.w
                ELSE IF r.w < runs_window THEN r.w + 1 ELSE 0
      /\ to.window_end = IF ~power THEN FALSE ELSE IF ~(r.ready /\ v # NoSample) THEN r.window_end
                         ELSE ~(r.w < runs_window)
  <2>1. RunMoved(r, v, clear, to)
    BY <1>1, <1>2, RunMoves
  <2> QED BY <2>1, Zenon DEF RunMoved
<1>5. Len(to.shifter) = maxrun + 1
  <2>1. r.shifter \in Seq(Nat)
    BY <1>2 DEF RunRegs
  <2> QED BY <1>2, <1>4, <2>1, Shifts DEF Sample
<1>6. to.failure <=> bad
  <2>1. runs_fail(r) <=> r.fresh # {} /\ OutOfBounds(shown)
    BY Zenon DEF runs_fail, OutOfBounds, ShownKept
  <2> QED BY <1>0, <1>4, <2>1, Zenon DEF ShownKept
<1>7. on \in Seq(Nat) /\ \A n \in Run : to.count[n] = Cardinality(Ended(on, n))
  BY <1>0, <1>2, <1>4, Zenon DEF ShownKept
<1>8. /\ r.w <= runs_window
      /\ ~r.ready \/ r.window_end => r.w = 0
      /\ ~r.ready => ~r.window_end
      /\ ~r.window_end => Len(seen) = maxrun + 1 + r.w \/ Len(seen) = maxrun + r.w
      /\ shown # <<>> => Len(shown) = maxrun + 1 + runs_window \/ Len(shown) = maxrun + runs_window
  BY DEF ShownKept
<1>9. on # <<>> => Len(on) = maxrun + 1 + runs_window \/ Len(on) = maxrun + runs_window
  <2>1. CASE power /\ r.ready /\ v # NoSample /\ r.w >= runs_window
    <3>1. on = seen /\ r.w = runs_window /\ ~r.window_end
      BY <1>0, <1>2, <1>3, <1>8, <2>1
    <3> QED BY <1>8, <3>1
  <2>2. CASE ~(power /\ r.ready /\ v # NoSample /\ r.w >= runs_window)
    <3>1. on = shown
      BY <1>0, <2>2, Zenon
    <3> QED BY <1>8, <3>1
  <2> QED BY <2>1, <2>2
<1>10. ASSUME /\ to.w <= runs_window
              /\ ~to.ready \/ to.window_end => to.w = 0
              /\ ~to.ready => ~to.window_end
              /\ ~to.window_end => Len(new) = maxrun + 1 + to.w \/ Len(new) = maxrun + to.w
       PROVE ShownKept(to, new, on, bad)
  BY <1>6, <1>7, <1>9, <1>10, Zenon DEF ShownKept
<1>11. CASE ~power \/ ~r.ready
  <2>1. to.w = 0 /\ to.window_end = FALSE
    BY <1>2, <1>4, <1>8, <1>11
  <2>2. new = to.shifter
    BY <1>0, <1>1, <1>11
  <2>3. Len(new) = maxrun + 1 + to.w /\ to.w <= runs_window
    BY <1>3, <1>5, <2>1, <2>2
  <2> QED BY <1>1, <1>10, <2>1, <2>3
<1>13. CASE power /\ r.ready /\ v = NoSample
  <2>1. new = seen
    BY <1>0, <1>2, <1>13, TakenMoves
  <2>2. to.w = r.w /\ to.window_end = r.window_end /\ to.ready
    BY <1>2, <1>4, <1>13
  <2> QED BY <1>1, <1>8, <1>10, <1>13, <2>1, <2>2
<1>14. CASE power /\ r.ready /\ v # NoSample /\ r.window_end
  <2>1. new = to.shifter
    BY <1>0, <1>1, <1>14
  <2>2. r.w < runs_window /\ r.w + 1 = 1
    BY <1>3, <1>8, <1>14
  <2>3. to.w = 1 /\ to.window_end = FALSE /\ to.ready
    BY <1>2, <1>4, <1>14, <2>2
  <2>4. Len(new) = maxrun + to.w /\ to.w <= runs_window
    BY <1>3, <1>5, <2>1, <2>3
  <2> QED BY <1>1, <1>10, <2>3, <2>4
<1>15. CASE power /\ r.ready /\ v # NoSample /\ ~r.window_end
  <2>1. Len(new) = Len(seen) + 1 /\ to.ready
    <3>1. new = seen \o Taken(v)
      BY <1>0, <1>15
    <3> QED BY <1>2, <1>4, <1>15, <3>1, TakenMoves DEF Grown
  <2>2. CASE r.w < runs_window
    <3>1. to.w = r.w + 1 /\ to.window_end = FALSE
      BY <1>4, <1>15, <2>2
    <3>2. Len(seen) = maxrun + 1 + r.w \/ Len(seen) = maxrun + r.w
      BY <1>8, <1>15
    <3>3. PICK l \in Nat, w \in Nat : l = Len(seen) /\ w = r.w
      BY <1>2
    <3>4. w < runs_window /\ (l = maxrun + 1 + w \/ l = maxrun + w)
      BY <2>2, <3>2, <3>3, Zenon
    <3>5. w + 1 <= runs_window /\ (l + 1 = maxrun + 1 + (w + 1) \/ l + 1 = maxrun + (w + 1))
      BY <1>3, <3>4, OneMore
    <3>6. to.w = w + 1 /\ Len(new) = l + 1
      BY <2>1, <3>1, <3>3, Zenon
    <3>7. to.w <= runs_window /\ (Len(new) = maxrun + 1 + to.w \/ Len(new) = maxrun + to.w)
      BY <3>5, <3>6, Zenon
    <3> QED BY <1>1, <1>10, <2>1, <3>1, <3>7
  <2>3. CASE ~(r.w < runs_window)
    <3>1. to.w = 0 /\ to.window_end = TRUE
      BY <1>4, <1>15, <2>3, Zenon
    <3>2. to.w <= runs_window
      BY <1>3, <3>1
    <3> QED BY <1>1, <1>10, <2>1, <3>1, <3>2
  <2> QED BY <2>2, <2>3
<1> QED BY <1>2, <1>11, <1>13, <1>14, <1>15

(* What a behaviour of a source keeps: of the tests it has, and that no sample *)
(* arrives in the cycle in which a window of the proportion test ends.        *)
HealthInv ==
  /\ source \in Source /\ quiet \in BOOLEAN /\ power \in BOOLEAN
  /\ RepKept(rep[source], rep_seen, rep_due)
  /\ AdpKept(adp[source], adp_seen, adp_due)
  /\ WindowEnds(adp[source]) => ~quiet
  /\ source \in Av => ExcKept(exc[source], exc_seen, exc_last)
  /\ source \in Ro => /\ RunKept(run[source], run_seen)
                      /\ ShownKept(run[source], run_seen, run_shown, run_flagged)

(* Nothing has been seen of a source at the start. *)
LEMMA HealthStarts == ASSUME HealthAssumption, HealthInit PROVE HealthInv
<1>1. /\ source \in Source /\ quiet = TRUE /\ power = FALSE
      /\ rep_seen = <<>> /\ adp_seen = <<>> /\ rep_due = <<>> /\ adp_due = <<>> /\ exc_seen = <<>> /\ exc_last = <<>>
      /\ rep[source] = [state |-> "START", a |-> 0, b |-> 0, top |-> 0, failure |-> FALSE]
      /\ adp[source] = [state |-> "START", a |-> 0, b |-> 0, w |-> 0, shown |-> 0, failure |-> FALSE,
                        ready |-> FALSE, b_fresh |-> FALSE]
  BY DEF HealthInit
<1>2. PICK e \in Seq(Nat) : e = <<>> /\ Len(e) = 0 /\ ~Disproportionate(e) /\ Len(e) % window_max = 0
  <2>1. Len(<<>>) = 0
    OBVIOUS
  <2>2. <<>> \in Seq(Nat)
    OBVIOUS
  <2>3. ~Disproportionate(<<>>) /\ Len(<<>>) % window_max = 0
    BY NoneSeen
  <2> QED BY <2>1, <2>2, <2>3, Zenon
<1>3. ~Repeated(e)
  <2>1. rep_cutoff \in Nat /\ Len(e) <= rep_cutoff
    BY <1>2 DEF HealthAssumption
  <2> QED BY <2>1, NoneRepeated
<1>4. RepKept(rep[source], rep_seen, rep_due)
  <2>1. rep[source] \in RepRegs /\ rep[source].state = "START" /\ rep[source].failure = FALSE
    BY <1>1 DEF RepRegs, HealthAssumption
  <2>2. RepKept(rep[source], e, e)
    BY <1>2, <1>3, <2>1 DEF RepKept
  <2> QED BY <1>1, <1>2, <2>2, Zenon
<1>5. AdpKept(adp[source], adp_seen, adp_due) /\ ~WindowEnds(adp[source])
  <2>1. 0 \in 0..window_max - 1
    BY DEF HealthAssumption
  <2>2. adp[source] \in AdpRegs /\ adp[source].state = "START" /\ adp[source].failure = FALSE
    BY <1>1, <2>1 DEF AdpRegs
  <2>3. AdpKept(adp[source], e, e) /\ ~WindowEnds(adp[source])
    BY <1>2, <2>2 DEF AdpKept, WindowEnds
  <2> QED BY <1>1, <1>2, <2>3, Zenon
<1>6. ASSUME source \in Av PROVE ExcKept(exc[source], exc_seen, exc_last)
  <2>1. exc[source] = [state |-> "OFF", w |-> 0, min |-> AvMax + 1, max |-> 0, cur_min |-> 0, cur_max |-> 0,
                       err_min |-> 0, err_max |-> 0, ready |-> FALSE, failing_r |-> FALSE, failure |-> FALSE]
    BY <1>6 DEF HealthInit
  <2>2. AvMax + 1 \in Nat /\ 0 \in 0..exc_window /\ 0 \in Nat
    BY DEF HealthAssumption
  <2>3. exc[source] \in ExcRegs /\ exc[source].state = "OFF" /\ exc[source].ready = FALSE
    BY <2>1, <2>2 DEF ExcRegs
  <2>4. ExcKept(exc[source], e, e)
    BY <1>2, <2>3 DEF ExcKept, Judged
  <2> QED BY <1>1, <1>2, <2>4, Zenon
<1>7. ASSUME source \in Ro
      PROVE RunKept(run[source], run_seen) /\ ShownKept(run[source], run_seen, run_shown, run_flagged)
  <2> DEFINE zeros == [k \in 1..maxrun + 1 |-> 0]
  <2>1. maxrun + 1 \in Nat /\ maxrun \in Nat
    BY DEF HealthAssumption
  <2>2. zeros \in Seq(Nat) /\ Len(zeros) = maxrun + 1
    BY <2>1, IsASeq
  <2>3. run_seen = zeros
        /\ run[source] = [shifter |-> zeros, initcount |-> 0, ready |-> FALSE, w |-> 0,
                          window_end |-> FALSE, runcount |-> [n \in Run |-> 0], count |-> [n \in Run |-> 0],
                          fresh |-> {}, failure |-> FALSE]
    BY <1>7 DEF HealthInit
  <2> HIDE DEF zeros
  <2>4. [n \in Run |-> 0] \in [Run -> Nat]
    OBVIOUS
  <2>5. run[source] \in RunRegs /\ run[source].shifter = zeros /\ run[source].ready = FALSE
        /\ run[source].runcount = [n \in Run |-> 0] /\ run[source].initcount = 0
    BY <2>2, <2>3, <2>4 DEF RunRegs
  <2>6. \A n \in Run : run[source].runcount[n] = Cardinality(Ended(zeros, n))
    BY <2>2, <2>5, EndedAt
  <2>7. \A k \in 1..maxrun + 1 : k = Len(zeros) - maxrun + k - 1
    <3>1. \A l \in Nat : l = maxrun + 1 => \A k \in 1..maxrun + 1 : k = l - maxrun + k - 1
      BY <2>1
    <3> QED BY <2>1, <2>2, <3>1, Zenon
  <2>8. Len(zeros) >= maxrun + 1
    BY <2>1, <2>2
  <2>9. RunKept(run[source], run_seen)
    BY <2>2, <2>3, <2>5, <2>6, <2>7, <2>8 DEF RunKept
  <2>10. /\ run[source].w = 0 /\ run[source].window_end = FALSE /\ run[source].failure = FALSE
         /\ run[source].count = [n \in Run |-> 0]
         /\ run_shown = e /\ run_flagged = FALSE
    BY <1>2, <1>7, <2>3 DEF HealthInit
  <2>11. ASSUME NEW n \in Run PROVE run[source].count[n] = Cardinality(Ended(e, n))
    <3>1. 1..Len(e) - maxrun - 1 = {}
      BY <1>2, <2>1
    <3>2. Ended(e, n) = {}
      BY <1>2, <3>1, EndedAt
    <3> QED BY <2>10, <3>2, FS_EmptySet
  <2>12. 0 <= runs_window
    BY DEF HealthAssumption
  <2>13. ShownKept(run[source], run_seen, run_shown, run_flagged)
    BY <1>2, <2>1, <2>2, <2>3, <2>5, <2>10, <2>11, <2>12 DEF ShownKept
  <2> QED BY <2>9, <2>13
<1> QED BY <1>1, <1>4, <1>5, <1>6, <1>7 DEF HealthInv

(* Every cycle keeps it, one test after the other. *)
LEMMA HealthMoves == ASSUME HealthAssumption, HealthInv, HealthNext PROVE HealthInv'
<1>0. PICK v \in {NoSample} \union 0..Largest(source), access \in Accesses :
        \E read \in Reads(access) : HealthCycle(v, access, read)
  BY DEF HealthNext
<1>1. PICK read : /\ v # NoSample => quiet
                  /\ Tests(v, access, read)
                  /\ Seen(v, access) /\ SeenAvalanche(v, access) /\ SeenRing(v, access)
                  /\ quiet' = (v = NoSample)
                  /\ power' = (power # (access = "power"))
                  /\ source' = source
  BY <1>0, Zenon DEF HealthCycle
<1> DEFINE clear == access = "clr_err"
<1>2. source \in Source /\ quiet \in BOOLEAN /\ power \in BOOLEAN /\ v \in Sample /\ clear \in BOOLEAN
      /\ quiet' \in BOOLEAN /\ power' \in BOOLEAN /\ source' = source
  BY <1>0, <1>1 DEF HealthInv, Sample, NoSample
<1>3. RepKept(rep[source], rep_seen, rep_due)'
  <2>1. RepKept(rep[source], rep_seen, rep_due)
    BY DEF HealthInv
  <2>2. rep'[source] = RepCountTest(rep[source], v, clear)
    BY <1>1, <1>2 DEF Tests
  <2>3. /\ rep_seen' = IF rep[source].state = "START" THEN Taken(v) ELSE IF clear THEN <<>> ELSE rep_seen \o Taken(v)
        /\ rep_due' = IF clear THEN <<>> ELSE rep_seen
    BY <1>1 DEF Seen
  <2>4. RepKept(rep'[source], rep_seen', rep_due')
    <3>1. PICK r, seen, due, new : r = rep[source] /\ seen = rep_seen /\ due = rep_due /\ new = rep_seen'
      OBVIOUS
    <3>2. RepKept(RepCountTest(r, v, clear), new, IF clear THEN <<>> ELSE seen)
      BY <1>2, <2>1, <2>3, <3>1, RepStep
    <3> QED BY <2>2, <2>3, <3>1, <3>2
  <2> QED BY <1>2, <2>4
<1>4. AdpKept(adp[source], adp_seen, adp_due)' /\ (WindowEnds(adp[source]) => ~quiet)'
  <2>1. AdpKept(adp[source], adp_seen, adp_due) /\ (WindowEnds(adp[source]) => v = NoSample)
    BY <1>1 DEF HealthInv
  <2>2. adp'[source] = AdaptivePropTest(adp[source], v, clear, power, access = "stat")
    BY <1>1, <1>2 DEF Tests
  <2>3. /\ adp_seen' = IF adp[source].state = "START" /\ (~power \/ clear) THEN Taken(v)
                       ELSE IF clear THEN <<>> ELSE adp_seen \o Taken(v)
        /\ adp_due' = IF clear \/ (adp[source].state = "START" /\ ~power) THEN <<>> ELSE adp_seen
    BY <1>1 DEF Seen
  <2>4. (access = "stat") \in BOOLEAN
    OBVIOUS
  <2>5. AdpKept(adp'[source], adp_seen', adp_due') /\ (WindowEnds(adp'[source]) => v # NoSample)
    <3>1. PICK r, seen, due, new, old : r = adp[source] /\ seen = adp_seen /\ due = adp_due
                                        /\ new = adp_seen' /\ old = adp_due'
      OBVIOUS
    <3>2. PICK on \in BOOLEAN, b_read \in BOOLEAN : on = power /\ b_read = (access = "stat")
      BY <1>2, <2>4
    <3>3. /\ AdpKept(r, seen, due) /\ (WindowEnds(r) => v = NoSample)
          /\ new = IF r.state = "START" /\ (~on \/ clear) THEN Taken(v) ELSE IF clear THEN <<>> ELSE seen \o Taken(v)
          /\ old = IF clear \/ (r.state = "START" /\ ~on) THEN <<>> ELSE seen
      <4>1. AdpKept(r, seen, due) /\ (WindowEnds(r) => v = NoSample)
        BY <2>1, <3>1
      <4>2. new = IF r.state = "START" /\ (~on \/ clear) THEN Taken(v) ELSE IF clear THEN <<>> ELSE seen \o Taken(v)
        BY <2>3, <3>1, <3>2
      <4>3. old = IF clear \/ (r.state = "START" /\ ~on) THEN <<>> ELSE seen
        BY <2>3, <3>1, <3>2
      <4> QED BY <4>1, <4>2, <4>3
    <3>4. /\ AdpKept(AdaptivePropTest(r, v, clear, on, b_read), new, old)
          /\ WindowEnds(AdaptivePropTest(r, v, clear, on, b_read)) => v # NoSample
      BY <1>2, <3>3, AdpStep, ZenonT(60)
    <3>5. adp'[source] = AdaptivePropTest(r, v, clear, on, b_read)
      BY <2>2, <3>1, <3>2
    <3> QED BY <3>1, <3>4, <3>5
  <2>6. v # NoSample => ~quiet'
    BY <1>1
  <2> QED BY <1>2, <2>5, <2>6
<1>5. (source \in Av => ExcKept(exc[source], exc_seen, exc_last))'
  <2>1. SUFFICES ASSUME source \in Av PROVE ExcKept(exc'[source], exc_seen', exc_last')
    BY <1>2
  <2>2. ExcKept(exc[source], exc_seen, exc_last)
    BY <2>1 DEF HealthInv
  <2>3. exc'[source] = ExcursionTest(exc[source], v, access = "reset")
    BY <1>1, <2>1 DEF Tests
  <2> DEFINE reset == access = "reset"
  <2>4. IF ExcDue(exc[source], reset) THEN exc_last' = exc_seen /\ exc_seen' = <<>>
        ELSE IF exc[source].state = "RUN" /\ power /\ ~reset THEN exc_seen' = exc_seen \o Taken(v) /\ exc_last' = exc_last
        ELSE exc_seen' = <<>> /\ exc_last' = <<>>
    BY <1>1, <2>1 DEF SeenAvalanche
  <2>5. v \in {NoSample} \union 0..AvMax /\ reset \in BOOLEAN
    BY <1>0, <2>1 DEF Largest
  <2>6. PICK r, seen, last, new, judged : r = exc[source] /\ seen = exc_seen /\ last = exc_last
                                         /\ new = exc_seen' /\ judged = exc_last'
    OBVIOUS
  <2>7. ExcKept(r, seen, last)
    BY <2>2, <2>6
  <2>8. IF ExcDue(r, reset) THEN judged = seen /\ new = <<>>
        ELSE IF r.state = "RUN" /\ power /\ ~reset THEN new = seen \o Taken(v) /\ judged = last
        ELSE new = <<>> /\ judged = <<>>
    BY <2>4, <2>6
  <2> HIDE DEF reset
  <2>9. ExcKept(ExcursionTest(r, v, reset), new, judged)
    BY <1>2, <2>5, <2>7, <2>8, ExcStep
  <2> QED BY <2>3, <2>6, <2>9 DEF reset
<1>6. (source \in Ro => /\ RunKept(run[source], run_seen)
                        /\ ShownKept(run[source], run_seen, run_shown, run_flagged))'
  <2>1. SUFFICES ASSUME source \in Ro
                 PROVE  /\ RunKept(run'[source], run_seen')
                        /\ ShownKept(run'[source], run_seen', run_shown', run_flagged')
    BY <1>2
  <2>2. RunKept(run[source], run_seen) /\ ShownKept(run[source], run_seen, run_shown, run_flagged)
    BY <2>1 DEF HealthInv
  <2>3. run'[source] = MiniRuns(run[source], v, clear, read)
    BY <1>1, <2>1 DEF Tests
  <2>4. /\ run_seen' = IF power /\ run[source].ready /\ ~run[source].window_end THEN run_seen \o Taken(v)
                       ELSE IF power /\ run[source].ready /\ v = NoSample THEN run_seen
                       ELSE run'[source].shifter
        /\ run_shown' = IF power /\ run[source].ready /\ v # NoSample /\ run[source].w >= runs_window
                        THEN run_seen ELSE run_shown
        /\ run_flagged' = (~clear /\ (run_flagged \/ (run[source].fresh # {} /\ OutOfBounds(run_shown))))
    BY <1>1, <2>1, Zenon DEF SeenRing
  <2>5. PICK r, seen, new, shown, on, flagged, bad :
          /\ r = run[source] /\ seen = run_seen /\ new = run_seen'
          /\ shown = run_shown /\ on = run_shown' /\ flagged = run_flagged /\ bad = run_flagged'
    OBVIOUS
  <2>6. /\ RunKept(r, seen) /\ ShownKept(r, seen, shown, flagged)
        /\ new = IF power /\ r.ready /\ ~r.window_end THEN seen \o Taken(v)
                 ELSE IF power /\ r.ready /\ v = NoSample THEN seen
                 ELSE MiniRuns(r, v, clear, read).shifter
        /\ ShownMoved(r, MiniRuns(r, v, clear, read), v, clear, seen, shown, flagged, new, on, bad)
    BY <2>2, <2>3, <2>4, <2>5, Zenon DEF ShownMoved
  <2> HIDE DEF clear
  <2>7. RunKept(MiniRuns(r, v, clear, read), new)
    BY <1>2, <2>6, RunStep
  <2>8. ShownKept(MiniRuns(r, v, clear, read), new, on, bad)
    BY <1>2, <2>6, ShownStep
  <2> QED BY <2>3, <2>5, <2>7, <2>8
<1> QED BY <1>2, <1>3, <1>4, <1>5, <1>6 DEF HealthInv

(* The count of matches is that of the documented test with a cutoff one      *)
(* larger, which counts the first sample too.                                 *)
LEMMA MatchesCounted ==
  ASSUME HealthAssumption, NEW s \in Seq(Nat), NEW i \in 1..Len(s), NEW judged, judged = window_max - 1
  PROVE  Cardinality({j \in i..i + judged - 1 : j <= Len(s) /\ s[j] = s[i]}) >= adp_cutoff + 1
           <=> Cardinality(Matches(s, i)) >= adp_cutoff
<1> DEFINE all == {j \in i..i + judged - 1 : j <= Len(s) /\ s[j] = s[i]}
<1>1. /\ adp_cutoff \in Nat /\ window_max \in Nat /\ window_max >= 2 /\ i \in Nat /\ i <= Len(s) /\ Len(s) \in Nat
      /\ i + judged - 1 = i + window_max - 2
  BY DEF HealthAssumption
<1>2. all = Matches(s, i) \union {i} /\ i \notin Matches(s, i)
  <2>1. \A j \in Int : j \in i..i + window_max - 2 <=> j = i \/ j \in i + 1..i + window_max - 2
    BY <1>1
  <2>2. i \notin i + 1..i + window_max - 2
    BY <1>1
  <2> QED BY <1>1, <2>1, <2>2 DEF Matches
<1>3. IsFiniteSet(Matches(s, i)) /\ Cardinality(Matches(s, i)) \in Nat
  <2>1. IsFiniteSet(i + 1..i + window_max - 2)
    BY <1>1, FS_Interval
  <2>2. Matches(s, i) \in SUBSET (i + 1..i + window_max - 2)
    BY DEF Matches
  <2> QED BY <2>1, <2>2, FS_Subset, FS_CardinalityType
<1> HIDE DEF all
<1>4. Cardinality(all) = Cardinality(Matches(s, i)) + 1
  BY <1>2, <1>3, FS_AddElement
<1>5. Cardinality(all) >= adp_cutoff + 1 <=> Cardinality(Matches(s, i)) >= adp_cutoff
  BY <1>1, <1>3, <1>4
<1> QED BY <1>5 DEF all

(* What is disproportionate is so for the documented test, too. *)
LEMMA ProportionsTest ==
  ASSUME HealthAssumption, NEW s \in Seq(Nat)
  PROVE  ProportionTest(s, adp_cutoff + 1, window_max - 1) <=> Disproportionate(s)
<1>1. PICK judged : judged = window_max - 1
  OBVIOUS
<1>2. \A i \in 1..Len(s) :
        Cardinality({j \in i..i + judged - 1 : j <= Len(s) /\ s[j] = s[i]}) >= adp_cutoff + 1
          <=> Cardinality(Matches(s, i)) >= adp_cutoff
  BY <1>1, MatchesCounted
<1> QED BY <1>1, <1>2, Zenon DEF ProportionTest, Disproportionate

(* What the tests report is what they have seen. *)
LEMMA HealthReported == ASSUME HealthAssumption, HealthInv PROVE NistTestsExact /\ WindowsJudged
<1>1. NistTestsExact
  <2>1. /\ rep_due \in Seq(Nat) /\ (rep[source].failure <=> Repeated(rep_due))
        /\ adp_due \in Seq(Nat) /\ (adp[source].failure <=> Disproportionate(adp_due))
    BY DEF HealthInv, RepKept, AdpKept
  <2> QED BY <2>1, RepeatedTest, ProportionsTest, Zenon DEF NistTestsExact
<1>2. ExcursionJudged
  BY DEF HealthInv, ExcKept, Judged, ExcursionJudged
<1>3. RunsJudged
  <2> SUFFICES ASSUME source \in Ro
               PROVE  /\ \A n \in Run : /\ run[source].runcount[n] = Cardinality(Ended(run_seen, n))
                                        /\ run[source].count[n] = Cardinality(Ended(run_shown, n))
                      /\ run_shown # <<>> => Len(run_shown) - maxrun - 1 \in {runs_window - 1, runs_window}
                      /\ run[source].failure <=> run_flagged
    BY DEF RunsJudged
  <2>1. RunKept(run[source], run_seen) /\ ShownKept(run[source], run_seen, run_shown, run_flagged)
    BY DEF HealthInv
  <2>2. maxrun \in Nat /\ runs_window \in Nat
    BY DEF HealthAssumption
  <2>3. run_shown # <<>> => Len(run_shown) - maxrun - 1 \in {runs_window - 1, runs_window}
    BY <2>1, <2>2 DEF ShownKept
  <2> QED BY <2>1, <2>3 DEF RunKept, ShownKept
<1> QED BY <1>1, <1>2, <1>3 DEF WindowsJudged

-----------------------------------------------------------------------------
(* Both together: no sample is used twice or cold, not by the refill machine  *)
(* as long as software does not switch sources, and not by the generator.     *)
THEOREM WordsSoundCorrect == ASSUME Reconfigure = FALSE PROVE SourcesSpec => []WordsSound
<1>1. SourcesInit => Init /\ NoiseInit
  BY DEF SourcesInit
<1>2. [SourcesNext]_allVars => [Next]_vars /\ [NoiseNext]_noiseVars
  BY Zenon DEF SourcesNext, allVars
<1>3. (Spec => []NoiseWordsSound) /\ (NoiseSpec => []WordsDisjoint)
  BY NoiseWordsSoundCorrect, WordsDisjointCorrect, SourcesAssumption
<1> QED BY <1>1, <1>2, <1>3, PTL DEF SourcesSpec, Spec, NoiseSpec, WordsSound

(* The repetition and proportion tests fail exactly when the samples since    *)
(* they were cleared hold what they look for, with cutoffs one above those    *)
(* documented; the excursion test judges every window by its samples alone;   *)
(* a run test fails exactly when a window not read in full had, but for those *)
(* at its ends, too few or too many runs: for all cutoffs and windows, and    *)
(* whenever software clears, resets, reads or switches the tests.             *)
THEOREM TestsExactCorrect == SourcesSpec => []TestsExact
<1>1. SourcesInit => HealthInv
  BY HealthStarts, SourcesAssumption DEF SourcesInit
<1>2. HealthInv /\ [SourcesNext]_allVars => HealthInv'
  <2>1. SUFFICES ASSUME HealthInv, [SourcesNext]_allVars PROVE HealthInv'
    OBVIOUS
  <2>2. CASE HealthNext
    <3>1. HealthAssumption
      BY SourcesAssumption
    <3> QED BY <2>1, <2>2, <3>1, HealthMoves
  <2>3. CASE UNCHANGED healthVars
    <3>1. UNCHANGED <<source, quiet, power, rep, adp, exc, run, rep_seen, adp_seen, rep_due, adp_due, exc_seen, exc_last, run_seen,
                    run_shown, run_flagged>>
      BY <2>3 DEF healthVars, hardware, history
    <3> QED BY <2>1, <3>1 DEF HealthInv, RepKept, AdpKept, WindowEnds, ExcKept, Judged, Extremes, RunKept, ShownKept
  <2> QED BY <2>1, <2>2, <2>3, Zenon DEF SourcesNext, allVars
<1>3. HealthInv => TestsExact
  BY HealthReported, SourcesAssumption DEF TestsExact
<1> QED BY <1>1, <1>2, <1>3, PTL DEF SourcesSpec
=============================================================================

----------------------------- MODULE Chips_proofs ----------------------------
(***************************************************************************)
(* The machines that talk to another chip: the SRAM controller, the memory *)
(* LCD and the COM link to the embedded controller.  They have no signal   *)
(* in common.                                                              *)
(*                                                                         *)
(* The SRAM, for every length of a line, every number of lines and every   *)
(* timing that leaves the page reads no longer than the first one: what    *)
(* the cache reads is what it wrote, and in an access of a line the data   *)
(* lines have one driver at a time.                                        *)
(*                                                                         *)
(* The memory LCD, for every size of the panel, every prescaler and every  *)
(* length of the waits: each frame the panel is sent is a whole line, and  *)
(* when an update is over each line it was for has been shown as it is.    *)
(*                                                                         *)
(* The link, for every length of a word, every depth of the FIFOs and all  *)
(* clocks that leave the EC time enough between two transactions: words    *)
(* cross it in order, every one once.                                      *)
(***************************************************************************)
EXTENDS Sram, MemLcd, ComLink, SequenceTheorems, TLAPS

(* The SRAM: its states, and the invariant. *)
Reads == {"RD", "RACK", "RACK2", "RACK3"}
Writes == {"WR_CE", "WR", "WACK"}
Asks == {"CONFIG_READ", "CFGRD1", "CFGRD2", "CFGWR1", "CFGRD3"}
Preparing == {"CONFIG_PRE", "CONFIG_PRE2", "CONFIG_PRE3", "CONFIG", "ZZ_UP", "ZZ_UP2", "ZZ_UP3"}
States == {"IDLE"} \union Reads \union Writes \union Asks \union Preparing

RamWord == (Value \X (0..(Words - 1))) \union {Undefined}
Place == [line : Lines, word : 0..(Words - 1)]
Pin == [ce_n : BOOLEAN, oe_n : BOOLEAN, we_n : BOOLEAN, zz_n : BOOLEAN,
        adr : Place \union {Config, Mode}, data : RamWord]
Machines == [fsm : States, ack : BOOLEAN, zz : BOOLEAN, burst : 0..(Words - 1), limit : Nat,
             load : BOOLEAN, shift : BOOLEAN, config : BOOLEAN, ce_early : BOOLEAN,
             override : BOOLEAN, ce_n : BOOLEAN, we_n : BOOLEAN, oe_n : BOOLEAN, status : BOOLEAN]

RamTypeOK ==
  /\ bus \in [cyc : BOOLEAN, we : BOOLEAN, line : Lines, data : LineData]
  /\ read_config \in BOOLEAN /\ load_config \in BOOLEAN /\ sram_ready \in BOOLEAN
  /\ reset_counter \in Nat /\ counter \in Nat
  /\ r \in Machines
  /\ data_reg \in RamWord /\ read_ram \in RamWord /\ read_reg \in [1..Words -> RamWord]
  /\ sync_oe \in BOOLEAN /\ pins \in Pin /\ page \in BOOLEAN
  /\ mem \in [Lines -> [0..(Words - 1) -> RamWord]] /\ stored \in [Lines -> [0..(Words - 1) -> RamWord]]
  /\ age \in Nat /\ dage \in Nat

(* What the outputs of the machine say in each of its states. *)
Outputs ==
  /\ r.override <=> r.fsm \in Asks
  /\ r.ack <=> r.fsm \in {"RACK3", "WACK"}
  /\ r.zz <=> r.fsm \notin Preparing
  /\ r.load <=> r.fsm \in Reads
  /\ r.config => r.fsm = "CONFIG"
  /\ r.shift => r.fsm \in {"RD", "RACK2"}
  /\ r.burst # 0 => r.fsm \in {"RD", "WR"}

(* The counter stands at zero when the machine comes to rest. *)
Rested == /\ r.fsm = "IDLE" => counter = 0
          /\ r.fsm = "WACK" => counter_done

(* The cache and the setup after reset keep out of each other's way, and a    *)
(* configuration read does not begin together with a request.                *)
Apart ==
  /\ r.fsm \in Reads => bus.cyc /\ ~bus.we
  /\ r.fsm \in Writes => bus.cyc /\ bus.we
  /\ bus.cyc /\ r.fsm = "IDLE" => ~read_config
  /\ bus.cyc \/ read_config => sram_ready
  /\ sram_ready \/ load_config => reset_counter = 0
  /\ ~(sram_ready /\ load_config)
  /\ ~sram_ready => r.fsm = "IDLE" /\ (reset_counter > 0 \/ load_config)

Controlled == Outputs /\ Rested /\ Apart

(* The setup after reset puts the chip into page mode. *)
ModeSet ==
  /\ r.fsm \in {"CONFIG_PRE", "CONFIG_PRE2", "CONFIG_PRE3", "CONFIG"} => r.limit = ConfigTiming
  /\ r.fsm \in {"CONFIG_PRE", "CONFIG_PRE2", "CONFIG_PRE3"} => counter = 0
  /\ r.fsm = "CONFIG" => r.ce_early /\ (counter > 0 => r.config)
  /\ r.fsm = "ZZ_UP" => ~pins.we_n /\ ~pins.ce_n /\ ~pins.zz_n /\ pins.adr = Mode
  /\ sram_ready => page \/ r.fsm \in Preparing \ {"ZZ_UP2", "ZZ_UP3"}

(* The controller drives the lines only while the chip's output is off, but  *)
(* in a configuration read.                                                  *)
Driving == sync_oe => pins.oe_n \/ pins.adr = Config

Aimed(w) == /\ pins.adr = At(bus.line, w)
            /\ ~pins.ce_n /\ pins.zz_n

(* A word is written by a pulse on its address, as long as the machine stays *)
(* at it and as old as the counter says; what is written already is in the   *)
(* chip.  Nothing else writes.                                               *)
Writing ==
  /\ ~pins.we_n /\ pins.adr \notin {Config, Mode} => r.fsm = "WR"
  /\ dage > 0 \/ r.fsm # "WR"
  /\ r.fsm = "WR_CE" => data_reg = bus.data[0]
  /\ r.fsm = "WR" /\ counter < wr_timing =>
       /\ Aimed(r.burst) /\ ~pins.we_n
       /\ data_reg = bus.data[r.burst] /\ age >= counter + 1
       /\ counter > 0 => pins.data = bus.data[r.burst] /\ dage >= counter
  /\ r.fsm = "WR" => /\ r.limit = wr_timing /\ counter <= wr_timing
                     /\ counter = wr_timing => pins.we_n /\ r.burst > 0

InMemory == \A l \in Lines, i \in 0..(Words - 1) :
  mem[l][i] = IF l = bus.line /\ (r.fsm = "WACK" \/ (r.fsm = "WR" /\ i < r.burst))
              THEN bus.data[i] ELSE stored[l][i]

(* The first n words of the line have gone through read_reg. *)
Fetched(n) == \A i \in 0..(Words - 1) : i < n => read_reg[Words - n + 1 + i] = mem[bus.line][i]

Sampled(w) == r.shift /\ read_ram = mem[bus.line][w] /\ Fetched(w)
Valid(w) == Aimed(w) /\ pins.we_n /\ accessed /\ ~pins.oe_n /\ ~sync_oe /\ ~r.shift /\ Fetched(w)

(* A word is sampled when its address has been on the pins for as long as    *)
(* the chip needs; the machine is at the next one then.                      *)
Reading ==
  /\ r.fsm = "RD" /\ r.burst = 0 =>
       /\ r.limit = rdTiming /\ counter < rdTiming /\ ~r.shift
       /\ Aimed(0) /\ pins.we_n /\ age >= counter /\ age > 0
  /\ r.fsm = "RD" /\ r.burst > 0 => r.limit = pageTiming
  /\ r.fsm = "RD" /\ r.burst > 0 /\ counter >= r.limit => Valid(r.burst - 1)
  /\ r.fsm = "RD" /\ r.burst > 0 /\ counter < r.limit =>
       /\ Aimed(r.burst) /\ pins.we_n /\ ~pins.oe_n /\ ~sync_oe
       /\ open = bus.line /\ age >= counter + 1
       /\ IF counter = 0 THEN Sampled(r.burst - 1) ELSE ~r.shift /\ Fetched(r.burst)
  /\ r.fsm = "RACK" => counter_done /\ Valid(Words - 1)
  /\ r.fsm = "RACK2" => Sampled(Words - 1)
  /\ r.fsm = "RACK3" => Fetched(Words)

RamInv == RamTypeOK /\ Controlled /\ ModeSet /\ Driving /\ Writing /\ InMemory /\ Reading

-----------------------------------------------------------------------------
(* The addresses that the machine puts on the pins are told apart. *)
LEMMA Places ==
  ASSUME SramAssumption
  PROVE  /\ \A l \in Lines, w \in 0..(Words - 1) :
              At(l, w) \in Place /\ At(l, w).line = l /\ At(l, w).word = w
         /\ Mode \notin Place /\ Config \notin Place /\ Mode # Config
<1>1. \A l, w : At(l, w) # Mode /\ At(l, w) # Config
  <2>1. \A l, w : DOMAIN At(l, w) = {"line", "word"}
    BY DEF At
  <2>2. DOMAIN Mode = {"config"} /\ DOMAIN Config = {"config"}
    BY DEF Mode, Config
  <2> QED BY <2>1, <2>2
<1>2. \A p \in Place : \E l, w : p = At(l, w)
  BY DEF Place, At
<1>3. Mode.config = "mode" /\ Config.config = "all"
  BY DEF Mode, Config
<1> QED BY <1>1, <1>2, <1>3 DEF Place, At

(* The timings, and how old an age gets. *)
LEMMA Timings ==
  ASSUME SramAssumption
  PROVE  /\ Words \in Nat /\ Words > 0 /\ 0 \in 0..(Words - 1) /\ Words - 1 \in 0..(Words - 1)
         /\ rd_timing \in Nat /\ rd_timing > 0 /\ wr_timing \in Nat /\ wr_timing > 1
         /\ rdTiming = rd_timing + 1 /\ rdTiming \in Nat /\ rdTiming > 1 /\ pageTiming \in Nat /\ pageTiming > 0 /\ pageTiming <= rdTiming
         /\ page_rd_timing = pageTiming + 1
         /\ ConfigTiming \in Nat /\ ConfigTiming > 0 /\ DataSetup \in Nat /\ DataSetup < wr_timing
         /\ MaxAge \in Nat /\ MaxAge >= rdTiming /\ MaxAge >= wr_timing
BY DEF SramAssumption, rdTiming, pageTiming, MaxAge

(* What the cache hands over are words. *)
LEMMA LineWords ==
  \A d \in LineData : d \in [0..(Words - 1) -> RamWord]
BY DEF LineData, Contents, RamWord

(* An age goes up by one until it says enough. *)
LEMMA Aging ==
  ASSUME SramAssumption
  PROVE  \A a, n \in Nat : /\ Older(a) \in Nat /\ Older(a) > 0
                           /\ a >= n /\ n < MaxAge => Older(a) >= n + 1
                           /\ a >= n /\ n <= MaxAge => Older(a) >= n
BY Timings DEF Older

(* WordShift in a word moves the others down by one place. *)
LEMMA WordShift ==
  ASSUME SramAssumption, NEW s \in [1..Words -> RamWord], NEW x \in RamWord
  PROVE  /\ Append(Tail(s), x) \in [1..Words -> RamWord]
         /\ \A i \in 1..(Words - 1) : Append(Tail(s), x)[i] = s[i + 1]
         /\ Append(Tail(s), x)[Words] = x
<1>1. Words \in Nat /\ Words > 0
  BY Timings
<1>2. s \in Seq(RamWord) /\ Len(s) = Words
  BY <1>1
<1>3. s # << >>
  BY <1>1, <1>2
<1>4. Tail(s) \in Seq(RamWord) /\ Len(Tail(s)) = Words - 1
  BY <1>1, <1>2, <1>3
<1>5. \A i \in 1..(Words - 1) : Tail(s)[i] = s[i + 1]
  BY <1>1, <1>2, <1>3
<1>6. Append(Tail(s), x) \in Seq(RamWord) /\ Len(Append(Tail(s), x)) = Words
  BY <1>1, <1>4
<1>7. Append(Tail(s), x) \in [1..Words -> RamWord]
  BY <1>6, LenProperties
<1>8. Append(Tail(s), x)[Words] = x /\ \A i \in 1..(Words - 1) : Append(Tail(s), x)[i] = Tail(s)[i]
  BY <1>1, <1>4
<1> QED BY <1>5, <1>7, <1>8

-----------------------------------------------------------------------------
(* The names of the states. *)
LEMMA Named ==
  /\ {"IDLE"} \union Reads \union Writes \union Asks \union Preparing \subseteq States
  /\ {"RD", "RACK", "RACK2", "RACK3"} \subseteq States
  /\ {"WR_CE", "WR", "WACK"} \subseteq States
  /\ {"IDLE", "CONFIG_READ", "CFGRD1", "CFGRD2", "CFGWR1", "CFGRD3"} \subseteq States
  /\ {"CONFIG_PRE", "CONFIG_PRE2", "CONFIG_PRE3", "CONFIG", "ZZ_UP", "ZZ_UP2", "ZZ_UP3"} \subseteq States
BY DEF States, Reads, Writes, Asks, Preparing

(* Setting the mode goes straight through its states. *)
LEMMA SetupMoves ==
  ASSUME SramAssumption, RamTypeOK, ConfigWrite
  PROVE  /\ r.fsm \in Preparing /\ r' \in Machines
         /\ r'.ack = r.ack /\ r'.burst = r.burst /\ r'.load = r.load /\ r'.shift = r.shift
         /\ r'.override = r.override /\ r'.limit = r.limit
         /\ r'.zz = IF r.fsm = "ZZ_UP3" THEN TRUE ELSE r.zz
         /\ r.fsm = "CONFIG_PRE" => r'.fsm = "CONFIG_PRE2" /\ r'.config = r.config
         /\ r.fsm = "CONFIG_PRE2" => r'.fsm = "CONFIG_PRE3" /\ r'.config = r.config
         /\ r.fsm = "CONFIG_PRE3" => r'.fsm = "CONFIG" /\ r'.ce_early /\ r'.config = r.config
         /\ r.fsm = "CONFIG" => /\ r'.ce_early = r.ce_early /\ (r'.config <=> ~counter_done)
                                /\ r'.fsm = IF counter_done THEN "ZZ_UP" ELSE "CONFIG"
         /\ r.fsm = "ZZ_UP" => r'.fsm = "ZZ_UP2" /\ ~r'.config
         /\ r.fsm = "ZZ_UP2" => r'.fsm = "ZZ_UP3" /\ r'.config = r.config
         /\ r.fsm = "ZZ_UP3" => r'.fsm = "IDLE" /\ r'.config = r.config
<1>0. r \in Machines /\ r.fsm \in Preparing
  BY DEF RamTypeOK, ConfigWrite, Preparing
<1>1. CASE r.fsm = "CONFIG_PRE"
  <2>1. r' = [r EXCEPT !.fsm = "CONFIG_PRE2"]
    BY <1>1 DEF ConfigWrite
  <2> QED BY <1>0, <1>1, <2>1, Named DEF Machines
<1>2. CASE r.fsm = "CONFIG_PRE2"
  <2>1. r' = [r EXCEPT !.fsm = "CONFIG_PRE3"]
    BY <1>2 DEF ConfigWrite
  <2> QED BY <1>0, <1>2, <2>1, Named DEF Machines
<1>3. CASE r.fsm = "CONFIG_PRE3"
  <2>1. r' = [r EXCEPT !.ce_early = TRUE, !.fsm = "CONFIG"]
    BY <1>3 DEF ConfigWrite
  <2> QED BY <1>0, <1>3, <2>1, Named DEF Machines
<1>4. CASE r.fsm = "CONFIG"
  <2>1. CASE counter_done
    <3>1. r' = [r EXCEPT !.config = FALSE, !.fsm = "ZZ_UP"]
      BY <1>4, <2>1 DEF ConfigWrite
    <3> QED BY <1>0, <1>4, <2>1, <3>1, Named DEF Machines
  <2>2. CASE ~counter_done
    <3>1. r' = [r EXCEPT !.config = TRUE]
      BY <1>4, <2>2 DEF ConfigWrite
    <3> QED BY <1>0, <1>4, <2>2, <3>1 DEF Machines
  <2> QED BY <2>1, <2>2
<1>5. CASE r.fsm = "ZZ_UP"
  <2>1. r' = [r EXCEPT !.config = FALSE, !.fsm = "ZZ_UP2"]
    BY <1>5 DEF ConfigWrite
  <2> QED BY <1>0, <1>5, <2>1, Named DEF Machines
<1>6. CASE r.fsm = "ZZ_UP2"
  <2>1. r' = [r EXCEPT !.ce_early = FALSE, !.fsm = "ZZ_UP3"]
    BY <1>6 DEF ConfigWrite
  <2> QED BY <1>0, <1>6, <2>1, Named DEF Machines
<1>7. CASE r.fsm = "ZZ_UP3"
  <2>1. r' = [r EXCEPT !.zz = TRUE, !.fsm = "IDLE"]
    BY <1>7 DEF ConfigWrite
  <2> QED BY <1>0, <1>7, <2>1, Named DEF Machines
<1> QED BY <1>0, <1>1, <1>2, <1>3, <1>4, <1>5, <1>6, <1>7 DEF Preparing

(* IDLE is left for the setup, for a request or for reading the mode. *)
LEMMA IdleMoves ==
  ASSUME SramAssumption, RamTypeOK, IdleState
  PROVE  /\ r.fsm = "IDLE" /\ r' \in Machines
         /\ ~r'.ack /\ ~r'.config /\ r'.shift = r.shift
         /\ r'.override <=> r.override \/ read_config
         /\ r'.zz <=> ~load_config
         /\ load_config => /\ r'.fsm = "CONFIG_PRE" /\ r'.limit = ConfigTiming
                           /\ r'.burst = r.burst /\ r'.load = r.load
         /\ ~load_config /\ bus.cyc /\ bus.we =>
              r'.fsm = "WR_CE" /\ r'.burst = 0 /\ r'.load = r.load
         /\ ~load_config /\ bus.cyc /\ ~bus.we =>
              r'.fsm = "RD" /\ r'.burst = 0 /\ r'.load /\ r'.limit = rdTiming
         /\ ~load_config /\ ~bus.cyc =>
              /\ r'.fsm = IF read_config THEN "CONFIG_READ" ELSE "IDLE"
              /\ r'.burst = r.burst /\ r'.load = r.load
<1>0. /\ r \in Machines /\ load_config \in BOOLEAN /\ read_config \in BOOLEAN
      /\ bus.cyc \in BOOLEAN /\ bus.we \in BOOLEAN
      /\ ConfigTiming \in Nat /\ rdTiming \in Nat /\ 0 \in 0..(Words - 1)
  BY Timings DEF RamTypeOK
<1> DEFINE asked == IF read_config THEN [r EXCEPT !.override = TRUE, !.fsm = "CONFIG_READ"] ELSE r
           s == [asked EXCEPT !.ack = FALSE, !.config = FALSE]
<1>a. ASSUME read_config
      PROVE  /\ asked \in Machines /\ asked.shift = r.shift /\ asked.burst = r.burst
             /\ asked.load = r.load /\ asked.override /\ asked.fsm = "CONFIG_READ"
  <2>1. asked = [r EXCEPT !.override = TRUE, !.fsm = "CONFIG_READ"]
    BY <1>a
  <2> HIDE DEF asked
  <2> QED BY <1>0, <2>1, Named DEF Machines
<1>b. ~read_config => asked = r
  OBVIOUS
<1> HIDE DEF asked
<1>c. /\ asked \in Machines /\ asked.shift = r.shift /\ asked.burst = r.burst
      /\ asked.load = r.load /\ (asked.override <=> r.override \/ read_config)
      /\ asked.fsm = IF read_config THEN "CONFIG_READ" ELSE r.fsm
  BY <1>0, <1>a, <1>b DEF Machines
<1>1. /\ s \in Machines /\ ~s.ack /\ ~s.config /\ s.shift = r.shift /\ s.burst = r.burst
      /\ s.load = r.load /\ (s.override <=> r.override \/ read_config)
      /\ s.fsm = IF read_config THEN "CONFIG_READ" ELSE r.fsm
  BY <1>c DEF Machines
<1>2. r.fsm = "IDLE"
  BY DEF IdleState
<1>3. CASE load_config
  <2>1. r' = [s EXCEPT !.limit = ConfigTiming, !.zz = FALSE, !.fsm = "CONFIG_PRE"]
    BY <1>3 DEF IdleState, asked
  <2> HIDE DEF s
  <2> QED BY <1>0, <1>1, <1>2, <1>3, <2>1, Named DEF Machines
<1>4. CASE ~load_config /\ bus.cyc /\ bus.we
  <2>1. r' = [s EXCEPT !.zz = TRUE, !.burst = 0, !.fsm = "WR_CE"]
    BY <1>4 DEF IdleState, asked
  <2> HIDE DEF s
  <2> QED BY <1>0, <1>1, <1>2, <1>4, <2>1, Named DEF Machines
<1>5. CASE ~load_config /\ bus.cyc /\ ~bus.we
  <2>1. r' = [s EXCEPT !.zz = TRUE, !.burst = 0, !.load = TRUE, !.limit = rdTiming, !.fsm = "RD"]
    BY <1>5 DEF IdleState, asked
  <2> HIDE DEF s
  <2> QED BY <1>0, <1>1, <1>2, <1>5, <2>1, Named DEF Machines
<1>6. CASE ~load_config /\ ~bus.cyc
  <2>1. r' = [s EXCEPT !.zz = TRUE]
    BY <1>6 DEF IdleState, asked
  <2> HIDE DEF s
  <2> QED BY <1>0, <1>1, <1>2, <1>6, <2>1, Named DEF Machines
<1> QED BY <1>0, <1>3, <1>4, <1>5, <1>6

(* The next place in the line. *)
LEMMA Bursts ==
  ASSUME SramAssumption, RamTypeOK
  PROVE  /\ r.burst \in 0..(Words - 1) /\ nextBurst \in 0..(Words - 1)
         /\ nextBurst = IF counter_almost_done THEN IF last THEN 0 ELSE r.burst + 1 ELSE r.burst
<1>1. r.burst \in 0..(Words - 1) /\ Words \in Nat /\ Words > 0
  BY Timings DEF RamTypeOK, Machines
<1>2. \A b \in 0..(Words - 1) : (b + 1) % Words = IF b = Words - 1 THEN 0 ELSE b + 1
  BY <1>1
<1> QED BY <1>1, <1>2 DEF nextBurst, last

(* Reading a line. *)
LEMMA ReadMoves ==
  ASSUME SramAssumption, RamTypeOK, Read
  PROVE  /\ r.fsm \in Reads /\ r' \in Machines
         /\ r'.zz = r.zz /\ r'.config = r.config /\ r'.override = r.override
         /\ r.fsm = "RD" => /\ r'.burst = nextBurst /\ (r'.shift <=> counter_done)
                            /\ r'.limit = IF counter_almost_done /\ ~last THEN pageTiming ELSE r.limit
                            /\ r'.fsm = IF counter_almost_done /\ last THEN "RACK" ELSE "RD"
                            /\ r'.ack = r.ack /\ r'.load = r.load
         /\ r.fsm = "RACK" => /\ r'.fsm = "RACK2" /\ (r'.shift <=> counter_done)
                              /\ r'.burst = r.burst /\ r'.ack = r.ack /\ r'.load = r.load
         /\ r.fsm = "RACK2" => /\ r'.fsm = "RACK3" /\ ~r'.shift /\ r'.ack
                               /\ r'.burst = r.burst /\ r'.load = r.load
         /\ r.fsm = "RACK3" => /\ r'.fsm = "IDLE" /\ ~r'.load /\ ~r'.ack
                               /\ r'.burst = r.burst /\ r'.shift = r.shift
<1>0. /\ r \in Machines /\ nextBurst \in 0..(Words - 1) /\ pageTiming \in Nat
      /\ counter_done \in BOOLEAN /\ r.fsm \in Reads
  <2>1. nextBurst \in 0..(Words - 1) /\ pageTiming \in Nat
    BY Bursts, Timings
  <2>2. r \in Machines /\ counter_done \in BOOLEAN
    BY DEF RamTypeOK, counter_done
  <2>3. r.fsm \in Reads
    BY DEF Read, Reads
  <2> QED BY <2>1, <2>2, <2>3
<1>1. CASE r.fsm = "RD"
  <2>1. r' = [r EXCEPT !.burst = nextBurst, !.shift = counter_done,
                       !.limit = IF counter_almost_done /\ ~last THEN pageTiming ELSE r.limit,
                       !.fsm = IF counter_almost_done /\ last THEN "RACK" ELSE "RD"]
    BY <1>1 DEF Read
  <2>2. /\ (IF counter_almost_done /\ ~last THEN pageTiming ELSE r.limit) \in Nat
        /\ (IF counter_almost_done /\ last THEN "RACK" ELSE "RD") \in States
    BY <1>0, Named DEF Machines
  <2> QED BY <1>0, <1>1, <2>1, <2>2 DEF Machines
<1>2. CASE r.fsm = "RACK"
  <2>1. r' = [r EXCEPT !.shift = counter_done, !.fsm = "RACK2"]
    BY <1>2 DEF Read
  <2> QED BY <1>0, <1>2, <2>1, Named DEF Machines
<1>3. CASE r.fsm = "RACK2"
  <2>1. r' = [r EXCEPT !.shift = FALSE, !.ack = TRUE, !.fsm = "RACK3"]
    BY <1>3 DEF Read
  <2> QED BY <1>0, <1>3, <2>1, Named DEF Machines
<1>4. CASE r.fsm = "RACK3"
  <2>1. r' = [r EXCEPT !.load = FALSE, !.ack = FALSE, !.fsm = "IDLE"]
    BY <1>4 DEF Read
  <2> QED BY <1>0, <1>4, <2>1, Named DEF Machines
<1> QED BY <1>0, <1>1, <1>2, <1>3, <1>4 DEF Reads

(* Writing a line. *)
LEMMA WriteMoves ==
  ASSUME SramAssumption, RamTypeOK, Write
  PROVE  /\ r.fsm \in Writes /\ r' \in Machines
         /\ r'.zz = r.zz /\ r'.config = r.config /\ r'.override = r.override
         /\ r'.load = r.load /\ r'.shift = r.shift
         /\ r.fsm = "WR_CE" => /\ r'.fsm = "WR" /\ r'.limit = wr_timing
                               /\ r'.burst = r.burst /\ r'.ack = r.ack
         /\ r.fsm = "WR" => /\ r'.burst = nextBurst /\ r'.limit = r.limit
                            /\ r'.ack = IF counter_almost_done /\ last THEN TRUE ELSE r.ack
                            /\ r'.fsm = IF counter_almost_done /\ last THEN "WACK" ELSE "WR"
         /\ r.fsm = "WACK" => r'.fsm = "IDLE" /\ ~r'.ack /\ r'.burst = r.burst
<1>0. r \in Machines /\ nextBurst \in 0..(Words - 1) /\ wr_timing \in Nat /\ r.fsm \in Writes
  BY Bursts, Timings DEF RamTypeOK, Write, Writes
<1>1. CASE r.fsm = "WR_CE"
  <2>1. r' = [r EXCEPT !.limit = wr_timing, !.fsm = "WR"]
    BY <1>1 DEF Write
  <2> QED BY <1>0, <1>1, <2>1, Named DEF Machines
<1>2. CASE r.fsm = "WR"
  <2>1. r' = [r EXCEPT !.burst = nextBurst,
                       !.ack = IF counter_almost_done /\ last THEN TRUE ELSE r.ack,
                       !.fsm = IF counter_almost_done /\ last THEN "WACK" ELSE "WR"]
    BY <1>2 DEF Write
  <2>2. /\ (IF counter_almost_done /\ last THEN TRUE ELSE r.ack) \in BOOLEAN
        /\ (IF counter_almost_done /\ last THEN "WACK" ELSE "WR") \in States
    BY <1>0, Named DEF Machines
  <2> QED BY <1>0, <1>2, <2>1, <2>2 DEF Machines
<1>3. CASE r.fsm = "WACK"
  <2>1. r' = [r EXCEPT !.ack = FALSE, !.fsm = "IDLE"]
    BY <1>3 DEF Write
  <2> QED BY <1>0, <1>3, <2>1, Named DEF Machines
<1> QED BY <1>0, <1>1, <1>2, <1>3 DEF Writes

(* Reading the mode assigns its own registers, and the limit. *)
LEMMA AskMoves ==
  ASSUME SramAssumption, RamTypeOK, NEW read \in BOOLEAN, ConfigRead \/ ConfigCycle(read)
  PROVE  /\ r.fsm \in Asks /\ r' \in Machines
         /\ r'.ack = r.ack /\ r'.zz = r.zz /\ r'.burst = r.burst /\ r'.load = r.load
         /\ r'.shift = r.shift /\ r'.config = r.config
         /\ \/ r'.fsm \in Asks /\ r'.override = r.override
            \/ r'.fsm = "IDLE" /\ ~r'.override /\ counter_done
<1>0. r \in Machines /\ rdTiming \in Nat
  BY Timings DEF RamTypeOK
<1>1. CASE ConfigRead
  <2>1. r.fsm \in Asks /\ "CFGRD1" \in Asks
    BY <1>1 DEF ConfigRead, Asks
  <2> QED BY <1>0, <1>1, <2>1, Named DEF Machines, ConfigRead
<1>2. CASE ConfigCycle(read)
  <2> DEFINE write == r.fsm = "CFGWR1"
             end == r.fsm = "CFGRD3"
             next == ConfigNext[r.fsm]
  <2>1. /\ r.fsm \in Asks /\ next \in States /\ (end => next = "IDLE") /\ (~end => next \in Asks)
    BY <1>2, Named DEF ConfigCycle, ConfigNext, Asks
  <2>2. CASE counter_done
    <3> DEFINE limit == IF end THEN r.limit ELSE rdTiming
               we_n == IF write THEN TRUE ELSE r.we_n
               oe_n == IF write THEN r.oe_n ELSE TRUE
               status == IF end THEN read ELSE r.status
               override == ~end /\ r.override
    <3>1. r' = [r EXCEPT !.limit = limit, !.ce_n = TRUE, !.we_n = we_n, !.oe_n = oe_n,
                         !.status = status, !.override = override, !.fsm = next]
      BY <1>2, <2>2 DEF ConfigCycle
    <3>2. /\ limit \in Nat /\ we_n \in BOOLEAN /\ oe_n \in BOOLEAN /\ status \in BOOLEAN
          /\ override \in BOOLEAN
      BY <1>0 DEF Machines
    <3>3. /\ end => ~override
          /\ ~end => override = r.override
      BY <1>0 DEF Machines
    <3> HIDE DEF limit, we_n, oe_n, status, override, next
    <3> DEFINE s == [r EXCEPT !.limit = limit, !.ce_n = TRUE, !.we_n = we_n]
               t == [s EXCEPT !.oe_n = oe_n, !.status = status]
    <3>4. r' = [t EXCEPT !.override = override, !.fsm = next]
      BY <3>1
    <3>5. /\ s \in Machines
          /\ s.ack = r.ack /\ s.zz = r.zz /\ s.burst = r.burst /\ s.load = r.load
          /\ s.shift = r.shift /\ s.config = r.config
      BY <1>0, <3>2 DEF Machines
    <3> HIDE DEF s
    <3>6. /\ t \in Machines
          /\ t.ack = r.ack /\ t.zz = r.zz /\ t.burst = r.burst /\ t.load = r.load
          /\ t.shift = r.shift /\ t.config = r.config
      BY <3>2, <3>5 DEF Machines
    <3> HIDE DEF t
    <3>7. /\ r' \in Machines /\ r'.fsm = next /\ r'.override = override
          /\ r'.ack = r.ack /\ r'.zz = r.zz /\ r'.burst = r.burst /\ r'.load = r.load
          /\ r'.shift = r.shift /\ r'.config = r.config
      BY <2>1, <3>2, <3>4, <3>6 DEF Machines
    <3> QED BY <2>1, <2>2, <3>3, <3>7
  <2>3. CASE ~counter_done
    <3> DEFINE we_n == IF write THEN FALSE ELSE r.we_n
               oe_n == IF write THEN r.oe_n ELSE FALSE
    <3>1. r' = [r EXCEPT !.ce_n = FALSE, !.we_n = we_n, !.oe_n = oe_n]
      BY <1>2, <2>3 DEF ConfigCycle
    <3>2. we_n \in BOOLEAN /\ oe_n \in BOOLEAN
      BY <1>0 DEF Machines
    <3> HIDE DEF we_n, oe_n
    <3>3. /\ r' \in Machines /\ r'.fsm = r.fsm /\ r'.override = r.override
          /\ r'.ack = r.ack /\ r'.zz = r.zz /\ r'.burst = r.burst /\ r'.load = r.load
          /\ r'.shift = r.shift /\ r'.config = r.config
      BY <1>0, <3>1, <3>2 DEF Machines
    <3> QED BY <2>1, <3>3
  <2> QED BY <2>2, <2>3 DEF counter_done
<1> QED BY <1>1, <1>2

-----------------------------------------------------------------------------
(* What the lines show is a word. *)
LEMMA LinesShowWords == ASSUME SramAssumption, RamTypeOK PROVE DataPins \in RamWord
<1>1. /\ Undefined \in RamWord /\ pins.data \in RamWord /\ pins.adr \in Place \union {Config, Mode}
  BY DEF RamTypeOK, Pin, RamWord
<1>2. ASSUME accessed PROVE mem[pins.adr.line][pins.adr.word] \in RamWord
  <2>1. pins.adr \in Place
    BY <1>1, <1>2 DEF accessed
  <2>2. pins.adr.line \in Lines /\ pins.adr.word \in 0..(Words - 1)
    BY <2>1 DEF Place
  <2>3. mem \in [Lines -> [0..(Words - 1) -> RamWord]]
    BY DEF RamTypeOK
  <2> QED BY <2>2, <2>3
<1>3. DataPins \in {Undefined, pins.data} \/ (accessed /\ DataPins = mem[pins.adr.line][pins.adr.word])
  BY DEF DataPins
<1> QED BY <1>1, <1>2, <1>3

(* The pins follow the machine a cycle later. *)
LEMMA PinMoves ==
  ASSUME SramAssumption, RamTypeOK, Pins
  PROVE  /\ pins' \in Pin
         /\ r.override => pins'.zz_n /\ pins'.adr = Config
         /\ ~r.override => /\ pins'.ce_n <=> ~(r.config \/ r.ce_early \/ bus.cyc)
                           /\ pins'.oe_n <=> ~r.load
                           /\ pins'.we_n <=> ~(store \/ r.config)
                           /\ pins'.zz_n <=> r.zz
                           /\ ~r.zz => pins'.adr = Mode
                           /\ r.zz /\ bus.cyc => pins'.adr = At(bus.line, r.burst)
                           /\ pins'.data = data_reg
<1>0. /\ r \in Machines /\ bus.cyc \in BOOLEAN /\ bus.line \in Lines /\ data_reg \in RamWord
      /\ r.burst \in 0..(Words - 1) /\ 0 \in 0..(Words - 1) /\ Undefined \in RamWord
  BY Timings DEF RamTypeOK, Machines, RamWord
<1>1. /\ ~r.zz => adr = Mode
      /\ r.zz /\ bus.cyc => adr = At(bus.line, r.burst)
      /\ r.zz /\ ~bus.cyc => adr = At(CHOOSE l \in Lines : TRUE, 0)
  BY <1>0 DEF adr, Machines
<1>2. (CHOOSE l \in Lines : TRUE) \in Lines
  BY DEF SramAssumption
<1>3. adr \in Place \union {Config, Mode}
  BY <1>0, <1>1, <1>2, Places DEF Machines
<1>4. store \in BOOLEAN
  BY DEF store
<1>5. CASE r.override
  <2>1. pins' = [ce_n |-> r.ce_n, oe_n |-> r.oe_n, we_n |-> r.we_n, zz_n |-> TRUE,
                 adr |-> Config, data |-> Undefined]
    BY <1>5 DEF Pins
  <2> QED BY <1>0, <1>5, <2>1 DEF Pin, Machines
<1>6. CASE ~r.override
  <2> DEFINE ce_n == ~(r.config \/ r.ce_early \/ bus.cyc)
             we_n == ~(store \/ r.config)
  <2>1. pins' = [ce_n |-> ce_n, oe_n |-> ~r.load, we_n |-> we_n, zz_n |-> r.zz,
                 adr |-> adr, data |-> data_reg]
    BY <1>6 DEF Pins
  <2>2. ce_n \in BOOLEAN /\ we_n \in BOOLEAN /\ r.zz \in BOOLEAN
    BY <1>0 DEF Machines
  <2>3. pins' \in Pin
    BY <1>0, <1>3, <2>1, <2>2 DEF Pin
  <2> QED BY <1>1, <1>6, <2>1, <2>2, <2>3
<1> QED BY <1>5, <1>6

(* Address and control pins that stay let the chip's access grow old; data   *)
(* pins that stay let the data settle.                                       *)
LEMMA Staying ==
  ASSUME SramAssumption, RamTypeOK, RamTypeOK', Chip
  PROVE  /\ age' \in Nat /\ dage' \in Nat /\ age' > 0 /\ dage' > 0
         /\ /\ pins'.ce_n = pins.ce_n /\ pins'.we_n = pins.we_n
            /\ pins'.zz_n = pins.zz_n /\ pins'.adr = pins.adr
            => age' = Older(age)
         /\ pins'.data = pins.data => dage' = Older(dage)
<1>1. pins \in Pin /\ pins' \in Pin /\ age \in Nat /\ dage \in Nat
  BY DEF RamTypeOK
<1>2. ASSUME pins'.ce_n = pins.ce_n, pins'.we_n = pins.we_n,
             pins'.zz_n = pins.zz_n, pins'.adr = pins.adr
      PROVE  Held(pins', pins)
  <2> DEFINE p == [pins EXCEPT !.data = Undefined, !.oe_n = TRUE]
             q == [pins' EXCEPT !.data = Undefined, !.oe_n = TRUE]
  <2>1. /\ p \in Pin /\ p.ce_n = pins.ce_n /\ p.oe_n = TRUE /\ p.we_n = pins.we_n
        /\ p.zz_n = pins.zz_n /\ p.adr = pins.adr /\ p.data = Undefined
    BY <1>1 DEF Pin, RamWord
  <2>2. /\ q \in Pin /\ q.ce_n = pins'.ce_n /\ q.oe_n = TRUE /\ q.we_n = pins'.we_n
        /\ q.zz_n = pins'.zz_n /\ q.adr = pins'.adr /\ q.data = Undefined
    BY <1>1 DEF Pin, RamWord
  <2>3. Held(pins', pins) <=> q = p
    BY DEF Held
  <2> HIDE DEF p, q
  <2>4. q = p
    BY <1>2, <2>1, <2>2 DEF Pin
  <2> QED BY <2>3, <2>4
<1>3. Older(age) \in Nat /\ Older(age) > 0 /\ Older(dage) \in Nat /\ Older(dage) > 0
  BY <1>1, Aging
<1>4. age' = IF Held(pins', pins) THEN Older(age) ELSE 1
  BY DEF Chip
<1>5. dage' = IF pins'.data = pins.data THEN Older(dage) ELSE 1
  BY DEF Chip
<1> QED BY <1>2, <1>3, <1>4, <1>5

(* The cache keeps its request until it is answered, and software does not   *)
(* ask for the configuration when the idle machine finds a request.          *)
LEMMA CacheMoves ==
  ASSUME Exclusive = TRUE, RamTypeOK, Cache, RamSoftware
  PROVE  /\ bus' \in [cyc : BOOLEAN, we : BOOLEAN, line : Lines, data : LineData]
         /\ read_config' \in BOOLEAN
         /\ bus.cyc /\ ~r.ack => bus' = bus
         /\ bus'.cyc => bus' = bus \/ sram_ready
         /\ read_config' => sram_ready
         /\ bus'.cyc /\ r'.fsm = "IDLE" => ~read_config'
<1> USE DEF RamTypeOK
<1>1. /\ read_config' \in BOOLEAN /\ (read_config' => sram_ready)
      /\ bus'.cyc /\ r'.fsm = "IDLE" => ~read_config'
  BY DEF RamSoftware
<1>2. CASE (bus.cyc => ~r.ack) /\ NoRequest
  BY <1>1, <1>2 DEF NoRequest
<1>3. CASE Request
  BY <1>1, <1>3 DEF Request
<1>4. CASE Release
  BY <1>1, <1>4 DEF Release
<1> QED BY <1>2, <1>3, <1>4 DEF Cache

(* The counter runs in some states and rests in the others. *)
LEMMA CounterMoves ==
  ASSUME RamTypeOK, Counter
  PROVE  /\ counter' \in Nat
         /\ r.fsm \in {"RD", "RACK", "WR", "WACK", "CONFIG", "CFGRD3"} =>
              counter' = IF counter_done THEN 0 ELSE counter + 1
         /\ r.fsm \in {"RACK2", "RACK3", "WR_CE", "CONFIG_PRE", "CONFIG_PRE2", "CONFIG_PRE3",
                       "ZZ_UP", "ZZ_UP2", "ZZ_UP3"} => counter' = 0
         /\ r.fsm = "IDLE" => /\ load_config \/ ~bus.cyc \/ bus.we => counter' = 0
                              /\ counter' = 0 \/ counter' = counter + 1
BY DEF RamTypeOK, Counter, counter_en

(* A step is a step of the state machine in one of its groups of states. *)
LEMMA MachineMoves ==
  ASSUME RamTypeOK, Machine
  PROVE  \/ IdleState
         \/ \E read \in BOOLEAN : ConfigRead \/ ConfigCycle(read)
         \/ ConfigWrite \/ Read \/ Write
<1>1. page \in BOOLEAN => modes \subseteq BOOLEAN
  BY DEF modes
<1> QED BY <1>1 DEF Machine, RamTypeOK

(* A cycle keeps every register within its type. *)
LEMMA RamTypeStep == ASSUME SramAssumption, Exclusive = TRUE, RamTypeOK, RamCycle PROVE RamTypeOK'
<1> USE DEF RamCycle
<1>1. bus' \in [cyc : BOOLEAN, we : BOOLEAN, line : Lines, data : LineData] /\ read_config' \in BOOLEAN
  BY CacheMoves
<1>2. r' \in Machines
  BY MachineMoves, IdleMoves, AskMoves, SetupMoves, ReadMoves, WriteMoves
<1>3. counter' \in Nat
  BY CounterMoves
<1>4. load_config' \in BOOLEAN /\ sram_ready' \in BOOLEAN /\ reset_counter' \in Nat
  BY DEF RamTypeOK, StartUp
<1>5. data_reg' \in RamWord /\ sync_oe' \in BOOLEAN
  <2>1. bus.data \in [0..(Words - 1) -> RamWord] /\ r.burst \in 0..(Words - 1)
    BY LineWords DEF RamTypeOK, Machines
  <2> QED BY <2>1 DEF DataOut
<1>6. read_ram' \in RamWord /\ read_reg' \in [1..Words -> RamWord]
  BY LinesShowWords, WordShift DEF DataIn, RamTypeOK
<1>7. pins' \in Pin
  BY PinMoves
<1>8. age' \in Nat /\ dage' \in Nat
  BY Aging DEF Chip, RamTypeOK
<1>9. page' \in BOOLEAN
  BY DEF Chip, RamTypeOK, writeEnds
<1>10. mem' \in [Lines -> [0..(Words - 1) -> RamWord]]
  <2>1. /\ mem \in [Lines -> [0..(Words - 1) -> RamWord]] /\ pins \in Pin
        /\ Undefined \in RamWord
    BY DEF RamTypeOK, RamWord
  <2>2. CASE writeEnds /\ pins.zz_n /\ pins.adr \notin {Config, Mode}
    <3> DEFINE w == IF age >= wr_timing /\ dage >= DataSetup THEN pins.data ELSE Undefined
    <3>1. mem' = [mem EXCEPT ![pins.adr.line][pins.adr.word] = w]
      BY <2>2 DEF Chip
    <3>2. pins.adr.line \in Lines /\ pins.adr.word \in 0..(Words - 1) /\ w \in RamWord
      BY <2>1, <2>2 DEF Pin, Place
    <3> QED BY <2>1, <3>1, <3>2
  <2>3. CASE ~(writeEnds /\ pins.zz_n /\ pins.adr \notin {Config, Mode})
    BY <2>1, <2>3 DEF Chip
  <2> QED BY <2>2, <2>3
<1>11. stored' \in [Lines -> [0..(Words - 1) -> RamWord]]
  <2>1. /\ bus.data \in [0..(Words - 1) -> RamWord] /\ bus.line \in Lines
        /\ stored \in [Lines -> [0..(Words - 1) -> RamWord]]
    BY LineWords DEF RamTypeOK
  <2> QED BY <2>1 DEF RamObserve
<1> QED BY <1>1, <1>2, <1>3, <1>4, <1>5, <1>6, <1>7, <1>8, <1>9, <1>10, <1>11 DEF RamTypeOK

-----------------------------------------------------------------------------
(* In each state the outputs are those that the way into it has assigned. *)
LEMMA OutputsStep ==
  ASSUME SramAssumption, Exclusive = TRUE, RamTypeOK, Controlled, RamCycle PROVE Outputs'
<1> USE DEF Controlled
<1>0. /\ r \in Machines /\ bus.cyc \in BOOLEAN /\ bus.we \in BOOLEAN
      /\ load_config \in BOOLEAN /\ read_config \in BOOLEAN
      /\ counter \in Nat /\ r.limit \in Nat
  BY DEF RamTypeOK, Machines
<1>1. CASE IdleState
  <2>1. /\ ~r.load /\ ~r.override /\ r.burst = 0 /\ ~r.shift /\ ~(bus.cyc /\ read_config)
        /\ ~(load_config /\ read_config)
    BY <1>1, IdleMoves DEF Outputs, Apart, Reads, Asks
  <2>2. /\ load_config => r'.fsm = "CONFIG_PRE" /\ r'.burst = 0 /\ ~r'.load
        /\ ~load_config /\ bus.cyc /\ bus.we => r'.fsm = "WR_CE" /\ r'.burst = 0 /\ ~r'.load
        /\ ~load_config /\ bus.cyc /\ ~bus.we => r'.fsm = "RD" /\ r'.burst = 0 /\ r'.load
        /\ ~load_config /\ ~bus.cyc => /\ r'.fsm = IF read_config THEN "CONFIG_READ" ELSE "IDLE"
                                       /\ r'.burst = 0 /\ ~r'.load
        /\ ~r'.ack /\ ~r'.config /\ ~r'.shift /\ (r'.override <=> read_config)
        /\ r'.zz <=> ~load_config
    BY <1>1, <2>1, IdleMoves
  <2> QED BY <1>0, <2>1, <2>2 DEF Outputs, Reads, Asks, Preparing
<1>2. CASE \E read \in BOOLEAN : ConfigRead \/ ConfigCycle(read)
  <2>1. /\ r.fsm \in Asks /\ ~r.ack /\ r.zz /\ ~r.load /\ ~r.config /\ ~r.shift /\ r.burst = 0
        /\ r.override
    BY <1>2, AskMoves DEF Outputs, Reads, Asks, Preparing
  <2>2. /\ ~r'.ack /\ r'.zz /\ ~r'.load /\ ~r'.config /\ ~r'.shift /\ r'.burst = 0
        /\ \/ r'.fsm \in Asks /\ r'.override
           \/ r'.fsm = "IDLE" /\ ~r'.override
    BY <1>2, <2>1, AskMoves
  <2> QED BY <2>2 DEF Outputs, Reads, Asks, Preparing
<1>3. CASE ConfigWrite
  BY <1>0, <1>3, SetupMoves DEF Outputs, Reads, Asks, Preparing
<1>4. CASE Read
  <2>1. /\ r.fsm \in Reads /\ r.zz /\ ~r.config /\ ~r.override /\ r.load
    BY <1>4, ReadMoves DEF Outputs, Reads, Asks, Preparing
  <2>2. /\ r'.zz /\ ~r'.config /\ ~r'.override
    BY <1>4, <2>1, ReadMoves
  <2>3. /\ r'.fsm \in Reads \union {"IDLE"} /\ (r'.ack <=> r'.fsm = "RACK3")
        /\ (r'.load <=> r'.fsm # "IDLE")
        /\ r'.burst # 0 => r'.fsm = "RD"
        /\ r'.shift => r'.fsm \in {"RD", "RACK2"}
    <3>1. CASE r.fsm = "RD"
      <4>1. ~r.ack
        BY <3>1 DEF Outputs
      <4>2. CASE counter_almost_done /\ last
        <5>1. ~counter_done
          BY <1>0, <4>2 DEF counter_done, counter_almost_done
        <5> QED BY <1>4, <2>1, <3>1, <4>1, <4>2, <5>1, ReadMoves, Bursts DEF Reads
      <4>3. CASE ~(counter_almost_done /\ last)
        BY <1>0, <1>4, <2>1, <3>1, <4>1, <4>3, ReadMoves DEF Reads
      <4> QED BY <4>2, <4>3
    <3>2. CASE r.fsm = "RACK"
      BY <1>0, <1>4, <2>1, <3>2, ReadMoves DEF Outputs, Reads
    <3>3. CASE r.fsm = "RACK2"
      BY <1>0, <1>4, <2>1, <3>3, ReadMoves DEF Outputs, Reads
    <3>4. CASE r.fsm = "RACK3"
      BY <1>0, <1>4, <2>1, <3>4, ReadMoves DEF Outputs, Reads
    <3> QED BY <2>1, <3>1, <3>2, <3>3, <3>4 DEF Reads
  <2> QED BY <2>2, <2>3 DEF Outputs, Reads, Asks, Preparing
<1>5. CASE Write
  <2>1. /\ r.fsm \in Writes /\ r.zz /\ ~r.load /\ ~r.config /\ ~r.shift /\ ~r.override
    BY <1>5, WriteMoves DEF Outputs, Reads, Writes, Asks, Preparing
  <2>2. /\ r'.zz /\ ~r'.load /\ ~r'.config /\ ~r'.shift /\ ~r'.override
    BY <1>5, <2>1, WriteMoves
  <2>3. /\ r'.fsm \in {"WR", "WACK", "IDLE"} /\ (r'.ack <=> r'.fsm = "WACK")
        /\ r'.burst # 0 => r'.fsm = "WR"
    <3>1. CASE r.fsm = "WR_CE"
      BY <1>0, <1>5, <3>1, WriteMoves DEF Outputs
    <3>2. CASE r.fsm = "WR"
      BY <1>0, <1>5, <3>2, WriteMoves, Bursts DEF Outputs
    <3>3. CASE r.fsm = "WACK"
      BY <1>0, <1>5, <3>3, WriteMoves DEF Outputs
    <3> QED BY <2>1, <3>1, <3>2, <3>3 DEF Writes
  <2> QED BY <2>2, <2>3 DEF Outputs, Reads, Asks, Preparing
<1> QED BY <1>1, <1>2, <1>3, <1>4, <1>5, MachineMoves DEF RamCycle

(* The counter has run out, or rests, when the machine comes back to IDLE. *)
LEMMA RestedStep ==
  ASSUME SramAssumption, Exclusive = TRUE, RamTypeOK, Controlled, RamCycle,
         r.fsm = "WR" => r.limit = wr_timing /\ counter <= wr_timing
  PROVE  Rested'
<1> USE DEF Controlled, Rested
<1>0. /\ r \in Machines /\ counter \in Nat /\ r.limit \in Nat
      /\ load_config \in BOOLEAN /\ bus.cyc \in BOOLEAN /\ bus.we \in BOOLEAN
  BY DEF RamTypeOK, Machines
<1>1. CASE IdleState
  <2>1. r.fsm = "IDLE" /\ r'.fsm # "WACK" /\ (r'.fsm = "IDLE" => ~load_config /\ ~bus.cyc)
    BY <1>0, <1>1, IdleMoves
  <2> QED BY <2>1, CounterMoves DEF RamCycle
<1>2. CASE \E read \in BOOLEAN : ConfigRead \/ ConfigCycle(read)
  <2>1. r.fsm \in Asks /\ (r'.fsm \in Asks \/ (r'.fsm = "IDLE" /\ counter_done))
    BY <1>2, AskMoves
  <2>2. counter_done => counter' = 0
    BY <1>0 DEF RamCycle, Counter
  <2> QED BY <2>1, <2>2 DEF Asks
<1>3. CASE ConfigWrite
  BY <1>3, SetupMoves, CounterMoves DEF RamCycle, Preparing
<1>4. CASE Read
  BY <1>4, ReadMoves, CounterMoves DEF RamCycle, Reads
<1>5. CASE Write
  <2>1. CASE r.fsm = "WR_CE"
    BY <1>5, <2>1, WriteMoves
  <2>2. CASE r.fsm = "WR"
    <3>1. /\ r'.fsm \in {"WR", "WACK"} /\ r'.limit = r.limit
          /\ r'.fsm = "WACK" => counter_almost_done
      BY <1>5, <2>2, WriteMoves
    <3>2. counter_almost_done => counter' = r.limit
      <4>1. counter_almost_done => ~counter_done /\ counter + 1 = r.limit
        BY <1>0 DEF counter_almost_done, counter_done
      <4> QED BY <2>2, <4>1, CounterMoves DEF RamCycle
    <3> QED BY <1>0, <3>1, <3>2 DEF counter_done
  <2>3. CASE r.fsm = "WACK"
    BY <1>5, <2>3, WriteMoves, CounterMoves DEF RamCycle
  <2> QED BY <1>5, <2>1, <2>2, <2>3, WriteMoves DEF Writes
<1> QED BY <1>1, <1>2, <1>3, <1>4, <1>5, MachineMoves DEF RamCycle

(* A request, the setup and a configuration read begin only when the others are over. *)
LEMMA ApartStep ==
  ASSUME SramAssumption, Exclusive = TRUE, RamTypeOK, Controlled, RamCycle PROVE Apart'
<1> USE DEF Controlled
<1>0. /\ r \in Machines /\ reset_counter \in Nat /\ sram_ready \in BOOLEAN
      /\ bus.cyc \in BOOLEAN /\ bus.we \in BOOLEAN
      /\ load_config \in BOOLEAN /\ read_config \in BOOLEAN
  BY DEF RamTypeOK
<1>1. /\ reset_counter' = IF reset_counter > 0 THEN reset_counter - 1 ELSE 0
      /\ sram_ready' <=> reset_counter = 0
      /\ load_config' <=> reset_counter = 1
  BY DEF RamCycle, StartUp
<1>2. /\ sram_ready => sram_ready'
      /\ sram_ready' \/ load_config' => reset_counter' = 0
      /\ ~(sram_ready' /\ load_config')
      /\ ~sram_ready' => reset_counter' > 0 \/ load_config'
  BY <1>0, <1>1 DEF Apart
<1>3. bus'.cyc \/ read_config' => sram_ready'
  BY <1>0, <1>2, CacheMoves DEF RamCycle, Apart
<1>4. ~sram_ready' => r'.fsm = "IDLE"
  <2>1. SUFFICES ASSUME ~sram_ready' PROVE r'.fsm = "IDLE"
    OBVIOUS
  <2>2. ~sram_ready /\ r.fsm = "IDLE" /\ reset_counter > 0 /\ ~load_config
    BY <1>0, <1>1, <1>2, <2>1 DEF Apart
  <2>3. ~bus.cyc /\ ~read_config
    BY <2>2 DEF Apart
  <2>4. IdleState
    BY <2>2 DEF RamCycle, Machine, ConfigRead, ConfigCycle, ConfigNext, ConfigWrite, Read, Write
  <2> QED BY <1>0, <2>2, <2>3, <2>4, IdleMoves
<1>5. /\ r'.fsm \in Reads => bus'.cyc /\ ~bus'.we
      /\ r'.fsm \in Writes => bus'.cyc /\ bus'.we
  <2>0. r.fsm \in Reads \union Writes /\ ~r.ack => bus' = bus
    BY <1>0, CacheMoves DEF RamCycle, Apart
  <2>1. CASE IdleState
    <3>1. r.fsm = "IDLE" /\ ~r.ack /\ (bus.cyc => bus' = bus)
      BY <2>1, IdleMoves, CacheMoves DEF RamCycle, Outputs, Apart
    <3>2. /\ r'.fsm \in {"CONFIG_PRE", "WR_CE", "RD", "CONFIG_READ", "IDLE"}
          /\ r'.fsm = "WR_CE" => bus.cyc /\ bus.we
          /\ r'.fsm = "RD" => bus.cyc /\ ~bus.we
      BY <1>0, <2>1, IdleMoves
    <3> QED BY <3>1, <3>2 DEF Reads, Writes
  <2>2. CASE \E read \in BOOLEAN : ConfigRead \/ ConfigCycle(read)
    BY <1>0, <2>2, AskMoves DEF Reads, Writes, Asks, Outputs
  <2>3. CASE ConfigWrite
    BY <2>3, SetupMoves DEF Reads, Writes, Preparing
  <2>4. CASE Read
    BY <2>0, <2>4, ReadMoves DEF Reads, Writes, Outputs, Apart
  <2>5. CASE Write
    BY <2>0, <2>5, WriteMoves DEF Reads, Writes, Outputs, Apart
  <2> QED BY <2>1, <2>2, <2>3, <2>4, <2>5, MachineMoves DEF RamCycle
<1>6. bus'.cyc /\ r'.fsm = "IDLE" => ~read_config'
  BY CacheMoves DEF RamCycle
<1> QED BY <1>2, <1>3, <1>4, <1>5, <1>6 DEF Apart

(* WE falls long enough after ZZ for the chip to take its mode, once, after reset. *)
LEMMA ModeSetStep ==
  ASSUME SramAssumption, Exclusive = TRUE, RamTypeOK, Controlled, ModeSet, RamCycle PROVE ModeSet'
<1> USE DEF Controlled
<1>0. /\ r \in Machines /\ counter \in Nat /\ r.limit \in Nat /\ load_config \in BOOLEAN
      /\ read_config \in BOOLEAN /\ bus.cyc \in BOOLEAN /\ bus.we \in BOOLEAN
      /\ sram_ready \in BOOLEAN /\ reset_counter \in Nat
      /\ ConfigTiming \in Nat /\ ConfigTiming > 0
  BY Timings DEF RamTypeOK, Machines
<1> DEFINE Before == {"CONFIG_PRE", "CONFIG_PRE2", "CONFIG_PRE3"}
           Unset == Preparing \ {"ZZ_UP2", "ZZ_UP3"}
<1>1. /\ page => page'
      /\ r.fsm = "ZZ_UP" => page'
  <2>1. page => page'
    BY DEF RamCycle, Chip
  <2>2. ASSUME r.fsm = "ZZ_UP" PROVE page'
    <3>1. ~pins.we_n /\ ~pins.ce_n /\ ~pins.zz_n /\ pins.adr = Mode
      BY <2>2 DEF ModeSet
    <3>2. ~r.override /\ ~r.config /\ ~store
      BY <2>2 DEF Outputs, Asks, store
    <3>3. pins'.we_n
      BY <3>2, PinMoves DEF RamCycle
    <3> QED BY <3>1, <3>3 DEF RamCycle, Chip, writeEnds
  <2> QED BY <2>1, <2>2
<1>2. ASSUME IdleState PROVE ModeSet'
  <2>1. /\ r.fsm = "IDLE" /\ (load_config => r'.fsm = "CONFIG_PRE" /\ r'.limit = ConfigTiming)
        /\ ~load_config => r'.fsm \in {"WR_CE", "RD", "CONFIG_READ", "IDLE"}
    BY <1>0, <1>2, IdleMoves
  <2>2. load_config => counter' = 0
    BY <2>1, CounterMoves DEF RamCycle
  <2>3. sram_ready' => page' \/ r'.fsm = "CONFIG_PRE"
    <3>1. SUFFICES ASSUME sram_ready', ~load_config PROVE page'
      BY <2>1
    <3>2. reset_counter = 0
      BY <3>1 DEF RamCycle, StartUp
    <3>3. sram_ready
      BY <1>0, <3>1, <3>2 DEF Apart
    <3> QED BY <1>1, <2>1, <3>3 DEF ModeSet, Preparing
  <2> QED BY <2>1, <2>2, <2>3 DEF ModeSet, Preparing
<1>3. ASSUME r.fsm \notin Preparing, r.fsm # "IDLE", r'.fsm \notin Preparing PROVE ModeSet'
  <2>1. page
    BY <1>3 DEF Apart, ModeSet
  <2> QED BY <1>1, <1>3, <2>1 DEF ModeSet, Preparing
<1>4. ASSUME \E read \in BOOLEAN : ConfigRead \/ ConfigCycle(read) PROVE ModeSet'
  BY <1>3, <1>4, AskMoves DEF Asks, Preparing
<1>5. ASSUME Read PROVE ModeSet'
  BY <1>3, <1>5, ReadMoves DEF Reads, Preparing
<1>6. ASSUME Write PROVE ModeSet'
  BY <1>3, <1>6, WriteMoves DEF Writes, Preparing
<1>7. ASSUME ConfigWrite PROVE ModeSet'
  <2>0. sram_ready /\ ~r.override
    BY <1>7, SetupMoves DEF Apart, Outputs, Preparing, Asks
  <2>1. CASE r.fsm \in Before
    <3>1. /\ r'.limit = ConfigTiming /\ counter' = 0
          /\ r'.fsm \in {"CONFIG_PRE2", "CONFIG_PRE3", "CONFIG"}
          /\ r'.fsm = "CONFIG" => r'.ce_early
      BY <1>7, <2>1, SetupMoves, CounterMoves DEF RamCycle, ModeSet
    <3> QED BY <3>1 DEF ModeSet, Preparing
  <2>2. CASE r.fsm = "CONFIG"
    <3>1. /\ r.limit = ConfigTiming /\ r.ce_early /\ (counter > 0 => r.config) /\ ~r.zz
      BY <2>2 DEF ModeSet, Outputs, Preparing
    <3>2. CASE counter_done
      <4>1. r.config
        BY <1>0, <3>1, <3>2 DEF counter_done
      <4>2. ~pins'.we_n /\ ~pins'.ce_n /\ ~pins'.zz_n /\ pins'.adr = Mode
        BY <2>0, <3>1, <4>1, PinMoves DEF RamCycle
      <4>3. r'.fsm = "ZZ_UP"
        BY <1>7, <2>2, <3>2, SetupMoves
      <4> QED BY <4>2, <4>3 DEF ModeSet, Preparing
    <3>3. CASE ~counter_done
      <4>1. r'.fsm = "CONFIG" /\ r'.ce_early /\ r'.config /\ r'.limit = ConfigTiming
        BY <1>0, <1>7, <2>2, <3>1, <3>3, SetupMoves
      <4> QED BY <4>1 DEF ModeSet, Preparing
    <3> QED BY <3>2, <3>3
  <2>3. CASE r.fsm \in {"ZZ_UP", "ZZ_UP2", "ZZ_UP3"}
    <3>1. r'.fsm \in {"ZZ_UP2", "ZZ_UP3", "IDLE"}
      BY <1>7, <2>3, SetupMoves
    <3>2. page'
      BY <1>1, <2>0, <2>3 DEF ModeSet, Preparing
    <3> QED BY <3>1, <3>2 DEF ModeSet
  <2> QED BY <1>7, <2>1, <2>2, <2>3, SetupMoves DEF Preparing
<1> QED BY <1>2, <1>4, <1>5, <1>6, <1>7, MachineMoves DEF RamCycle

(* The output is turned off when the controller's is turned on. *)
LEMMA DrivingStep ==
  ASSUME SramAssumption, Exclusive = TRUE, RamTypeOK, Controlled, RamCycle PROVE Driving'
<1>1. sync_oe' <=> ~r.load /\ bus.cyc
  BY DEF RamCycle, DataOut
<1>2. r.load \in BOOLEAN
  BY DEF RamTypeOK, Machines
<1> QED BY <1>1, <1>2, PinMoves DEF RamCycle, Driving

-----------------------------------------------------------------------------
(* Where the next pins come from while a request is served. *)
LEMMA ServingPins ==
  ASSUME SramAssumption, RamTypeOK, Controlled, Pins, bus.cyc, r.fsm \notin Preparing \union Asks
  PROVE  /\ pins'.adr = At(bus.line, r.burst) /\ pins'.zz_n /\ ~pins'.ce_n
         /\ pins'.we_n <=> ~store
         /\ pins'.oe_n <=> ~r.load
         /\ pins'.data = data_reg
<1>1. ~r.override /\ r.zz /\ bus.cyc \in BOOLEAN
  BY DEF Controlled, Apart, Outputs, RamTypeOK
<1>2. ~r.config
  BY DEF Controlled, Outputs, Preparing
<1> QED BY <1>1, <1>2, PinMoves

(* The pulse of a write stays on its address until the counter ends it. *)
LEMMA WritingStep ==
  ASSUME SramAssumption, Exclusive = TRUE, RamTypeOK, RamTypeOK', Controlled, Writing, RamCycle
  PROVE  Writing'
<1> USE DEF Controlled
<1>0. /\ r \in Machines /\ counter \in Nat /\ r.limit \in Nat /\ r.burst \in 0..(Words - 1)
      /\ bus.cyc \in BOOLEAN /\ bus.we \in BOOLEAN /\ age \in Nat /\ dage \in Nat
      /\ wr_timing \in Nat /\ wr_timing > 1 /\ MaxAge \in Nat /\ MaxAge >= wr_timing
  BY Timings DEF RamTypeOK, Machines
<1>1. /\ age' \in Nat /\ dage' \in Nat /\ age' > 0 /\ dage' > 0
      /\ /\ pins'.ce_n = pins.ce_n /\ pins'.we_n = pins.we_n
         /\ pins'.zz_n = pins.zz_n /\ pins'.adr = pins.adr
         => age' = Older(age)
      /\ pins'.data = pins.data => dage' = Older(dage)
  BY Staying DEF RamCycle
<1>2. ASSUME ~pins'.we_n, pins'.adr \notin {Config, Mode} PROVE r'.fsm = "WR"
  <2>1. ~r.override
    BY <1>2, PinMoves DEF RamCycle
  <2>2. r.zz
    BY <1>2, <2>1, PinMoves DEF RamCycle
  <2>3. ~r.config
    BY <2>2 DEF Outputs, Preparing
  <2>4. store
    BY <1>2, <2>1, <2>3, PinMoves DEF RamCycle
  <2>5. CASE r.fsm = "WR_CE"
    BY <2>5, WriteMoves DEF RamCycle, Machine, IdleState, ConfigRead, ConfigCycle, ConfigNext,
                            ConfigWrite, Read
  <2>6. CASE r.fsm = "WR" /\ ~counter_almost_done
    BY <2>6, WriteMoves DEF RamCycle, Machine, IdleState, ConfigRead, ConfigCycle, ConfigNext,
                            ConfigWrite, Read
  <2> QED BY <2>4, <2>5, <2>6 DEF store
<1>3. ASSUME IdleState PROVE Writing'
  <2>1. r'.fsm # "WR" /\ (r'.fsm = "WR_CE" => bus.cyc /\ bus.we) /\ r.fsm = "IDLE"
    BY <1>0, <1>3, IdleMoves
  <2>2. ASSUME r'.fsm = "WR_CE" PROVE data_reg' = bus'.data[0]
    <3>1. bus' = bus /\ r.burst = 0
      BY <2>1, <2>2, CacheMoves DEF RamCycle, Outputs
    <3> QED BY <3>1 DEF RamCycle, DataOut
  <2> QED BY <1>1, <1>2, <2>1, <2>2 DEF Writing
<1>4. ASSUME r'.fsm \notin {"WR_CE", "WR"} PROVE Writing'
  BY <1>1, <1>2, <1>4 DEF Writing
<1>5. ASSUME \E read \in BOOLEAN : ConfigRead \/ ConfigCycle(read) PROVE Writing'
  BY <1>4, <1>5, AskMoves DEF Asks
<1>6. ASSUME Read PROVE Writing'
  BY <1>4, <1>6, ReadMoves DEF Reads
<1>7. ASSUME ConfigWrite PROVE Writing'
  BY <1>4, <1>7, SetupMoves DEF Preparing
<1>8. ASSUME Write, r.fsm = "WR_CE" PROVE Writing'
  <2>1. bus' = bus /\ bus.cyc /\ r.burst = 0 /\ r'.fsm = "WR" /\ r'.burst = 0 /\ r'.limit = wr_timing
    BY <1>8, WriteMoves, CacheMoves DEF RamCycle, Apart, Outputs, Writes
  <2>2. counter' = 0
    BY <1>8, CounterMoves DEF RamCycle
  <2>3. data_reg' = bus.data[0]
    BY <2>1 DEF RamCycle, DataOut
  <2>4. /\ pins'.adr = At(bus.line, 0) /\ pins'.zz_n /\ ~pins'.ce_n /\ ~pins'.we_n
    BY <1>8, <2>1, ServingPins DEF RamCycle, Preparing, Asks, store
  <2>5. Aimed(r.burst)'
    BY <2>1, <2>4 DEF Aimed
  <2> QED BY <1>0, <1>1, <1>2, <2>1, <2>2, <2>3, <2>4, <2>5 DEF Writing
<1>9. ASSUME Write, r.fsm = "WR" PROVE Writing'
  <2>0. bus' = bus /\ bus.cyc /\ ~r.ack
    BY <1>9, CacheMoves DEF RamCycle, Apart, Outputs, Writes
  <2>1. /\ r.limit = wr_timing /\ counter <= wr_timing
        /\ counter = wr_timing => pins.we_n /\ r.burst > 0
    BY <1>9 DEF Writing
  <2>2. /\ pins'.adr = At(bus.line, r.burst) /\ pins'.zz_n /\ ~pins'.ce_n
        /\ pins'.we_n <=> counter_almost_done
        /\ pins'.data = data_reg
    BY <1>9, <2>0, ServingPins DEF RamCycle, Preparing, Asks, store, counter_almost_done
  <2>3. data_reg' = bus.data[r.burst]
    BY DEF RamCycle, DataOut
  <2>4. CASE counter_almost_done
    <3>1. counter + 1 = wr_timing /\ ~counter_done /\ counter' = wr_timing
      <4>1. counter + 1 = wr_timing /\ ~counter_done
        BY <1>0, <2>1, <2>4 DEF counter_almost_done, counter_done
      <4> QED BY <1>9, <4>1, CounterMoves DEF RamCycle
    <3>2. CASE last
      BY <1>4, <1>9, <2>4, <3>2, WriteMoves
    <3>3. CASE ~last
      <4>1. r'.fsm = "WR" /\ r'.burst = r.burst + 1 /\ r'.limit = wr_timing
        BY <1>9, <2>1, <2>4, <3>3, WriteMoves, Bursts
      <4> QED BY <1>0, <1>1, <1>2, <2>2, <2>4, <3>1, <4>1 DEF Writing
    <3> QED BY <3>2, <3>3
  <2>5. CASE ~counter_almost_done
    <3>1. r'.fsm = "WR" /\ r'.burst = r.burst /\ r'.limit = wr_timing
      BY <1>9, <2>1, <2>5, WriteMoves, Bursts
    <3>2. Aimed(r.burst)' /\ ~pins'.we_n
      BY <2>0, <2>2, <2>5, <3>1 DEF Aimed
    <3>3. CASE counter = wr_timing
      <4>1. counter' = 0
        BY <1>0, <1>9, <2>1, <3>3, CounterMoves DEF RamCycle, counter_done
      <4> QED BY <1>0, <1>1, <1>2, <2>0, <2>3, <3>1, <3>2, <4>1 DEF Writing
    <3>4. CASE counter # wr_timing
      <4>1. counter < wr_timing - 1 /\ ~counter_done
        BY <1>0, <2>1, <2>5, <3>4 DEF counter_almost_done, counter_done
      <4>2. counter' = counter + 1 /\ counter < wr_timing /\ counter + 1 < MaxAge
        BY <1>0, <1>9, <4>1, CounterMoves DEF RamCycle
      <4>3. /\ Aimed(r.burst) /\ ~pins.we_n /\ data_reg = bus.data[r.burst] /\ age >= counter + 1
            /\ counter > 0 => pins.data = bus.data[r.burst] /\ dage >= counter
        BY <1>9, <4>2 DEF Writing
      <4>4. age' = Older(age)
        BY <1>1, <2>2, <3>2, <4>3 DEF Aimed, RamTypeOK, Pin
      <4>5. age' >= counter' + 1
        BY <1>0, <4>2, <4>3, <4>4, Aging
      <4>6. pins'.data = bus.data[r.burst] /\ dage' >= counter'
        <5>1. CASE counter = 0
          BY <1>0, <1>1, <2>2, <4>2, <4>3, <5>1
        <5>2. CASE counter > 0
          <6>1. dage' = Older(dage)
            BY <1>1, <2>2, <4>3, <5>2
          <6> QED BY <1>0, <2>2, <4>2, <4>3, <5>2, <6>1, Aging
        <5> QED BY <1>0, <5>1, <5>2
      <4> QED BY <1>0, <1>1, <1>2, <2>0, <2>3, <3>1, <3>2, <4>1, <4>2, <4>5, <4>6 DEF Writing
    <3> QED BY <3>3, <3>4
  <2> QED BY <2>4, <2>5
<1>10. ASSUME Write, r.fsm = "WACK" PROVE Writing'
  BY <1>4, <1>10, WriteMoves
<1> QED BY <1>3, <1>5, <1>6, <1>7, <1>8, <1>9, <1>10, MachineMoves, WriteMoves DEF RamCycle, Writes

(* The chip is written only while the machine is at a word. *)
LEMMA Unwritten ==
  ASSUME Writing, Chip
  PROVE  /\ r.fsm # "WR" => mem' = mem
         /\ pins.we_n => mem' = mem
BY DEF Writing, Chip, writeEnds

(* What the pulse has written is what the cache asked for, and nothing else changes. *)
LEMMA InMemoryStep ==
  ASSUME SramAssumption, Exclusive = TRUE, RamTypeOK, Controlled, Writing, InMemory, RamCycle
  PROVE  InMemory'
<1> USE DEF Controlled
<1>0. /\ counter \in Nat /\ r.limit \in Nat /\ r.burst \in 0..(Words - 1) /\ Words \in Nat
      /\ bus.cyc \in BOOLEAN /\ bus.we \in BOOLEAN /\ bus.line \in Lines
      /\ bus.data \in [0..(Words - 1) -> RamWord]
      /\ mem \in [Lines -> [0..(Words - 1) -> RamWord]]
      /\ stored \in [Lines -> [0..(Words - 1) -> RamWord]]
      /\ wr_timing \in Nat /\ wr_timing > 1 /\ DataSetup \in Nat /\ DataSetup < wr_timing
  BY Timings, LineWords DEF RamTypeOK, Machines
<1>1. ASSUME r.fsm # "WR", r.fsm # "WACK", r'.fsm # "WACK", r'.fsm = "WR" => r'.burst = 0
      PROVE  InMemory'
  <2>1. stored' = stored /\ mem' = mem
    BY <1>1, Unwritten DEF RamCycle, RamObserve, Outputs, Apart, Reads
  <2>2. \A i \in 0..(Words - 1) : ~(r'.fsm = "WR" /\ i < r'.burst)
    BY <1>0, <1>1
  <2> QED BY <1>1, <2>1, <2>2 DEF InMemory
<1>2. ASSUME IdleState PROVE InMemory'
  BY <1>0, <1>1, <1>2, IdleMoves DEF RamTypeOK
<1>3. ASSUME \E read \in BOOLEAN : ConfigRead \/ ConfigCycle(read) PROVE InMemory'
  BY <1>1, <1>3, AskMoves DEF Asks
<1>4. ASSUME ConfigWrite PROVE InMemory'
  BY <1>1, <1>4, SetupMoves DEF Preparing
<1>5. ASSUME Read PROVE InMemory'
  BY <1>1, <1>5, ReadMoves DEF Reads
<1>6. ASSUME Write, r.fsm = "WR_CE" PROVE InMemory'
  BY <1>1, <1>6, WriteMoves DEF Outputs
<1>7. ASSUME Write, r.fsm = "WACK" PROVE InMemory'
  <2>1. mem' = mem /\ r'.fsm = "IDLE" /\ r.ack /\ bus.we
    BY <1>7, Unwritten, WriteMoves DEF RamCycle, Outputs, Apart, Writes
  <2>2. stored' = [stored EXCEPT ![bus.line] = bus.data]
    BY <2>1 DEF RamCycle, RamObserve
  <2> QED BY <1>0, <1>7, <2>1, <2>2 DEF InMemory
<1>8. ASSUME Write, r.fsm = "WR" PROVE InMemory'
  <2>0. bus' = bus /\ bus.cyc /\ ~r.ack
    BY <1>8, CacheMoves DEF RamCycle, Apart, Outputs, Writes
  <2>1. stored' = stored
    BY <2>0 DEF RamCycle, RamObserve
  <2>2. /\ pins'.adr = At(bus.line, r.burst) /\ ~pins'.ce_n
        /\ pins'.we_n <=> counter_almost_done
    BY <1>8, <2>0, ServingPins DEF RamCycle, Preparing, Asks, store, counter_almost_done
  <2>3. /\ r.limit = wr_timing /\ counter <= wr_timing
        /\ counter = wr_timing => pins.we_n
    BY <1>8 DEF Writing
  <2>4. counter < wr_timing => /\ Aimed(r.burst) /\ ~pins.we_n /\ age >= counter + 1
                               /\ counter > 0 => pins.data = bus.data[r.burst] /\ dage >= counter
    BY <1>8 DEF Writing
  <2>5. CASE ~counter_almost_done
    <3>1. r'.fsm = "WR" /\ r'.burst = r.burst
      BY <1>8, <2>5, WriteMoves, Bursts
    <3>2. mem' = mem
      <4>1. CASE counter = wr_timing
        BY <2>3, <4>1, Unwritten DEF RamCycle
      <4>2. CASE counter < wr_timing
        BY <2>2, <2>4, <2>5, <4>2 DEF Aimed, RamCycle, Chip, writeEnds
      <4> QED BY <1>0, <2>3, <4>1, <4>2
    <3> QED BY <1>8, <2>0, <2>1, <3>1, <3>2 DEF InMemory
  <2>6. CASE counter_almost_done
    <3>1. counter = wr_timing - 1 /\ counter < wr_timing /\ counter > 0 /\ counter >= DataSetup
      BY <1>0, <2>3, <2>6 DEF counter_almost_done
    <3>2. /\ Aimed(r.burst) /\ ~pins.we_n /\ age >= wr_timing /\ dage >= DataSetup
          /\ pins.data = bus.data[r.burst]
      BY <1>0, <2>4, <3>1 DEF RamTypeOK
    <3>3. writeEnds /\ pins.zz_n /\ pins.adr \notin {Config, Mode}
      BY <1>0, <2>2, <2>6, <3>2, Places DEF writeEnds, Aimed
    <3>4. mem' = [mem EXCEPT ![bus.line][r.burst] = bus.data[r.burst]]
      <4>1. pins.adr.line = bus.line /\ pins.adr.word = r.burst
        BY <1>0, <3>2, Places DEF Aimed
      <4>2. mem' = [mem EXCEPT ![pins.adr.line][pins.adr.word] =
                      IF age >= wr_timing /\ dage >= DataSetup THEN pins.data ELSE Undefined]
        BY <3>3 DEF RamCycle, Chip
      <4> QED BY <3>2, <4>1, <4>2
    <3>5. \A l \in Lines, i \in 0..(Words - 1) :
            mem'[l][i] = IF l = bus.line /\ i <= r.burst THEN bus.data[i] ELSE stored[l][i]
      <4>1. \A l \in Lines, i \in 0..(Words - 1) :
              mem[l][i] = IF l = bus.line /\ i < r.burst THEN bus.data[i] ELSE stored[l][i]
        BY <1>8 DEF InMemory
      <4>2. \A l \in Lines, i \in 0..(Words - 1) :
              mem'[l][i] = IF l = bus.line /\ i = r.burst THEN bus.data[i] ELSE mem[l][i]
        BY <1>0, <3>4
      <4> QED BY <1>0, <4>1, <4>2
    <3>6. CASE last
      <4>1. r'.fsm = "WACK" /\ r.burst = Words - 1
        BY <1>8, <2>6, <3>6, WriteMoves DEF last
      <4> QED BY <1>0, <2>0, <2>1, <3>5, <4>1 DEF InMemory
    <3>7. CASE ~last
      <4>1. r'.fsm = "WR" /\ r'.burst = r.burst + 1
        BY <1>8, <2>6, <3>7, WriteMoves, Bursts
      <4> QED BY <1>0, <2>0, <2>1, <3>5, <4>1 DEF InMemory
    <3> QED BY <3>6, <3>7
  <2> QED BY <2>5, <2>6
<1> QED BY <1>2, <1>3, <1>4, <1>5, <1>6, <1>7, <1>8, MachineMoves, WriteMoves DEF RamCycle, Writes

-----------------------------------------------------------------------------
(* What has gone through read_reg after the step. *)
FetchedNext(n) ==
  \A i \in 0..(Words - 1) : i < n => read_reg'[Words - n + 1 + i] = mem'[bus'.line][i]

(* The chip answers with the word that it is asked for. *)
LEMMA Sample ==
  ASSUME SramAssumption, RamTypeOK, DataIn, mem' = mem, bus' = bus, bus.line \in Lines,
         NEW w \in 0..(Words - 1), Valid(w)
  PROVE  read_ram' = mem'[bus'.line][w] /\ FetchedNext(w)
<1>1. /\ chipDrives /\ ~sync_oe /\ accessed /\ pins.adr = At(bus.line, w)
      /\ ~r.shift /\ Fetched(w)
  BY DEF Valid, Aimed, chipDrives
<1>2. DataPins = mem[bus.line][w]
  BY <1>1, Places DEF DataPins
<1> QED BY <1>1, <1>2 DEF DataIn, Fetched, FetchedNext

(* A word that was sampled is shifted in. *)
LEMMA LineFetched ==
  ASSUME SramAssumption, RamTypeOK, DataIn, mem' = mem, bus' = bus,
         NEW w \in 0..(Words - 1), Sampled(w)
  PROVE  FetchedNext(w + 1)
<1>1. /\ read_reg' = Append(Tail(read_reg), read_ram)
      /\ read_ram = mem[bus.line][w] /\ Fetched(w)
  BY DEF Sampled, DataIn
<1>2. /\ \A i \in 1..(Words - 1) : read_reg'[i] = read_reg[i + 1]
      /\ read_reg'[Words] = read_ram
  BY <1>1, WordShift DEF RamTypeOK
<1>3. ASSUME NEW i \in 0..(Words - 1), i < w + 1
      PROVE  read_reg'[Words - (w + 1) + 1 + i] = mem[bus.line][i]
  <2>1. CASE i = w
    <3>1. Words - (w + 1) + 1 + i = Words
      BY <2>1, Timings
    <3> QED BY <1>1, <1>2, <2>1, <3>1
  <2>2. CASE i < w
    <3>1. /\ Words - (w + 1) + 1 + i \in 1..(Words - 1)
          /\ Words - (w + 1) + 1 + i + 1 = Words - w + 1 + i
      BY <2>2, Timings
    <3>2. read_reg[Words - w + 1 + i] = mem[bus.line][i]
      BY <1>1, <2>2 DEF Fetched
    <3> QED BY <1>2, <3>1, <3>2
  <2> QED BY <1>3, <2>1, <2>2, Timings
<1> QED BY <1>3 DEF FetchedNext

(* No word is shifted in. *)
LEMMA Keep ==
  ASSUME RamTypeOK, DataIn, mem' = mem, bus' = bus, ~r.shift, NEW n \in Nat, Fetched(n)
  PROVE  FetchedNext(n)
BY DEF DataIn, Fetched, FetchedNext

(* A page that is accessed is open, and stays so while its line is. *)
LEMMA Opening ==
  ASSUME Chip, ~pins.ce_n, pins.we_n, pins.adr \notin {Config, Mode}
  PROVE  /\ accessed => open' = pins.adr.line
         /\ ~pins'.ce_n /\ pins'.we_n /\ open = pins.adr.line => open' = pins.adr.line
BY DEF Chip

(* A word is at the output when its address has been there long enough: for  *)
(* the first word of a line in full, for the others in page mode.            *)
LEMMA Answered ==
  ASSUME SramAssumption, Exclusive = TRUE, RamTypeOK, RamTypeOK', Controlled, ModeSet, RamCycle,
         NEW w \in 0..(Words - 1), bus' = bus, bus.cyc, r.load, r.fsm = "RD", r.burst = w,
         Aimed(w), pins.we_n,
         \/ age >= rdTiming - 1
         \/ open = bus.line /\ age >= pageTiming
  PROVE  /\ pins'.adr = At(bus'.line, w) /\ ~pins'.ce_n /\ pins'.zz_n /\ pins'.we_n
         /\ ~pins'.oe_n /\ ~sync_oe' /\ accessed'
         /\ age' = Older(age)
<1>0. /\ age \in Nat /\ bus.line \in Lines /\ rdTiming \in Nat /\ pageTiming \in Nat
      /\ pageTiming > 0 /\ pageTiming <= rdTiming /\ page_rd_timing = pageTiming + 1
      /\ MaxAge \in Nat /\ MaxAge >= rdTiming /\ rdTiming > 0
  BY Timings DEF RamTypeOK
<1>1. /\ pins'.adr = At(bus.line, w) /\ pins'.zz_n /\ ~pins'.ce_n /\ pins'.we_n /\ ~pins'.oe_n
  BY ServingPins DEF RamCycle, Preparing, Asks, store
<1>2. ~sync_oe'
  BY DEF RamCycle, DataOut
<1>3. pins.ce_n \in BOOLEAN /\ pins'.ce_n \in BOOLEAN /\ pins.we_n \in BOOLEAN
      /\ pins'.we_n \in BOOLEAN /\ pins.zz_n \in BOOLEAN /\ pins'.zz_n \in BOOLEAN
  BY DEF RamTypeOK, Pin
<1>4. age' = Older(age)
  BY <1>1, <1>3, Staying DEF RamCycle, Aimed
<1>5. pins'.adr \notin {Config, Mode} /\ pins'.adr.line = bus.line
  BY <1>0, <1>1, Places
<1>6. page'
  <2>1. page
    BY DEF Controlled, Apart, ModeSet, Preparing
  <2> QED BY <2>1 DEF RamCycle, Chip
<1>7. open = bus.line => open' = bus.line
  <2>1. pins.adr \notin {Config, Mode} /\ pins.adr.line = bus.line /\ ~pins.ce_n
    BY <1>0, Places DEF Aimed
  <2> QED BY <1>1, <2>1 DEF RamCycle, Chip
<1>8. CASE age >= rdTiming - 1
  <2>1. age' >= rdTiming
    BY <1>0, <1>4, <1>8, Aging
  <2> QED BY <1>1, <1>2, <1>4, <1>5, <2>1 DEF accessed, rdTiming
<1>9. CASE open = bus.line /\ age >= pageTiming
  <2>1. CASE pageTiming < MaxAge
    <3>1. age' >= page_rd_timing
      BY <1>0, <1>4, <1>9, <2>1, Aging
    <3> QED BY <1>1, <1>2, <1>4, <1>5, <1>6, <1>7, <1>9, <3>1 DEF accessed
  <2>2. CASE pageTiming = MaxAge
    <3>1. age >= rdTiming - 1
      BY <1>0, <1>9, <2>2
    <3> QED BY <1>8, <3>1
  <2> QED BY <1>0, <2>1, <2>2
<1> QED BY <1>8, <1>9

(* Each word of a line is sampled while the chip answers, and shifted in once. *)
LEMMA ReadingStep ==
  ASSUME SramAssumption, Exclusive = TRUE, RamTypeOK, RamTypeOK', Controlled, ModeSet, Writing, Reading,
         RamCycle
  PROVE  Reading'
<1> USE DEF Controlled
<1>0. /\ r \in Machines /\ counter \in Nat /\ r.limit \in Nat /\ r.burst \in 0..(Words - 1)
      /\ Words \in Nat /\ Words > 0 /\ bus.line \in Lines /\ age \in Nat
      /\ bus.cyc \in BOOLEAN /\ bus.we \in BOOLEAN /\ load_config \in BOOLEAN
      /\ pageTiming \in Nat /\ pageTiming > 0 /\ pageTiming <= rdTiming
      /\ rdTiming \in Nat /\ rdTiming > 1 /\ MaxAge \in Nat /\ MaxAge >= rdTiming
      /\ Words - 1 \in 0..(Words - 1)
  BY Timings DEF RamTypeOK, Machines
<1>a. age' \in Nat /\ age' > 0
  BY Staying DEF RamCycle
<1>1. ASSUME r'.fsm \notin Reads PROVE Reading'
  BY <1>1 DEF Reading, Reads
<1>2. ASSUME \E read \in BOOLEAN : ConfigRead \/ ConfigCycle(read) PROVE Reading'
  BY <1>1, <1>2, AskMoves DEF Asks, Reads
<1>3. ASSUME ConfigWrite PROVE Reading'
  BY <1>1, <1>3, SetupMoves DEF Preparing, Reads
<1>4. ASSUME Write PROVE Reading'
  BY <1>1, <1>4, WriteMoves DEF Writes, Reads
<1>5. ASSUME IdleState PROVE Reading'
  <2>1. CASE ~load_config /\ bus.cyc /\ ~bus.we
    <3>1. /\ r.fsm = "IDLE" /\ r'.fsm = "RD" /\ r'.burst = 0 /\ r'.limit = rdTiming
          /\ r'.shift = r.shift
      BY <1>5, <2>1, IdleMoves
    <3>2. ~r'.shift /\ r.burst = 0 /\ counter = 0 /\ ~r.ack
      BY <3>1 DEF Outputs, Rested
    <3>3. bus' = bus /\ counter' \in {0, 1}
      BY <2>1, <3>1, <3>2, CacheMoves, CounterMoves DEF RamCycle
    <3>4. /\ pins'.adr = At(bus.line, 0) /\ pins'.zz_n /\ ~pins'.ce_n /\ pins'.we_n
      BY <2>1, <3>1, <3>2, ServingPins DEF RamCycle, Preparing, Asks, store
    <3> QED BY <1>0, <1>a, <3>1, <3>2, <3>3, <3>4 DEF Reading, Aimed
  <2>2. CASE ~(~load_config /\ bus.cyc /\ ~bus.we)
    <3>1. r'.fsm \notin Reads
      BY <1>0, <1>5, <2>2, IdleMoves DEF Reads, RamTypeOK
    <3> QED BY <1>1, <3>1
  <2> QED BY <2>1, <2>2
<1>6. ASSUME Read PROVE Reading'
  <2>0. bus.cyc /\ ~bus.we /\ r.load /\ mem' = mem /\ r.fsm \in Reads
    BY <1>6, ReadMoves, Unwritten DEF RamCycle, Apart, Outputs, Reads
  <2>1. CASE r.fsm = "RD"
    <3>0. bus' = bus
      BY <2>0, <2>1, CacheMoves DEF RamCycle, Outputs
    <3>1. /\ r'.burst = nextBurst /\ (r'.shift <=> counter_done)
          /\ r'.limit = IF counter_almost_done /\ ~last THEN pageTiming ELSE r.limit
          /\ r'.fsm = IF counter_almost_done /\ last THEN "RACK" ELSE "RD"
      BY <1>6, <2>1, ReadMoves
    <3>2. counter' = IF counter_done THEN 0 ELSE counter + 1
      BY <2>1, CounterMoves DEF RamCycle
    (* The machine goes on to the next word. *)
    <3>3. ASSUME counter_almost_done, Aimed(r.burst), pins.we_n, FetchedNext(r.burst),
                 \/ age >= rdTiming - 1
                 \/ open = bus.line /\ age >= pageTiming
          PROVE  Reading'
      <4>1. ~counter_done /\ counter' = r.limit /\ ~r'.shift
        BY <1>0, <3>1, <3>2, <3>3 DEF counter_almost_done, counter_done
      <4>2. /\ pins'.adr = At(bus'.line, r.burst) /\ ~pins'.ce_n /\ pins'.zz_n /\ pins'.we_n
            /\ ~pins'.oe_n /\ ~sync_oe' /\ accessed'
        BY <1>0, <2>0, <2>1, <3>0, <3>3, Answered
      <4>3. r.limit = rdTiming \/ r.limit = pageTiming
        BY <1>0, <2>1 DEF Reading
      <4>4. CASE last
        <5>1. r'.fsm = "RACK" /\ r'.limit = r.limit /\ r.burst = Words - 1
          BY <3>1, <3>3, <4>4 DEF last
        <5>2. counter_done'
          BY <1>0, <4>1, <5>1 DEF counter_done
        <5>3. Valid(Words - 1)'
          BY <3>3, <4>1, <4>2, <5>1 DEF Valid, Aimed, Fetched, FetchedNext
        <5> QED BY <5>1, <5>2, <5>3 DEF Reading
      <4>5. CASE ~last
        <5>1. r'.fsm = "RD" /\ r'.limit = pageTiming /\ r'.burst = r.burst + 1
          BY <3>1, <3>3, <4>5, Bursts
        <5>2. counter' >= r'.limit
          BY <1>0, <4>1, <4>3, <5>1
        <5>3. r'.burst - 1 = r.burst /\ r'.burst > 0
          BY <1>0, <5>1
        <5>4. Valid(r.burst - 1)'
          BY <3>3, <4>1, <4>2, <5>3 DEF Valid, Aimed, Fetched, FetchedNext
        <5> QED BY <1>0, <4>1, <5>1, <5>2, <5>3, <5>4 DEF Reading
      <4> QED BY <4>4, <4>5
    <3>4. CASE r.burst = 0
      <4>1. /\ r.limit = rdTiming /\ counter < rdTiming /\ ~r.shift
            /\ Aimed(0) /\ pins.we_n /\ age >= counter
        BY <2>1, <3>4 DEF Reading
      <4>2. CASE counter_almost_done
        <5>1. age >= rdTiming - 1
          BY <1>0, <4>1, <4>2 DEF counter_almost_done
        <5>2. FetchedNext(r.burst)
          BY <3>4 DEF FetchedNext
        <5> QED BY <3>3, <3>4, <4>1, <4>2, <5>1, <5>2
      <4>3. CASE ~counter_almost_done
        <5>1. ~counter_done /\ counter' = counter + 1 /\ counter' < rdTiming /\ ~r'.shift
          BY <1>0, <3>1, <3>2, <4>1, <4>3 DEF counter_almost_done, counter_done
        <5>2. r'.fsm = "RD" /\ r'.burst = 0 /\ r'.limit = rdTiming
          BY <3>1, <3>4, <4>1, <4>3, Bursts
        <5>3. /\ pins'.adr = At(bus'.line, 0) /\ pins'.zz_n /\ ~pins'.ce_n /\ pins'.we_n
          BY <2>0, <2>1, <3>0, <3>4, ServingPins DEF RamCycle, Preparing, Asks, store
        <5>4. age' = Older(age)
          BY <3>0, <4>1, <5>3, Staying DEF RamCycle, Aimed, RamTypeOK, Pin
        <5>5. age' >= counter'
          BY <1>0, <4>1, <5>1, <5>4, Aging
        <5> QED BY <1>a, <5>1, <5>2, <5>3, <5>5 DEF Reading, Aimed
      <4> QED BY <4>2, <4>3
    <3>5. CASE r.burst > 0 /\ counter >= r.limit
      <4>1. Valid(r.burst - 1) /\ r.burst - 1 \in 0..(Words - 1) /\ r.limit = pageTiming
        BY <1>0, <2>1, <3>5 DEF Reading
      <4>2. counter_done /\ ~counter_almost_done /\ counter' = 0 /\ r'.shift
        BY <1>0, <3>1, <3>2, <3>5 DEF counter_done, counter_almost_done
      <4>3. r'.fsm = "RD" /\ r'.burst = r.burst /\ r'.limit = pageTiming
        BY <3>1, <4>1, <4>2, Bursts
      <4>4. read_ram' = mem'[bus'.line][r.burst - 1] /\ FetchedNext(r.burst - 1)
        BY <1>0, <2>0, <3>0, <4>1, Sample DEF RamCycle
      <4>5. /\ pins'.adr = At(bus'.line, r.burst) /\ pins'.zz_n /\ ~pins'.ce_n /\ pins'.we_n
            /\ ~pins'.oe_n /\ ~sync_oe'
        BY <2>0, <2>1, <3>0, ServingPins DEF RamCycle, Preparing, Asks, store, DataOut
      <4>6. open' = bus'.line
        <5>1. accessed /\ ~pins.ce_n /\ pins.we_n /\ pins.adr = At(bus.line, r.burst - 1)
          BY <4>1 DEF Valid, Aimed
        <5>2. pins.adr \notin {Config, Mode} /\ pins.adr.line = bus.line
          BY <1>0, <4>1, <5>1, Places
        <5> QED BY <3>0, <5>1, <5>2, Opening DEF RamCycle
      <4>7. Aimed(r.burst)' /\ Sampled(r.burst - 1)'
        BY <4>2, <4>3, <4>4, <4>5 DEF Aimed, Sampled, Fetched, FetchedNext
      <4> QED BY <1>0, <1>a, <3>5, <4>2, <4>3, <4>5, <4>6, <4>7 DEF Reading
    <3>6. CASE r.burst > 0 /\ counter < r.limit
      <4>1. /\ r.limit = pageTiming /\ Aimed(r.burst) /\ pins.we_n /\ ~pins.oe_n /\ ~sync_oe
            /\ open = bus.line /\ age >= counter + 1
            /\ IF counter = 0 THEN Sampled(r.burst - 1) ELSE ~r.shift /\ Fetched(r.burst)
        BY <1>0, <2>1, <3>6 DEF Reading
      <4>2. FetchedNext(r.burst)
        <5>1. CASE counter = 0
          <6>1. r.burst - 1 \in 0..(Words - 1) /\ r.burst - 1 + 1 = r.burst
            BY <1>0, <3>6
          <6>2. FetchedNext(r.burst - 1 + 1)
            BY <2>0, <3>0, <4>1, <5>1, <6>1, LineFetched DEF RamCycle
          <6> QED BY <6>1, <6>2
        <5>2. CASE counter # 0
          BY <1>0, <2>0, <3>0, <4>1, <5>2, Keep DEF RamCycle
        <5> QED BY <5>1, <5>2
      <4>3. CASE counter_almost_done
        <5>1. age >= pageTiming
          BY <1>0, <4>1, <4>3 DEF counter_almost_done
        <5> QED BY <3>3, <4>1, <4>2, <4>3, <5>1
      <4>4. CASE ~counter_almost_done
        <5>1. ~counter_done /\ counter' = counter + 1 /\ counter' < pageTiming /\ ~r'.shift
              /\ counter' # 0
          BY <1>0, <3>1, <3>2, <3>6, <4>1, <4>4 DEF counter_almost_done, counter_done
        <5>2. r'.fsm = "RD" /\ r'.burst = r.burst /\ r'.limit = pageTiming
          BY <3>1, <4>1, <4>4, Bursts
        <5>3. /\ pins'.adr = At(bus'.line, r.burst) /\ pins'.zz_n /\ ~pins'.ce_n /\ pins'.we_n
              /\ ~pins'.oe_n /\ ~sync_oe'
          BY <2>0, <2>1, <3>0, ServingPins DEF RamCycle, Preparing, Asks, store, DataOut
        <5>4. age' = Older(age)
          BY <3>0, <4>1, <5>3, Staying DEF RamCycle, Aimed, RamTypeOK, Pin
        <5>5. age' >= counter' + 1
          BY <1>0, <4>1, <5>1, <5>4, Aging
        <5>6. open' = bus'.line
          <6>1. pins.adr \notin {Config, Mode} /\ pins.adr.line = bus.line /\ ~pins.ce_n
            BY <1>0, <4>1, Places DEF Aimed
          <6> QED BY <3>0, <4>1, <5>3, <6>1 DEF RamCycle, Chip
        <5>7. Aimed(r.burst)' /\ Fetched(r.burst)'
          BY <4>2, <5>2, <5>3 DEF Aimed, Fetched, FetchedNext
        <5> QED BY <1>0, <3>6, <5>1, <5>2, <5>3, <5>5, <5>6, <5>7 DEF Reading
      <4> QED BY <4>3, <4>4
    <3> QED BY <1>0, <3>4, <3>5, <3>6
  <2>2. CASE r.fsm = "RACK"
    <3>0. bus' = bus
      BY <2>0, <2>2, CacheMoves DEF RamCycle, Outputs
    <3>1. counter_done /\ Valid(Words - 1)
      BY <2>2 DEF Reading
    <3>2. read_ram' = mem'[bus'.line][Words - 1] /\ FetchedNext(Words - 1)
      BY <1>0, <2>0, <3>0, <3>1, Sample DEF RamCycle
    <3>3. r'.fsm = "RACK2" /\ r'.shift
      BY <1>6, <2>2, <3>1, ReadMoves
    <3> QED BY <3>2, <3>3 DEF Reading, Sampled, Fetched, FetchedNext
  <2>3. CASE r.fsm = "RACK2"
    <3>0. bus' = bus
      BY <2>0, <2>3, CacheMoves DEF RamCycle, Outputs
    <3>1. FetchedNext(Words - 1 + 1)
      BY <1>0, <2>0, <2>3, <3>0, LineFetched DEF RamCycle, Reading
    <3>2. Words - 1 + 1 = Words
      BY <1>0
    <3>3. r'.fsm = "RACK3"
      BY <1>6, <2>3, ReadMoves
    <3> QED BY <3>1, <3>2, <3>3 DEF Reading, Fetched, FetchedNext
  <2>4. CASE r.fsm = "RACK3"
    BY <1>1, <1>6, <2>4, ReadMoves DEF Reads
  <2> QED BY <2>0, <2>1, <2>2, <2>3, <2>4 DEF Reads
<1> QED BY <1>2, <1>3, <1>4, <1>5, <1>6, MachineMoves DEF RamCycle

-----------------------------------------------------------------------------
(* Out of reset the machine rests and the chip is not selected. *)
LEMMA RamInitInv == ASSUME SramAssumption PROVE RamInit => RamInv
<1> SUFFICES ASSUME RamInit PROVE RamInv
  OBVIOUS
<1> USE Timings, LineWords
<1>0. Lines # {} /\ LineData # {}
  BY DEF SramAssumption, LineData
<1>1. PICK d \in LineData : mem = [l \in Lines |-> d]
  BY DEF RamInit
<1>2. RamTypeOK
  <2>1. bus \in [cyc : BOOLEAN, we : BOOLEAN, line : Lines, data : LineData]
    BY <1>0 DEF RamInit
  <2>2. r \in Machines
    <3>1. "IDLE" \in States /\ 0 \in Nat
      BY Named
    <3> QED BY <3>1 DEF RamInit, Machines
  <2>3. pins \in Pin
    BY DEF RamInit, Pin, RamWord
  <2>4. /\ mem \in [Lines -> [0..(Words - 1) -> RamWord]]
        /\ stored \in [Lines -> [0..(Words - 1) -> RamWord]]
    BY <1>1 DEF RamInit
  <2>5. /\ reset_counter \in Nat /\ counter \in Nat /\ age \in Nat /\ dage \in Nat
        /\ Undefined \in RamWord
    BY DEF RamInit, SramAssumption, RamWord
  <2>6. /\ read_config \in BOOLEAN /\ load_config \in BOOLEAN /\ sram_ready \in BOOLEAN
        /\ sync_oe \in BOOLEAN /\ page \in BOOLEAN
    BY DEF RamInit
  <2> QED BY <2>1, <2>2, <2>3, <2>4, <2>5, <2>6 DEF RamTypeOK, RamInit
<1>3. Controlled
  <2>1. reset_counter > 0 /\ ~load_config /\ ~sram_ready /\ ~read_config /\ counter = 0 /\ ~bus.cyc
    BY DEF RamInit, SramAssumption
  <2>2. /\ r.fsm = "IDLE" /\ ~r.ack /\ r.zz /\ r.burst = 0 /\ ~r.load /\ ~r.shift /\ ~r.config
        /\ ~r.override
    BY DEF RamInit
  <2> QED BY <2>1, <2>2 DEF Controlled, Outputs, Rested, Apart, Reads, Writes, Asks, Preparing
<1>4. r.fsm = "IDLE" /\ pins.we_n /\ ~sync_oe /\ ~sram_ready /\ stored = mem
  BY DEF RamInit
<1>5. ModeSet /\ Driving /\ Writing /\ InMemory /\ Reading
  BY <1>4 DEF ModeSet, Driving, Writing, InMemory, Reading
<1> QED BY <1>2, <1>3, <1>5 DEF RamInv

(* A cycle of controller, cache and chip keeps the invariant. *)
LEMMA InvStep ==
  ASSUME SramAssumption, Exclusive = TRUE PROVE RamInv /\ [RamNext]_ramVars => RamInv'
<1> SUFFICES ASSUME RamInv, [RamNext]_ramVars PROVE RamInv'
  OBVIOUS
<1>1. CASE RamNext
  <2> USE <1>1 DEF RamInv, RamNext
  <2>1. RamTypeOK'
    BY RamTypeStep
  <2>2. Controlled'
    BY OutputsStep, RestedStep, ApartStep DEF Writing, Controlled
  <2>3. ModeSet' /\ Driving'
    BY ModeSetStep, DrivingStep
  <2>4. Writing' /\ InMemory'
    BY <2>1, WritingStep, InMemoryStep
  <2>5. Reading'
    BY <2>1, ReadingStep
  <2> QED BY <2>1, <2>2, <2>3, <2>4, <2>5
<1>2. CASE UNCHANGED ramVars
  BY <1>2 DEF ramVars, RamInv, RamTypeOK, Controlled, Outputs, Rested, Apart, ModeSet, Driving, Writing,
              InMemory, Reading, Aimed, Valid, Sampled, Fetched, accessed, counter_done
<1> QED BY <1>1, <1>2

(* Controller, cache and chip are in step in every reachable state.          *)
THEOREM RamInvariance ==
  ASSUME SramAssumption, Exclusive = TRUE PROVE RamSpec => []RamInv
<1> QED BY RamInitInv, InvStep, PTL DEF RamSpec

(* A line that is read is the line that was last written there, whatever     *)
(* configuration reads came before it, and the data lines never have two     *)
(* drivers in an access of a line (sram_32_cached.py:257, 165-168).  This is *)
(* for a machine that finds no request in the cycle in which it begins a     *)
(* configuration read; requests may come in the cycles after.                *)
THEOREM RamKeepsLinesCorrect ==
  ASSUME SramAssumption, Exclusive = TRUE PROVE RamSpec => []RamKeepsLines
<1>1. RamInv => RamKeepsLines
  <2> SUFFICES ASSUME RamInv PROVE RamKeepsLines
    OBVIOUS
  <2>1. ReadsWhatWasWritten
    <3> SUFFICES ASSUME r.ack, ~bus.we, NEW w \in 1..Words
                 PROVE  read_reg[w] = stored[bus.line][w - 1]
      BY DEF ReadsWhatWasWritten
    <3>1. r.fsm = "RACK3"
      BY DEF RamInv, Controlled, Outputs, Apart, Writes
    <3>2. w - 1 \in 0..(Words - 1) /\ w - 1 < Words /\ Words - Words + 1 + (w - 1) = w
      BY Timings
    <3>3. read_reg[w] = mem[bus.line][w - 1]
      <4>1. read_reg[Words - Words + 1 + (w - 1)] = mem[bus.line][w - 1]
        BY <3>1, <3>2 DEF RamInv, Reading, Fetched
      <4> QED BY <3>2, <4>1
    <3>4. mem[bus.line][w - 1] = stored[bus.line][w - 1]
      BY <3>1, <3>2 DEF RamInv, InMemory, RamTypeOK
    <3> QED BY <3>3, <3>4
  <2>2. OneDriver
    BY DEF RamInv, RamTypeOK, Pin, Driving, OneDriver, chipDrives
  <2> QED BY <2>1, <2>2 DEF RamKeepsLines
<1> QED BY <1>1, RamInvariance, PTL
-----------------------------------------------------------------------------
(* The memory LCD: its states, and the invariant. *)
Waits == {"MODELINEWAIT", "DATAWAIT"}
Phys == {"IDLE", "SCS_SETUP", "MODELINE", "DATA", "SCS_HOLD", "SCS_LOW"} \union Waits

Inks == Ink \union {"blank"}
Pixels == [line : Line, word : Nat, ink : Inks, dirty : BOOLEAN]

LcdTypeOK ==
  /\ fb \in [Line -> Inks] /\ dirty \in [Line -> BOOLEAN] /\ dat_r \in Pixels
  /\ modeshift \in [line : 0..height, n : Nat]
  /\ pixshift \in [word : Pixels, mask : BOOLEAN, n : Nat]
  /\ lcd_command \in {"none", "UpdateDirty", "UpdateAll"}
  /\ devboot \in BOOLEAN /\ devboot_line_active \in BOOLEAN
  /\ fsm_up \in {"IDLE", "START", "FETCHDIRTY", "CHECKDIRTY", "DIRTYLINE", "WAITDONE"}
  /\ lcd_busy \in BOOLEAN /\ updateall \in BOOLEAN /\ fetch_dirty \in BOOLEAN
  /\ linedone \in BOOLEAN /\ sclk \in BOOLEAN /\ scs \in BOOLEAN
  /\ update_line \in 0..height
  /\ fsm_phy \in Phys /\ fsm_bit \in {"IDLE", "SCLK_LO", "SCLK_HI"}
  /\ scs_cnt \in Nat /\ pixcount \in Nat /\ rx.n \in Nat /\ due \subseteq Line

(* How the machines wait for each other: the line machine is at work while   *)
(* the update machine waits for it, the bit machine while the line machine   *)
(* does, and a line is over when SCS has been low for its time.              *)
InStep ==
  /\ fsm_up # "IDLE" => lcd_busy
  /\ fsm_up = "WAITDONE" => ~fetch_dirty /\ (fsm_phy = "IDLE" <=> linedone)
  /\ fsm_up # "WAITDONE" => fsm_phy = "IDLE" /\ ~linedone
  /\ fsm_up \in {"START", "FETCHDIRTY", "CHECKDIRTY", "DIRTYLINE"} => fetch_dirty
  /\ fsm_up \in {"DIRTYLINE", "WAITDONE"} => update_line # 0
  /\ fsm_phy \in Waits <=> fsm_bit # "IDLE"
  /\ sclk <=> fsm_bit = "SCLK_HI"
  /\ scs <=> fsm_phy \notin {"IDLE", "SCS_LOW"}

(* What is due is still ahead, and there is a reason to send it. *)
Ahead ==
  /\ fsm_up = "IDLE" => due = {}
  /\ fsm_up # "START" => \A l \in due : l <= update_line
  /\ fsm_up = "WAITDONE" /\ fsm_phy \in {"IDLE", "SCS_LOW"} => update_line \notin due
  /\ \A l \in due : dirty[l] \/ updateall \/ Marked(l)

(* The read port shows the line in hand, as software has drawn it unless it  *)
(* draws it anew; its flags are at the port when they are looked at.         *)
Current == update_line \in due => dat_r.ink = fb[update_line]
                                  /\ (devboot_line_active <=> Marked(update_line))
PortRead ==
  /\ fsm_up \in {"CHECKDIRTY", "DIRTYLINE", "WAITDONE"} /\ update_line # 0 =>
       dat_r.line = update_line /\ Current
  /\ fsm_up = "CHECKDIRTY" /\ update_line \in due => dat_r.dirty \/ updateall \/ Marked(update_line)
  /\ fsm_phy = "MODELINE" /\ pixcount = 0 => dat_r.word = 0
  /\ fsm_phy = "DATA" /\ pixcount > 1 => dat_r.word = (pixcount \div WordBits) % RowWords

(* The number of bits of the line that have gone to the bit machine. *)
Sent == CASE fsm_phy = "SCS_SETUP" -> 0
          [] fsm_phy \in {"MODELINE", "MODELINEWAIT"} -> ModeBits - pixcount
          [] fsm_phy \in {"DATA", "DATAWAIT"} -> ModeBits + pixcount - 1
          [] OTHER -> ModeBits + LineBits

(* A bit of the frame as it should be, if the line is due. *)
IsBit(bit, i) ==
  IF i < ModeBits THEN bit.from = "head" /\ bit.n = i /\ bit.line = update_line
  ELSE /\ bit.from = "word" /\ bit.n = i - ModeBits /\ bit.line = update_line /\ bit.mask \in BOOLEAN
       /\ update_line \in due => bit.ink = fb[update_line] /\ (bit.mask <=> Marked(update_line))

(* The shift registers hold the next bit. *)
Shifting ==
  /\ fsm_phy = "SCS_SETUP" => pixcount = ModeBits
  /\ fsm_phy \in {"MODELINE", "MODELINEWAIT"} => pixcount <= ModeBits
  /\ fsm_phy = "MODELINEWAIT" => pixcount < ModeBits
  /\ fsm_phy \in {"DATA", "DATAWAIT"} => pixcount > 0 /\ pixcount <= LineBits + 1
  /\ fsm_phy = "DATAWAIT" => pixcount > 1
  /\ fsm_phy \in {"SCS_SETUP", "MODELINE", "MODELINEWAIT"} =>
       modeshift.line = update_line /\ modeshift.n = Sent
  /\ fsm_phy \in {"DATA", "DATAWAIT"} /\ pixcount <= LineBits => IsBit(pixBit, Sent)
  /\ fsm_phy \in Waits => IsBit(si, Sent - 1)

(* A frame of which n bits have come in. *)
Got(f, n) == /\ f.n = n /\ f.ok = TRUE
             /\ n > 0 => f.line = update_line
             /\ n > ModeBits => f.mask \in BOOLEAN
             /\ n > ModeBits /\ update_line \in due =>
                  f.ink = fb[update_line] /\ (f.mask <=> Marked(update_line))

(* The panel has got the bits that were sent, the last one when SCLK is high. *)
Received == IF scs THEN Got(rx, IF fsm_bit = "SCLK_LO" THEN Sent - 1 ELSE Sent)
            ELSE rx = NoFrame

LcdInv == LcdTypeOK /\ InStep /\ Ahead /\ PortRead /\ Shifting /\ Received

-----------------------------------------------------------------------------
(* The sizes of the panel are positive. *)
LEMMA Sizes ==
  ASSUME PanelAssumption
  PROVE  /\ height \in Nat /\ RowWords \in Nat /\ WordBits \in Nat /\ ModeBits \in Nat
         /\ Setup \in Nat /\ Hold \in Nat /\ Low \in Nat
         /\ height > 0 /\ RowWords > 0 /\ ModeBits > 0 /\ WordBits > 1
         /\ LineBits \in Nat /\ LineBits > 0 /\ width \in Int /\ width > 0
<1>1. /\ height \in Nat /\ RowWords \in Nat /\ WordBits \in Nat /\ ModeBits \in Nat
      /\ Setup \in Nat /\ Hold \in Nat /\ Low \in Nat
      /\ height > 0 /\ RowWords > 0 /\ ModeBits > 0 /\ WordBits > 1
  BY DEF PanelAssumption
<1>2. LineBits \in Nat /\ LineBits >= WordBits
  <2>1. RowWords * WordBits \in Nat /\ RowWords * WordBits >= WordBits
    BY <1>1
  <2> QED BY <2>1 DEF LineBits
<1>3. Flags \in Nat /\ Flags < WordBits
  BY <1>1 DEF Flags
<1> QED BY <1>1, <1>2, <1>3 DEF width

(* The word of the line that the k-th bit begins. *)
LEMMA WordBegins ==
  ASSUME PanelAssumption, NEW k \in Nat, k % WordBits = 0
  PROVE  /\ (k \div WordBits) % RowWords \in Nat
         /\ k < LineBits => ((k \div WordBits) % RowWords) * WordBits = k
<1>1. RowWords \in Nat /\ WordBits \in Nat /\ RowWords > 0 /\ WordBits > 0
  BY Sizes
<1> DEFINE q == k \div WordBits
<1>2. q \in Nat /\ k = q * WordBits
  BY <1>1
<1>3. q % RowWords \in Nat
  BY <1>1, <1>2
<1>4. ASSUME k < LineBits PROVE q < RowWords
  <2> HIDE DEF q
  <2>1. q * WordBits < RowWords * WordBits
    BY <1>2, <1>4 DEF LineBits
  <2> QED BY <1>1, <1>2, <2>1
<1>5. ASSUME q < RowWords PROVE q % RowWords = q
  <2> HIDE DEF q
  <2> QED BY <1>1, <1>2, <1>5
<1> QED BY <1>2, <1>3, <1>4, <1>5

(* What stays due has not been touched by software in this cycle. *)
MarkedNext(l) == devboot' /\ l = DevbootLine

LEMMA Kept ==
  ASSUME LcdTypeOK, LcdCycle
  PROVE  /\ due' \subseteq ToShow /\ due' \subseteq Line
         /\ \A l \in due' : /\ fb'[l] = fb[l] /\ (dirty'[l] <=> dirty[l])
                            /\ (MarkedNext(l) <=> Marked(l))
<1>1. due' = (ToShow \ Changed) \ Shown
  BY DEF LcdCycle, LcdObserve
<1>2. ToShow \subseteq Line
  BY DEF ToShow, LcdTypeOK
<1>3. ASSUME NEW l \in Line, l \notin Changed
      PROVE  fb'[l] = fb[l] /\ dirty'[l] = dirty[l] /\ (MarkedNext(l) <=> Marked(l))
  BY <1>3 DEF Changed, Marked, MarkedNext
<1> QED BY <1>1, <1>2, <1>3

(* Software leaves the flags and the pixels in their range. *)
LEMMA SoftwareStep ==
  ASSUME LcdTypeOK, LcdSoftware
  PROVE  /\ fb' \in [Line -> Inks] /\ dirty' \in [Line -> BOOLEAN] /\ devboot' \in BOOLEAN
         /\ lcd_command' \in {"none", "UpdateDirty", "UpdateAll"}
<1>1. LcdWrite \/ LcdPass
  BY DEF LcdSoftware
<1>2. CASE Draw
  BY <1>2 DEF Draw, LcdTypeOK, Inks
<1>3. CASE Clean
  BY <1>3 DEF Clean, LcdTypeOK
<1>4. CASE Ask \/ Configure \/ LcdPass
  BY <1>4 DEF Ask, Configure, LcdPass, LcdTypeOK
<1> QED BY <1>1, <1>2, <1>3, <1>4 DEF LcdWrite

(* The bit machine is idle while the line machine is not waiting for it; then *)
(* SCLK rises once, and falls when the bit is done.                           *)
LEMMA BitMoves ==
  ASSUME LcdTypeOK, InStep, Clock
  PROVE  /\ fsm_phy \notin Waits =>
              ~bitack /\ sclk' = FALSE /\ fsm_bit' = IF bitreq THEN "SCLK_LO" ELSE "IDLE"
         /\ fsm_bit = "SCLK_LO" =>
              ~bitack /\ \/ fsm_bit' = "SCLK_LO" /\ sclk' = FALSE
                         \/ fsm_bit' = "SCLK_HI" /\ sclk' = TRUE
         /\ fsm_bit = "SCLK_HI" =>
              \/ bitack /\ fsm_bit' = "IDLE" /\ sclk' = FALSE
              \/ ~bitack /\ fsm_bit' = "SCLK_HI" /\ sclk' = TRUE
<1>1. CASE BitIdle
  BY <1>1 DEF BitIdle, bitack, InStep
<1>2. CASE BitLow
  BY <1>2 DEF BitLow, bitack, InStep, LcdTypeOK
<1>3. CASE BitHigh
  BY <1>3 DEF BitHigh, bitack, InStep, LcdTypeOK
<1> QED BY <1>1, <1>2, <1>3 DEF Clock

(* The initial states satisfy the invariant. *)
LEMMA LcdInitInv ==
  ASSUME PanelAssumption, LcdInit PROVE LcdInv
<1> USE Sizes
<1>1. LcdTypeOK
  <2>1. /\ fb \in [Line -> Inks] /\ dirty \in [Line -> BOOLEAN] /\ dat_r \in Pixels
        /\ modeshift \in [line : 0..height, n : Nat]
    BY DEF LcdInit, Line, Inks, Pixels
  <2>2. pixshift \in [word : Pixels, mask : BOOLEAN, n : Nat]
    BY <2>1 DEF LcdInit
  <2>3. scs_cnt \in Nat /\ pixcount \in Nat /\ rx.n \in Nat /\ due \subseteq Line /\ fsm_phy \in Phys
    BY DEF LcdInit, Phys, NoFrame
  <2>4. /\ lcd_command = "none" /\ devboot = FALSE /\ devboot_line_active = FALSE /\ fsm_up = "IDLE"
        /\ lcd_busy = FALSE /\ updateall = FALSE /\ fetch_dirty = FALSE /\ update_line = 1
        /\ linedone = FALSE /\ sclk = FALSE /\ scs = FALSE /\ fsm_bit = "IDLE"
    BY DEF LcdInit
  <2>5. update_line \in 0..height
    BY <2>4
  <2> QED BY ONLY <2>1, <2>2, <2>3, <2>4, <2>5 DEF LcdTypeOK
<1>2. InStep /\ Ahead /\ PortRead
  BY DEF LcdInit, InStep, Ahead, PortRead, Waits
<1>3. Shifting /\ Received
  BY DEF LcdInit, Shifting, Received, Waits
<1> QED BY <1>1, <1>2, <1>3 DEF LcdInv

(* What the update machine does in a cycle: it waits for a line machine that *)
(* is idle, and takes the lines from the last to the first.                  *)
LEMMA UpdateMoves ==
  ASSUME PanelAssumption, LcdTypeOK, InStep, Update
  PROVE  /\ lcd_busy' \in BOOLEAN /\ updateall' \in BOOLEAN /\ fetch_dirty' \in BOOLEAN
         /\ update_line' \in 0..height
         /\ fsm_up = "IDLE" => \/ fsm_up' = "IDLE" /\ lcd_command = "none"
                               \/ fsm_up' = "START" /\ lcd_busy' /\ fetch_dirty' /\ lcd_command # "none"
                                  /\ (updateall' <=> lcd_command = "UpdateAll")
         /\ fsm_up # "IDLE" => (lcd_busy' <=> lcd_busy) /\ (updateall' <=> updateall)
         /\ fsm_up = "START" => fsm_up' = "FETCHDIRTY" /\ fetch_dirty' /\ update_line' = height
         /\ fsm_up = "FETCHDIRTY" => fsm_up' = "CHECKDIRTY" /\ fetch_dirty' /\ update_line' = update_line
         /\ fsm_up = "CHECKDIRTY" =>
              /\ fetch_dirty'
              /\ \/ update_line = 0 /\ fsm_up' = "IDLE" /\ update_line' = 0
                 \/ fsm_up' = "DIRTYLINE" /\ update_line # 0 /\ update_line' = update_line
                 \/ /\ fsm_up' = "FETCHDIRTY" /\ update_line # 0 /\ update_line' = update_line - 1
                    /\ ~(dat_r.dirty \/ updateall \/ devboot_line_active)
         /\ fsm_up = "DIRTYLINE" => fsm_up' = "WAITDONE" /\ ~fetch_dirty' /\ update_line' = update_line
         /\ fsm_up = "WAITDONE" /\ linedone =>
              fsm_up' = "FETCHDIRTY" /\ fetch_dirty' /\ update_line' = update_line - 1
         /\ fsm_up = "WAITDONE" /\ ~linedone =>
              fsm_up' = "WAITDONE" /\ ~fetch_dirty' /\ update_line' = update_line
<1> USE Sizes DEF LcdTypeOK, InStep
<1>1. CASE Accept
  <2>1. CASE lcd_command = "none"
    BY <1>1, <2>1 DEF Accept
  <2>2. CASE lcd_command # "none"
    <3>1. /\ fsm_up = "IDLE" /\ fsm_up' = "START" /\ lcd_busy' = TRUE /\ fetch_dirty' = TRUE
          /\ updateall' = (lcd_command = "UpdateAll") /\ update_line' = update_line
      BY <1>1, <2>2 DEF Accept
    <3> QED BY <2>2, <3>1
  <2> QED BY <2>1, <2>2
<1>2. CASE Start
  BY <1>2 DEF Start
<1>3. CASE Fetch
  BY <1>3 DEF Fetch
<1>4. CASE Check
  BY <1>4 DEF Check
<1>5. CASE Send
  BY <1>5 DEF Send
<1>6. CASE WaitDone
  <2>1. CASE linedone
    BY <1>6, <2>1 DEF WaitDone
  <2>2. CASE ~linedone
    BY <1>6, <2>2 DEF WaitDone
  <2> QED BY <2>1, <2>2
<1> QED BY <1>1, <1>2, <1>3, <1>4, <1>5, <1>6 DEF Update

(* What the line machine does in a cycle. *)
LEMMA LineMoves ==
  ASSUME PanelAssumption, LcdTypeOK, InStep, SendLine
  PROVE  /\ fsm_phy = "IDLE" =>
              /\ ~linedone' /\ (scs' <=> sendline) /\ pixshift' = pixshift
              /\ \/ ~sendline /\ fsm_phy' = "IDLE" /\ UNCHANGED <<scs_cnt, pixcount, modeshift>>
                 \/ /\ sendline /\ fsm_phy' = "SCS_SETUP" /\ scs_cnt' = Setup /\ pixcount' = ModeBits
                    /\ modeshift' = [line |-> update_line, n |-> 0]
         /\ fsm_phy \in {"SCS_SETUP", "SCS_HOLD", "SCS_LOW"} =>
              /\ UNCHANGED <<pixcount, modeshift, pixshift, si>>
              /\ \/ /\ scs_cnt > 0 /\ fsm_phy' = fsm_phy /\ scs_cnt' = scs_cnt - 1
                    /\ UNCHANGED <<scs, linedone>>
                 \/ /\ fsm_phy = "SCS_SETUP" /\ fsm_phy' = "MODELINE" /\ UNCHANGED <<scs_cnt, scs, linedone>>
                 \/ /\ fsm_phy = "SCS_HOLD" /\ fsm_phy' = "SCS_LOW" /\ ~scs' /\ scs_cnt' = Low
                    /\ UNCHANGED linedone
                 \/ /\ fsm_phy = "SCS_LOW" /\ fsm_phy' = "IDLE" /\ linedone' /\ UNCHANGED <<scs_cnt, scs>>
         /\ fsm_phy = "MODELINE" =>
              /\ UNCHANGED <<scs, scs_cnt, linedone>>
              /\ \/ /\ pixcount > 0 /\ fsm_phy' = "MODELINEWAIT" /\ pixcount' = pixcount - 1
                    /\ modeshift' = [modeshift EXCEPT !.n = @ + 1] /\ si' = modeBit
                    /\ UNCHANGED pixshift
                 \/ /\ pixcount = 0 /\ fsm_phy' = "DATA" /\ pixcount' = 1 /\ pixshift' = Loaded
                    /\ UNCHANGED <<modeshift, si>>
         /\ fsm_phy = "DATA" =>
              /\ UNCHANGED <<modeshift, linedone>>
              /\ \/ /\ pixcount < LineBits + 1 /\ fsm_phy' = "DATAWAIT" /\ pixcount' = pixcount + 1
                    /\ pixshift' = IF pixcount % WordBits = 0 THEN Loaded
                                   ELSE [pixshift EXCEPT !.n = @ + 1]
                    /\ si' = pixBit /\ scs' /\ UNCHANGED scs_cnt
                 \/ /\ pixcount >= LineBits + 1 /\ fsm_phy' = "SCS_HOLD" /\ scs_cnt' = Hold
                    /\ UNCHANGED <<pixshift, scs, pixcount>>
         /\ fsm_phy \in Waits =>
              /\ UNCHANGED <<scs_cnt, pixcount, modeshift, pixshift, linedone, scs, si>>
              /\ fsm_phy' = IF ~bitack THEN fsm_phy
                            ELSE IF fsm_phy = "DATAWAIT" THEN "DATA" ELSE "MODELINE"
<1> USE Sizes DEF Waits
<1>1. CASE PhyIdle
  BY <1>1 DEF PhyIdle
<1>2. CASE PhyWait
  BY <1>2 DEF PhyWait, LcdTypeOK
<1>3. CASE PhyHead
  BY <1>3 DEF PhyHead, LcdTypeOK
<1>4. CASE PhyData
  BY <1>4 DEF PhyData, LcdTypeOK
<1>5. CASE PhyBit
  BY <1>5 DEF PhyBit
<1> QED BY <1>1, <1>2, <1>3, <1>4, <1>5 DEF SendLine

(* What the read port and the mark hold after a cycle. *)
LEMMA PortMoves ==
  ASSUME PanelAssumption, LcdTypeOK, ReadPort, Mark
  PROVE  /\ dat_r' \in Pixels /\ devboot_line_active' \in BOOLEAN
         /\ devboot_line_active' <=> Marked(update_line)
         /\ update_line # 0 =>
              /\ dat_r'.line = update_line /\ dat_r'.ink = fb[update_line]
              /\ dat_r'.word = IF fetch_dirty THEN RowWords - 1 ELSE (pixcount \div WordBits) % RowWords
              /\ fetch_dirty => (dat_r'.dirty <=> dirty[update_line])
<1>1. /\ height \in Nat /\ RowWords \in Nat /\ WordBits \in Nat /\ RowWords > 0 /\ WordBits > 0
  BY Sizes
<1>2. devboot_line_active' \in BOOLEAN /\ (devboot_line_active' <=> Marked(update_line))
  BY DEF Mark, Marked, LcdTypeOK
<1>3. (pixcount \div WordBits) % RowWords \in Nat
  BY <1>1 DEF LcdTypeOK
<1>4. CASE update_line = 0
  BY <1>2, <1>4 DEF ReadPort, Line, LcdTypeOK
<1>5. CASE update_line # 0
  <2>1. update_line \in Line
    BY <1>1, <1>5 DEF LcdTypeOK, Line
  <2> DEFINE w == IF fetch_dirty THEN RowWords - 1 ELSE (pixcount \div WordBits) % RowWords
  <2>2. dat_r' = [line |-> update_line, word |-> w, ink |-> fb[update_line],
                  dirty |-> w = RowWords - 1 /\ dirty[update_line]]
    BY <2>1 DEF ReadPort, pixadr_rd
  <2>3. w \in Nat
    BY <1>1, <1>3
  <2>4. fetch_dirty => w = RowWords - 1
    OBVIOUS
  <2>5. fb[update_line] \in Inks /\ dirty[update_line] \in BOOLEAN
    BY <2>1 DEF LcdTypeOK
  <2>6. dat_r'.word = w
    BY <2>2
  <2> HIDE DEF w
  <2>7. dat_r' \in Pixels
    BY <2>1, <2>2, <2>3, <2>5 DEF Pixels
  <2>8. fetch_dirty => (dat_r'.dirty <=> dirty[update_line])
    BY <2>2, <2>4
  <2> QED BY <1>2, <2>2, <2>6, <2>7, <2>8 DEF w
<1> QED BY <1>4, <1>5 DEF LcdTypeOK

(* Every variable stays in its range. *)
LEMMA LcdTypeStep ==
  ASSUME PanelAssumption, LcdInv, LcdCycle
  PROVE  LcdTypeOK'
<1>1. LcdTypeOK /\ InStep
  BY DEF LcdInv
<1>2. /\ fb' \in [Line -> Inks] /\ dirty' \in [Line -> BOOLEAN] /\ devboot' \in BOOLEAN
      /\ lcd_command' \in {"none", "UpdateDirty", "UpdateAll"}
  BY <1>1, SoftwareStep DEF LcdCycle
<1>3. dat_r' \in Pixels /\ devboot_line_active' \in BOOLEAN
  BY <1>1, PortMoves DEF LcdCycle
<1>4. /\ fsm_up' \in {"IDLE", "START", "FETCHDIRTY", "CHECKDIRTY", "DIRTYLINE", "WAITDONE"}
      /\ lcd_busy' \in BOOLEAN /\ updateall' \in BOOLEAN /\ fetch_dirty' \in BOOLEAN
      /\ update_line' \in 0..height
  BY <1>1, UpdateMoves DEF LcdCycle, LcdTypeOK
<1>5. SendLine /\ Clock
  BY DEF LcdCycle
<1>6. /\ fsm_phy' \in Phys /\ scs_cnt' \in Nat /\ pixcount' \in Nat
      /\ linedone' \in BOOLEAN /\ scs' \in BOOLEAN /\ modeshift' \in [line : 0..height, n : Nat]
  <2>1. /\ Setup \in Nat /\ Hold \in Nat /\ Low \in Nat /\ ModeBits \in Nat /\ LineBits \in Nat
    BY Sizes
  <2>2. /\ fsm_phy \in Phys /\ scs_cnt \in Nat /\ pixcount \in Nat /\ linedone \in BOOLEAN
        /\ scs \in BOOLEAN /\ update_line \in 0..height /\ modeshift \in [line : 0..height, n : Nat]
    BY <1>1 DEF LcdTypeOK
  <2> USE <2>1, <2>2 DEF Phys, Waits
  <2>3. CASE PhyIdle
    <3>1. CASE sendline
      <4>1. /\ scs' = TRUE /\ scs_cnt' = Setup /\ pixcount' = ModeBits /\ linedone' = FALSE
            /\ modeshift' = [line |-> update_line, n |-> 0] /\ fsm_phy' = "SCS_SETUP"
        BY <2>3, <3>1 DEF PhyIdle
      <4>2. modeshift' \in [line : 0..height, n : Nat]
        BY <4>1
      <4> QED BY <4>1, <4>2
    <3>2. CASE ~sendline
      BY <2>3, <3>2 DEF PhyIdle
    <3> QED BY <3>1, <3>2
  <2>4. CASE PhyWait
    <3>1. scs_cnt' \in Nat
      BY <2>4 DEF PhyWait
    <3>2. fsm_phy' \in Phys /\ linedone' \in BOOLEAN /\ scs' \in BOOLEAN
      BY <2>4 DEF PhyWait
    <3> QED BY <2>4, <3>1, <3>2 DEF PhyWait
  <2>5. CASE PhyHead
    BY <2>5 DEF PhyHead
  <2>6. CASE PhyData
    <3>1. CASE pixcount < LineBits + 1
      BY <2>6, <3>1 DEF PhyData
    <3>2. CASE ~(pixcount < LineBits + 1)
      BY <2>6, <3>2 DEF PhyData
    <3> QED BY <3>1, <3>2
  <2>7. CASE PhyBit
    BY <2>7 DEF PhyBit
  <2> QED BY ONLY <1>5, <2>3, <2>4, <2>5, <2>6, <2>7 DEF SendLine
<1>7. pixshift' \in [word : Pixels, mask : BOOLEAN, n : Nat]
  <2>1. pixshift' = pixshift \/ pixshift' = Loaded \/ pixshift' = [pixshift EXCEPT !.n = @ + 1]
    BY <1>1, <1>5, LineMoves DEF LcdTypeOK, Phys
  <2>2. Loaded \in [word : Pixels, mask : BOOLEAN, n : Nat]
    BY <1>1 DEF Loaded, LcdTypeOK
  <2>3. [pixshift EXCEPT !.n = @ + 1] \in [word : Pixels, mask : BOOLEAN, n : Nat]
    BY <1>1 DEF LcdTypeOK
  <2> QED BY <1>1, <2>1, <2>2, <2>3 DEF LcdTypeOK
<1>8. fsm_bit' \in {"IDLE", "SCLK_LO", "SCLK_HI"} /\ sclk' \in BOOLEAN
  BY <1>1, <1>5 DEF Clock, BitIdle, BitLow, BitHigh, LcdTypeOK
<1>9. rx'.n \in Nat
  BY <1>1 DEF LcdCycle, Panel, Take, NoFrame, LcdTypeOK
<1>10. due' \subseteq Line
  BY <1>1, Kept
<1> QED BY <1>2, <1>3, <1>4, <1>6, <1>7, <1>8, <1>9, <1>10 DEF LcdTypeOK

(* The machines stay in step. *)
LEMMA InStepStep ==
  ASSUME PanelAssumption, LcdInv, LcdCycle
  PROVE  InStep'
<1>1. LcdTypeOK /\ InStep /\ LcdTypeOK'
  BY LcdTypeStep DEF LcdInv
<1>2. Update /\ SendLine /\ Clock
  BY DEF LcdCycle
<1>3. /\ fsm_phy' \in Waits <=> fsm_bit' # "IDLE"
      /\ sclk' <=> fsm_bit' = "SCLK_HI"
  <2>1. CASE fsm_phy \in Waits
    <3>1. fsm_bit = "SCLK_LO" \/ fsm_bit = "SCLK_HI"
      BY <1>1, <2>1 DEF InStep, LcdTypeOK
    <3>2. fsm_phy' = IF ~bitack THEN fsm_phy ELSE IF fsm_phy = "DATAWAIT" THEN "DATA" ELSE "MODELINE"
      BY <1>1, <1>2, <2>1, LineMoves
    <3> QED BY <1>1, <1>2, <2>1, <3>1, <3>2, BitMoves DEF Waits
  <2>2. CASE fsm_phy \notin Waits
    <3>1. sclk' = FALSE /\ fsm_bit' = IF bitreq THEN "SCLK_LO" ELSE "IDLE"
      BY <1>1, <1>2, <2>2, BitMoves
    <3>2. fsm_phy' \in Waits <=> bitreq
      BY <1>1, <1>2, <2>2, LineMoves, Sizes DEF LcdTypeOK, Phys, Waits, bitreq
    <3> QED BY <3>1, <3>2
  <2> QED BY <2>1, <2>2
<1>4. scs' <=> fsm_phy' \notin {"IDLE", "SCS_LOW"}
  BY <1>1, <1>2, LineMoves DEF InStep, LcdTypeOK, Phys, Waits
<1>5. /\ fsm_up' = "WAITDONE" => ~fetch_dirty' /\ (fsm_phy' = "IDLE" <=> linedone')
      /\ fsm_up' # "WAITDONE" => fsm_phy' = "IDLE" /\ ~linedone'
  <2>1. CASE fsm_up = "WAITDONE"
    BY <1>1, <1>2, <2>1, UpdateMoves, LineMoves DEF InStep, LcdTypeOK, Phys, Waits, sendline
  <2>2. CASE fsm_up # "WAITDONE"
    <3>1. fsm_phy = "IDLE"
      BY <1>1, <2>2 DEF InStep
    <3>2. ~linedone' /\ (fsm_phy' = "IDLE" <=> fsm_up # "DIRTYLINE")
      BY <1>1, <1>2, <3>1, LineMoves DEF sendline
    <3>3. (fsm_up' = "WAITDONE" <=> fsm_up = "DIRTYLINE") /\ (fsm_up' = "WAITDONE" => ~fetch_dirty')
      BY <1>1, <1>2, <2>2, UpdateMoves DEF LcdTypeOK
    <3> QED BY <3>2, <3>3
  <2> QED BY <2>1, <2>2
<1>6. /\ fsm_up' # "IDLE" => lcd_busy'
      /\ fsm_up' \in {"START", "FETCHDIRTY", "CHECKDIRTY", "DIRTYLINE"} => fetch_dirty'
      /\ fsm_up' \in {"DIRTYLINE", "WAITDONE"} => update_line' # 0
  BY <1>1, <1>2, UpdateMoves DEF InStep, LcdTypeOK
<1> QED BY <1>3, <1>4, <1>5, <1>6 DEF InStep

(* When SCS falls the panel has a whole line, and the line in hand is not due *)
(* any more.                                                                   *)
LEMMA ShownAtTheEnd ==
  ASSUME PanelAssumption, LcdInv, LcdCycle, scs, ~scs'
  PROVE  frameOk /\ update_line \notin due'
<1>1. LcdTypeOK /\ InStep /\ Received
  BY DEF LcdInv
<1>2. fsm_phy = "SCS_HOLD"
  <2>1. fsm_phy \notin {"IDLE", "SCS_LOW"}
    BY <1>1 DEF InStep
  <2> QED BY <1>1, <2>1, LineMoves DEF LcdCycle, LcdTypeOK, Phys, Waits
<1>3. fsm_up = "WAITDONE"
  BY <1>1, <1>2 DEF InStep
<1>4. due' = (due \ Changed) \ Shown
  BY <1>3 DEF LcdCycle, LcdObserve, ToShow
<1>5. Got(rx, ModeBits + LineBits)
  <2>1. fsm_bit = "IDLE"
    BY <1>1, <1>2 DEF InStep, Waits
  <2> QED BY <1>1, <1>2, <2>1 DEF Received, Sent
<1>6. update_line \in due => update_line \in Shown
  <2>1. SUFFICES ASSUME update_line \in due PROVE update_line \in Shown
    OBVIOUS
  <2>2. ModeBits + LineBits > ModeBits /\ ModeBits + LineBits > 0
    BY Sizes
  <2>3. rx.n = ModeBits + LineBits /\ rx.ok = TRUE /\ rx.line = update_line /\ rx.ink = fb[update_line]
    BY <1>5, <2>1, <2>2 DEF Got
  <2>4. rx.mask \in BOOLEAN /\ (rx.mask <=> Marked(update_line))
    BY <1>5, <2>1, <2>2 DEF Got
  <2>5. Marked(update_line) \in BOOLEAN
    BY <1>1 DEF Marked, LcdTypeOK
  <2>6. rx.mask = Marked(update_line)
    BY <2>4, <2>5
  <2> QED BY <2>3, <2>6 DEF Shown, frameOk
<1>7. frameOk
  BY <1>5 DEF Got, frameOk
<1> QED BY <1>4, <1>6, <1>7

(* No line that is due is passed over. *)
LEMMA AheadStep ==
  ASSUME PanelAssumption, LcdInv, LcdCycle
  PROVE  Ahead'
<1>1. LcdTypeOK /\ InStep /\ Ahead /\ PortRead
  BY DEF LcdInv
<1>2. LcdTypeOK' /\ InStep'
  BY LcdTypeStep, InStepStep
<1>3. Update /\ SendLine
  BY DEF LcdCycle
<1>4. due \subseteq 1..height /\ update_line \in 0..height /\ height \in Nat
  BY <1>1, Sizes DEF LcdTypeOK, Line
<1>5. /\ due' \subseteq ToShow /\ due' \subseteq 1..height
      /\ \A l \in due' : (dirty'[l] <=> dirty[l]) /\ (MarkedNext(l) <=> Marked(l))
  BY <1>1, Kept DEF LcdCycle, Line
<1>6. fsm_up # "IDLE" => due' \subseteq due
  BY <1>5 DEF ToShow
<1>7. fsm_up' = "IDLE" => due' = {}
  <2>1. CASE fsm_up = "IDLE"
    BY <1>1, <1>3, <1>5, <2>1, UpdateMoves DEF Ahead, ToShow
  <2>2. CASE fsm_up # "IDLE"
    <3>1. ASSUME fsm_up' = "IDLE" PROVE fsm_up = "CHECKDIRTY" /\ update_line = 0
      BY <1>1, <1>3, <2>2, <3>1, UpdateMoves DEF LcdTypeOK
    <3>2. ASSUME fsm_up = "CHECKDIRTY", update_line = 0 PROVE due = {}
      BY <1>1, <1>4, <3>2 DEF Ahead
    <3> QED BY <1>6, <2>2, <3>1, <3>2
  <2> QED BY <2>1, <2>2
<1>8. fsm_up' # "START" => \A l \in due' : l <= update_line'
  <2>1. CASE fsm_up = "IDLE"
    BY <1>1, <1>3, <1>7, <2>1, UpdateMoves
  <2>2. CASE fsm_up = "START"
    BY <1>1, <1>3, <1>5, <2>2, UpdateMoves
  <2>3. CASE fsm_up \notin {"IDLE", "START"}
    <3>1. \A l \in due : l <= update_line
      BY <1>1, <2>3 DEF Ahead
    <3>2. CASE update_line' = update_line
      BY <1>6, <2>3, <3>1, <3>2
    <3>3. CASE update_line' # update_line
      <4>1. update_line' = update_line - 1
        BY <1>1, <1>3, <2>3, <3>3, UpdateMoves DEF LcdTypeOK
      <4>2. \/ fsm_up = "WAITDONE" /\ linedone
            \/ /\ fsm_up = "CHECKDIRTY" /\ update_line # 0
               /\ ~(dat_r.dirty \/ updateall \/ devboot_line_active)
        BY <1>1, <1>3, <2>3, <3>3, UpdateMoves DEF LcdTypeOK
      <4>3. update_line \notin due
        <5>1. CASE fsm_up = "WAITDONE" /\ linedone
          BY <1>1, <5>1 DEF InStep, Ahead
        <5>2. CASE /\ fsm_up = "CHECKDIRTY" /\ update_line # 0
                   /\ ~(dat_r.dirty \/ updateall \/ devboot_line_active)
          BY <1>1, <5>2 DEF PortRead, Current
        <5> QED BY <4>2, <5>1, <5>2
      <4>4. \A l \in due : l <= update_line - 1
        BY <1>4, <3>1, <4>3
      <4> QED BY <1>6, <2>3, <4>1, <4>4
    <3> QED BY <3>2, <3>3
  <2> QED BY <2>1, <2>2, <2>3
<1>9. fsm_up' = "WAITDONE" /\ fsm_phy' \in {"IDLE", "SCS_LOW"} => update_line' \notin due'
  <2>1. SUFFICES ASSUME fsm_up' = "WAITDONE", fsm_phy' \in {"IDLE", "SCS_LOW"}
                 PROVE  update_line' \notin due'
    OBVIOUS
  <2>2. ~scs'
    BY <1>2, <2>1 DEF InStep
  <2>3. \/ fsm_up = "DIRTYLINE"
        \/ fsm_up = "WAITDONE" /\ ~linedone
    BY <1>1, <1>3, <2>1, UpdateMoves DEF LcdTypeOK
  <2>4. fsm_up # "DIRTYLINE"
    <3>1. ASSUME fsm_up = "DIRTYLINE" PROVE fsm_phy' = "SCS_SETUP"
      BY <1>1, <1>3, <3>1, LineMoves DEF InStep, sendline
    <3> QED BY <2>1, <3>1
  <2>5. update_line' = update_line /\ fsm_phy # "IDLE"
    BY <1>1, <1>3, <2>3, <2>4, UpdateMoves DEF InStep
  <2>6. CASE scs
    BY <2>2, <2>5, <2>6, ShownAtTheEnd
  <2>7. CASE ~scs
    <3>1. fsm_phy = "SCS_LOW"
      BY <1>1, <2>5, <2>7 DEF InStep
    <3> QED BY <1>1, <1>6, <2>3, <2>4, <2>5, <3>1 DEF Ahead
  <2> QED BY <2>6, <2>7
<1>10. \A l \in due' : dirty'[l] \/ updateall' \/ MarkedNext(l)
  <2>1. SUFFICES ASSUME NEW l \in due' PROVE dirty'[l] \/ updateall' \/ MarkedNext(l)
    OBVIOUS
  <2>2. CASE fsm_up = "IDLE"
    <3>1. lcd_command # "none"
      BY <1>1, <1>5, <2>1, <2>2 DEF Ahead, ToShow
    <3>2. dirty[l] \/ lcd_command = "UpdateAll" \/ Marked(l)
      BY <1>5, <2>1, <2>2, <3>1 DEF ToShow
    <3>3. updateall' <=> lcd_command = "UpdateAll"
      BY <1>1, <1>3, <2>2, <3>1, UpdateMoves
    <3> QED BY <1>5, <2>1, <3>2, <3>3
  <2>3. CASE fsm_up # "IDLE"
    <3>1. dirty[l] \/ updateall \/ Marked(l)
      BY <1>1, <1>6, <2>1, <2>3 DEF Ahead
    <3>2. updateall' <=> updateall
      BY <1>1, <1>3, <2>3, UpdateMoves
    <3> QED BY <1>5, <2>1, <3>1, <3>2
  <2> QED BY <2>2, <2>3
<1> QED BY <1>7, <1>8, <1>9, <1>10 DEF Ahead, Marked, MarkedNext

(* The read port shows the line in hand and the word that comes next. *)
LEMMA ReadStep ==
  ASSUME PanelAssumption, LcdInv, LcdCycle
  PROVE  PortRead'
<1>1. LcdTypeOK /\ InStep /\ Ahead /\ PortRead /\ Shifting
  BY DEF LcdInv
<1>2. LcdTypeOK' /\ InStep'
  BY LcdTypeStep, InStepStep
<1>3. Update /\ SendLine /\ ReadPort /\ Mark
  BY DEF LcdCycle
<1>4. /\ due' \subseteq ToShow /\ due' \subseteq Line
      /\ \A l \in due' : fb'[l] = fb[l] /\ (dirty'[l] <=> dirty[l]) /\ (MarkedNext(l) <=> Marked(l))
  BY <1>1, Kept
<1>5. 0 \notin Line
  BY Sizes DEF Line
<1>6. ASSUME fsm_up' \in {"CHECKDIRTY", "DIRTYLINE", "WAITDONE"}, update_line' # 0
      PROVE  /\ dat_r'.line = update_line'
             /\ update_line' \in due' => dat_r'.ink = fb'[update_line']
                                         /\ (devboot_line_active' <=> MarkedNext(update_line'))
  <2>1. update_line' = update_line
    BY <1>1, <1>3, <1>6, UpdateMoves DEF LcdTypeOK
  <2>2. dat_r'.line = update_line /\ dat_r'.ink = fb[update_line]
        /\ (devboot_line_active' <=> Marked(update_line))
    BY <1>1, <1>3, <1>6, <2>1, PortMoves
  <2> QED BY <1>4, <2>1, <2>2
<1>7. ASSUME fsm_up' = "CHECKDIRTY", update_line' \in due'
      PROVE  dat_r'.dirty \/ updateall' \/ MarkedNext(update_line')
  <2>1. fsm_up = "FETCHDIRTY" /\ update_line' = update_line /\ (updateall' <=> updateall)
    BY <1>1, <1>3, <1>7, UpdateMoves DEF LcdTypeOK
  <2>2. update_line \in due /\ update_line # 0
    BY <1>4, <1>5, <1>7, <2>1 DEF ToShow
  <2>3. dirty[update_line] \/ updateall \/ Marked(update_line)
    BY <1>1, <2>2 DEF Ahead
  <2>4. dat_r'.dirty <=> dirty[update_line]
    BY <1>1, <1>3, <2>1, <2>2, PortMoves DEF InStep
  <2> QED BY <1>4, <1>7, <2>1, <2>3, <2>4
<1>8. ASSUME fsm_phy \in Waits PROVE dat_r'.word = (pixcount \div WordBits) % RowWords
  <2>1. fsm_up = "WAITDONE" /\ ~fetch_dirty /\ update_line # 0
    BY <1>1, <1>8 DEF InStep, Waits
  <2> QED BY <1>1, <1>3, <2>1, PortMoves
<1>9. ASSUME fsm_phy' = "MODELINE", pixcount' = 0 PROVE dat_r'.word = 0
  <2>1. fsm_phy = "MODELINEWAIT" /\ pixcount = 0
    BY <1>1, <1>3, <1>9, LineMoves, Sizes DEF LcdTypeOK, Phys, Waits, Shifting
  <2>2. (0 \div WordBits) % RowWords = 0
    BY Sizes
  <2> QED BY <1>8, <2>1, <2>2 DEF Waits
<1>10. ASSUME fsm_phy' = "DATA", pixcount' > 1
       PROVE  dat_r'.word = (pixcount' \div WordBits) % RowWords
  <2>1. fsm_phy = "DATAWAIT" /\ pixcount' = pixcount
    BY <1>1, <1>3, <1>10, LineMoves DEF LcdTypeOK, Phys, Waits
  <2> QED BY <1>8, <2>1 DEF Waits
<1> QED BY <1>6, <1>7, <1>9, <1>10 DEF PortRead, Current, Marked, MarkedNext

(* A bit that is right stays right while the update is at the line; the      *)
(* definition of IsBit in the next state.                                     *)
IsBitNext(bit, i) ==
  IF i < ModeBits THEN bit.from = "head" /\ bit.n = i /\ bit.line = update_line'
  ELSE /\ bit.from = "word" /\ bit.n = i - ModeBits /\ bit.line = update_line' /\ bit.mask \in BOOLEAN
       /\ update_line' \in due' => bit.ink = fb'[update_line'] /\ (bit.mask <=> MarkedNext(update_line'))

LEMMA BitKept ==
  ASSUME LcdTypeOK, LcdCycle, fsm_up # "IDLE", update_line' = update_line, NEW bit, NEW i \in Int, IsBit(bit, i)
  PROVE  IsBitNext(bit, i)
<1>1. /\ due' \subseteq due
      /\ \A l \in due' : fb'[l] = fb[l] /\ (MarkedNext(l) <=> Marked(l))
  BY Kept DEF ToShow
<1> QED BY <1>1 DEF IsBit, IsBitNext

(* The same for what the panel has got. *)
GotNext(f, n) == /\ f.n = n /\ f.ok = TRUE
                 /\ n > 0 => f.line = update_line'
                 /\ n > ModeBits => f.mask \in BOOLEAN
                 /\ n > ModeBits /\ update_line' \in due' =>
                      f.ink = fb'[update_line'] /\ (f.mask <=> MarkedNext(update_line'))

LEMMA GotKept ==
  ASSUME LcdTypeOK, LcdCycle, fsm_up # "IDLE", update_line' = update_line, NEW f, NEW n \in Int, Got(f, n)
  PROVE  GotNext(f, n)
<1>1. /\ due' \subseteq due
      /\ \A l \in due' : fb'[l] = fb[l] /\ (MarkedNext(l) <=> Marked(l))
  BY Kept DEF ToShow
<1> QED BY <1>1 DEF Got, GotNext

(* The update machine is at the line that the line machine sends. *)
LEMMA SameLine ==
  ASSUME PanelAssumption, LcdTypeOK, InStep, LcdCycle, fsm_phy' # "IDLE"
  PROVE  /\ update_line' = update_line /\ fsm_up \in {"DIRTYLINE", "WAITDONE"}
         /\ fsm_phy = "IDLE" => fsm_up = "DIRTYLINE"
         /\ fsm_phy # "IDLE" => fsm_up = "WAITDONE"
<1>1. Update /\ SendLine
  BY DEF LcdCycle
<1>2. CASE fsm_phy = "IDLE"
  <2>1. fsm_up = "DIRTYLINE"
    BY <1>1, <1>2, LineMoves DEF sendline
  <2> QED BY <1>1, <1>2, <2>1, UpdateMoves
<1>3. CASE fsm_phy # "IDLE"
  <2>1. fsm_up = "WAITDONE" /\ ~linedone
    BY <1>3 DEF InStep
  <2> QED BY <1>1, <1>3, <2>1, UpdateMoves
<1> QED BY <1>2, <1>3

(* The word at the read port, loaded when its first bit is next, is right. *)
LoadedBit == [from |-> "word", line |-> dat_r.line, ink |-> dat_r.ink,
              mask |-> devboot_line_active, n |-> dat_r.word * WordBits]

LEMMA LoadedIsBit ==
  ASSUME PanelAssumption, LcdInv, fsm_up = "WAITDONE", NEW k \in Nat, dat_r.word * WordBits = k
  PROVE  IsBit(LoadedBit, ModeBits + k)
<1>1. dat_r.line = update_line /\ Current /\ devboot_line_active \in BOOLEAN
  BY DEF LcdInv, PortRead, InStep, LcdTypeOK
<1>2. ModeBits \in Nat /\ ~(ModeBits + k < ModeBits) /\ ModeBits + k - ModeBits = k
  BY Sizes
<1>3. /\ LoadedBit.from = "word" /\ LoadedBit.line = dat_r.line /\ LoadedBit.ink = dat_r.ink
      /\ LoadedBit.mask = devboot_line_active /\ LoadedBit.n = k
  BY DEF LoadedBit
<1>4. /\ LoadedBit.line = update_line /\ LoadedBit.mask \in BOOLEAN
      /\ update_line \in due => LoadedBit.ink = fb[update_line] /\ (LoadedBit.mask <=> Marked(update_line))
  BY <1>1, <1>3 DEF Current
<1> QED BY <1>2, <1>3, <1>4 DEF IsBit

(* A shift register that has been loaded is at the first bit of the word. *)
LEMMA LoadedPixBit ==
  ASSUME PanelAssumption, LcdTypeOK, pixshift' = Loaded
  PROVE  pixBit' = LoadedBit
<1>1. /\ pixshift'.word.line = dat_r.line /\ pixshift'.word.ink = dat_r.ink
      /\ pixshift'.mask = devboot_line_active /\ pixshift'.word.word = dat_r.word /\ pixshift'.n = 0
  BY DEF Loaded
<1>2. dat_r.word * WordBits + 0 = dat_r.word * WordBits
  BY Sizes DEF LcdTypeOK, Pixels
<1> QED BY <1>1, <1>2 DEF pixBit, LoadedBit

(* The next pixel, or the first one of the next word. *)
LEMMA NextPixel ==
  ASSUME PanelAssumption, LcdInv, LcdCycle, fsm_phy = "DATA", pixcount < LineBits
  PROVE  IsBitNext(pixBit', ModeBits + pixcount)
<1>1. LcdTypeOK /\ InStep /\ PortRead /\ Shifting
  BY DEF LcdInv
<1>2. /\ ModeBits \in Nat /\ LineBits \in Nat /\ WordBits \in Nat /\ WordBits > 1 /\ pixcount \in Nat
      /\ pixcount > 0
  BY <1>1, Sizes DEF LcdTypeOK, Shifting
<1>3. pixshift' = IF pixcount % WordBits = 0 THEN Loaded ELSE [pixshift EXCEPT !.n = @ + 1]
  BY <1>1, <1>2, LineMoves DEF LcdCycle
<1>4. fsm_up = "WAITDONE" /\ update_line' = update_line
  <2>1. fsm_phy' # "IDLE"
    BY <1>1, LineMoves DEF LcdCycle
  <2> QED BY <1>1, <2>1, SameLine
<1>5. CASE pixcount % WordBits = 0
  <2>1. 1 % WordBits = 1
    BY <1>2
  <2>2. pixcount > 1
    BY <1>2, <1>5, <2>1
  <2>3. dat_r.word = (pixcount \div WordBits) % RowWords
    BY <1>1, <2>2 DEF PortRead
  <2>4. dat_r.word * WordBits = pixcount
    BY <1>2, <1>5, <2>3, WordBegins
  <2>5. IsBit(LoadedBit, ModeBits + pixcount)
    BY <1>2, <1>4, <2>4, LoadedIsBit
  <2>6. pixBit' = LoadedBit
    BY <1>1, <1>3, <1>5, LoadedPixBit
  <2>7. IsBitNext(LoadedBit, ModeBits + pixcount)
    BY <1>1, <1>2, <1>4, <2>5, BitKept
  <2> QED BY <2>6, <2>7
<1>6. CASE pixcount % WordBits # 0
  <2>1. IsBit(pixBit, ModeBits + pixcount - 1)
    BY <1>1, <1>2 DEF Shifting, Sent
  <2> DEFINE b == [pixBit EXCEPT !.n = @ + 1]
  <2>2. /\ b.from = pixBit.from /\ b.line = pixBit.line /\ b.ink = pixBit.ink /\ b.mask = pixBit.mask
        /\ b.n = pixBit.n + 1
    BY DEF pixBit
  <2>3. pixBit' = b
    <3>1. pixshift' = [pixshift EXCEPT !.n = @ + 1]
      BY <1>3, <1>6
    <3>2. pixshift \in [word : Pixels, mask : BOOLEAN, n : Nat]
      BY <1>1 DEF LcdTypeOK
    <3>3. pixshift'.word = pixshift.word /\ pixshift'.mask = pixshift.mask /\ pixshift'.n = pixshift.n + 1
      BY <3>1, <3>2
    <3>4. pixshift.word.word * WordBits \in Int /\ pixshift.n \in Int
      BY <1>2, <3>2 DEF Pixels
    <3>5. pixshift.word.word * WordBits + (pixshift.n + 1) = (pixshift.word.word * WordBits + pixshift.n) + 1
      BY <3>4
    <3> QED BY <3>3, <3>5 DEF pixBit
  <2> HIDE DEF b
  <2>4. /\ pixBit.n = (ModeBits + pixcount - 1) - ModeBits /\ pixBit.from = "word"
        /\ pixBit.line = update_line /\ pixBit.mask \in BOOLEAN
        /\ update_line \in due => pixBit.ink = fb[update_line] /\ (pixBit.mask <=> Marked(update_line))
    <3>1. ~(ModeBits + pixcount - 1 < ModeBits)
      BY <1>2
    <3> QED BY <2>1, <3>1 DEF IsBit
  <2>5. ~(ModeBits + pixcount < ModeBits) /\ b.n = (ModeBits + pixcount) - ModeBits
    BY <1>2, <2>2, <2>4
  <2>6. IsBit(b, ModeBits + pixcount)
    BY <2>2, <2>4, <2>5 DEF IsBit
  <2> QED BY <1>1, <1>2, <1>4, <2>3, <2>6, BitKept
<1> QED BY <1>5, <1>6

(* The shift registers hold the next bit after each step. *)
LEMMA ShiftingStep ==
  ASSUME PanelAssumption, LcdInv, LcdCycle
  PROVE  Shifting'
<1>1. LcdTypeOK /\ InStep /\ PortRead /\ Shifting
  BY DEF LcdInv
<1>2. LcdTypeOK' /\ SendLine
  BY LcdTypeStep DEF LcdCycle
<1>3. /\ ModeBits \in Nat /\ LineBits \in Nat /\ ModeBits > 0 /\ LineBits > 0 /\ pixcount \in Nat
  BY <1>1, Sizes DEF LcdTypeOK
<1> DEFINE Counts == /\ fsm_phy' = "SCS_SETUP" => pixcount' = ModeBits
                     /\ fsm_phy' \in {"MODELINE", "MODELINEWAIT"} => pixcount' <= ModeBits
                     /\ fsm_phy' = "MODELINEWAIT" => pixcount' < ModeBits
                     /\ fsm_phy' \in {"DATA", "DATAWAIT"} => pixcount' > 0 /\ pixcount' <= LineBits + 1
                     /\ fsm_phy' = "DATAWAIT" => pixcount' > 1
           Heads == fsm_phy' \in {"SCS_SETUP", "MODELINE", "MODELINEWAIT"} =>
                     modeshift'.line = update_line' /\ modeshift'.n = Sent'
           Pixel == fsm_phy' \in {"DATA", "DATAWAIT"} /\ pixcount' <= LineBits =>
                      IsBitNext(pixBit', Sent')
           Edge == fsm_phy' \in Waits => IsBitNext(si', Sent' - 1)
<1> SUFFICES Counts /\ Heads /\ Pixel /\ Edge
  BY DEF Shifting, IsBit, IsBitNext, Marked, MarkedNext
<1>4. CASE fsm_phy' \in {"IDLE", "SCS_HOLD", "SCS_LOW"}
  BY <1>4 DEF Waits
<1>5. CASE fsm_phy' \notin {"IDLE", "SCS_HOLD", "SCS_LOW"}
  <2>1. /\ update_line' = update_line /\ fsm_up \in {"DIRTYLINE", "WAITDONE"}
        /\ fsm_phy # "IDLE" => fsm_up = "WAITDONE"
    BY <1>1, <1>5, SameLine
  <2>2. CASE fsm_phy = "IDLE"
    <3>1. fsm_phy' = "SCS_SETUP" /\ pixcount' = ModeBits /\ modeshift' = [line |-> update_line, n |-> 0]
      BY <1>1, <1>2, <1>5, <2>2, LineMoves
    <3>2. Sent' = 0
      BY <3>1 DEF Sent
    <3> QED BY <2>1, <3>1, <3>2 DEF Waits
  <2>3. CASE fsm_phy = "SCS_SETUP"
    <3>1. fsm_phy' \in {"SCS_SETUP", "MODELINE"} /\ pixcount' = pixcount /\ modeshift' = modeshift
      BY <1>1, <1>2, <2>3, LineMoves
    <3>2. pixcount = ModeBits /\ modeshift.line = update_line /\ modeshift.n = 0
      BY <1>1, <2>3 DEF Shifting, Sent
    <3>3. Sent' = 0
      BY <1>3, <3>1, <3>2 DEF Sent
    <3> QED BY <1>3, <2>1, <3>1, <3>2, <3>3 DEF Waits
  <2>4. CASE fsm_phy \in {"SCS_HOLD", "SCS_LOW"}
    BY <1>1, <1>2, <1>5, <2>4, LineMoves
  <2>5. CASE fsm_phy = "MODELINE" /\ pixcount > 0
    <3>1. /\ fsm_phy' = "MODELINEWAIT" /\ pixcount' = pixcount - 1 /\ si' = modeBit
          /\ modeshift' = [modeshift EXCEPT !.n = @ + 1]
      BY <1>1, <1>2, <1>3, <2>5, LineMoves
    <3>2. pixcount <= ModeBits /\ modeshift.line = update_line /\ modeshift.n = ModeBits - pixcount
      BY <1>1, <2>5 DEF Shifting, Sent
    <3>3. Sent' = ModeBits - pixcount + 1
      BY <1>3, <3>1 DEF Sent
    <3>4. modeshift'.line = update_line /\ modeshift'.n = ModeBits - pixcount + 1
      BY <1>1, <3>1, <3>2 DEF LcdTypeOK
    <3>5. IsBit(modeBit, ModeBits - pixcount)
      BY <1>3, <2>5, <3>2 DEF IsBit, modeBit
    <3>6. IsBitNext(si', ModeBits - pixcount)
      BY <1>1, <1>3, <2>1, <3>1, <3>5, BitKept
    <3>7. Edge
      BY <1>3, <3>3, <3>6
    <3> QED BY <1>3, <2>1, <2>5, <3>1, <3>2, <3>3, <3>4, <3>7
  <2>6. CASE fsm_phy = "MODELINE" /\ pixcount = 0
    <3>1. fsm_phy' = "DATA" /\ pixcount' = 1 /\ pixshift' = Loaded
      BY <1>1, <1>2, <2>6, LineMoves
    <3>2. dat_r.word * WordBits = 0
      BY <1>1, <2>6, Sizes DEF PortRead
    <3>3. IsBit(LoadedBit, ModeBits + 0)
      BY <2>1, <2>6, <3>2, LoadedIsBit
    <3>4. IsBitNext(LoadedBit, ModeBits + 0)
      BY <1>1, <1>3, <2>1, <3>3, BitKept
    <3>5. pixBit' = LoadedBit
      BY <1>1, <3>1, LoadedPixBit
    <3>6. Sent' = ModeBits + 0
      BY <1>3, <3>1 DEF Sent
    <3>7. Pixel
      BY <3>4, <3>5, <3>6
    <3> QED BY <1>3, <3>1, <3>7 DEF Waits
  <2>7. CASE fsm_phy = "DATA"
    <3>1. pixcount < LineBits + 1 /\ fsm_phy' = "DATAWAIT" /\ pixcount' = pixcount + 1 /\ si' = pixBit
      BY <1>1, <1>2, <1>5, <2>7, LineMoves
    <3>2. pixcount > 0 /\ IsBit(pixBit, ModeBits + pixcount - 1)
      BY <1>1, <1>3, <2>7, <3>1 DEF Shifting, Sent
    <3>3. Sent' = ModeBits + pixcount /\ Sent' - 1 = ModeBits + pixcount - 1
      BY <1>3, <3>1 DEF Sent
    <3>4. IsBitNext(si', ModeBits + pixcount - 1)
      BY <1>1, <1>3, <2>1, <3>1, <3>2, BitKept
    <3>5. pixcount' <= LineBits => IsBitNext(pixBit', ModeBits + pixcount)
      BY <1>3, <2>7, <3>1, NextPixel
    <3>6. Pixel /\ Edge
      BY <3>3, <3>4, <3>5
    <3> QED BY <1>3, <3>1, <3>2, <3>6
  <2>8. CASE fsm_phy \in Waits
    <3>1. /\ pixcount' = pixcount /\ modeshift' = modeshift /\ pixshift' = pixshift /\ si' = si
          /\ \/ fsm_phy = "MODELINEWAIT" /\ fsm_phy' \in {"MODELINEWAIT", "MODELINE"}
             \/ fsm_phy = "DATAWAIT" /\ fsm_phy' \in {"DATAWAIT", "DATA"}
      BY <1>1, <1>2, <2>8, LineMoves DEF Waits
    <3>2. Sent' = Sent /\ pixBit' = pixBit /\ Sent \in Int
      BY <1>3, <3>1 DEF Sent, pixBit
    <3>3. Counts /\ Heads
      BY <1>1, <1>3, <2>1, <3>1, <3>2 DEF Shifting, Waits
    <3>4. Pixel
      <4>1. SUFFICES ASSUME fsm_phy' \in {"DATA", "DATAWAIT"}, pixcount' <= LineBits
                     PROVE  IsBitNext(pixBit', Sent')
        OBVIOUS
      <4>2. IsBit(pixBit, Sent)
        BY <1>1, <3>1, <4>1 DEF Shifting
      <4> QED BY <1>1, <2>1, <3>2, <4>2, BitKept
    <3>5. Edge
      <4>1. IsBit(si, Sent - 1) /\ Sent - 1 \in Int
        BY <1>1, <2>8, <3>2 DEF Shifting
      <4>2. IsBitNext(si, Sent - 1)
        BY <1>1, <2>1, <4>1, BitKept
      <4> QED BY <3>1, <3>2, <4>2
    <3> QED BY <3>3, <3>4, <3>5
  <2> QED BY <1>1, <1>3, <2>2, <2>3, <2>4, <2>5, <2>6, <2>7, <2>8 DEF LcdTypeOK, Phys
<1> QED BY <1>4, <1>5

(* The panel takes the right bit for what it is. *)
LEMMA TakeBit ==
  ASSUME PanelAssumption, LcdTypeOK, NEW n \in Nat, n < ModeBits + LineBits, Got(rx, n), IsBit(si, n)
  PROVE  Got(Take(si), n + 1)
<1>1. ModeBits \in Nat /\ LineBits \in Nat /\ width \in Int /\ ModeBits > 0 /\ width > 0
  BY Sizes
<1>2. /\ rx.n = n /\ rx.ok = TRUE
      /\ n > 0 => rx.line = update_line
      /\ n > ModeBits => rx.mask \in BOOLEAN
      /\ n > ModeBits /\ update_line \in due =>
           rx.ink = fb[update_line] /\ (rx.mask <=> Marked(update_line))
  BY DEF Got
<1> DEFINE t == Take(si)
<1>3. CASE n < ModeBits
  <2>1. si.from = "head" /\ si.n = n /\ si.line = update_line
    BY <1>3 DEF IsBit
  <2>2. Belongs(si)
    BY <1>1, <1>2, <1>3, <2>1 DEF Belongs
  <2>3. /\ t.n = n + 1 /\ t.line = (IF n = 0 THEN si.line ELSE rx.line) /\ (t.ok <=> Belongs(si))
        /\ t.ok \in BOOLEAN
    BY <1>2 DEF Take, Belongs
  <2> HIDE DEF t
  <2>4. t.ok = TRUE /\ t.line = update_line /\ ~(n + 1 > ModeBits)
    BY <1>1, <1>2, <1>3, <2>1, <2>2, <2>3
  <2> QED BY <2>3, <2>4 DEF Got, t
<1>4. CASE n >= ModeBits
  <2>1. /\ si.from = "word" /\ si.n = n - ModeBits /\ si.line = update_line /\ si.mask \in BOOLEAN
        /\ update_line \in due => si.ink = fb[update_line] /\ (si.mask <=> Marked(update_line))
    BY <1>1, <1>4 DEF IsBit
  <2>2. rx.line = update_line
    BY <1>1, <1>2, <1>4
  <2>3. Belongs(si)
    BY <1>1, <1>2, <1>4, <2>1, <2>2 DEF Belongs
  <2>4. t.n = n + 1 /\ t.line = rx.line /\ t.ok = (rx.ok /\ Belongs(si))
    BY <1>1, <1>2, <1>4 DEF Take
  <2> DEFINE pixel == n >= ModeBits /\ n < ModeBits + width
  <2>5. t.mask = IF pixel /\ n = ModeBits THEN si.mask ELSE rx.mask
    BY <1>2 DEF Take
  <2>6. t.ink = CASE ~pixel -> rx.ink
                  [] pixel /\ (n = ModeBits \/ <<si.ink, si.mask>> = <<rx.ink, rx.mask>>) -> si.ink
                  [] OTHER -> "mixed"
    BY <1>2 DEF Take
  <2>7. n = ModeBits => pixel
    BY <1>1
  <2> HIDE DEF t, pixel
  <2>8. t.mask \in BOOLEAN /\ (update_line \in due => (t.mask <=> Marked(update_line)))
    <3>1. CASE n = ModeBits
      BY <2>1, <2>5, <2>7, <3>1
    <3>2. CASE n # ModeBits
      BY <1>1, <1>2, <1>4, <2>5, <3>2
    <3> QED BY <3>1, <3>2
  <2>9. ASSUME update_line \in due PROVE t.ink = fb[update_line]
    <3>1. CASE n = ModeBits
      BY <2>1, <2>6, <2>7, <2>9, <3>1
    <3>2. CASE n # ModeBits
      <4>1. rx.ink = fb[update_line] /\ rx.mask \in BOOLEAN /\ (rx.mask <=> Marked(update_line))
        BY <1>1, <1>2, <1>4, <2>9, <3>2
      <4>2. si.ink = rx.ink /\ si.mask = rx.mask
        BY <2>1, <2>9, <4>1
      <4>3. CASE pixel
        BY <2>6, <4>1, <4>2, <4>3
      <4>4. CASE ~pixel
        BY <2>6, <4>1, <4>4
      <4> QED BY <4>3, <4>4
    <3> QED BY <3>1, <3>2
  <2>10. t.ok = TRUE /\ t.line = update_line
    <3>1. (rx.ok /\ Belongs(si)) = TRUE
      BY <1>2, <2>3
    <3> QED BY <2>2, <2>4, <3>1
  <2> QED BY <2>4, <2>8, <2>9, <2>10 DEF Got, t
<1> QED BY <1>1, <1>3, <1>4

(* How much has been sent after a cycle. *)
LEMMA SentMoves ==
  ASSUME PanelAssumption, LcdInv, LcdCycle, scs, scs'
  PROVE  /\ Sent \in Int /\ fsm_phy' # "IDLE" /\ fsm_phy # "IDLE"
         /\ fsm_phy \notin Waits => fsm_bit = "IDLE" /\ ~sclk'
                                    /\ Sent' = IF fsm_bit' = "SCLK_LO" THEN Sent + 1 ELSE Sent
         /\ fsm_phy \in Waits => Sent' = Sent /\ Sent > 0 /\ Sent <= ModeBits + LineBits
<1>1. LcdTypeOK /\ InStep /\ Shifting
  BY DEF LcdInv
<1>2. InStep' /\ SendLine /\ Clock
  BY InStepStep DEF LcdCycle
<1>3. /\ ModeBits \in Nat /\ LineBits \in Nat /\ ModeBits > 0 /\ pixcount \in Nat
  BY <1>1, Sizes DEF LcdTypeOK
<1>4. fsm_phy \notin {"IDLE", "SCS_LOW"} /\ fsm_phy' \notin {"IDLE", "SCS_LOW"}
  BY <1>1, <1>2 DEF InStep
<1>5. Sent \in Int
  BY <1>3 DEF Sent
<1>6. CASE fsm_phy \in Waits
  <2>1. /\ pixcount' = pixcount
        /\ \/ fsm_phy = "MODELINEWAIT" /\ fsm_phy' \in {"MODELINEWAIT", "MODELINE"}
           \/ fsm_phy = "DATAWAIT" /\ fsm_phy' \in {"DATAWAIT", "DATA"}
    BY <1>1, <1>2, <1>6, LineMoves DEF Waits
  <2>2. Sent' = Sent
    BY <2>1 DEF Sent
  <2>3. Sent > 0 /\ Sent <= ModeBits + LineBits
    BY <1>1, <1>3, <2>1 DEF Shifting, Sent
  <2> QED BY <1>4, <1>5, <1>6, <2>2, <2>3
<1>7. CASE fsm_phy \notin Waits
  <2>1. fsm_bit = "IDLE" /\ sclk' = FALSE /\ fsm_bit' = IF bitreq THEN "SCLK_LO" ELSE "IDLE"
    BY <1>1, <1>2, <1>7, BitMoves DEF InStep
  <2>2. Sent' = IF bitreq THEN Sent + 1 ELSE Sent
    <3>1. CASE fsm_phy = "SCS_SETUP"
      BY <1>1, <1>2, <1>3, <3>1, LineMoves DEF Sent, Shifting, bitreq
    <3>2. CASE fsm_phy = "MODELINE"
      BY <1>1, <1>2, <1>3, <3>2, LineMoves DEF Sent, Shifting, bitreq
    <3>3. CASE fsm_phy = "DATA"
      BY <1>1, <1>2, <1>3, <3>3, LineMoves DEF Sent, Shifting, bitreq
    <3>4. CASE fsm_phy = "SCS_HOLD"
      BY <1>1, <1>2, <1>4, <3>4, LineMoves DEF Sent, bitreq
    <3> QED BY <1>1, <1>4, <1>7, <3>1, <3>2, <3>3, <3>4 DEF LcdTypeOK, Phys
  <2> QED BY <1>4, <1>5, <1>7, <2>1, <2>2
<1> QED BY <1>6, <1>7

(* The panel has got what was sent after each step. *)
LEMMA ReceivedStep ==
  ASSUME PanelAssumption, LcdInv, LcdCycle
  PROVE  Received'
<1>1. LcdTypeOK /\ InStep /\ Shifting /\ Received
  BY DEF LcdInv
<1>2. LcdTypeOK' /\ InStep' /\ Panel /\ SendLine /\ Clock
  BY LcdTypeStep, InStepStep DEF LcdCycle
<1>3. /\ ModeBits \in Nat /\ LineBits \in Nat /\ ModeBits > 0
  BY Sizes
<1> SUFFICES IF scs' THEN GotNext(rx', IF fsm_bit' = "SCLK_LO" THEN Sent' - 1 ELSE Sent')
             ELSE rx' = NoFrame
  BY DEF Received, Got, GotNext, Marked, MarkedNext
<1>4. CASE ~scs'
  BY <1>2, <1>4 DEF Panel
<1>5. CASE scs' /\ ~scs
  <2>1. fsm_phy = "IDLE" /\ fsm_phy' # "IDLE"
    BY <1>1, <1>2, <1>5, LineMoves DEF InStep, LcdTypeOK
  <2>2. fsm_phy' = "SCS_SETUP" /\ fsm_bit' = "IDLE" /\ ~sclk'
    BY <1>1, <1>2, <2>1, LineMoves, BitMoves DEF Waits, bitreq
  <2>3. rx' = NoFrame /\ Sent' = 0
    BY <1>1, <1>2, <1>5, <2>2 DEF Panel, rising, Received, Sent
  <2>4. GotNext(NoFrame, 0)
    BY <1>3 DEF GotNext, NoFrame
  <2> QED BY <1>5, <2>2, <2>3, <2>4
<1>6. CASE scs' /\ scs
  <2>1. /\ Sent \in Int /\ fsm_phy' # "IDLE" /\ fsm_phy # "IDLE"
        /\ fsm_phy \notin Waits => fsm_bit = "IDLE" /\ ~sclk'
                                   /\ Sent' = IF fsm_bit' = "SCLK_LO" THEN Sent + 1 ELSE Sent
        /\ fsm_phy \in Waits => Sent' = Sent /\ Sent > 0 /\ Sent <= ModeBits + LineBits
    BY <1>6, SentMoves
  <2>2. update_line' = update_line /\ fsm_up = "WAITDONE"
    BY <1>1, <2>1, SameLine
  <2>3. rx' = IF sclk' /\ ~sclk /\ rx.n < ModeBits + LineBits + 1 THEN Take(si) ELSE rx
    BY <1>2, <1>6 DEF Panel, rising
  <2>4. CASE fsm_phy \notin Waits
    <3>1. rx' = rx /\ Got(rx, Sent)
      BY <1>1, <1>6, <2>1, <2>3, <2>4 DEF Received
    <3>2. Sent = IF fsm_bit' = "SCLK_LO" THEN Sent' - 1 ELSE Sent'
      BY <2>1, <2>4
    <3>3. GotNext(rx, Sent)
      BY <1>1, <2>1, <2>2, <3>1, GotKept
    <3> QED BY <1>6, <3>1, <3>2, <3>3
  <2>5. CASE fsm_phy \in Waits /\ fsm_bit = "SCLK_LO"
    <3>1. Got(rx, Sent - 1) /\ rx.n = Sent - 1
      BY <1>1, <1>6, <2>5 DEF Received, Got
    <3>2. CASE fsm_bit' = "SCLK_LO" /\ ~sclk'
      <4>1. GotNext(rx, Sent - 1)
        BY <1>1, <2>1, <2>2, <3>1, GotKept
      <4> QED BY <1>6, <2>1, <2>3, <2>5, <3>2, <4>1
    <3>3. CASE fsm_bit' = "SCLK_HI" /\ sclk'
      <4>1. ~sclk
        BY <1>1, <2>5 DEF InStep
      <4>2. Sent - 1 \in Nat /\ Sent - 1 < ModeBits + LineBits /\ (Sent - 1) + 1 = Sent
        BY <1>3, <2>1, <2>5
      <4>3. rx' = Take(si)
        BY <1>3, <2>3, <3>1, <3>3, <4>1, <4>2
      <4>4. IsBit(si, Sent - 1)
        BY <1>1, <2>5 DEF Shifting
      <4>5. Got(Take(si), (Sent - 1) + 1)
        BY <1>1, <3>1, <4>2, <4>4, TakeBit
      <4>6. GotNext(Take(si), Sent)
        BY <1>1, <2>1, <2>2, <4>2, <4>5, GotKept
      <4> QED BY <1>6, <2>1, <2>5, <3>3, <4>3, <4>6
    <3> QED BY <1>1, <1>2, <2>5, <3>2, <3>3, BitMoves
  <2>6. CASE fsm_phy \in Waits /\ fsm_bit = "SCLK_HI"
    <3>1. rx' = rx /\ Got(rx, Sent)
      BY <1>1, <1>6, <2>3, <2>6 DEF Received, InStep
    <3>2. fsm_bit' # "SCLK_LO"
      BY <1>1, <1>2, <2>6, BitMoves
    <3>3. GotNext(rx, Sent)
      BY <1>1, <2>1, <2>2, <3>1, GotKept
    <3> QED BY <1>6, <2>1, <2>6, <3>1, <3>2, <3>3
  <2> QED BY <1>1, <2>4, <2>5, <2>6 DEF InStep, LcdTypeOK
<1> QED BY <1>2, <1>4, <1>5, <1>6 DEF LcdTypeOK

-----------------------------------------------------------------------------
(* The machines stay in step, and bits and lines arrive as they are sent, for *)
(* every size of the panel and every choice of the speeds.                    *)
THEOREM LcdInvariance ==
  ASSUME PanelAssumption
  PROVE  LcdSpec => []LcdInv
<1>1. LcdInit => LcdInv
  BY LcdInitInv
<1>2. LcdInv /\ [LcdNext]_lcdVars => LcdInv'
  <2>1. SUFFICES ASSUME LcdInv, [LcdNext]_lcdVars PROVE LcdInv'
    OBVIOUS
  <2>2. CASE LcdNext
    BY <2>1, <2>2, LcdTypeStep, InStepStep, AheadStep, ReadStep, ShiftingStep, ReceivedStep DEF LcdNext, LcdInv
  <2>3. CASE UNCHANGED lcdVars
    <3>1. /\ UNCHANGED <<fb, dirty, lcd_command, prescaler, devboot, fsm_up, lcd_busy, updateall>>
          /\ UNCHANGED <<fetch_dirty, update_line, fsm_phy, scs_cnt, pixcount, modeshift, pixshift>>
          /\ UNCHANGED <<linedone, scs, si, devboot_line_active, dat_r, fsm_bit, clkcnt, sclk, rx, due>>
      BY <2>3 DEF lcdVars, drawVars, upVars, phyVars
    <3>2. LcdTypeOK' /\ InStep' /\ Ahead' /\ PortRead'
      BY <2>1, <3>1 DEF LcdInv, LcdTypeOK, InStep, Ahead, PortRead, Current, Marked
    <3>3. Shifting' /\ Received'
      BY <2>1, <3>1 DEF LcdInv, Shifting, Received, Sent, IsBit, Got, Marked, pixBit
    <3> QED BY <3>2, <3>3 DEF LcdInv
  <2> QED BY <2>1, <2>2, <2>3
<1> QED BY <1>1, <1>2, PTL DEF LcdSpec

(* When an update is over, each line that it was for has reached the glass   *)
(* as it is in the framebuffer (memlcd.py:243).                              *)
THEOREM LcdUpdateShownCorrect ==
  ASSUME PanelAssumption
  PROVE  LcdSpec => []LcdUpdateShown
<1>1. LcdInv => LcdUpdateShown
  BY DEF LcdInv, InStep, Ahead, LcdUpdateShown
<1> QED BY <1>1, LcdInvariance, PTL

(* Every line that the panel is sent is a whole line, whatever software does *)
(* meanwhile (memlcd.py:389).                                                *)
THEOREM LcdWholeLinesCorrect ==
  ASSUME PanelAssumption
  PROVE  LcdSpec => LcdWholeLines
<1>1. LcdInv /\ [LcdNext]_lcdVars => [scs /\ ~scs' => frameOk]_lcdVars
  BY ShownAtTheEnd DEF LcdNext
<1> QED BY <1>1, LcdInvariance, PTL DEF LcdSpec, LcdWholeLines
-----------------------------------------------------------------------------
(* The link: its timing, and the invariant. *)
(* The longest period of the EC's clock.                                     *)
slowest == CHOOSE p \in EcPeriods : \A o \in EcPeriods : o <= p

(* What the two sides count on: the EC sees that chip select is down and, a  *)
(* transaction over, takes its word off the FIFO before the SoC's driver can *)
(* be told that there is another one; the driver's loop is longer than the   *)
(* pulse that ends a transaction.                                            *)
LinkTimed == /\ CheckHold
             /\ Bits <= 16 /\ AccessTicks >= 2
             /\ slowest \in EcPeriods /\ \A p \in EcPeriods : p <= slowest
             /\ slowest < 3 * SpiDiv
             /\ 3 * slowest <= 3 * SpiDiv + 2 * AccessTicks + 1
             /\ SpiDiv <= 3 * AccessTicks + 1

-----------------------------------------------------------------------------
(* The SoC.                                                                  *)

(* Cycles since the last edge of the SPI clock. *)
beat == SpiDiv - 1 - spi

(* A word has been written and its transaction is not over; it has not begun *)
(* yet; the machine's part of one is over and the driver does not know it.   *)
asked == tx_re \/ tip
finishing == tip /\ (done_m \/ done_r)
waiting == fsm = "IDLE" /\ asked /\ ~finishing

Fifos == [q : Seq(Word), dout : Word \union {None}]

Types ==
  /\ TypeOK
  /\ gap \in 0..(AccessTicks - 1) /\ drv \in {"tip", "rx", "hold", "write"}
  /\ ec_bus \in {"idle", "stalled", "wr_ack", "rd_ack_pipe", "rd_ack"}
  /\ {soc_got, ec_got, ec_sent} \subseteq Nat /\ ec_sent <= MaxWords
  /\ rx_fifo \in Fifos /\ tx_fifo \in Fifos /\ tx_we \in Word \union {None}

LinkMachine ==
  /\ csn <=> fsm \in {"IDLE", "SAMPLE", "WAIT"}
  /\ clk_run <=> fsm = "RUN"
  /\ fsm = "PRE_ASSERT" => spicount = Bits - 1
  /\ fsm = "RUN" => spicount <= Bits - 1
  /\ fsm \in {"POST_ASSERT", "SAMPLE"} => spicount = 2
  /\ fsm = "WAIT" => spicount <= 2
  /\ spi_load <=> csn \/ fsm = "PRE_ASSERT" \/ (fsm = "RUN" /\ spicount = Bits - 1)

(* What the driver waits for. *)
Asking ==
  /\ asked => drv = "tip"
  /\ tx_re => ~tip /\ gap = AccessTicks - 1 /\ count = 0 /\ fsm = "IDLE"
  /\ count > 0 \/ tx_written_d => tip /\ fsm = "IDLE"
  /\ fsm # "IDLE" /\ ~setdone => tip
  /\ tx_re \/ count > 0 \/ tx_written_d \/ (fsm # "IDLE" /\ ~setdone) => ~done_m /\ ~done_r

(* Cycles, at least, since the machine has said that it is done. *)
Since == 3 + (CASE drv = "tip" -> 0
                [] drv = "rx" -> AccessTicks - gap
                [] drv = "hold" -> 2 * AccessTicks - gap
                [] OTHER -> 3 * AccessTicks - gap)

Ending ==
  /\ setdone => /\ done_m <=> beat >= 1
                /\ done_r <=> beat >= 2
                /\ tip <=> beat < 3
                /\ ~tip => Since <= beat
  /\ fsm = "IDLE" /\ done_m => /\ tip <=> SpiDiv < 3
                               /\ done_r <=> SpiDiv > 1
                               /\ ~tip => Since <= SpiDiv
  /\ fsm = "IDLE" /\ done_r /\ ~done_m => /\ tip <=> SpiDiv = 1
                                          /\ ~tip => Since <= SpiDiv + 1

SocInv == LinkMachine /\ Asking /\ Ending

-----------------------------------------------------------------------------
(* The EC. *)

(* It has yet to see the end of a transaction; in so many edges it does.     *)
pending == tip_m \/ tip_r \/ tip_d
edges == IF tip_m THEN 3 ELSE IF tip_r THEN 2 ELSE 1

(* Cycles since chip select fell, or three SPI cycles and more; cycles, at   *)
(* least, since it rose.                                                     *)
Fell == (CASE fsm = "PRE_ASSERT" -> 0
           [] fsm = "RUN" /\ spicount = Bits - 1 -> SpiDiv
           [] OTHER -> 2 * SpiDiv) + beat
Rose == CASE fsm = "SAMPLE" -> beat
          [] fsm = "WAIT" -> (IF spicount = 2 THEN SpiDiv ELSE IF spicount = 1 THEN 2 * SpiDiv ELSE 3 * SpiDiv) + beat
          [] OTHER -> 3 * SpiDiv + (IF tip THEN IF done_r THEN 2 ELSE 1 ELSE Since)

Selected ==
  /\ ~csn => (tip_d => tip_r) /\ (tip_r => tip_m)
  /\ ~csn /\ ~tip_m => Fell + ec + 1 <= slowest
  /\ waiting => ~pending
  /\ csn /\ pending => /\ Rose + ec + (edges - 1) * slowest + 1 <= 3 * slowest
                       /\ tip_m /\ tip_d => tip_r

(* A hold line that is down says that there is a word: not the last one.     *)
Offered ==
  /\ csn /\ ~hold_m /\ Rose >= 3 * slowest + 1 => Readable(tx_fifo)
  /\ csn /\ ~hold /\ Rose >= 3 * slowest + 2 => Readable(tx_fifo)
  /\ drv = "write" => Readable(tx_fifo) /\ ~pending
  /\ waiting \/ ~csn \/ pending => Readable(tx_fifo)

EcInv == Selected /\ Offered

-----------------------------------------------------------------------------
(* The words. *)

(* The SoC has an answer that its driver has not read.                       *)
answered == IF tip THEN csn /\ ~waiting ELSE ~tx_re /\ drv \in {"tip", "rx"}
(* The EC's next word. *)
next == soc_got + (IF answered THEN 1 ELSE 0) + (IF csn /\ pending THEN 0 ELSE 1)
Count(b) == IF b THEN 1 ELSE 0

Replies ==
  /\ Readable(tx_fifo) => tx_fifo.dout = next
  /\ \A i \in 1..Len(tx_fifo.q) : tx_fifo.q[i] = next + i - Count(~Readable(tx_fifo))
  /\ ec_sent = next - 1 + Count(Readable(tx_fifo)) + Len(tx_fifo.q) + Count(tx_we # None)
  /\ tx_we # None => tx_we = ec_sent /\ Writable(tx_fifo) /\ ec_bus = "wr_ack"
  /\ answered \/ ~spi_load => tx_sr = soc_got + 1
  /\ answered /\ (fsm = "IDLE" \/ (fsm = "WAIT" /\ spicount < 2)) => rx_status = soc_got + 1

(* The last word that came to the FIFO, and to its output. *)
pushed == IF csn /\ ~waiting /\ ~pending THEN tx ELSE tx - 1
base == IF Readable(rx_fifo) THEN rx_fifo.dout ELSE ec_got

Requests ==
  /\ asked \/ pending => tx > 0
  /\ ~csn \/ pending => tx_r = tx
  /\ fsm = "POST_ASSERT" \/ (csn /\ pending) => rx_sr = tx
  /\ rx_re => Readable(rx_fifo) /\ rx_fifo.dout = ec_got /\ ec_bus = "rd_ack_pipe"
  /\ Readable(rx_fifo) /\ ~rx_re => rx_fifo.dout > ec_got
  /\ ec_got <= pushed /\ base <= pushed
  /\ \A i \in 1..Len(rx_fifo.q) : base < rx_fifo.q[i] /\ rx_fifo.q[i] <= pushed
  /\ \A i, j \in 1..Len(rx_fifo.q) : i < j => rx_fifo.q[i] < rx_fifo.q[j]
  /\ ~overrun => /\ Readable(rx_fifo) /\ ~rx_re => rx_fifo.dout = ec_got + 1
                 /\ \A i \in 1..Len(rx_fifo.q) : rx_fifo.q[i] = base + i
                 /\ pushed = base + Len(rx_fifo.q)

LinkInv == Types /\ SocInv /\ EcInv /\ Replies /\ Requests

-----------------------------------------------------------------------------
(* Lengths of time, and what a step does.                                    *)

(* The constants are numbers, and the EC's edges are never further apart     *)
(* than the longest period.                                                  *)
LEMMA Lengths ==
  ASSUME LinkTimed
  PROVE  /\ Bits \in 1..16 /\ SpiDiv \in Nat /\ SpiDiv >= 1 /\ Stretch \in Nat /\ Stretch >= 1
         /\ AccessTicks \in Nat /\ AccessTicks >= 2 /\ Depth \in Nat /\ Depth >= 1
         /\ MaxWords \in Nat /\ CheckHold = TRUE
         /\ slowest \in Nat /\ slowest >= 1 /\ slowest < 3 * SpiDiv
         /\ 3 * slowest <= 3 * SpiDiv + 2 * AccessTicks + 1
         /\ SpiDiv <= 3 * AccessTicks + 1
         /\ \A p \in EcPeriods : p \in Nat /\ 1 <= p /\ p <= slowest
BY SizeAssumption, BoundAssumption, ModeAssumption DEF LinkTimed

(* A cycle of the SoC within a cycle of SPI; an edge of the SPI clock.       *)
Within == spi > 0 /\ spi' = spi - 1 /\ UNCHANGED spiVars
AtEdge == spi = 0 /\ spi' = SpiDiv - 1 /\ tx_written_d' = tx_written

(* The EC between two edges of its clock, and at one.                        *)
EcRests == ec > 0 /\ ec' = ec - 1 /\ UNCHANGED ecVars
EcMoves == /\ ec = 0 /\ ec' \in Nat /\ ec' <= slowest - 1 /\ \E p \in EcPeriods : ec' = p - 1
           /\ Peripheral /\ EcAccess

(* A step is one of the SPI side, of the EC, of the SoC and of its driver.   *)
LEMMA Steps ==
  ASSUME LinkTimed, Types, Next
  PROVE  /\ Within \/ (AtEdge /\ (FsmIdle \/ FsmPreAssert \/ FsmRun \/ FsmPostAssert \/ FsmSample \/ FsmWait))
         /\ EcRests \/ EcMoves
         /\ Shift /\ Soc /\ (SocAccess \/ SocNoAccess) /\ autohold' = autohold
<1>1. /\ spi' = IF spi = 0 THEN SpiDiv - 1 ELSE spi - 1
      /\ SpiEdge /\ Shift /\ Soc /\ (SocAccess \/ SocNoAccess) /\ autohold' = autohold
      /\ \/ ec = 0 /\ (\E p \in EcPeriods : ec' = p - 1) /\ Peripheral /\ EcAccess
         \/ ec # 0 /\ ec' = ec - 1 /\ UNCHANGED ecVars
  BY DEF Next, Tick
<1>2. spi \in 0..(SpiDiv - 1) /\ ec \in Nat
  BY Lengths DEF Types, TypeOK
<1>3. Within \/ (AtEdge /\ (FsmIdle \/ FsmPreAssert \/ FsmRun \/ FsmPostAssert \/ FsmSample \/ FsmWait))
  <2>1. CASE spi = 0
    BY <1>1, <2>1 DEF AtEdge, SpiEdge
  <2>2. CASE spi # 0
    BY <1>1, <1>2, <2>2, Lengths DEF Within, SpiEdge
  <2> QED BY <2>1, <2>2
<1>4. EcRests \/ EcMoves
  <2>1. CASE ec = 0
    <3>1. PICK p \in EcPeriods : ec' = p - 1
      BY <1>1, <2>1
    <3>2. ec' \in Nat /\ ec' <= slowest - 1
      BY <3>1, Lengths
    <3> QED BY <1>1, <2>1, <3>2 DEF EcMoves
  <2>2. CASE ec # 0
    BY <1>1, <1>2, <2>2, Lengths DEF EcRests
  <2> QED BY <2>1, <2>2
<1> QED BY <1>1, <1>3, <1>4

(* The beats of an SPI cycle.                                                *)
LEMMA Beats ==
  ASSUME LinkTimed, Types
  PROVE  /\ beat \in 0..(SpiDiv - 1)
         /\ Within => beat' = beat + 1 /\ beat' \in 0..(SpiDiv - 1)
         /\ AtEdge => beat = SpiDiv - 1 /\ beat' = 0
<1>1. spi \in 0..(SpiDiv - 1) /\ SpiDiv \in Nat /\ SpiDiv >= 1
  BY Lengths DEF Types, TypeOK
<1>2. beat \in 0..(SpiDiv - 1)
  BY <1>1 DEF beat
<1>3. Within => beat' = beat + 1 /\ beat' \in 0..(SpiDiv - 1)
  BY <1>1 DEF beat, Within
<1>4. AtEdge => beat = SpiDiv - 1 /\ beat' = 0
  BY <1>1 DEF beat, AtEdge
<1> QED BY <1>2, <1>3, <1>4

(* What becomes of a FIFO's words: one goes to the output, or none does.     *)
FifoMoved(f, din, re, g) ==
  \/ /\ f.q # <<>> /\ (~Readable(f) \/ re)
     /\ Len(f.q) >= 1 /\ g.dout = f.q[1]
     /\ Len(g.q) = Len(f.q) - 1 + (IF din # None /\ Writable(f) THEN 1 ELSE 0)
     /\ \A i \in 1..(Len(f.q) - 1) : g.q[i] = f.q[i + 1]
     /\ din # None /\ Writable(f) => g.q[Len(f.q)] = din
  \/ /\ f.q = <<>> \/ (Readable(f) /\ ~re)
     /\ g.dout = IF re THEN None ELSE f.dout
     /\ Len(g.q) = Len(f.q) + (IF din # None /\ Writable(f) THEN 1 ELSE 0)
     /\ \A i \in 1..Len(f.q) : g.q[i] = f.q[i]
     /\ din # None /\ Writable(f) => g.q[Len(f.q) + 1] = din

(* A FIFO takes a word if it has room, and moves one to its output when that *)
(* is empty or read.                                                         *)
LEMMA FifoMoves ==
  ASSUME LinkTimed, NEW f \in Fifos, NEW din \in Word \union {None}, NEW re \in BOOLEAN,
         NEW g, g = Fifo(f, din, re)
  PROVE  g \in Fifos /\ FifoMoved(f, din, re, g)
<1> DEFINE fill == f.q # <<>> /\ (~Readable(f) \/ re)
           front == IF fill THEN Tail(f.q) ELSE f.q
           back == IF din # None /\ Writable(f) THEN <<din>> ELSE <<>>
<1>1. g = [q |-> front \o back, dout |-> IF fill THEN Head(f.q) ELSE IF re THEN None ELSE f.dout]
  BY DEF Fifo
<1>2. f.q \in Seq(Word) /\ f.dout \in Word \union {None} /\ Len(f.q) \in Nat
  BY LenProperties DEF Fifos
<1>3. /\ back \in Seq(Word) /\ Len(back) = (IF din # None /\ Writable(f) THEN 1 ELSE 0)
      /\ din # None /\ Writable(f) => back[1] = din
  OBVIOUS
<1>4. /\ front \in Seq(Word) /\ Len(front) = IF fill THEN Len(f.q) - 1 ELSE Len(f.q)
      /\ \A i \in 1..Len(front) : front[i] = IF fill THEN f.q[i + 1] ELSE f.q[i]
      /\ fill => Len(f.q) >= 1 /\ Head(f.q) = f.q[1] /\ Head(f.q) \in Word
  <2>1. CASE fill
    BY <1>2, <2>1, HeadTailProperties, EmptySeq
  <2>2. CASE ~fill
    BY <1>2, <2>2
  <2> QED BY <2>1, <2>2
<1> HIDE DEF front, back
<1>5. /\ front \o back \in Seq(Word) /\ Len(front \o back) = Len(front) + Len(back)
      /\ \A i \in 1..Len(front) + Len(back) :
           (front \o back)[i] = IF i <= Len(front) THEN front[i] ELSE back[i - Len(front)]
  <2>1. \A s, t \in Seq(Word) :
          /\ s \o t \in Seq(Word) /\ Len(s \o t) = Len(s) + Len(t)
          /\ \A i \in 1..Len(s) + Len(t) : (s \o t)[i] = IF i <= Len(s) THEN s[i] ELSE t[i - Len(s)]
    BY ConcatProperties
  <2> QED BY <1>3, <1>4, <2>1
<1>6. g \in Fifos
  BY <1>1, <1>2, <1>4, <1>5 DEF Fifos
<1>7. CASE fill
  <2>1. Len(front) = Len(f.q) - 1 /\ g.q = front \o back /\ g.dout = f.q[1] /\ Len(f.q) >= 1
    BY <1>1, <1>4, <1>7
  <2>2. \A i \in 1..(Len(f.q) - 1) : g.q[i] = f.q[i + 1]
    BY <1>2, <1>3, <1>4, <1>5, <1>7, <2>1
  <2>3. din # None /\ Writable(f) => g.q[Len(f.q)] = din
    <3> SUFFICES ASSUME din # None, Writable(f) PROVE g.q[Len(f.q)] = din
      OBVIOUS
    <3>1. Len(back) = 1 /\ back[1] = din
      BY <1>3
    <3>2. Len(f.q) \in 1..(Len(front) + Len(back)) /\ ~(Len(f.q) <= Len(front)) /\ Len(f.q) - Len(front) = 1
      BY <1>2, <2>1, <3>1
    <3> QED BY <1>5, <2>1, <3>1, <3>2
  <2> QED BY <1>3, <1>5, <1>6, <1>7, <2>1, <2>2, <2>3 DEF FifoMoved
<1>8. CASE ~fill
  <2>1. Len(front) = Len(f.q) /\ g.q = front \o back
        /\ g.dout = (IF re THEN None ELSE f.dout)
    BY <1>1, <1>4, <1>8
  <2>2. \A i \in 1..Len(f.q) : g.q[i] = f.q[i]
    BY <1>2, <1>3, <1>4, <1>5, <1>8, <2>1
  <2>3. din # None /\ Writable(f) => g.q[Len(f.q) + 1] = din
    BY <1>2, <1>3, <1>5, <2>1
  <2>4. f.q = <<>> \/ (Readable(f) /\ ~re)
    BY <1>8
  <2> QED BY <1>3, <1>5, <1>6, <2>1, <2>2, <2>3, <2>4 DEF FifoMoved
<1> QED BY <1>7, <1>8

(* It never holds more words than it has room for.                           *)
LEMMA FifoFits ==
  ASSUME LinkTimed, NEW f \in Fifos, NEW din, NEW re, NEW g \in Fifos,
         FifoMoved(f, din, re, g), Len(f.q) <= Depth
  PROVE  Len(g.q) <= Depth
<1>1. Len(f.q) \in Nat /\ Len(g.q) \in Nat /\ Depth \in Nat
  BY LenProperties, Lengths DEF Fifos
<1>2. PICK new : new = IF din # None /\ Writable(f) THEN 1 ELSE 0
  OBVIOUS
<1>3. Len(g.q) = Len(f.q) - 1 + new \/ Len(g.q) = Len(f.q) + new
  BY <1>2 DEF FifoMoved
<1>4. new = 0 \/ (new = 1 /\ Len(f.q) < Depth)
  BY <1>2 DEF Writable
<1>5. CASE new = 0
  BY <1>1, <1>3, <1>5
<1>6. CASE new = 1 /\ Len(f.q) < Depth
  BY <1>1, <1>3, <1>6
<1> QED BY <1>4, <1>5, <1>6

-----------------------------------------------------------------------------
(* The SoC.                                                                  *)

(* The state machine with its clock, chip select and count.                  *)
LEMMA MachineHolds == ASSUME LinkTimed, Types, LinkMachine, Next PROVE LinkMachine'
<1>1. Bits \in 1..16 /\ spicount \in 0..15 /\ clk_run \in BOOLEAN /\ csn \in BOOLEAN /\ spi_load \in BOOLEAN
      /\ fsm \in {"IDLE", "PRE_ASSERT", "RUN", "POST_ASSERT", "SAMPLE", "WAIT"}
  BY Lengths DEF Types, TypeOK
<1>2. /\ Within \/ (AtEdge /\ (FsmIdle \/ FsmPreAssert \/ FsmRun \/ FsmPostAssert \/ FsmSample \/ FsmWait))
      /\ spi_load' = (csn' \/ (spi_load /\ ~sclk_edge))
  BY Steps DEF Shift
<1>3. CASE Within
  BY <1>1, <1>2, <1>3 DEF Within, LinkMachine, spiVars, sclk_edge
<1>4. CASE AtEdge /\ FsmIdle
  BY <1>1, <1>2, <1>4 DEF AtEdge, LinkMachine, FsmIdle, sclk_edge
<1>5. CASE AtEdge /\ FsmPreAssert
  <2>1. fsm' = "RUN" /\ clk_run' = TRUE /\ csn' = FALSE /\ spicount' = Bits - 1 /\ ~sclk_edge /\ spi_load = TRUE
    BY <1>1, <1>5 DEF AtEdge, LinkMachine, FsmPreAssert, sclk_edge
  <2>2. spi_load' = TRUE
    BY <1>2, <2>1
  <2> QED BY <1>1, <2>1, <2>2 DEF LinkMachine
<1>6. CASE AtEdge /\ FsmRun
  <2>1. fsm = "RUN" /\ sclk_edge /\ csn' = FALSE
    BY <1>1, <1>6 DEF AtEdge, LinkMachine, FsmRun, sclk_edge
  <2>2. spi_load' = FALSE
    BY <1>2, <2>1
  <2>3. CASE spicount > 0
    <3>1. clk_run' = TRUE /\ spicount' = spicount - 1 /\ fsm' = "RUN"
      BY <1>6, <2>3 DEF FsmRun
    <3> QED BY <1>1, <2>1, <2>2, <2>3, <3>1 DEF LinkMachine
  <2>4. CASE ~(spicount > 0)
    <3>1. clk_run' = FALSE /\ spicount' = 2 /\ fsm' = "POST_ASSERT"
      <4>1. clk_run' = (spicount > 0) /\ (spicount > 0) = FALSE
        BY <1>1, <1>6, <2>4 DEF FsmRun
      <4>2. spicount' = 2 /\ fsm' = "POST_ASSERT"
        BY <1>1, <1>6, <2>4 DEF FsmRun, turnaround_delay
      <4> QED BY <4>1, <4>2
    <3> QED BY <1>1, <2>1, <2>2, <3>1 DEF LinkMachine
  <2> QED BY <2>3, <2>4
<1>7. CASE AtEdge /\ FsmPostAssert
  <2>1. fsm' = "SAMPLE" /\ clk_run' = FALSE /\ csn' = TRUE /\ spicount' = 2
    BY <1>1, <1>7 DEF AtEdge, LinkMachine, FsmPostAssert
  <2>2. spi_load' = TRUE
    BY <1>2, <2>1
  <2> QED BY <1>1, <2>1, <2>2 DEF LinkMachine
<1>8. CASE AtEdge /\ FsmSample
  <2>1. fsm' = "WAIT" /\ clk_run' = FALSE /\ csn' = TRUE /\ spicount' = 2
    BY <1>1, <1>8 DEF AtEdge, LinkMachine, FsmSample
  <2>2. spi_load' = TRUE
    BY <1>2, <2>1
  <2> QED BY <1>1, <2>1, <2>2 DEF LinkMachine
<1>9. CASE AtEdge /\ FsmWait
  <2>1. CASE spicount = 0
    BY <1>1, <1>2, <1>9, <2>1 DEF AtEdge, LinkMachine, FsmWait, sclk_edge
  <2>2. CASE spicount # 0
    <3>1. spicount' = spicount - 1 /\ fsm' = "WAIT" /\ UNCHANGED <<clk_run, csn>>
      BY <1>1, <1>9, <2>2 DEF FsmWait
    <3>2. fsm = "WAIT" /\ csn' = TRUE /\ clk_run' = FALSE /\ spicount <= 2
      BY <1>1, <1>9, <3>1 DEF LinkMachine, FsmWait
    <3>3. spi_load' = TRUE
      BY <1>2, <3>2
    <3> QED BY <1>1, <2>2, <3>1, <3>2, <3>3 DEF LinkMachine
  <2> QED BY <2>1, <2>2
<1> QED BY <1>2, <1>3, <1>4, <1>5, <1>6, <1>7, <1>8, <1>9

(* The driver's turn: it looks at tip, reads, looks at hold, writes, or does *)
(* something else.                                                           *)
Looks == gap = 0 /\ gap' = AccessTicks - 1
DriverTip == Looks /\ drv = "tip" /\ drv' = (IF tip THEN "tip" ELSE "rx") /\ ~tx_re' /\ tx' = tx /\ soc_got' = soc_got
DriverRead == Looks /\ drv = "rx" /\ drv' = "hold" /\ ~tx_re' /\ tx' = tx /\ soc_got' = rx_status
DriverHold == Looks /\ drv = "hold" /\ drv' = (IF hold THEN "hold" ELSE "write") /\ ~tx_re' /\ tx' = tx /\ soc_got' = soc_got
DriverWrite == Looks /\ drv = "write" /\ drv' = "tip" /\ tx < MaxWords /\ tx_re' /\ tx' = tx + 1 /\ soc_got' = soc_got
DriverRests == gap' = (IF gap > 0 THEN gap - 1 ELSE 0) /\ drv' = drv /\ ~tx_re' /\ tx' = tx /\ soc_got' = soc_got

(* A step of the driver is one of these.                                     *)
LEMMA DriverMoves ==
  ASSUME LinkTimed, Types, Next
  PROVE  /\ DriverTip \/ DriverRead \/ DriverHold \/ DriverWrite \/ DriverRests
         /\ tx_re' \in BOOLEAN
<1>1. SocAccess \/ SocNoAccess
  BY Steps
<1>2. CheckHold = TRUE
  BY Lengths
<1> QED
  BY <1>1, <1>2 DEF SocAccess, SocNoAccess, PollTip, ReadRx, PollHold, WriteTx,
     Looks, DriverTip, DriverRead, DriverHold, DriverWrite, DriverRests

(* The synchronizers and tip.                                                *)
LEMMA SocMoves ==
  ASSUME LinkTimed, Types, Next
  PROVE  /\ tip' = (tx_re \/ (tip /\ ~done_r)) /\ done_m' = setdone /\ done_r' = done_m
         /\ count' = (IF tx_re THEN Stretch ELSE IF count > 0 THEN count - 1 ELSE 0)
         /\ hold' = hold_m /\ \E f \in {tx_fifo, tx_fifo'} : hold_m' = ~Readable(f)
         /\ tip' \in BOOLEAN /\ done_m' \in BOOLEAN /\ done_r' \in BOOLEAN
         /\ count' \in Nat /\ (count' > 0 <=> tx_re \/ count > 1)
<1>1. tip' = (tx_re \/ (tip /\ ~done_r)) /\ done_m' = setdone /\ done_r' = done_m
      /\ count' = (IF tx_re THEN Stretch ELSE IF count > 0 THEN count - 1 ELSE 0)
      /\ hold' = hold_m /\ \E f \in {tx_fifo, tx_fifo'} : hold_m' = ~Readable(f)
  BY Steps DEF Soc, stretched
<1>2. done_m \in BOOLEAN /\ done_r \in BOOLEAN /\ tip \in BOOLEAN /\ tx_re \in BOOLEAN /\ count \in Nat
      /\ Stretch \in Nat /\ Stretch >= 1
  BY Lengths DEF Types, TypeOK
<1>3. count' \in Nat /\ (count' > 0 <=> tx_re \/ count > 1)
  BY <1>1, <1>2
<1> QED BY <1>1, <1>2, <1>3 DEF setdone

(* The state machine's steps: from state to state at an edge of its clock.   *)
Goes(s, t) == AtEdge /\ fsm = s /\ fsm' = t

SpiMoves ==
  \/ Within
  \/ Goes("IDLE", "IDLE") /\ csn /\ csn' /\ UNCHANGED <<tx_r, rx_status>>
  \/ Goes("IDLE", "PRE_ASSERT") /\ count = 0 /\ tx_written_d /\ ~csn' /\ spicount' = Bits - 1 /\ tx_r' = tx /\ rx_status' = rx_status
  \/ Goes("PRE_ASSERT", "RUN") /\ ~csn' /\ spicount' = Bits - 1 /\ UNCHANGED <<tx_r, rx_status>>
  \/ Goes("RUN", "RUN") /\ ~csn' /\ spicount > 0 /\ spicount' = spicount - 1 /\ UNCHANGED <<tx_r, rx_status>>
  \/ Goes("RUN", "POST_ASSERT") /\ ~csn' /\ spicount = 0 /\ UNCHANGED <<tx_r, rx_status>>
  \/ Goes("POST_ASSERT", "SAMPLE") /\ csn' /\ UNCHANGED <<tx_r, rx_status>>
  \/ Goes("SAMPLE", "WAIT") /\ csn' /\ spicount' = 2 /\ UNCHANGED <<tx_r, rx_status>>
  \/ Goes("WAIT", "WAIT") /\ csn' /\ spicount > 0 /\ spicount' = spicount - 1 /\ tx_r' = tx_r /\ rx_status' = tx_sr
  \/ Goes("WAIT", "IDLE") /\ csn' /\ spicount = 0 /\ tx_r' = tx_r /\ rx_status' = tx_sr

(* The state machine makes one of these steps and leaves the rest alone.     *)
LEMMA SpiSteps == ASSUME LinkTimed, Types, LinkMachine, Next PROVE SpiMoves
<1>1. Bits \in 1..16 /\ spicount \in 0..15 /\ csn \in BOOLEAN /\ count \in Nat
      /\ fsm \in {"IDLE", "PRE_ASSERT", "RUN", "POST_ASSERT", "SAMPLE", "WAIT"}
  BY Lengths DEF Types, TypeOK
<1>2. Within \/ (AtEdge /\ (FsmIdle \/ FsmPreAssert \/ FsmRun \/ FsmPostAssert \/ FsmSample \/ FsmWait))
  BY Steps
<1>3. CASE Within
  BY <1>3 DEF SpiMoves
<1>4. CASE AtEdge /\ FsmIdle
  <2> DEFINE start == tx_go /\ ~(autohold /\ hold)
  <2>1. fsm = "IDLE" /\ csn' = ~start /\ fsm' = (IF start THEN "PRE_ASSERT" ELSE "IDLE")
        /\ tx_r' = (IF start THEN tx ELSE tx_r) /\ spicount' = (IF start THEN Bits - 1 ELSE spicount)
        /\ rx_status' = rx_status
    BY <1>4 DEF FsmIdle
  <2>2. start => count = 0 /\ tx_written_d
    BY DEF tx_go, tx_written
  <2> HIDE DEF start
  <2>3. CASE start
    BY <1>4, <2>1, <2>2, <2>3 DEF SpiMoves, Goes
  <2>4. CASE ~start
    BY <1>1, <1>4, <2>1, <2>4 DEF SpiMoves, Goes, LinkMachine
  <2> QED BY <2>3, <2>4
<1>5. CASE AtEdge /\ FsmPreAssert
  BY <1>1, <1>5 DEF SpiMoves, Goes, LinkMachine, FsmPreAssert
<1>6. CASE AtEdge /\ FsmRun
  <2>1. fsm = "RUN" /\ csn' = csn /\ ~csn /\ UNCHANGED <<tx_r, rx_status>>
    BY <1>1, <1>6 DEF LinkMachine, FsmRun
  <2>2. CASE spicount > 0
    <3>1. fsm' = "RUN" /\ spicount' = spicount - 1
      BY <1>6, <2>2 DEF FsmRun
    <3> QED BY <1>6, <2>1, <2>2, <3>1 DEF SpiMoves, Goes
  <2>3. CASE ~(spicount > 0)
    <3>1. fsm' = "POST_ASSERT" /\ spicount = 0
      BY <1>1, <1>6, <2>3 DEF FsmRun
    <3> QED BY <1>6, <2>1, <2>3, <3>1 DEF SpiMoves, Goes
  <2> QED BY <2>2, <2>3
<1>7. CASE AtEdge /\ FsmPostAssert
  BY <1>1, <1>7 DEF SpiMoves, Goes, LinkMachine, FsmPostAssert
<1>8. CASE AtEdge /\ FsmSample
  BY <1>1, <1>8 DEF SpiMoves, Goes, LinkMachine, FsmSample
<1>9. CASE AtEdge /\ FsmWait
  <2>1. fsm = "WAIT" /\ csn' /\ spicount \in 0..2 /\ tx_r' = tx_r /\ rx_status' = tx_sr
        /\ spicount' = (spicount - 1) % 16 /\ fsm' = (IF spicount = 0 THEN "IDLE" ELSE "WAIT")
    BY <1>1, <1>9 DEF LinkMachine, FsmWait
  <2>2. CASE spicount = 0
    BY <1>9, <2>1, <2>2 DEF SpiMoves, Goes
  <2>3. CASE spicount # 0
    <3>1. spicount' = spicount - 1 /\ spicount > 0
      BY <2>1, <2>3
    <3> QED BY <1>9, <2>1, <2>3, <3>1 DEF SpiMoves, Goes
  <2> QED BY <2>2, <2>3
<1> QED BY <1>2, <1>3, <1>4, <1>5, <1>6, <1>7, <1>8, <1>9

(* The same for what the rest looks at: whether the machine is idle, and     *)
(* whether it says that it is done.                                          *)
LEMMA DoneMoves ==
  ASSUME LinkTimed, Types, LinkMachine, Next
  PROVE  /\ setdone => (Within /\ setdone' /\ fsm' = "WAIT") \/ (AtEdge /\ ~setdone' /\ fsm' = "IDLE")
         /\ setdone' /\ ~setdone => AtEdge /\ fsm = "WAIT"
         /\ fsm = "IDLE" => ~setdone' /\ (fsm' = "IDLE" \/ (count = 0 /\ tx_written_d /\ fsm' = "PRE_ASSERT"))
         /\ fsm # "IDLE" /\ ~setdone => fsm' # "IDLE"
<1>1. SpiMoves
  BY SpiSteps
<1>2. Bits \in 1..16 /\ spicount \in 0..15
  BY Lengths DEF Types, TypeOK
<1> QED
  BY <1>1, <1>2 DEF SpiMoves, Goes, Within, spiVars, setdone, LinkMachine

(* The driver's loop takes its time.                                         *)
LEMMA SinceMoves ==
  ASSUME LinkTimed, Types, Asking, Next
  PROVE  /\ Since \in Nat /\ Since >= 3 /\ Since <= 3 * AccessTicks + 3
         /\ drv = "hold" /\ gap = 0 => Since = 2 * AccessTicks + 3
         /\ drv = "write" /\ gap = 0 => Since = 3 * AccessTicks + 3
         /\ ~asked /\ ~asked' => Since' \in Nat /\ Since' <= Since + 1
         /\ asked /\ ~asked' => Since' = 3 /\ drv' = "tip" /\ tip /\ done_r
         /\ tx_re => tip'
<1>1. AccessTicks \in Nat /\ AccessTicks >= 2
  BY Lengths
<1>2. gap \in 0..(AccessTicks - 1) /\ drv \in {"tip", "rx", "hold", "write"} /\ tip \in BOOLEAN /\ done_r \in BOOLEAN
  BY DEF Types, TypeOK
<1>3. tip' = (tx_re \/ (tip /\ ~done_r))
  BY SocMoves
<1>4. /\ Since \in Nat /\ Since >= 3 /\ Since <= 3 * AccessTicks + 3
      /\ drv = "hold" /\ gap = 0 => Since = 2 * AccessTicks + 3
      /\ drv = "write" /\ gap = 0 => Since = 3 * AccessTicks + 3
  BY <1>1, <1>2 DEF Since
<1>5. ASSUME ~asked, ~asked' PROVE Since' \in Nat /\ Since' <= Since + 1
  <2>1. ~tip /\ ~tx_re'
    BY <1>5 DEF asked
  <2>2. CASE DriverTip
    BY <1>1, <1>2, <2>1, <2>2 DEF DriverTip, Looks, Since
  <2>3. CASE DriverRead
    BY <1>1, <1>2, <2>3 DEF DriverRead, Looks, Since
  <2>4. CASE DriverHold
    BY <1>1, <1>2, <2>4 DEF DriverHold, Looks, Since
  <2>5. CASE DriverRests
    BY <1>1, <1>2, <2>5 DEF DriverRests, Since
  <2> QED BY <2>1, <2>2, <2>3, <2>4, <2>5, DriverMoves DEF DriverWrite
<1>6. ASSUME asked, ~asked' PROVE Since' = 3 /\ drv' = "tip" /\ tip /\ done_r
  <2>1. tip /\ done_r /\ drv = "tip" /\ ~tx_re'
    BY <1>2, <1>3, <1>6 DEF asked, Asking
  <2>2. drv' = "tip"
    BY <2>1, DriverMoves DEF DriverTip, DriverRead, DriverHold, DriverWrite, DriverRests
  <2> QED BY <2>1, <2>2 DEF Since
<1> QED BY <1>3, <1>4, <1>5, <1>6

(* When the driver writes, the pulse that ended the last transaction is over. *)
LEMMA WriteWaits ==
  ASSUME LinkTimed, Types, LinkMachine, Asking, Ending, Next, tx_re'
  PROVE  /\ DriverWrite /\ ~asked /\ fsm = "IDLE" /\ fsm' = "IDLE" /\ ~done_m /\ ~done_r
         /\ count = 0 /\ count' = 0 /\ ~tip' /\ ~tx_written_d /\ ~tx_written_d'
<1>1. DriverWrite
  BY DriverMoves DEF DriverTip, DriverRead, DriverHold, DriverRests
<1>2. gap = 0 /\ drv = "write"
  BY <1>1 DEF DriverWrite, Looks
<1>3. ~asked
  BY <1>2 DEF Asking
<1>4. Since = 3 * AccessTicks + 3
  BY <1>2, SinceMoves
<1>5. SpiDiv <= 3 * AccessTicks + 1 /\ SpiDiv \in Nat /\ AccessTicks \in Nat /\ beat \in 0..(SpiDiv - 1)
      /\ count \in Nat /\ tip \in BOOLEAN /\ tx_re \in BOOLEAN
  <2>1. SpiDiv <= 3 * AccessTicks + 1 /\ SpiDiv \in Nat /\ AccessTicks \in Nat
    BY Lengths
  <2>2. beat \in 0..(SpiDiv - 1)
    BY Beats
  <2>3. count \in Nat /\ tip \in BOOLEAN /\ tx_re \in BOOLEAN
    BY Lengths DEF Types, TypeOK
  <2> QED BY <2>1, <2>2, <2>3
<1>6. ~setdone
  BY <1>3, <1>4, <1>5 DEF Ending, asked
<1>7. fsm = "IDLE" /\ ~done_m /\ ~done_r
  BY <1>3, <1>4, <1>5, <1>6 DEF Ending, asked, Asking
<1>8. count = 0 /\ ~tx_written_d
  BY <1>3, <1>5 DEF Asking, asked
<1>9. fsm' = "IDLE" /\ count' = 0 /\ ~tip'
  BY <1>3, <1>5, <1>7, <1>8, DoneMoves, SocMoves DEF asked
<1>10. ~tx_written_d'
  BY <1>8, Steps DEF Within, AtEdge, spiVars, tx_written
<1> QED BY <1>1, <1>3, <1>7, <1>8, <1>9, <1>10

(* What the driver waits for goes on: the pulse that tells the machine of a  *)
(* word, then the machine, keep tip set.                                     *)
LEMMA AskingHolds ==
  ASSUME LinkTimed, Types, LinkMachine, Asking, Ending, Next
  PROVE  Asking'
<1>1. count \in Nat /\ tip \in BOOLEAN /\ tx_re \in BOOLEAN /\ done_r \in BOOLEAN /\ done_m \in BOOLEAN
      /\ tx_written_d \in BOOLEAN
  BY Lengths DEF Types, TypeOK
<1>2. tip' = (tx_re \/ (tip /\ ~done_r)) /\ done_m' = setdone /\ done_r' = done_m
      /\ (count' > 0 <=> tx_re \/ count > 1) /\ count' \in Nat
  BY SocMoves
<1>3. tx_written_d' = tx_written_d \/ tx_written_d' = (count # 0)
  BY Steps DEF Within, AtEdge, spiVars, tx_written
<1>4. asked' => drv' = "tip"
  <2>1. CASE tx_re'
    BY <2>1, WriteWaits DEF DriverWrite
  <2>2. CASE tip'
    <3>1. drv = "tip" /\ (DriverTip => tip)
      BY <1>1, <1>2, <2>2, Lengths DEF Asking, asked, DriverTip, Looks
    <3> QED BY <3>1, DriverMoves DEF DriverTip, DriverRead, DriverHold, DriverWrite, DriverRests
  <2> QED BY <2>1, <2>2 DEF asked
<1>5. tx_re' => ~tip' /\ gap' = AccessTicks - 1 /\ count' = 0 /\ fsm' = "IDLE"
  BY WriteWaits DEF DriverWrite, Looks
<1>6. ASSUME count' > 0 \/ tx_written_d'
      PROVE  tx_re \/ (fsm = "IDLE" /\ tip /\ (count > 0 \/ tx_written_d))
  <2>1. CASE count' > 0
    BY <1>1, <1>2, <2>1 DEF Asking
  <2>2. CASE tx_written_d'
    <3>1. tx_written_d \/ count > 0
      <4>1. CASE tx_written_d' = tx_written_d
        BY <2>2, <4>1
      <4>2. CASE tx_written_d' = (count # 0)
        BY <1>1, <2>2, <4>2
      <4> QED BY <1>3, <4>1, <4>2
    <3> QED BY <3>1 DEF Asking
  <2>3. count' > 0 \/ tx_written_d'
    BY <1>6
  <2> QED BY <2>1, <2>2, <2>3
<1>7. ASSUME count' > 0 \/ tx_written_d'
      PROVE  tip' /\ fsm' = "IDLE" /\ ~done_m' /\ ~done_r'
  <2>1. fsm = "IDLE" /\ ~done_m /\ ~done_r /\ tip'
    BY <1>2, <1>6, <1>7 DEF Asking
  <2>2. fsm' = "IDLE"
    <3>1. CASE tx_re
      BY <1>1, <2>1, <3>1, DoneMoves DEF Asking
    <3>2. CASE ~tx_re
      <4>1. fsm' # "IDLE" => AtEdge /\ count = 0
        BY <2>1, SpiSteps DEF SpiMoves, Goes, Within, spiVars
      <4>2. AtEdge /\ count = 0 => ~tx_written_d' /\ count' = 0
        BY <1>1, <1>2, <3>2 DEF AtEdge, tx_written
      <4> QED BY <1>1, <1>2, <1>7, <4>1, <4>2
    <3> QED BY <3>1, <3>2
  <2> QED BY <1>2, <2>1, <2>2 DEF setdone
<1>8. ASSUME fsm' # "IDLE", ~setdone'
      PROVE  tip' /\ ~done_m' /\ ~done_r'
  <2>1. CASE fsm = "IDLE"
    <3>1. tx_written_d
      BY <1>8, <2>1, DoneMoves
    <3>2. tip /\ ~done_m /\ ~done_r /\ ~setdone
      BY <2>1, <3>1 DEF Asking, setdone
    <3> QED BY <1>2, <3>2
  <2>2. CASE fsm # "IDLE"
    <3>1. ~setdone
      BY <1>8, DoneMoves
    <3> QED BY <1>2, <2>2, <3>1 DEF Asking
  <2> QED BY <2>1, <2>2
<1>9. tx_re' => ~done_m' /\ ~done_r'
  BY <1>2, WriteWaits DEF setdone
<1> QED BY <1>4, <1>5, <1>7, <1>8, <1>9 DEF Asking

(* How far the end of a transaction has come.                                *)
LEMMA EndingHolds ==
  ASSUME LinkTimed, Types, LinkMachine, Asking, Ending, Next
  PROVE  Ending'
<1>1. /\ tip \in BOOLEAN /\ tx_re \in BOOLEAN /\ done_r \in BOOLEAN /\ done_m \in BOOLEAN
      /\ setdone \in BOOLEAN
  BY DEF Types, TypeOK, setdone
<1>2. tip' = (tx_re \/ (tip /\ ~done_r)) /\ done_m' = setdone /\ done_r' = done_m
      /\ tip' \in BOOLEAN
  BY SocMoves
<1>3. SpiDiv \in Nat /\ SpiDiv >= 1 /\ beat \in 0..(SpiDiv - 1)
      /\ (Within => beat' = beat + 1) /\ (AtEdge => beat = SpiDiv - 1 /\ beat' = 0)
  BY Lengths, Beats
<1>4. Since \in Nat
  BY SinceMoves
<1>5. setdone \/ done_m => ~tx_re /\ ~tx_re'
  BY WriteWaits DEF Asking, setdone
<1>6. ASSUME setdone \/ done_m, ~tip'
      PROVE  (tip => Since' = 3) /\ (~tip => Since' \in Nat /\ Since' <= Since + 1)
  <2>1. ~tx_re /\ ~tx_re' /\ ~asked'
    BY <1>5, <1>6 DEF asked
  <2> QED BY <2>1, SinceMoves DEF asked
<1>7. ASSUME setdone'
      PROVE  /\ done_m' <=> beat' >= 1
             /\ done_r' <=> beat' >= 2
             /\ tip' <=> beat' < 3
             /\ ~tip' => Since' <= beat'
  <2>1. CASE setdone
    <3>1. Within
      BY <1>7, <2>1, DoneMoves
    <3>2. beat' = beat + 1
      BY <1>3, <3>1
    <3>3. (done_m <=> beat >= 1) /\ (done_r <=> beat >= 2) /\ (tip <=> beat < 3) /\ (~tip => Since <= beat)
      BY <2>1 DEF Ending
    <3>4. done_m' <=> beat' >= 1
      BY <1>2, <1>3, <2>1, <3>2
    <3>5. done_r' <=> beat' >= 2
      BY <1>2, <1>3, <3>2, <3>3
    <3>6. tip' <=> beat' < 3
      <4>1. CASE tip /\ ~done_r
        <5>1. tip'
          BY <1>2, <4>1
        <5>2. beat < 2
          BY <1>3, <3>3, <4>1
        <5> QED BY <1>3, <3>2, <5>1, <5>2
      <4>2. CASE ~(tip /\ ~done_r)
        <5>1. ~tip'
          BY <1>2, <1>5, <2>1, <4>2
        <5>2. beat >= 2
          <6>1. CASE tip
            BY <3>3, <4>2, <6>1
          <6>2. CASE ~tip
            BY <1>3, <3>3, <6>2
          <6> QED BY <6>1, <6>2
        <5> QED BY <1>3, <3>2, <5>1, <5>2
      <4> QED BY <4>1, <4>2
    <3>7. ~tip' => Since' <= beat'
      BY <1>3, <1>4, <1>6, <2>1, <3>2, <3>3, <3>6
    <3> QED BY <3>4, <3>5, <3>6, <3>7
  <2>2. CASE ~setdone
    <3>1. AtEdge /\ fsm = "WAIT"
      BY <1>7, <2>2, DoneMoves
    <3>2. tip /\ ~done_m /\ ~done_r
      BY <2>2, <3>1 DEF Asking
    <3>3. beat' = 0
      BY <1>3, <3>1
    <3>4. tip' /\ ~done_m' /\ ~done_r'
      BY <1>2, <2>2, <3>2
    <3> QED BY <3>3, <3>4
  <2> QED BY <2>1, <2>2
<1>8. ASSUME fsm' = "IDLE", done_m'
      PROVE  /\ tip' <=> SpiDiv < 3
             /\ done_r' <=> SpiDiv > 1
             /\ ~tip' => Since' <= SpiDiv
  <2>1. setdone
    BY <1>2, <1>8
  <2>2. AtEdge
    BY <1>8, <2>1, DoneMoves
  <2>3. beat = SpiDiv - 1 /\ (done_m <=> beat >= 1) /\ (done_r <=> beat >= 2) /\ (tip <=> beat < 3)
        /\ (~tip => Since <= beat)
    BY <1>3, <2>1, <2>2 DEF Ending
  <2>4. tip' <=> SpiDiv < 3
    <3>1. CASE tip /\ ~done_r
      <4>1. tip'
        BY <1>2, <3>1
      <4>2. beat < 2
        BY <1>3, <2>3, <3>1
      <4> QED BY <1>3, <2>3, <4>1, <4>2
    <3>2. CASE ~(tip /\ ~done_r)
      <4>1. ~tip'
        BY <1>2, <1>5, <2>1, <3>2
      <4>2. beat >= 2
        <5>1. CASE tip
          BY <2>3, <3>2, <5>1
        <5>2. CASE ~tip
          BY <1>3, <2>3, <5>2
        <5> QED BY <5>1, <5>2
      <4> QED BY <1>3, <2>3, <4>1, <4>2
    <3> QED BY <3>1, <3>2
  <2>5. done_r' <=> SpiDiv > 1
    BY <1>2, <1>3, <2>3
  <2>6. ~tip' => Since' <= SpiDiv
    BY <1>3, <1>4, <1>6, <2>1, <2>3, <2>4
  <2> QED BY <2>4, <2>5, <2>6
<1>9. ASSUME fsm' = "IDLE", done_r', ~done_m'
      PROVE  /\ tip' <=> SpiDiv = 1
             /\ ~tip' => Since' <= SpiDiv + 1
  <2>1. done_m /\ ~setdone
    BY <1>2, <1>9
  <2>2. fsm = "IDLE"
    BY <2>1 DEF Asking
  <2>3. (tip <=> SpiDiv < 3) /\ (done_r <=> SpiDiv > 1) /\ (~tip => Since <= SpiDiv)
    BY <2>1, <2>2 DEF Ending
  <2>4. tip' <=> SpiDiv = 1
    <3>1. CASE tip /\ ~done_r
      <4>1. tip'
        BY <1>2, <3>1
      <4>2. ~(SpiDiv > 1)
        BY <2>3, <3>1
      <4> QED BY <1>3, <4>1, <4>2
    <3>2. CASE ~(tip /\ ~done_r)
      <4>1. ~tip'
        BY <1>2, <1>5, <2>1, <3>2
      <4>2. SpiDiv > 1
        <5>1. CASE tip
          BY <2>3, <3>2, <5>1
        <5>2. CASE ~tip
          BY <1>3, <2>3, <5>2
        <5> QED BY <5>1, <5>2
      <4> QED BY <1>3, <4>1, <4>2
    <3> QED BY <3>1, <3>2
  <2>5. ~tip' => Since' <= SpiDiv + 1
    BY <1>3, <1>4, <1>6, <2>1, <2>3, <2>4
  <2> QED BY <2>4, <2>5
<1> QED BY <1>7, <1>8, <1>9 DEF Ending

-----------------------------------------------------------------------------
(* The EC.                                                                   *)

(* Chip select falls when a word waits, and rises after its last bit.        *)
LEMMA SelectMoves ==
  ASSUME LinkTimed, Types, SocInv, Next
  PROVE  /\ csn \in BOOLEAN /\ csn' \in BOOLEAN /\ tip \in BOOLEAN /\ tip' \in BOOLEAN
         /\ ~csn => tip /\ ~done_r /\ drv = "tip" /\ asked /\ ~waiting /\ fsm \in {"PRE_ASSERT", "RUN", "POST_ASSERT"}
         /\ csn /\ ~csn' => waiting /\ tip /\ fsm = "IDLE" /\ fsm' = "PRE_ASSERT" /\ AtEdge /\ tx_r' = tx
         /\ ~csn /\ csn' => fsm = "POST_ASSERT" /\ fsm' = "SAMPLE" /\ AtEdge /\ tip'
         /\ ~csn' /\ ~csn => tx_r' = tx_r
         /\ csn /\ csn' => tx_r' = tx_r
<1>1. SpiMoves /\ LinkMachine /\ LinkMachine' /\ Asking
  BY SpiSteps, MachineHolds DEF SocInv
<1>2. csn \in BOOLEAN /\ csn' \in BOOLEAN /\ tip \in BOOLEAN /\ tip' \in BOOLEAN
      /\ fsm \in {"IDLE", "PRE_ASSERT", "RUN", "POST_ASSERT", "SAMPLE", "WAIT"}
  <2>1. csn \in BOOLEAN /\ tip \in BOOLEAN /\ tip' \in BOOLEAN
        /\ fsm \in {"IDLE", "PRE_ASSERT", "RUN", "POST_ASSERT", "SAMPLE", "WAIT"}
    BY SocMoves DEF Types, TypeOK
  <2>2. csn' = csn \/ csn' = TRUE \/ csn' = FALSE
    BY Steps DEF Within, spiVars, FsmIdle, FsmPreAssert, FsmRun, FsmPostAssert, FsmSample, FsmWait
  <2> QED BY <2>1, <2>2
<1>3. ~csn => fsm \in {"PRE_ASSERT", "RUN", "POST_ASSERT"} /\ ~setdone /\ tip /\ ~done_r /\ ~done_m
  BY <1>1, <1>2 DEF LinkMachine, Asking, setdone
<1>4. ~csn => drv = "tip" /\ asked /\ ~waiting
  BY <1>1, <1>3 DEF Asking, asked, waiting
<1>5. csn /\ ~csn' => fsm = "IDLE" /\ fsm' = "PRE_ASSERT" /\ AtEdge /\ tx_r' = tx /\ tx_written_d
  BY <1>1 DEF SpiMoves, Goes, Within, spiVars, LinkMachine
<1>6. tx_written_d => tip /\ asked /\ ~finishing
  BY <1>1 DEF Asking, asked, finishing
<1>7. ~csn /\ csn' => fsm = "POST_ASSERT" /\ fsm' = "SAMPLE" /\ AtEdge
  BY <1>1, <1>3 DEF SpiMoves, Goes, Within, spiVars, LinkMachine
<1>8. (~csn /\ ~csn') \/ (csn /\ csn') => tx_r' = tx_r
  BY <1>1, <1>3 DEF SpiMoves, Goes, Within, spiVars
<1>9. ~csn => tip'
  BY <1>3, SocMoves
<1> QED BY <1>2, <1>3, <1>4, <1>5, <1>6, <1>7, <1>8, <1>9 DEF waiting

(* A word waits from the write that asks for it until chip select falls.     *)
LEMMA WaitingMoves ==
  ASSUME LinkTimed, Types, SocInv, Next
  PROVE  /\ waiting => csn /\ (waiting' \/ ~csn') /\ drv = "tip"
         /\ waiting' => csn' /\ (waiting \/ DriverWrite)
         /\ DriverWrite => ~waiting /\ waiting' /\ csn /\ csn' /\ ~tip'
<1>1. LinkMachine /\ LinkMachine' /\ Asking /\ Ending
  BY MachineHolds DEF SocInv
<1>2. /\ tip \in BOOLEAN /\ tx_re \in BOOLEAN /\ done_r \in BOOLEAN /\ done_m \in BOOLEAN /\ csn \in BOOLEAN /\ csn' \in BOOLEAN
  BY SelectMoves DEF Types, TypeOK
<1>3. tip' = (tx_re \/ (tip /\ ~done_r)) /\ done_m' = setdone /\ done_r' = done_m
  BY SocMoves
<1>4. fsm = "IDLE" => ~setdone /\ csn
  BY <1>1, <1>2 DEF setdone, LinkMachine
<1>5. waiting => fsm = "IDLE" /\ ~done_m /\ ~done_r /\ tip'
  BY <1>1, <1>2, <1>3 DEF waiting, asked, finishing, Asking
<1>6. ASSUME waiting PROVE csn /\ (waiting' \/ ~csn') /\ drv = "tip"
  <2>1. ~done_m' /\ ~done_r' /\ ~finishing' /\ asked'
    BY <1>3, <1>4, <1>5, <1>6 DEF finishing, asked
  <2>2. fsm' = "IDLE" \/ fsm' = "PRE_ASSERT"
    BY <1>1, <1>5, <1>6, DoneMoves
  <2>3. fsm' = "PRE_ASSERT" => ~csn'
    BY <1>1, <1>2 DEF LinkMachine
  <2> QED BY <1>1, <1>4, <1>5, <1>6, <2>1, <2>2, <2>3 DEF waiting, Asking
<1>7. ASSUME waiting' PROVE csn' /\ (waiting \/ DriverWrite)
  <2>1. fsm' = "IDLE" /\ asked' /\ ~finishing'
    BY <1>7 DEF waiting
  <2>2. csn'
    BY <1>1, <1>2, <2>1 DEF LinkMachine
  <2>3. CASE tx_re'
    BY <1>1, <2>2, <2>3, WriteWaits
  <2>4. CASE ~tx_re'
    <3>1. tip' /\ ~done_m' /\ ~done_r'
      BY <2>1, <2>4 DEF asked, finishing
    <3>2. ~setdone /\ ~done_m
      BY <1>3, <3>1
    <3>3. fsm = "IDLE"
      BY <1>1, <2>1, <3>2, DoneMoves
    <3>4. tx_re \/ (tip /\ ~done_r)
      BY <1>3, <3>1
    <3>5. asked /\ ~finishing
      BY <1>1, <3>2, <3>4 DEF asked, finishing, Asking
    <3> QED BY <2>2, <3>3, <3>5 DEF waiting
  <2> QED BY <2>3, <2>4
<1>8. ASSUME DriverWrite PROVE ~waiting /\ waiting' /\ csn /\ csn' /\ ~tip'
  <2>1. tx_re'
    BY <1>8 DEF DriverWrite
  <2>2. ~asked /\ fsm = "IDLE" /\ fsm' = "IDLE" /\ ~tip'
    BY <1>1, <2>1, WriteWaits
  <2>3. csn /\ csn'
    BY <1>1, <1>2, <2>2 DEF LinkMachine
  <2> QED BY <2>1, <2>2, <2>3 DEF waiting, asked, finishing
<1> QED BY <1>6, <1>7, <1>8

(* Chip select has been down, or up again, for no more than a cycle longer.  *)
LEMMA FellMoves ==
  ASSUME LinkTimed, Types, SocInv, Next
  PROVE  /\ ~csn => Fell \in Nat
         /\ fsm' = "PRE_ASSERT" /\ csn => Fell' = 0
         /\ ~csn /\ ~csn' => Fell' \in Nat /\ Fell' <= Fell + 1
         /\ ~csn /\ csn' => Fell = 3 * SpiDiv - 1
<1>1. SpiMoves /\ LinkMachine /\ LinkMachine'
  BY SpiSteps, MachineHolds DEF SocInv
<1>2. SpiDiv \in Nat /\ SpiDiv >= 1 /\ beat \in 0..(SpiDiv - 1)
      /\ (Within => beat' = beat + 1) /\ (AtEdge => beat = SpiDiv - 1 /\ beat' = 0)
  BY Lengths, Beats
<1>3. Bits \in 1..16 /\ spicount \in 0..15
  BY Lengths DEF Types, TypeOK
<1>4. ~csn => Fell \in Nat
  BY <1>2 DEF Fell
<1>5. fsm' = "PRE_ASSERT" /\ csn => Fell' = 0
  <2> SUFFICES ASSUME fsm' = "PRE_ASSERT", csn PROVE Fell' = 0
    OBVIOUS
  <2>1. AtEdge
    BY <1>1 DEF SpiMoves, Goes, Within, spiVars, LinkMachine
  <2> QED BY <1>2, <2>1 DEF Fell
<1>6. ~csn /\ csn' => Fell = 3 * SpiDiv - 1
  <2> SUFFICES ASSUME ~csn, csn' PROVE Fell = 3 * SpiDiv - 1
    OBVIOUS
  <2>1. fsm = "POST_ASSERT" /\ AtEdge
    BY SelectMoves
  <2>2. Fell = 2 * SpiDiv + beat
    BY <2>1 DEF Fell
  <2> QED BY <1>2, <2>1, <2>2
<1>7. ASSUME ~csn, ~csn' PROVE Fell' \in Nat /\ Fell' <= Fell + 1
  <2>1. CASE Within
    <3>1. fsm' = fsm /\ spicount' = spicount /\ beat' = beat + 1
      BY <1>2, <2>1 DEF Within, spiVars
    <3> QED BY <1>2, <3>1 DEF Fell
  <2>2. CASE Goes("PRE_ASSERT", "RUN") /\ spicount' = Bits - 1
    <3>1. Fell = beat
      BY <1>2, <2>2 DEF Fell, Goes
    <3>2. Fell' = SpiDiv + beat'
      BY <2>2 DEF Fell, Goes
    <3> QED BY <1>2, <2>2, <3>1, <3>2 DEF Goes
  <2>3. CASE Goes("RUN", "RUN") /\ spicount' = spicount - 1
    <3>1. spicount' = spicount - 1 /\ spicount <= Bits - 1
      BY <1>1, <2>3 DEF Goes, LinkMachine
    <3>2. Fell' = 2 * SpiDiv + beat'
      BY <1>3, <2>3, <3>1 DEF Fell, Goes
    <3>3. Fell >= SpiDiv + beat
      BY <1>2, <2>3 DEF Fell, Goes
    <3> QED BY <1>2, <1>4, <1>7, <2>3, <3>2, <3>3 DEF Goes
  <2>4. CASE Goes("RUN", "POST_ASSERT")
    <3>1. Fell' = 2 * SpiDiv + beat'
      BY <2>4 DEF Fell, Goes
    <3>2. Fell >= SpiDiv + beat
      BY <1>2, <2>4 DEF Fell, Goes
    <3> QED BY <1>2, <1>4, <1>7, <2>4, <3>1, <3>2 DEF Goes
  <2> QED BY <1>1, <1>7, <2>1, <2>2, <2>3, <2>4 DEF SpiMoves, LinkMachine, Goes
<1> QED BY <1>4, <1>5, <1>6, <1>7

(* Cycles of the SoC, at least, since the machine has been idle. *)
Rest == IF tip THEN IF done_r THEN 2 ELSE 1 ELSE Since

(* The driver has not rested for more than a cycle longer.                   *)
LEMMA RestMoves ==
  ASSUME LinkTimed, Types, SocInv, Next
  PROVE  Rest \in Nat /\ Rest' \in Nat /\ Rest' <= Rest + 1
<1>1. /\ tip \in BOOLEAN /\ tx_re \in BOOLEAN /\ done_r \in BOOLEAN /\ Asking /\ LinkMachine /\ Ending
      /\ tip' \in BOOLEAN /\ done_r' \in BOOLEAN
  BY SocMoves DEF Types, TypeOK, SocInv
<1>2. tip' = (tx_re \/ (tip /\ ~done_r))
  BY SocMoves
<1>3. Since \in Nat /\ Since >= 3
  BY <1>1, SinceMoves
<1>4. Rest \in Nat
  BY <1>1, <1>3 DEF Rest
<1>5. ASSUME tip' PROVE Rest' \in Nat /\ Rest' <= Rest + 1
  <2>1. CASE tip
    <3>1. ~tx_re /\ ~done_r
      BY <1>1, <1>2, <1>5, <2>1 DEF Asking
    <3>2. Rest = 1
      BY <2>1, <3>1 DEF Rest
    <3>3. Rest' = 1 \/ Rest' = 2
      BY <1>1, <1>5 DEF Rest
    <3> QED BY <3>2, <3>3
  <2>2. CASE ~tip
    <3>1. Rest >= 3
      BY <1>3, <2>2 DEF Rest
    <3>2. Rest' = 1 \/ Rest' = 2
      BY <1>1, <1>5 DEF Rest
    <3> QED BY <1>4, <3>1, <3>2
  <2> QED BY <2>1, <2>2
<1>6. ASSUME ~tip' PROVE Rest' \in Nat /\ Rest' <= Rest + 1
  <2>1. Rest' = Since'
    BY <1>6 DEF Rest
  <2>2. CASE tx_re'
    <3>1. drv' = "tip" /\ ~asked
      BY <1>1, <2>2, WriteWaits DEF DriverWrite
    <3>2. Since' = 3 /\ Rest = Since
      BY <3>1 DEF Since, Rest, asked
    <3> QED BY <1>3, <2>1, <3>2
  <2>3. CASE ~tx_re'
    <3>1. ~asked'
      BY <1>6, <2>3 DEF asked
    <3>2. CASE asked
      <4>1. Since' = 3 /\ tip /\ done_r
        BY <1>1, <3>1, <3>2, SinceMoves
      <4>2. Rest = 2
        BY <4>1 DEF Rest
      <4> QED BY <2>1, <4>1, <4>2
    <3>3. CASE ~asked
      <4>1. Since' \in Nat /\ Since' <= Since + 1
        BY <1>1, <3>1, <3>3, SinceMoves
      <4>2. Rest = Since
        BY <3>3 DEF Rest, asked
      <4> QED BY <2>1, <4>1, <4>2
    <3> QED BY <3>2, <3>3
  <2> QED BY <2>2, <2>3
<1>7. Rest' \in Nat /\ Rest' <= Rest + 1
  BY <1>5, <1>6
<1> QED BY <1>4, <1>7

(* Chip select has not been up for more than a cycle longer.                 *)
LEMMA RoseMoves ==
  ASSUME LinkTimed, Types, SocInv, Next
  PROVE  /\ csn => Rose \in Nat
         /\ csn /\ csn' => Rose' \in Nat /\ Rose' <= Rose + 1
         /\ ~csn /\ csn' => Rose' = 0
         /\ drv = "hold" /\ gap = 0 /\ ~asked => csn /\ csn' /\ Rose >= 3 * SpiDiv + 2 * AccessTicks + 3
<1>1. SpiMoves /\ LinkMachine /\ LinkMachine' /\ Asking /\ Ending /\ Ending'
  BY SpiSteps, MachineHolds, EndingHolds DEF SocInv
<1>2. SpiDiv \in Nat /\ SpiDiv >= 1 /\ beat \in 0..(SpiDiv - 1)
      /\ (Within => beat' = beat + 1) /\ (AtEdge => beat = SpiDiv - 1 /\ beat' = 0) /\ beat' \in Nat
  BY <1>1, Lengths, Beats DEF SpiMoves, Goes
<1>3. Rest \in Nat /\ Rest' \in Nat /\ Rest' <= Rest + 1
  BY RestMoves
<1>rest. PICK rest \in Nat : Rest' = rest
  BY <1>3
<1>4. /\ fsm = "SAMPLE" => Rose = beat
      /\ fsm = "WAIT" => Rose = (IF spicount = 2 THEN SpiDiv ELSE IF spicount = 1 THEN 2 * SpiDiv ELSE 3 * SpiDiv) + beat
      /\ fsm \notin {"SAMPLE", "WAIT"} => Rose = 3 * SpiDiv + Rest
  BY DEF Rose, Rest
<1>5. /\ fsm' = "SAMPLE" => Rose' = beat'
      /\ fsm' = "WAIT" => Rose' = (IF spicount' = 2 THEN SpiDiv ELSE IF spicount' = 1 THEN 2 * SpiDiv ELSE 3 * SpiDiv) + beat'
      /\ fsm' \notin {"SAMPLE", "WAIT"} => Rose' = 3 * SpiDiv + Rest'
  BY DEF Rose, Rest
<1>6. csn => Rose \in Nat
  BY <1>2, <1>3, <1>4
<1>7. ~csn /\ csn' => Rose' = 0
  BY <1>2, <1>5, SelectMoves
<1>8. ASSUME csn, csn' PROVE Rose' \in Nat /\ Rose' <= Rose + 1
  <2>0. Rose \in Nat /\ Rose' \in Nat
    BY <1>2, <1>3, <1>5, <1>6, <1>8
  <2>1. CASE Within
    <3>1. fsm' = fsm /\ spicount' = spicount /\ beat' = beat + 1
      BY <1>2, <2>1 DEF Within, spiVars
    <3>2. CASE fsm = "SAMPLE"
      <4>1. Rose = beat /\ Rose' = beat'
        BY <1>4, <1>5, <3>1, <3>2
      <4> QED BY <1>2, <2>0, <3>1, <4>1
    <3>3. CASE fsm = "WAIT"
      <4>1. Rose' = Rose - beat + beat'
        BY <1>2, <1>4, <1>5, <3>1, <3>3
      <4> QED BY <1>2, <2>0, <3>1, <4>1
    <3>4. CASE fsm \notin {"SAMPLE", "WAIT"}
      <4>1. Rose = 3 * SpiDiv + Rest /\ Rose' = 3 * SpiDiv + Rest'
        BY <1>4, <1>5, <3>1, <3>4
      <4> QED BY <1>2, <1>3, <1>rest, <4>1
    <3> QED BY <3>2, <3>3, <3>4
  <2>2. CASE Goes("IDLE", "IDLE")
    BY <1>2, <1>3, <1>rest, <1>4, <1>5, <2>0, <2>2 DEF Goes
  <2>3. CASE Goes("SAMPLE", "WAIT") /\ spicount' = 2
    BY <1>2, <1>4, <1>5, <2>3 DEF Goes
  <2>4. CASE Goes("WAIT", "WAIT") /\ spicount > 0 /\ spicount' = spicount - 1
    <3>1. spicount \in {1, 2} /\ beat = SpiDiv - 1 /\ beat' = 0
      <4>1. spicount \in 0..15 /\ spicount <= 2
        BY <1>1, <2>4 DEF LinkMachine, Goes, Types, TypeOK
      <4> QED BY <1>2, <2>4, <4>1 DEF Goes
    <3>2. CASE spicount = 1
      BY <1>2, <1>4, <1>5, <2>4, <3>1, <3>2 DEF Goes
    <3>3. CASE spicount = 2
      BY <1>2, <1>4, <1>5, <2>4, <3>1, <3>3 DEF Goes
    <3> QED BY <3>1, <3>2, <3>3
  <2>5. CASE Goes("WAIT", "IDLE") /\ spicount = 0
    <3>1. done_m' /\ fsm' = "IDLE"
      BY <2>5, SocMoves DEF Goes, setdone
    <3>2. (tip' <=> SpiDiv < 3) /\ (done_r' <=> SpiDiv > 1) /\ (~tip' => Since' <= SpiDiv)
      BY <1>1, <3>1 DEF Ending
    <3>3. Rest' <= SpiDiv
      <4>1. CASE tip'
        <5>1. CASE done_r'
          BY <1>2, <3>2, <4>1, <5>1 DEF Rest
        <5>2. CASE ~done_r'
          BY <1>2, <4>1, <5>2 DEF Rest
        <5> QED BY <5>1, <5>2
      <4>2. CASE ~tip'
        BY <3>2, <4>2 DEF Rest
      <4> QED BY <4>1, <4>2
    <3>4. Rose = 3 * SpiDiv + (SpiDiv - 1) /\ Rose' = 3 * SpiDiv + Rest'
      BY <1>2, <1>4, <1>5, <2>5 DEF Goes
    <3> QED BY <1>2, <1>3, <1>rest, <3>3, <3>4
  <2> QED BY <1>1, <1>8, <2>1, <2>2, <2>3, <2>4, <2>5 DEF SpiMoves, Goes, LinkMachine
<1>9. ASSUME drv = "hold", gap = 0, ~asked
      PROVE  csn /\ csn' /\ Rose >= 3 * SpiDiv + 2 * AccessTicks + 3
  <2>1. Since = 2 * AccessTicks + 3 /\ AccessTicks \in Nat
    BY <1>1, <1>9, SinceMoves, Lengths
  <2>2. ~tip /\ csn /\ csn'
    <3>1. ~tip /\ ~waiting
      BY <1>9 DEF asked, waiting
    <3> QED BY <3>1, SelectMoves
  <2>3. fsm = "IDLE" \/ setdone
    BY <1>1, <2>2 DEF Asking
  <2>4. CASE fsm = "IDLE"
    <3>1. Rose = 3 * SpiDiv + Since
      BY <1>4, <2>2, <2>4 DEF Rest
    <3> QED BY <1>2, <2>1, <2>2, <3>1
  <2>5. CASE setdone
    <3>1. Since <= beat
      BY <1>1, <2>2, <2>5 DEF Ending
    <3>2. Rose = 3 * SpiDiv + beat
      BY <1>4, <2>5 DEF setdone
    <3> QED BY <1>2, <2>1, <2>2, <3>1, <3>2
  <2> QED BY <2>3, <2>4, <2>5
<1> QED BY <1>6, <1>7, <1>8, <1>9

(* The EC's clock edge at which a transaction is over.                       *)
Pulse == ec = 0 /\ donepulse

(* The EC learns of the end of every transaction once, while chip select is  *)
(* up.                                                                       *)
LEMMA PulseMoves ==
  ASSUME LinkTimed, Types, SocInv, EcInv, Next
  PROVE  /\ EcMoves <=> ec = 0
         /\ Pulse => csn /\ csn' /\ ~waiting /\ pending /\ ~pending' /\ ~waiting' /\ ~DriverWrite
         /\ csn /\ csn' /\ ~Pulse => (pending' <=> pending)
         /\ ~csn /\ csn' => pending' /\ ~Pulse
         /\ ~csn => ~Pulse
         /\ csn /\ ~csn' => ~pending /\ ~Pulse
<1>1. /\ tip_m \in BOOLEAN /\ tip_r \in BOOLEAN /\ tip_d \in BOOLEAN /\ csn \in BOOLEAN /\ csn' \in BOOLEAN
      /\ ec \in Nat
  BY SelectMoves, Lengths DEF Types, TypeOK
<1>2. EcMoves <=> ec = 0
  BY <1>1, Steps DEF EcMoves, EcRests
<1>3. ec = 0 => (tip_m' = ~csn \/ tip_m' = ~csn') /\ tip_r' = tip_m /\ tip_d' = tip_r
  BY <1>2 DEF EcMoves, Peripheral
<1>4. ec # 0 => tip_m' = tip_m /\ tip_r' = tip_r /\ tip_d' = tip_d
  BY <1>2, Steps DEF EcRests, ecVars, syncVars
<1>5. /\ ~csn => (tip_d => tip_r) /\ (tip_r => tip_m)
      /\ waiting => ~pending
      /\ csn /\ pending /\ tip_m /\ tip_d => tip_r
  BY DEF EcInv, Selected
<1>6. ~csn => ~Pulse
  BY <1>5 DEF Pulse, donepulse
<1>7. ASSUME Pulse PROVE csn /\ csn' /\ ~waiting /\ pending /\ ~pending' /\ ~waiting' /\ ~DriverWrite
  <2>1. csn /\ ~tip_r /\ tip_d /\ ec = 0 /\ pending
    BY <1>6, <1>7 DEF Pulse, donepulse, pending
  <2>2. ~tip_m /\ ~waiting
    BY <1>5, <2>1
  <2>3. csn'
    BY <2>1, <2>2, SelectMoves
  <2>4. ~pending'
    BY <1>3, <2>1, <2>2, <2>3 DEF pending
  <2>5. ~DriverWrite
    BY <2>1 DEF EcInv, Offered, DriverWrite
  <2>6. ~waiting'
    BY <2>2, <2>5, WaitingMoves
  <2> QED BY <2>1, <2>2, <2>3, <2>4, <2>5, <2>6
<1>8. ASSUME csn, csn', ~Pulse PROVE pending' <=> pending
  <2>1. CASE ec = 0
    <3>1. ~tip_m' /\ tip_r' = tip_m /\ tip_d' = tip_r
      BY <1>1, <1>3, <1>8, <2>1
    <3>2. tip_d => tip_r
      BY <1>8, <2>1 DEF Pulse, donepulse
    <3> QED BY <1>1, <3>1, <3>2 DEF pending
  <2>2. CASE ec # 0
    BY <1>4, <2>2 DEF pending
  <2> QED BY <2>1, <2>2
<1>9. ASSUME ~csn, csn' PROVE pending'
  <2>1. tip_m
    <3> SUFFICES ASSUME ~tip_m PROVE FALSE
      OBVIOUS
    <3>1. Fell + ec + 1 <= slowest
      BY <1>9 DEF EcInv, Selected
    <3> QED BY <1>1, <1>9, <3>1, FellMoves, Lengths
  <2>2. CASE ec = 0
    BY <1>3, <2>1, <2>2 DEF pending
  <2>3. CASE ec # 0
    BY <1>4, <2>1, <2>3 DEF pending
  <2> QED BY <2>2, <2>3
<1>10. csn /\ ~csn' => ~pending
  BY <1>5, SelectMoves
<1>11. Pulse => pending
  BY <1>7
<1> QED BY <1>2, <1>6, <1>7, <1>8, <1>9, <1>10, <1>11

(* The EC sees every transaction begin and end, and has dealt with its end   *)
(* before the driver can ask for the next one.                               *)
LEMMA SelectedHolds ==
  ASSUME LinkTimed, Types, SocInv, EcInv, Next
  PROVE  Selected'
<1>1. /\ tip_m \in BOOLEAN /\ tip_r \in BOOLEAN /\ tip_d \in BOOLEAN /\ csn \in BOOLEAN /\ csn' \in BOOLEAN
      /\ ec \in Nat /\ ec <= slowest - 1 /\ slowest \in Nat /\ slowest >= 1
  <2>1. PICK p \in EcPeriods : ec \in 0..(p - 1)
    BY DEF Types, TypeOK
  <2>2. p \in Nat /\ 1 <= p /\ p <= slowest /\ slowest \in Nat
    BY Lengths
  <2> QED BY <2>1, <2>2, SelectMoves DEF Types, TypeOK
<1>2. ec = 0 => (tip_m' = ~csn \/ tip_m' = ~csn') /\ tip_r' = tip_m /\ tip_d' = tip_r
                /\ ec' \in Nat /\ ec' <= slowest - 1
  BY PulseMoves DEF EcMoves, Peripheral
<1>3. ec # 0 => tip_m' = tip_m /\ tip_r' = tip_r /\ tip_d' = tip_d /\ ec' = ec - 1
  BY PulseMoves, Steps DEF EcRests, ecVars, syncVars
<1>4. ec' \in Nat /\ ec' <= slowest - 1
  <2>1. CASE ec = 0
    BY <1>2, <2>1
  <2>2. CASE ec # 0
    BY <1>1, <1>3, <2>2
  <2> QED BY <2>1, <2>2
<1>e. PICK e \in Nat : ec' = e
  BY <1>4
<1>5. /\ ~csn => (tip_d => tip_r) /\ (tip_r => tip_m)
      /\ waiting => ~pending
      /\ csn /\ pending /\ tip_m /\ tip_d => tip_r
      /\ drv = "write" => ~pending
      /\ csn /\ pending => Rose + ec + (edges - 1) * slowest + 1 <= 3 * slowest
      /\ ~csn /\ ~tip_m => Fell + ec + 1 <= slowest
  BY DEF EcInv, Selected, Offered
<1>6. ASSUME ~csn' PROVE (tip_d' => tip_r') /\ (tip_r' => tip_m')
  <2>1. CASE ec # 0
    <3>1. (tip_d => tip_r) /\ (tip_r => tip_m)
      BY <1>1, <1>5, <1>6, SelectMoves DEF pending
    <3> QED BY <1>3, <2>1, <3>1
  <2>2. CASE ec = 0
    <3>1. CASE csn
      <4>1. ~tip_m /\ ~tip_r
        BY <1>5, <1>6, <3>1, SelectMoves DEF pending
      <4> QED BY <1>2, <2>2, <4>1
    <3>2. CASE ~csn
      <4>1. tip_m' /\ (tip_r => tip_m)
        BY <1>2, <1>5, <1>6, <2>2, <3>2
      <4> QED BY <1>2, <2>2, <4>1
    <3> QED BY <3>1, <3>2
  <2> QED BY <2>1, <2>2
<1>7. ASSUME ~csn', ~tip_m' PROVE Fell' + ec' + 1 <= slowest
  <2>1. CASE csn
    <3>1. Fell' = 0
      BY <1>7, <2>1, SelectMoves, FellMoves
    <3> QED BY <1>1, <1>4, <1>e, <3>1
  <2>2. CASE ~csn
    <3>1. ec # 0
      BY <1>2, <1>7, <2>2
    <3>2. PICK f \in Nat : Fell' = f
      BY <1>7, <2>2, FellMoves
    <3>3. f <= Fell + 1 /\ Fell \in Nat
      BY <1>7, <2>2, <3>2, FellMoves
    <3>4. Fell + ec + 1 <= slowest /\ e = ec - 1
      BY <1>3, <1>5, <1>7, <1>e, <2>2, <3>1
    <3> QED BY <1>1, <1>e, <3>2, <3>3, <3>4
  <2> QED BY <2>1, <2>2
<1>8. waiting' => ~pending'
  <2> SUFFICES ASSUME waiting' PROVE ~pending'
    OBVIOUS
  <2>1. csn' /\ (waiting \/ DriverWrite)
    BY WaitingMoves
  <2>2. csn /\ ~pending
    BY <1>5, <2>1, WaitingMoves DEF DriverWrite
  <2> QED BY <1>1, <2>1, <2>2, PulseMoves
<1>9. ASSUME csn', pending'
      PROVE  Rose' + ec' + (edges' - 1) * slowest + 1 <= 3 * slowest
  <2>1. CASE ~csn
    <3>1. Rose' = 0
      BY <1>9, <2>1, RoseMoves
    <3>2. edges' = 1 \/ edges' = 2 \/ edges' = 3
      BY DEF edges
    <3>3. ASSUME NEW n \in 1..3, edges' = n PROVE Rose' + ec' + (edges' - 1) * slowest + 1 <= 3 * slowest
      <4>1. e <= slowest - 1
        BY <1>4, <1>e
      <4>2. CASE n = 1
        BY <1>1, <1>e, <3>1, <3>3, <4>1, <4>2
      <4>3. CASE n = 2
        BY <1>1, <1>e, <3>1, <3>3, <4>1, <4>3
      <4>4. CASE n = 3
        BY <1>1, <1>e, <3>1, <3>3, <4>1, <4>4
      <4> QED BY <3>3, <4>2, <4>3, <4>4
    <3> QED BY <3>2, <3>3
  <2>2. CASE csn
    <3>1. pending
      BY <1>9, <2>2, PulseMoves
    <3>2. PICK rest \in Nat : Rose' = rest
      BY <1>9, <2>2, RoseMoves
    <3>3. rest <= Rose + 1 /\ Rose \in Nat
      BY <1>9, <2>2, <3>2, RoseMoves
    <3>4. Rose + ec + (edges - 1) * slowest + 1 <= 3 * slowest
      BY <1>5, <2>2, <3>1
    <3>5. CASE ec # 0
      <4>1. e = ec - 1 /\ edges' = edges /\ edges \in {1, 2, 3}
        BY <1>3, <1>e, <3>5 DEF edges
      <4>2. \A k \in {0, 1, 2} : Rose + ec + k * slowest + 1 <= 3 * slowest => rest + e + k * slowest + 1 <= 3 * slowest
        BY <1>1, <3>2, <3>3, <4>1
      <4>3. edges - 1 \in {0, 1, 2}
        BY <4>1
      <4>4. rest + e + (edges - 1) * slowest + 1 <= 3 * slowest
        BY <3>4, <4>2, <4>3
      <4> QED BY <1>e, <3>2, <4>1, <4>4
    <3>6. CASE ec = 0
      <4>1. ~tip_m' /\ tip_r' = tip_m /\ tip_d' = tip_r
        BY <1>1, <1>2, <1>9, <2>2, <3>6
      <4>2. (edges = 3 /\ edges' = 2) \/ (edges = 2 /\ edges' = 1)
        BY <1>1, <1>9, <4>1 DEF edges, pending
      <4>3. e <= slowest - 1
        BY <1>4, <1>e
      <4>4. CASE edges = 3 /\ edges' = 2
        <5>1. Rose + 2 * slowest + 1 <= 3 * slowest
          BY <1>1, <3>3, <3>4, <3>6, <4>4
        <5>2. rest + e + slowest + 1 <= 3 * slowest
          BY <1>1, <3>2, <3>3, <4>3, <5>1
        <5> QED BY <1>1, <1>e, <3>2, <4>4, <5>2
      <4>5. CASE edges = 2 /\ edges' = 1
        <5>1. Rose + slowest + 1 <= 3 * slowest
          BY <1>1, <3>3, <3>4, <3>6, <4>5
        <5>2. rest + e + 1 <= 3 * slowest
          BY <1>1, <3>2, <3>3, <4>3, <5>1
        <5> QED BY <1>1, <1>e, <3>2, <4>5, <5>2
      <4> QED BY <4>2, <4>4, <4>5
    <3> QED BY <3>5, <3>6
  <2> QED BY <2>1, <2>2
<1>10. ASSUME csn', pending', tip_m', tip_d' PROVE tip_r'
  <2>1. CASE ec = 0
    <3>1. ~csn
      BY <1>1, <1>2, <1>10, <2>1
    <3> QED BY <1>2, <1>5, <1>10, <2>1, <3>1
  <2>2. CASE ec # 0
    <3>1. tip_m /\ tip_d
      BY <1>3, <1>10, <2>2
    <3>2. tip_r
      BY <1>1, <1>5, <3>1 DEF pending
    <3> QED BY <1>3, <2>2, <3>2
  <2> QED BY <2>1, <2>2
<1> QED BY <1>6, <1>7, <1>8, <1>9, <1>10 DEF Selected

(* A FIFO that is not read keeps a word on its output.                       *)
LEMMA ReadableMoves ==
  ASSUME LinkTimed, Types, SocInv, EcInv, Next, Readable(tx_fifo), ~Pulse
  PROVE  Readable(tx_fifo') /\ tx_fifo'.dout = tx_fifo.dout
<1>1. CASE ec # 0
  BY <1>1, PulseMoves, Steps DEF EcRests, ecVars, fifoVars
<1>2. CASE ec = 0
  <2>1. tx_fifo' = Fifo(tx_fifo, tx_we, donepulse) /\ ~donepulse
    BY <1>2, PulseMoves DEF EcMoves, Peripheral, Pulse
  <2>2. tx_fifo'.dout = tx_fifo.dout
    BY <2>1 DEF Fifo
  <2> QED BY <2>2 DEF Readable
<1> QED BY <1>1, <1>2

(* The driver only writes when the EC has a word.                            *)
LEMMA OfferedHolds ==
  ASSUME LinkTimed, Types, SocInv, EcInv, Next
  PROVE  Offered'
<1>1. csn \in BOOLEAN /\ csn' \in BOOLEAN /\ slowest \in Nat /\ slowest >= 1 /\ SpiDiv \in Nat /\ AccessTicks \in Nat
      /\ 3 * slowest <= 3 * SpiDiv + 2 * AccessTicks + 1
  BY SelectMoves, Lengths
<1>2. ASSUME csn, Rose >= 3 * slowest PROVE ~pending
  <2> SUFFICES ASSUME pending PROVE FALSE
    OBVIOUS
  <2>1. Rose + ec + (edges - 1) * slowest + 1 <= 3 * slowest
    BY <1>2 DEF EcInv, Selected
  <2>2. ec \in Nat /\ Rose \in Nat /\ edges \in {1, 2, 3}
    <3>1. ec \in Nat
      BY Lengths DEF Types, TypeOK
    <3>2. Rose \in Nat
      BY <1>2, RoseMoves
    <3> QED BY <3>1, <3>2 DEF edges
  <2>3. CASE edges = 1
    BY <1>1, <1>2, <2>1, <2>2, <2>3
  <2>4. CASE edges = 2
    BY <1>1, <1>2, <2>1, <2>2, <2>4
  <2>5. CASE edges = 3
    BY <1>1, <1>2, <2>1, <2>2, <2>5
  <2> QED BY <2>2, <2>3, <2>4, <2>5
<1>3. ASSUME NEW n \in Nat, n >= 1, csn', Rose' >= 3 * slowest + n
      PROVE  csn /\ Rose \in Nat /\ Rose >= 3 * slowest + n - 1 /\ ~pending
  <2>1. csn
    <3> SUFFICES ASSUME ~csn PROVE FALSE
      BY <1>1
    <3>1. Rose' = 0
      BY <1>3, RoseMoves
    <3> QED BY <1>1, <1>3, <3>1
  <2>2. PICK rest \in Nat : Rose' = rest
    BY <1>3, <2>1, RoseMoves
  <2>3. rest <= Rose + 1 /\ Rose \in Nat /\ rest >= 3 * slowest + n
    BY <1>3, <2>1, <2>2, RoseMoves
  <2>4. Rose >= 3 * slowest + n - 1 /\ Rose >= 3 * slowest
    BY <1>1, <1>3, <2>2, <2>3
  <2> QED BY <1>2, <2>1, <2>3, <2>4
<1>4. /\ csn /\ ~hold_m /\ Rose >= 3 * slowest + 1 => Readable(tx_fifo)
      /\ csn /\ ~hold /\ Rose >= 3 * slowest + 2 => Readable(tx_fifo)
      /\ drv = "write" => Readable(tx_fifo) /\ ~pending
      /\ waiting \/ ~csn \/ pending => Readable(tx_fifo)
  BY DEF EcInv, Offered
<1>5. Pulse => pending
  BY PulseMoves
<1>6. ASSUME csn', ~hold_m', Rose' >= 3 * slowest + 1 PROVE Readable(tx_fifo')
  <2>1. ~Pulse
    BY <1>3, <1>5, <1>6
  <2>2. Readable(tx_fifo) \/ Readable(tx_fifo')
    BY <1>6, SocMoves
  <2> QED BY <2>1, <2>2, ReadableMoves
<1>7. ASSUME csn', ~hold', Rose' >= 3 * slowest + 2 PROVE Readable(tx_fifo')
  <2>1. csn /\ ~pending /\ Rose >= 3 * slowest + 1
    <3>1. csn /\ Rose \in Nat /\ Rose >= 3 * slowest + 2 - 1 /\ ~pending
      BY <1>3, <1>7
    <3> QED BY <1>1, <3>1
  <2>2. ~hold_m
    BY <1>7, SocMoves
  <2> QED BY <1>4, <1>5, <2>1, <2>2, ReadableMoves
<1>8. ASSUME drv' = "write" PROVE Readable(tx_fifo') /\ ~pending'
  <2>1. CASE drv = "write"
    <3>1. ~asked /\ ~pending /\ Readable(tx_fifo)
      BY <1>4, <2>1 DEF SocInv, Asking
    <3>2. csn /\ csn'
      BY <1>1, <3>1, SelectMoves DEF waiting
    <3> QED BY <1>5, <3>1, <3>2, PulseMoves, ReadableMoves
  <2>2. CASE drv # "write"
    <3>1. drv = "hold" /\ gap = 0 /\ ~hold
      BY <1>8, <2>2, DriverMoves DEF DriverTip, DriverRead, DriverHold, DriverWrite, DriverRests, Looks
    <3>2. ~asked
      BY <3>1 DEF SocInv, Asking
    <3>3. csn /\ csn' /\ Rose >= 3 * SpiDiv + 2 * AccessTicks + 3 /\ Rose \in Nat
      BY <3>1, <3>2, RoseMoves
    <3>4. Rose >= 3 * slowest + 2 /\ Rose >= 3 * slowest
      BY <1>1, <3>3
    <3>5. Readable(tx_fifo) /\ ~pending
      BY <1>2, <1>4, <3>1, <3>3, <3>4
    <3> QED BY <1>5, <3>3, <3>5, PulseMoves, ReadableMoves
  <2> QED BY <2>1, <2>2
<1>9. ASSUME waiting' \/ ~csn' \/ pending' PROVE Readable(tx_fifo')
  <2>1. (waiting \/ ~csn \/ pending \/ DriverWrite) /\ ~Pulse
    <3>1. CASE waiting'
      <4>1. csn' /\ (waiting \/ DriverWrite)
        BY <3>1, WaitingMoves
      <4> QED BY <3>1, <4>1, PulseMoves
    <3>2. CASE ~csn'
      BY <1>1, <3>2, SelectMoves, PulseMoves
    <3>3. CASE csn' /\ pending'
      BY <1>1, <3>3, PulseMoves
    <3> QED BY <1>1, <1>9, <3>1, <3>2, <3>3
  <2>2. Readable(tx_fifo)
    BY <1>4, <2>1 DEF DriverWrite
  <2> QED BY <2>1, <2>2, ReadableMoves
<1> QED BY <1>6, <1>7, <1>8, <1>9 DEF Offered

-----------------------------------------------------------------------------
(* The words.                                                                *)

(* The driver reads an answer that it has, and a new one comes when chip     *)
(* select rises.                                                             *)
LEMMA AnsweredMoves ==
  ASSUME LinkTimed, Types, SocInv, EcInv, Next
  PROVE  /\ answered \in BOOLEAN /\ answered' \in BOOLEAN
         /\ DriverRead => answered /\ ~answered' /\ csn /\ csn' /\ fsm \in {"IDLE", "WAIT"} /\ (fsm = "WAIT" => spicount = 0)
         /\ ~csn /\ csn' => ~answered /\ answered' /\ ~DriverRead
         /\ ~DriverRead /\ ~(~csn /\ csn') => (answered' <=> answered)
         /\ ~csn => ~answered /\ ~DriverRead
         /\ ~csn' => ~DriverRead
         /\ ~DriverRead => soc_got' = soc_got
<1>1. /\ tip \in BOOLEAN /\ tx_re \in BOOLEAN /\ csn \in BOOLEAN /\ csn' \in BOOLEAN /\ done_r \in BOOLEAN
      /\ drv \in {"tip", "rx", "hold", "write"} /\ tip' \in BOOLEAN /\ tx_re' \in BOOLEAN
  BY SelectMoves, SocMoves, DriverMoves DEF Types, TypeOK
<1>2. LinkMachine /\ LinkMachine' /\ Asking
  BY MachineHolds DEF SocInv
<1>3. tip' = (tx_re \/ (tip /\ ~done_r))
  BY SocMoves
<1>4. answered \in BOOLEAN /\ answered' \in BOOLEAN
  BY <1>1 DEF answered, waiting
<1>5. ~csn => tip /\ tip' /\ drv = "tip" /\ ~answered /\ ~DriverRead
  <2> SUFFICES ASSUME ~csn PROVE tip /\ tip' /\ drv = "tip" /\ ~answered /\ ~DriverRead
    OBVIOUS
  <2>1. tip /\ ~done_r /\ drv = "tip"
    BY SelectMoves
  <2> QED BY <1>3, <2>1 DEF answered, DriverRead
<1>6. ASSUME DriverRead
      PROVE  answered /\ ~answered' /\ csn /\ csn' /\ fsm \in {"IDLE", "WAIT"} /\ (fsm = "WAIT" => spicount = 0)
  <2>1. ~tip /\ ~tx_re /\ drv = "rx" /\ drv' = "hold" /\ ~tx_re'
    BY <1>2, <1>6 DEF DriverRead, Asking, asked
  <2>2. csn /\ csn'
    BY <1>1, <1>5, <2>1, SelectMoves
  <2>3. ~tip'
    BY <1>3, <2>1
  <2>4. fsm = "IDLE" \/ setdone
    BY <1>2, <2>1 DEF Asking
  <2> QED BY <2>1, <2>2, <2>3, <2>4 DEF answered, setdone
<1>7. ASSUME ~csn, csn' PROVE answered'
  <2>1. tip' /\ ~waiting'
    BY <1>5, <1>7, SelectMoves DEF waiting
  <2> QED BY <1>7, <2>1 DEF answered
<1>8. ASSUME ~DriverRead, ~(~csn /\ csn') PROVE answered' <=> answered
  <2>1. CASE ~csn
    BY <1>1, <1>5, <1>8, <2>1 DEF answered
  <2>2. CASE csn /\ tip /\ ~waiting
    <3>1. answered
      BY <2>2 DEF answered
    <3>2. csn' /\ drv = "tip" /\ ~tx_re /\ ~DriverWrite
      BY <1>1, <1>2, <2>2, SelectMoves DEF Asking, asked, DriverWrite
    <3>3. ~waiting' /\ ~tx_re' /\ drv' \in {"tip", "rx"}
      BY <2>2, <3>2, WaitingMoves, DriverMoves DEF DriverTip, DriverRead, DriverHold, DriverWrite, DriverRests
    <3> QED BY <1>1, <3>1, <3>2, <3>3 DEF answered
  <2>3. CASE csn /\ waiting
    <3>1. ~answered
      BY <2>3 DEF answered, waiting, asked
    <3>2. (waiting' \/ ~csn') /\ tip'
      BY <1>1, <1>2, <1>3, <2>3, WaitingMoves DEF waiting, finishing, asked, Asking
    <3> QED BY <3>1, <3>2 DEF answered
  <2>4. CASE csn /\ ~tip /\ ~waiting
    <3>1. ~tx_re /\ csn'
      BY <1>1, <1>2, <2>4, SelectMoves DEF waiting, asked, finishing, Asking
    <3>2. ~tip'
      BY <1>3, <2>4, <3>1
    <3>3. CASE DriverTip
      BY <1>1, <2>4, <3>1, <3>2, <3>3 DEF DriverTip, answered
    <3>4. CASE DriverHold
      BY <1>1, <2>4, <3>1, <3>2, <3>4 DEF DriverHold, answered
    <3>5. CASE DriverWrite
      BY <1>1, <2>4, <3>1, <3>2, <3>5 DEF DriverWrite, answered
    <3>6. CASE DriverRests
      BY <1>1, <2>4, <3>1, <3>2, <3>6 DEF DriverRests, answered
    <3> QED BY <1>8, <3>3, <3>4, <3>5, <3>6, DriverMoves
  <2> QED BY <1>1, <2>1, <2>2, <2>3, <2>4
<1>9. ~DriverRead => soc_got' = soc_got
  BY DriverMoves DEF DriverTip, DriverHold, DriverWrite, DriverRests
<1> QED BY <1>4, <1>5, <1>6, <1>7, <1>8, <1>9

(* The EC goes on to its next word when it learns of the end of a            *)
(* transaction, and only then.                                               *)
LEMMA NextMoves ==
  ASSUME LinkTimed, Types, SocInv, EcInv, Replies, Next
  PROVE  /\ next \in Nat /\ next' \in Nat
         /\ Pulse => next' = next + 1
         /\ ~Pulse => next' = next
         /\ DriverRead => soc_got' = soc_got + 1
<1>1. soc_got \in Nat
  BY DEF Types
<1>2. DriverRead => soc_got' = soc_got + 1
  <2> SUFFICES ASSUME DriverRead PROVE soc_got' = soc_got + 1
    OBVIOUS
  <2>1. soc_got' = rx_status /\ answered /\ (fsm = "IDLE" \/ (fsm = "WAIT" /\ spicount = 0))
    BY AnsweredMoves DEF DriverRead
  <2> QED BY <2>1 DEF Replies
<1>3. csn \in BOOLEAN /\ csn' \in BOOLEAN
  BY SelectMoves
<1> DEFINE late == soc_got + (IF answered THEN 1 ELSE 0)
           owed == IF csn /\ pending THEN 0 ELSE 1
<1>4. next = late + owed /\ next' = late' + owed' /\ late \in Nat /\ owed \in {0, 1}
  BY <1>1 DEF next
<1>5. CASE ~csn /\ csn'
  <2>1. late = soc_got /\ late' = soc_got + 1 /\ owed = 1 /\ owed' = 0 /\ ~Pulse /\ ~DriverRead
    <3>1. ~answered /\ answered' /\ ~DriverRead /\ soc_got' = soc_got /\ pending' /\ ~Pulse
      BY <1>5, AnsweredMoves, PulseMoves
    <3>2. late = soc_got /\ owed = 1
      BY <1>1, <1>5, <3>1
    <3>3. owed' = 0
      BY <1>5, <3>1
    <3>4. late' = soc_got + 1
      BY <3>1
    <3> QED BY <3>1, <3>2, <3>3, <3>4
  <2> HIDE DEF late, owed
  <2> QED BY <1>1, <1>4, <2>1
<1>6. CASE ~(~csn /\ csn')
  <2>1. late' = late
    <3>1. CASE DriverRead
      BY <1>1, <1>2, <3>1, AnsweredMoves
    <3>2. CASE ~DriverRead
      BY <1>6, <3>2, AnsweredMoves
    <3> QED BY <3>1, <3>2
  <2>2. CASE Pulse
    <3>1. owed = 0 /\ owed' = 1
      BY <2>2, PulseMoves
    <3> HIDE DEF late, owed
    <3> QED BY <1>2, <1>4, <2>1, <2>2, <3>1
  <2>3. CASE ~Pulse
    <3>1. owed' = owed
      BY <1>3, <1>6, <2>3, PulseMoves
    <3> HIDE DEF late, owed
    <3> QED BY <1>2, <1>4, <2>1, <2>3, <3>1
  <2> QED BY <2>2, <2>3
<1> QED BY <1>5, <1>6, <1>2

(* The shift register takes the EC's next word at the first bit and keeps it *)
(* until the driver has it.                                                  *)
LEMMA AnswersHold ==
  ASSUME LinkTimed, Types, SocInv, EcInv, Replies, Next
  PROVE  /\ answered' \/ ~spi_load' => tx_sr' = soc_got' + 1
         /\ answered' /\ (fsm' = "IDLE" \/ (fsm' = "WAIT" /\ spicount' < 2)) => rx_status' = soc_got' + 1
<1>1. /\ csn \in BOOLEAN /\ csn' \in BOOLEAN /\ spi_load \in BOOLEAN /\ soc_got \in Nat /\ clk_run \in BOOLEAN
      /\ LinkMachine /\ LinkMachine' /\ spicount \in 0..15
  BY SelectMoves, MachineHolds DEF Types, TypeOK, SocInv
<1>2. /\ sclk_edge /\ spi_load => \E f \in {tx_fifo, tx_fifo'} : tx_sr' = IF Readable(f) THEN f.dout ELSE Underflow
      /\ ~(sclk_edge /\ spi_load) => tx_sr' = tx_sr
      /\ spi_load' = (csn' \/ (spi_load /\ ~sclk_edge))
  BY Steps DEF Shift
<1>3. /\ Readable(tx_fifo) => tx_fifo.dout = next
      /\ answered \/ ~spi_load => tx_sr = soc_got + 1
      /\ answered /\ (fsm = "IDLE" \/ (fsm = "WAIT" /\ spicount < 2)) => rx_status = soc_got + 1
  BY DEF Replies
<1>4. ASSUME sclk_edge, spi_load PROVE ~csn /\ tx_sr' = soc_got + 1
  <2>1. ~csn
    BY <1>1, <1>4 DEF sclk_edge, LinkMachine
  <2>2. next = soc_got + 1
    BY <1>1, <2>1, AnsweredMoves DEF next
  <2>3. Readable(tx_fifo) /\ ~Pulse
    BY <2>1, PulseMoves DEF EcInv, Offered
  <2>4. Readable(tx_fifo') /\ tx_fifo'.dout = next /\ tx_fifo.dout = next
    BY <1>3, <2>3, ReadableMoves
  <2> QED BY <1>2, <1>4, <2>1, <2>2, <2>3, <2>4
<1>5. ASSUME answered' \/ ~spi_load' PROVE tx_sr' = soc_got' + 1
  <2>1. ~DriverRead
    <3> SUFFICES ASSUME DriverRead PROVE FALSE
      OBVIOUS
    <3>1. ~answered' /\ csn'
      BY AnsweredMoves
    <3> QED BY <1>2, <1>5, <3>1
  <2>2. soc_got' = soc_got
    BY <2>1, AnsweredMoves
  <2>3. CASE sclk_edge /\ spi_load
    BY <1>4, <2>2, <2>3
  <2>4. CASE ~(sclk_edge /\ spi_load)
    <3>1. answered \/ ~spi_load
      <4>1. CASE ~csn /\ csn'
        BY <1>1, <4>1, SelectMoves DEF LinkMachine
      <4>2. CASE answered' /\ ~(~csn /\ csn')
        BY <2>1, <4>2, AnsweredMoves
      <4>3. CASE ~spi_load'
        BY <1>1, <1>2, <2>4, <4>3
      <4> QED BY <1>5, <4>1, <4>2, <4>3
    <3> QED BY <1>2, <1>3, <2>2, <2>4, <3>1
  <2> QED BY <2>3, <2>4
<1>6. ASSUME answered', fsm' = "IDLE" \/ (fsm' = "WAIT" /\ spicount' < 2)
      PROVE  rx_status' = soc_got' + 1
  <2>1. ~DriverRead
    BY <1>6, AnsweredMoves
  <2>2. ~(~csn /\ csn')
    BY <1>6, SelectMoves
  <2>3. soc_got' = soc_got /\ answered
    BY <1>6, <2>1, <2>2, AnsweredMoves
  <2>4. CASE Within
    BY <1>3, <1>6, <2>3, <2>4 DEF Within, spiVars
  <2>5. CASE Goes("IDLE", "IDLE") /\ rx_status' = rx_status
    BY <1>3, <2>3, <2>5 DEF Goes
  <2>6. CASE rx_status' = tx_sr
    BY <1>3, <2>3, <2>6
  <2> QED BY <1>6, <2>4, <2>5, <2>6, SpiSteps DEF SpiMoves, Goes, SocInv
<1> QED BY <1>5, <1>6

(* What the EC's CPU does to the FIFO of its words: a write waits for room.  *)
LEMMA EcSends ==
  ASSUME LinkTimed, Types, Next, EcMoves
  PROVE  \/ tx_we' = None /\ ec_sent' = ec_sent
         \/ /\ ec_bus \in {"idle", "stalled"} /\ ec_bus' = "wr_ack" /\ Writable(tx_fifo)
            /\ ec_sent < MaxWords /\ tx_we' = ec_sent + 1 /\ ec_sent' = ec_sent + 1
BY DEF EcMoves, EcAccess, EcWrite, EcRead, EcReadEmpty, EcClearErrors, EcNoAccess

(* The EC's words are in its FIFO one after the other.                       *)
LEMMA RepliesHold ==
  ASSUME LinkTimed, Types, SocInv, EcInv, Replies, Next
  PROVE  Replies' /\ tx_fifo' \in Fifos /\ ec_sent' \in Nat /\ ec_sent' <= MaxWords /\ tx_we' \in Word \union {None}
<1>1. /\ tx_fifo \in Fifos /\ tx_we \in Word \union {None} /\ ec_sent \in Nat /\ ec_sent <= MaxWords
      /\ MaxWords \in Nat /\ next \in Nat /\ Len(tx_fifo.q) \in Nat /\ None = 0
      /\ (Readable(tx_fifo) => tx_fifo.dout \in Word)
  <2>1. tx_fifo \in Fifos
    BY DEF Types
  <2>2. Len(tx_fifo.q) \in Nat /\ (Readable(tx_fifo) => tx_fifo.dout \in Word)
    BY <2>1, LenProperties DEF Fifos, Readable
  <2> QED BY <2>1, <2>2, NextMoves, Lengths DEF Types, None
<1> DEFINE rest == Count(Readable(tx_fifo))
           n == Len(tx_fifo.q)
           w == Count(tx_we # None)
<1>2. rest \in {0, 1} /\ w \in {0, 1} /\ n \in Nat
  BY <1>1 DEF Count
<1>3. /\ Readable(tx_fifo) => rest = 1 /\ tx_fifo.dout = next
      /\ ~Readable(tx_fifo) => rest = 0
      /\ \A i \in 1..n : tx_fifo.q[i] = next + i - Count(~Readable(tx_fifo))
      /\ ec_sent = next - 1 + rest + n + w
      /\ tx_we # None => tx_we = ec_sent /\ Writable(tx_fifo) /\ ec_bus = "wr_ack" /\ w = 1
      /\ tx_we = None => w = 0
  BY DEF Replies, Count
<1>4. \A i \in 1..n : tx_fifo.q[i] = next + i - (1 - rest)
  BY <1>3 DEF Count
<1> HIDE DEF n
<1>5. CASE ec # 0
  <2>1. UNCHANGED ecVars /\ ~Pulse
    BY <1>5, Steps, PulseMoves DEF EcRests, Pulse
  <2>2. tx_fifo' = tx_fifo /\ tx_we' = tx_we /\ ec_sent' = ec_sent /\ ec_bus' = ec_bus /\ next' = next
    BY <2>1, NextMoves DEF ecVars, fifoVars, busVars
  <2>3. /\ Readable(tx_fifo') => tx_fifo'.dout = next'
        /\ \A i \in 1..Len(tx_fifo'.q) : tx_fifo'.q[i] = next' + i - Count(~Readable(tx_fifo'))
        /\ ec_sent' = next' - 1 + Count(Readable(tx_fifo')) + Len(tx_fifo'.q) + Count(tx_we' # None)
        /\ tx_we' # None => tx_we' = ec_sent' /\ Writable(tx_fifo') /\ ec_bus' = "wr_ack"
    BY <2>2 DEF Replies
  <2> QED BY <1>1, <2>2, <2>3, AnswersHold DEF Replies
<1>6. CASE ec = 0
  <2>1. EcMoves /\ tx_fifo' = Fifo(tx_fifo, tx_we, donepulse) /\ (Pulse <=> donepulse) /\ donepulse \in BOOLEAN
    BY <1>6, PulseMoves DEF EcMoves, Peripheral, Pulse, donepulse
  <2>g. PICK g : tx_fifo' = g
    OBVIOUS
  <2>2. /\ g \in Fifos
        /\ \/ /\ tx_fifo.q # <<>> /\ (~Readable(tx_fifo) \/ donepulse)
              /\ n >= 1 /\ g.dout = tx_fifo.q[1]
              /\ Len(g.q) = n - 1 + w
              /\ \A i \in 1..(n - 1) : g.q[i] = tx_fifo.q[i + 1]
              /\ w = 1 => g.q[n] = tx_we
           \/ /\ tx_fifo.q = <<>> \/ (Readable(tx_fifo) /\ ~donepulse)
              /\ g.dout = IF donepulse THEN None ELSE tx_fifo.dout
              /\ Len(g.q) = n + w
              /\ \A i \in 1..n : g.q[i] = tx_fifo.q[i]
              /\ w = 1 => g.q[n + 1] = tx_we
    <3> DEFINE W == tx_we # None /\ Writable(tx_fifo)
    <3>1. w = Count(W) /\ (w = 1 => W)
      BY <1>3 DEF Count
    <3>2. g = Fifo(tx_fifo, tx_we, donepulse)
      BY <2>1, <2>g
    <3>3. g \in Fifos /\ FifoMoved(tx_fifo, tx_we, donepulse, g)
      BY <1>1, <2>1, <3>2, FifoMoves
    <3> HIDE DEF w
    <3> QED BY <3>1, <3>3 DEF n, Count, FifoMoved
  <2>3. /\ donepulse => Readable(tx_fifo) /\ next' = next + 1
        /\ ~donepulse => next' = next
    BY <2>1, NextMoves, PulseMoves DEF EcInv, Offered
  <2>4. PICK m \in Nat : next' = m
    BY NextMoves
  <2>5. (donepulse => m = next + 1) /\ (~donepulse => m = next)
    BY <2>3, <2>4
  <2> HIDE DEF rest, w
  <2>6. /\ Readable(g) => g.dout = m
        /\ \A i \in 1..Len(g.q) : g.q[i] = m + i - Count(~Readable(g))
        /\ ec_sent = m - 1 + Count(Readable(g)) + Len(g.q)
        /\ Len(g.q) \in Nat /\ Len(g.q) <= n + w
    <3>1. CASE tx_fifo.q # <<>> /\ (~Readable(tx_fifo) \/ donepulse)
      <4>1. /\ n >= 1 /\ g.dout = tx_fifo.q[1] /\ Len(g.q) = n - 1 + w
            /\ \A i \in 1..(n - 1) : g.q[i] = tx_fifo.q[i + 1]
            /\ w = 1 => g.q[n] = tx_we
        BY <2>2, <3>1
      <4>2. m = next + rest
        BY <1>1, <1>3, <2>3, <2>5, <3>1
      <4>3. g.dout = m
        BY <1>1, <1>2, <1>4, <2>4, <4>1, <4>2
      <4>4. Readable(g) /\ Count(Readable(g)) = 1 /\ Count(~Readable(g)) = 0
        <5>1. tx_fifo.q[1] \in Word
          BY <1>1, <1>2, <4>1 DEF Fifos, n
        <5>2. Readable(g)
          BY <4>1, <5>1 DEF Readable, Word, None
        <5> QED BY <5>2 DEF Count
      <4>5. ASSUME NEW i \in 1..Len(g.q) PROVE g.q[i] = m + i
        <5>1. CASE i \in 1..(n - 1)
          BY <1>1, <1>2, <1>4, <4>1, <4>2, <5>1
        <5>2. CASE ~(i \in 1..(n - 1))
          <6>1. i = n /\ w = 1
            BY <1>2, <4>1, <5>2
          <6>2. g.q[i] = tx_we /\ tx_we = ec_sent
            BY <1>3, <4>1, <6>1
          <6> QED BY <1>1, <1>2, <1>3, <4>2, <6>1, <6>2
        <5> QED BY <5>1, <5>2
      <4>6. ec_sent = m - 1 + 1 + Len(g.q) /\ Len(g.q) \in Nat /\ Len(g.q) <= n + w
        BY <1>1, <1>2, <1>3, <4>1, <4>2
      <4>7. \A i \in 1..Len(g.q) : g.q[i] = m + i - Count(~Readable(g))
        BY <2>4, <4>4, <4>5, <4>6
      <4> QED BY <2>4, <4>3, <4>4, <4>6, <4>7
    <3>2. CASE ~(tx_fifo.q # <<>> /\ (~Readable(tx_fifo) \/ donepulse))
      <4>1. /\ g.dout = IF donepulse THEN None ELSE tx_fifo.dout
            /\ Len(g.q) = n + w
            /\ \A i \in 1..n : g.q[i] = tx_fifo.q[i]
            /\ w = 1 => g.q[n + 1] = tx_we
        BY <2>2, <3>2
      <4>2. CASE donepulse
        <5>1. rest = 1 /\ n = 0 /\ m = next + 1 /\ ~Readable(g)
          BY <1>3, <2>3, <2>5, <3>2, <4>1, <4>2 DEF n, Readable
        <5>2. Count(Readable(g)) = 0 /\ Count(~Readable(g)) = 1
          BY <5>1 DEF Count
        <5>3. ASSUME NEW i \in 1..Len(g.q) PROVE g.q[i] = m + i - 1
          <6>1. i = 1 /\ w = 1 /\ g.q[i] = tx_we /\ tx_we = ec_sent
            BY <1>2, <1>3, <4>1, <5>1
          <6> QED BY <1>1, <1>3, <5>1, <6>1
        <5>4. ec_sent = m - 1 + 0 + Len(g.q) /\ Len(g.q) \in Nat /\ Len(g.q) <= n + w
          BY <1>1, <1>2, <1>3, <4>1, <5>1
        <5> QED BY <5>1, <5>2, <5>3, <5>4
      <4>3. CASE ~donepulse
        <5>1. g.dout = tx_fifo.dout /\ (Readable(g) <=> Readable(tx_fifo)) /\ m = next
          BY <2>5, <4>1, <4>3 DEF Readable
        <5>2. Count(Readable(g)) = rest /\ Count(~Readable(g)) = 1 - rest /\ (Readable(g) => g.dout = m)
          BY <1>3, <5>1 DEF Count
        <5>3. ASSUME NEW i \in 1..Len(g.q) PROVE g.q[i] = m + i - (1 - rest)
          <6>1. CASE i \in 1..n
            BY <1>4, <4>1, <5>1, <6>1
          <6>2. CASE ~(i \in 1..n)
            <7>1. i = n + 1 /\ w = 1
              BY <1>2, <4>1, <6>2
            <7>2. g.q[i] = tx_we /\ tx_we = ec_sent
              BY <1>3, <4>1, <7>1
            <7> QED BY <1>1, <1>2, <1>3, <5>1, <7>1, <7>2
          <6> QED BY <6>1, <6>2
        <5>4. ec_sent = m - 1 + rest + Len(g.q) /\ Len(g.q) \in Nat /\ Len(g.q) <= n + w
          BY <1>1, <1>2, <1>3, <4>1, <5>1
        <5> QED BY <5>2, <5>3, <5>4
      <4> QED BY <4>2, <4>3
    <3> QED BY <3>1, <3>2
  <2>7. \/ tx_we' = None /\ ec_sent' = ec_sent
        \/ /\ w = 0 /\ ec_bus' = "wr_ack" /\ Writable(tx_fifo)
           /\ ec_sent < MaxWords /\ tx_we' = ec_sent + 1 /\ ec_sent' = ec_sent + 1
    BY <1>3, <2>1, EcSends
  <2>8. /\ Readable(tx_fifo') => tx_fifo'.dout = next'
        /\ \A i \in 1..Len(tx_fifo'.q) : tx_fifo'.q[i] = next' + i - Count(~Readable(tx_fifo'))
    BY <2>g, <2>4, <2>6
  <2>9. CASE tx_we' = None /\ ec_sent' = ec_sent
    <3>1. ec_sent' = next' - 1 + Count(Readable(tx_fifo')) + Len(tx_fifo'.q) + Count(tx_we' # None)
      <4>1. Count(tx_we' # None) = 0 /\ Count(Readable(g)) \in {0, 1}
        BY <2>9 DEF Count
      <4>2. ec_sent = m - 1 + Count(Readable(g)) + Len(g.q) + 0
        BY <1>1, <2>6, <4>1
      <4> QED BY <2>g, <2>4, <2>9, <4>1, <4>2
    <3> QED BY <1>1, <2>2, <2>8, <2>g, <2>9, <3>1, AnswersHold DEF Replies
  <2>10. CASE /\ w = 0 /\ ec_bus' = "wr_ack" /\ Writable(tx_fifo)
              /\ ec_sent < MaxWords /\ tx_we' = ec_sent + 1 /\ ec_sent' = ec_sent + 1
    <3>1. tx_we' # None /\ tx_we' \in Word /\ ec_sent' \in Nat /\ ec_sent' <= MaxWords
      BY <1>1, <2>10 DEF Word
    <3>2. ec_sent' = next' - 1 + Count(Readable(tx_fifo')) + Len(tx_fifo'.q) + Count(tx_we' # None)
      <4>1. Count(tx_we' # None) = 1 /\ Count(Readable(g)) \in {0, 1}
        BY <3>1 DEF Count
      <4>2. ec_sent + 1 = m - 1 + Count(Readable(g)) + Len(g.q) + 1
        BY <1>1, <2>6, <4>1
      <4> QED BY <2>g, <2>4, <2>10, <4>1, <4>2
    <3>3. Writable(tx_fifo')
      <4>1. Len(g.q) < Depth
        <5>1. Len(g.q) \in Nat /\ Len(g.q) <= n + 0
          BY <2>6, <2>10
        <5>2. n < Depth /\ Depth \in Nat
          BY <2>10, Lengths DEF Writable, n
        <5> QED BY <1>2, <5>1, <5>2
      <4> QED BY <2>g, <4>1 DEF Writable
    <3> QED BY <2>2, <2>8, <2>g, <2>10, <3>1, <3>2, <3>3, AnswersHold DEF Replies
  <2> QED BY <2>7, <2>9, <2>10
<1> QED BY <1>5, <1>6

(* The SoC's word reaches the EC's shift register whole, and is offered to   *)
(* the FIFO once, when the transaction is over.                              *)
LEMMA PushedMoves ==
  ASSUME LinkTimed, Types, SocInv, EcInv, Requests, Next
  PROVE  /\ pushed \in Int /\ pushed' \in Int
         /\ Pulse => pushed' = pushed + 1 /\ rx_sr = pushed + 1 /\ rx_sr \in Word
         /\ ~Pulse => pushed' = pushed
         /\ asked' \/ pending' => tx' > 0
         /\ ~csn' \/ pending' => tx_r' = tx'
         /\ fsm' = "POST_ASSERT" \/ (csn' /\ pending') => rx_sr' = tx'
         /\ tx' \in 0..MaxWords
<1>1. /\ tx \in 0..MaxWords /\ MaxWords \in Nat /\ csn \in BOOLEAN /\ csn' \in BOOLEAN /\ LinkMachine
      /\ tx_re \in BOOLEAN /\ tip \in BOOLEAN /\ clk_run \in BOOLEAN
  BY SelectMoves, Lengths DEF Types, TypeOK, SocInv
<1>2. /\ asked \/ pending => tx > 0
      /\ ~csn \/ pending => tx_r = tx
      /\ fsm = "POST_ASSERT" \/ (csn /\ pending) => rx_sr = tx
  BY DEF Requests
<1>3. (DriverWrite => tx' = tx + 1 /\ tx < MaxWords) /\ (~DriverWrite => tx' = tx /\ ~tx_re')
  BY DriverMoves DEF DriverTip, DriverRead, DriverHold, DriverWrite, DriverRests
<1>4. tx' \in 0..MaxWords
  <2>1. CASE DriverWrite
    BY <1>1, <1>3, <2>1
  <2>2. CASE ~DriverWrite
    BY <1>1, <1>3, <2>2
  <2> QED BY <2>1, <2>2
<1>5. DriverWrite => csn /\ csn' /\ ~waiting /\ waiting' /\ ~pending /\ ~pending' /\ ~Pulse
  <2> SUFFICES ASSUME DriverWrite PROVE csn /\ csn' /\ ~waiting /\ waiting' /\ ~pending /\ ~pending' /\ ~Pulse
    OBVIOUS
  <2>1. csn /\ csn' /\ ~waiting /\ waiting' /\ ~pending
    BY WaitingMoves DEF DriverWrite, EcInv, Offered
  <2> QED BY <2>1, PulseMoves
<1>6. ASSUME ~Pulse PROVE pushed' = pushed
  <2>1. CASE DriverWrite
    <3>1. pushed = tx
      BY <1>5, <2>1 DEF pushed
    <3>2. pushed' = tx' - 1
      BY <1>5, <2>1 DEF pushed
    <3> QED BY <1>1, <1>3, <2>1, <3>1, <3>2
  <2>2. CASE ~DriverWrite
    <3>1. csn /\ ~waiting /\ ~pending => csn' /\ ~waiting' /\ ~pending'
      BY <1>1, <1>6, <2>2, SelectMoves, WaitingMoves, PulseMoves
    <3>2. csn' /\ ~waiting' /\ ~pending' => csn /\ ~waiting /\ ~pending
      BY <1>1, <1>6, <2>2, SelectMoves, WaitingMoves, PulseMoves
    <3>3. tx' = tx
      BY <1>3, <2>2
    <3> QED BY <3>1, <3>2, <3>3 DEF pushed
  <2> QED BY <2>1, <2>2
<1>7. ASSUME Pulse PROVE pushed' = pushed + 1 /\ rx_sr = pushed + 1 /\ rx_sr \in Word
  <2>1. csn /\ csn' /\ ~waiting /\ pending /\ ~pending' /\ ~waiting' /\ ~DriverWrite
    BY <1>7, PulseMoves
  <2>2. pushed = tx - 1 /\ pushed' = tx
    <3>1. pushed = tx - 1
      BY <2>1 DEF pushed
    <3>2. pushed' = tx'
      BY <2>1 DEF pushed
    <3> QED BY <1>3, <2>1, <3>1, <3>2
  <2>3. rx_sr = tx /\ tx > 0
    BY <1>2, <2>1
  <2> QED BY <1>1, <2>2, <2>3 DEF Word
<1>8. pushed \in Int
  BY <1>1 DEF pushed
<1>9. pushed' \in Int
  BY <1>6, <1>7, <1>8
<1>10. ASSUME ~csn \/ ~csn' \/ pending \/ (csn' /\ pending') PROVE ~DriverWrite /\ tx' = tx /\ ~tx_re'
  BY <1>3, <1>5, <1>10
<1>11. asked' \/ pending' => tx' > 0
  <2>1. tx > 0 => tx' > 0
    <3>1. CASE DriverWrite
      BY <1>1, <1>3, <3>1
    <3>2. CASE ~DriverWrite
      BY <1>3, <3>2
    <3> QED BY <3>1, <3>2
  <2>2. CASE tx_re'
    <3>1. DriverWrite
      BY <1>3, <2>2
    <3> QED BY <1>1, <1>3, <3>1
  <2>3. CASE tip'
    <3>1. asked
      BY <2>3, SocMoves DEF asked
    <3> QED BY <1>2, <2>1, <3>1
  <2>4. CASE pending'
    <3>1. pending \/ asked
      BY <1>1, <2>4, SelectMoves, PulseMoves DEF waiting
    <3> QED BY <1>2, <2>1, <3>1
  <2> QED BY <2>2, <2>3, <2>4 DEF asked
<1>12. ~csn' \/ pending' => tx_r' = tx'
  <2>1. CASE ~csn'
    <3>1. tx' = tx
      BY <1>10, <2>1
    <3>2. CASE csn
      BY <2>1, <3>1, <3>2, SelectMoves
    <3>3. CASE ~csn
      BY <1>2, <2>1, <3>1, <3>3, SelectMoves
    <3> QED BY <1>1, <3>2, <3>3
  <2>2. CASE csn' /\ pending'
    <3>1. tx' = tx /\ (~csn \/ pending)
      BY <1>1, <1>10, <2>2, PulseMoves
    <3>2. tx_r' = tx_r
      <4>1. CASE csn
        BY <2>2, <4>1, SelectMoves
      <4>2. CASE ~csn
        BY <2>2, <4>2, SelectMoves, SpiSteps DEF SpiMoves, Goes, Within, spiVars, SocInv
      <4> QED BY <1>1, <4>1, <4>2
    <3> QED BY <1>2, <3>1, <3>2
  <2> QED BY <1>1, <2>1, <2>2
<1>13. rx_sr' = IF sclk_edge THEN (IF spicount = 0 THEN tx_r ELSE Junk) ELSE rx_sr
  BY Steps DEF Shift
<1>14. fsm' = "POST_ASSERT" => rx_sr' = tx'
  <2> SUFFICES ASSUME fsm' = "POST_ASSERT" PROVE rx_sr' = tx'
    OBVIOUS
  <2>1. CASE Within
    <3>1. fsm = "POST_ASSERT" /\ ~sclk_edge
      BY <2>1 DEF Within, spiVars, sclk_edge
    <3>2. ~csn
      BY <1>1, <3>1 DEF LinkMachine
    <3> QED BY <1>2, <1>10, <1>13, <3>1, <3>2
  <2>2. CASE Goes("RUN", "POST_ASSERT") /\ spicount = 0
    <3>1. sclk_edge /\ ~csn
      BY <1>1, <2>2 DEF Goes, AtEdge, sclk_edge, LinkMachine
    <3> QED BY <1>2, <1>10, <1>13, <2>2, <3>1
  <2> QED BY <2>1, <2>2, SpiSteps DEF SpiMoves, Goes, SocInv
<1>15. csn' /\ pending' => rx_sr' = tx'
  <2> SUFFICES ASSUME csn', pending' PROVE rx_sr' = tx'
    OBVIOUS
  <2>1. fsm # "RUN" /\ (fsm = "POST_ASSERT" \/ (csn /\ pending))
    BY <1>1, SelectMoves, PulseMoves DEF LinkMachine
  <2>2. ~sclk_edge
    BY <1>1, <2>1 DEF sclk_edge, LinkMachine
  <2> QED BY <1>2, <1>10, <1>13, <2>1, <2>2
<1> QED BY <1>4, <1>6, <1>7, <1>8, <1>9, <1>11, <1>12, <1>14, <1>15

(* What the EC's CPU does to the FIFO of the SoC's words.                    *)
LEMMA EcReceives ==
  ASSUME LinkTimed, Types, Next, EcMoves
  PROVE  \/ ec_got' = ec_got /\ rx_re' = FALSE
         \/ ec_bus = "idle" /\ ec_bus' = "rd_ack_pipe" /\ Readable(rx_fifo) /\ ec_got' = rx_fifo.dout /\ rx_re' = TRUE
BY DEF EcMoves, EcAccess, EcWrite, EcRead, EcReadEmpty, EcClearErrors, EcNoAccess

(* The words that the EC has still to read are in order, and they are all    *)
(* there unless its FIFO has overflowed.                                     *)
Ordered(q, low, high) ==
  /\ \A i \in 1..Len(q) : low < q[i] /\ q[i] <= high
  /\ \A i, j \in 1..Len(q) : i < j => q[i] < q[j]

Gapless(q, low, high) ==
  /\ \A i \in 1..Len(q) : q[i] = low + i
  /\ high = low + Len(q)

(* A FIFO of ordered words stays in order when it passes one on and takes    *)
(* the next.                                                                 *)
LEMMA OrderKept ==
  ASSUME LinkTimed, NEW f \in Fifos, NEW din \in Word \union {None}, NEW re \in BOOLEAN, NEW g \in Fifos,
         FifoMoved(f, din, re, g), re => Readable(f),
         NEW c \in Nat, Readable(f) /\ ~re => f.dout > c, Readable(f) /\ re => f.dout = c,
         NEW high \in Int, NEW up \in Int, high <= up, din # None => din = high + 1 /\ up = high + 1,
         NEW low, low = IF Readable(f) THEN f.dout ELSE c,
         c <= high, low <= high, Ordered(f.q, low, high),
         NEW to, to = IF Readable(g) THEN g.dout ELSE c
  PROVE  /\ to <= up /\ Ordered(g.q, to, up) /\ (Readable(g) => g.dout > c)
         /\ Readable(f) /\ ~re => g.dout = f.dout
         /\ Gapless(f.q, low, high) /\ (up > high => din # None /\ Writable(f)) /\ up <= high + 1
              => /\ Gapless(g.q, to, up)
                 /\ Readable(g) => g.dout = c + 1 \/ (Readable(f) /\ ~re)
<1> DEFINE n == Len(f.q)
           w == IF din # None /\ Writable(f) THEN 1 ELSE 0
<1>1. /\ f.q \in Seq(Word) /\ n \in Nat /\ w \in {0, 1} /\ \A i \in 1..n : f.q[i] \in Nat /\ f.q[i] # None
      /\ Readable(f) => f.dout \in Nat
      /\ low \in Nat
  <2>1. f.q \in Seq(Word) /\ f.dout \in Word \union {None} /\ MaxWords \in Nat
    BY Lengths DEF Fifos
  <2>2. n \in Nat /\ w \in {0, 1} /\ \A i \in 1..n : f.q[i] \in Word
    BY <2>1, LenProperties
  <2> HIDE DEF n, w
  <2>3. f.dout \in Nat
    BY <2>1 DEF Word, None
  <2> QED BY <2>1, <2>2, <2>3 DEF Word, None
<1>2. /\ \A i \in 1..n : low < f.q[i] /\ f.q[i] <= high
      /\ \A i, j \in 1..n : i < j => f.q[i] < f.q[j]
  BY DEF Ordered
<1>3. w = 1 => din = high + 1 /\ up = high + 1
  OBVIOUS
<1>4. /\ Gapless(f.q, low, high) <=> (\A i \in 1..n : f.q[i] = low + i) /\ high = low + n
      /\ (up > high => din # None /\ Writable(f)) /\ up <= high + 1 => up = high + w
  <2>1. Gapless(f.q, low, high) <=> (\A i \in 1..n : f.q[i] = low + i) /\ high = low + n
    BY DEF Gapless
  <2>2. (up > high => din # None /\ Writable(f)) /\ up <= high + 1 => up = high + w
    OBVIOUS
  <2> QED BY <2>1, <2>2
<1>5. CASE f.q # <<>> /\ (~Readable(f) \/ re)
  <2>1. /\ n >= 1 /\ g.dout = f.q[1] /\ Len(g.q) = n - 1 + w
        /\ \A i \in 1..(n - 1) : g.q[i] = f.q[i + 1]
        /\ w = 1 => g.q[n] = din
    <3>1. /\ Len(f.q) >= 1 /\ g.dout = f.q[1]
          /\ Len(g.q) = Len(f.q) - 1 + (IF din # None /\ Writable(f) THEN 1 ELSE 0)
          /\ \A i \in 1..(Len(f.q) - 1) : g.q[i] = f.q[i + 1]
          /\ din # None /\ Writable(f) => g.q[Len(f.q)] = din
      BY <1>5 DEF FifoMoved
    <3>2. w = (IF din # None /\ Writable(f) THEN 1 ELSE 0) /\ (w = 1 => din # None /\ Writable(f))
      OBVIOUS
    <3> HIDE DEF w
    <3> QED BY <3>1, <3>2
  <2>2. low = c
    BY <1>5
  <2> HIDE DEF n, w
  <2>3. g.dout # None /\ Readable(g) /\ to = f.q[1] /\ to \in Nat /\ c < to /\ to <= high /\ g.dout = to
    <3>1. 1 \in 1..n
      BY <1>1, <2>1
    <3> QED BY <1>1, <1>2, <2>1, <2>2, <3>1 DEF Readable
  <2>4. ASSUME NEW i \in 1..Len(g.q) PROVE to < g.q[i] /\ g.q[i] <= up
    <3>1. CASE i \in 1..(n - 1)
      <4>1. i + 1 \in 1..n /\ 1 \in 1..n /\ 1 < i + 1
        BY <1>1, <2>1, <3>1
      <4>2. to < f.q[i + 1] /\ f.q[i + 1] <= high /\ f.q[i + 1] \in Nat
        BY <1>1, <1>2, <2>3, <4>1
      <4> QED BY <2>1, <2>3, <3>1, <4>2
    <3>2. CASE i \notin 1..(n - 1)
      <4>1. i = n /\ w = 1
        BY <1>1, <2>1, <3>2
      <4> QED BY <1>3, <2>1, <2>3, <4>1
    <3> QED BY <3>1, <3>2
  <2>5. ASSUME NEW i \in 1..Len(g.q), NEW j \in 1..Len(g.q), i < j PROVE g.q[i] < g.q[j]
    <3>1. i \in 1..(n - 1) /\ i + 1 \in 1..n
      BY <1>1, <2>1, <2>5
    <3>2. CASE j \in 1..(n - 1)
      <4>1. j + 1 \in 1..n /\ i + 1 < j + 1
        BY <1>1, <2>5, <3>2
      <4> QED BY <1>2, <2>1, <3>1, <3>2, <4>1
    <3>3. CASE j \notin 1..(n - 1)
      <4>1. j = n /\ w = 1
        BY <1>1, <2>1, <3>3
      <4>2. f.q[i + 1] <= high /\ f.q[i + 1] \in Nat
        BY <1>1, <1>2, <3>1
      <4> QED BY <1>3, <2>1, <3>1, <4>1, <4>2
    <3> QED BY <3>2, <3>3
  <2>6. ASSUME \A i \in 1..n : f.q[i] = low + i, high = low + n, up = high + w
        PROVE  Gapless(g.q, to, up) /\ g.dout = c + 1
    <3>1. to = c + 1
      BY <1>1, <2>1, <2>2, <2>3, <2>6
    <3>2. ASSUME NEW i \in 1..Len(g.q) PROVE g.q[i] = to + i
      <4>1. CASE i \in 1..(n - 1)
        <5>1. i + 1 \in 1..n
          BY <1>1, <2>1, <4>1
        <5>2. f.q[i + 1] = c + (i + 1)
          BY <2>2, <2>6, <5>1
        <5> QED BY <2>1, <3>1, <4>1, <5>2
      <4>2. CASE i \notin 1..(n - 1)
        <5>1. i = n /\ w = 1
          BY <1>1, <2>1, <4>2
        <5>2. g.q[i] = high + 1 /\ high = c + n
          BY <1>3, <2>1, <2>2, <2>6, <5>1
        <5>3. n \in Nat /\ c \in Nat /\ high \in Int
          BY <1>1
        <5> QED BY ONLY <3>1, <5>1, <5>2, <5>3
      <4> QED BY <4>1, <4>2
    <3>3. up = to + Len(g.q)
      BY <1>1, <2>1, <2>2, <2>6, <3>1
    <3> QED BY <2>3, <3>1, <3>2, <3>3 DEF Gapless
  <2>7. to <= up /\ Ordered(g.q, to, up) /\ (Readable(g) => g.dout > c)
    BY <2>3, <2>4, <2>5 DEF Ordered
  <2> QED BY <1>4, <1>5, <2>6, <2>7
<1>6. CASE ~(f.q # <<>> /\ (~Readable(f) \/ re))
  <2>1. /\ g.dout = IF re THEN None ELSE f.dout
        /\ Len(g.q) = n + w
        /\ \A i \in 1..n : g.q[i] = f.q[i]
        /\ w = 1 => g.q[n + 1] = din
    <3>1. /\ g.dout = IF re THEN None ELSE f.dout
          /\ Len(g.q) = Len(f.q) + (IF din # None /\ Writable(f) THEN 1 ELSE 0)
          /\ \A i \in 1..Len(f.q) : g.q[i] = f.q[i]
          /\ din # None /\ Writable(f) => g.q[Len(f.q) + 1] = din
      BY <1>6 DEF FifoMoved
    <3>2. w = (IF din # None /\ Writable(f) THEN 1 ELSE 0) /\ (w = 1 => din # None /\ Writable(f))
      OBVIOUS
    <3> HIDE DEF w
    <3> QED BY <3>1, <3>2
  <2>2. to = low /\ (re => ~Readable(g)) /\ (~re => g.dout = f.dout /\ (Readable(g) <=> Readable(f)))
    BY <2>1 DEF Readable
  <2> HIDE DEF n, w
  <2>3. ASSUME NEW i \in 1..Len(g.q) PROVE to < g.q[i] /\ g.q[i] <= up
    <3>1. CASE i \in 1..n
      <4>1. g.q[i] = f.q[i] /\ low < f.q[i] /\ f.q[i] <= high /\ f.q[i] \in Nat
        BY <1>1, <1>2, <2>1, <3>1
      <4> QED BY <1>1, <2>2, <4>1
    <3>2. CASE i \notin 1..n
      <4>1. i = n + 1 /\ w = 1
        BY <1>1, <2>1, <3>2
      <4> QED BY <1>1, <1>3, <2>1, <2>2, <4>1
    <3> QED BY <3>1, <3>2
  <2>4. ASSUME NEW i \in 1..Len(g.q), NEW j \in 1..Len(g.q), i < j PROVE g.q[i] < g.q[j]
    <3>1. i \in 1..n
      BY <1>1, <2>1, <2>4
    <3>2. CASE j \in 1..n
      BY <1>2, <2>1, <2>4, <3>1, <3>2
    <3>3. CASE j \notin 1..n
      <4>1. j = n + 1 /\ w = 1
        BY <1>1, <2>1, <3>3
      <4>2. f.q[i] <= high /\ f.q[i] \in Nat
        BY <1>1, <1>2, <3>1
      <4> QED BY <1>3, <2>1, <3>1, <4>1, <4>2
    <3> QED BY <3>2, <3>3
  <2>5. ASSUME \A i \in 1..n : f.q[i] = low + i, high = low + n, up = high + w
        PROVE  Gapless(g.q, to, up)
    <3>1. ASSUME NEW i \in 1..Len(g.q) PROVE g.q[i] = to + i
      <4>1. CASE i \in 1..n
        BY <2>1, <2>2, <2>5, <4>1
      <4>2. CASE i \notin 1..n
        <5>1. i = n + 1 /\ w = 1
          BY <1>1, <2>1, <4>2
        <5>2. g.q[i] = high + 1 /\ high = to + n
          BY <1>3, <2>1, <2>2, <2>5, <5>1
        <5>3. n \in Nat /\ to \in Nat /\ high \in Int
          BY <1>1, <2>2
        <5> QED BY ONLY <5>1, <5>2, <5>3
      <4> QED BY <4>1, <4>2
    <3>2. up = to + Len(g.q)
      <4>1. Len(g.q) = n + w /\ n \in Nat /\ w \in {0, 1} /\ to = low /\ low \in Nat
        BY <1>1, <2>1, <2>2
      <4>2. high = low + n /\ up = high + w
        BY <2>5
      <4> QED BY ONLY <4>1, <4>2
    <3> QED BY <3>1, <3>2 DEF Gapless
  <2>6. to <= up /\ Ordered(g.q, to, up) /\ (Readable(g) => g.dout > c)
    <3>1. to <= up
      BY <1>1, <2>2
    <3>2. Readable(g) => g.dout > c
      BY <2>2
    <3> QED BY <2>3, <2>4, <3>1, <3>2 DEF Ordered
  <2> QED BY <1>4, <2>2, <2>5, <2>6
<1> QED BY <1>5, <1>6

(* The EC gets the SoC's words in order, and all of them until its FIFO      *)
(* overflows.                                                                *)
LEMMA RequestsHold ==
  ASSUME LinkTimed, Types, SocInv, EcInv, Requests, Next
  PROVE  /\ Requests'
         /\ rx_fifo' \in Fifos /\ Len(rx_fifo'.q) <= Depth /\ ec_got' \in Nat
         /\ ec_got' \in Word \union {None, Junk, Underflow}
         /\ ec_got' # ec_got => ec_got' > ec_got /\ (~overrun => ec_got' = ec_got + 1)
<1>1. /\ rx_fifo \in Fifos /\ ec_got \in Nat /\ rx_re \in BOOLEAN /\ Len(rx_fifo.q) \in Nat /\ MaxWords \in Nat
      /\ Len(rx_fifo.q) <= Depth /\ rx_fifo.dout \in Word \union {None}
      /\ ec_got \in Word \union {None, Junk, Underflow} /\ overrun \in BOOLEAN
  <2>1. rx_fifo \in Fifos /\ ec_got \in Nat /\ rx_re \in BOOLEAN /\ Len(rx_fifo.q) <= Depth
        /\ ec_got \in Word \union {None, Junk, Underflow} /\ overrun \in BOOLEAN
    BY DEF Types, TypeOK
  <2> QED BY <2>1, LenProperties, Lengths DEF Fifos
<1>2. /\ rx_re => Readable(rx_fifo) /\ rx_fifo.dout = ec_got /\ ec_bus = "rd_ack_pipe"
      /\ Readable(rx_fifo) /\ ~rx_re => rx_fifo.dout > ec_got
      /\ ec_got <= pushed /\ base <= pushed
      /\ Ordered(rx_fifo.q, base, pushed)
      /\ ~overrun => /\ Readable(rx_fifo) /\ ~rx_re => rx_fifo.dout = ec_got + 1
                     /\ Gapless(rx_fifo.q, base, pushed)
  BY DEF Requests, Ordered, Gapless
<1>3. /\ pushed \in Int /\ pushed' \in Int
      /\ Pulse => pushed' = pushed + 1 /\ rx_sr = pushed + 1 /\ rx_sr \in Word
      /\ ~Pulse => pushed' = pushed
      /\ asked' \/ pending' => tx' > 0
      /\ ~csn' \/ pending' => tx_r' = tx'
      /\ fsm' = "POST_ASSERT" \/ (csn' /\ pending') => rx_sr' = tx'
  BY PushedMoves
<1>4. CASE ec # 0
  <2>1. UNCHANGED ecVars /\ ~Pulse
    BY <1>4, Steps, PulseMoves DEF EcRests, Pulse
  <2>2. rx_fifo' = rx_fifo /\ rx_re' = rx_re /\ ec_got' = ec_got /\ overrun' = overrun /\ ec_bus' = ec_bus /\ pushed' = pushed
    BY <1>3, <2>1 DEF ecVars, fifoVars, busVars
  <2>3. base' = base
    BY <2>2 DEF base
  <2>4. /\ rx_re' => Readable(rx_fifo') /\ rx_fifo'.dout = ec_got' /\ ec_bus' = "rd_ack_pipe"
        /\ Readable(rx_fifo') /\ ~rx_re' => rx_fifo'.dout > ec_got'
        /\ ec_got' <= pushed' /\ base' <= pushed'
        /\ Ordered(rx_fifo'.q, base', pushed')
        /\ ~overrun' => /\ Readable(rx_fifo') /\ ~rx_re' => rx_fifo'.dout = ec_got' + 1
                        /\ Gapless(rx_fifo'.q, base', pushed')
    BY <1>2, <2>2, <2>3
  <2>5. Requests'
    BY <1>3, <2>4 DEF Requests, Ordered, Gapless
  <2> QED BY <1>1, <2>2, <2>5
<1>5. CASE ec = 0
  <2>1. /\ EcMoves /\ (Pulse <=> donepulse) /\ donepulse \in BOOLEAN
        /\ rx_fifo' = Fifo(rx_fifo, IF donepulse THEN rx_sr ELSE None, rx_re)
        /\ overrun' = (overrun \/ (donepulse /\ ~Writable(rx_fifo)))
    BY <1>5, PulseMoves DEF EcMoves, Peripheral, Pulse, donepulse
  <2>2. PICK din : din = IF donepulse THEN rx_sr ELSE None
    OBVIOUS
  <2>3. PICK g : rx_fifo' = g
    OBVIOUS
  <2>4. PICK up \in Int : pushed' = up
    BY <1>3
  <2>5. PICK to : to = IF Readable(g) THEN g.dout ELSE ec_got
    OBVIOUS
  <2>6. /\ din \in Word \union {None}
        /\ din # None => din = pushed + 1 /\ up = pushed + 1 /\ donepulse
        /\ donepulse => din # None /\ up = pushed + 1
        /\ ~donepulse => up = pushed
        /\ pushed <= up /\ up <= pushed + 1
    <3>1. CASE donepulse
      <4>1. din = rx_sr /\ rx_sr = pushed + 1 /\ rx_sr \in Word /\ up = pushed + 1
        BY <1>3, <2>1, <2>2, <2>4, <3>1
      <4> QED BY <1>1, <1>3, <3>1, <4>1 DEF Word, None
    <3>2. CASE ~donepulse
      <4>1. din = None /\ up = pushed
        BY <1>3, <2>1, <2>2, <2>4, <3>2
      <4> QED BY <1>3, <3>2, <4>1
    <3> QED BY <3>1, <3>2
  <2>7. g \in Fifos /\ FifoMoved(rx_fifo, din, rx_re, g)
    <3>1. g = Fifo(rx_fifo, din, rx_re)
      BY <2>1, <2>2, <2>3
    <3> QED BY <1>1, <2>6, <3>1, FifoMoves
  <2>8. /\ to <= up /\ Ordered(g.q, to, up) /\ (Readable(g) => g.dout > ec_got)
        /\ Readable(rx_fifo) /\ ~rx_re => g.dout = rx_fifo.dout
        /\ Gapless(rx_fifo.q, base, pushed) /\ (up > pushed => din # None /\ Writable(rx_fifo)) /\ up <= pushed + 1
             => /\ Gapless(g.q, to, up)
                /\ Readable(g) => g.dout = ec_got + 1 \/ (Readable(rx_fifo) /\ ~rx_re)
    <3>1. base = IF Readable(rx_fifo) THEN rx_fifo.dout ELSE ec_got
      BY DEF base
    <3>2. rx_re => Readable(rx_fifo)
      BY <1>2
    <3>3. /\ Readable(rx_fifo) /\ ~rx_re => rx_fifo.dout > ec_got
          /\ Readable(rx_fifo) /\ rx_re => rx_fifo.dout = ec_got
      BY <1>2
    <3>4. pushed \in Int /\ up \in Int /\ pushed <= up /\ (din # None => din = pushed + 1 /\ up = pushed + 1)
      BY <1>3, <2>4, <2>6
    <3>5. ec_got <= pushed /\ base <= pushed /\ Ordered(rx_fifo.q, base, pushed)
      BY <1>2
    <3> QED BY <1>1, <2>5, <2>6, <2>7, <3>1, <3>2, <3>3, <3>4, <3>5, OrderKept
  <2>9. ~overrun' => /\ ~overrun
                     /\ Gapless(g.q, to, up)
                     /\ Readable(g) => g.dout = ec_got + 1
    <3> SUFFICES ASSUME ~overrun'
                 PROVE  ~overrun /\ Gapless(g.q, to, up) /\ (Readable(g) => g.dout = ec_got + 1)
      OBVIOUS
    <3>1. ~overrun /\ (donepulse => Writable(rx_fifo))
      BY <2>1
    <3>2. up > pushed => din # None /\ Writable(rx_fifo)
      BY <1>3, <2>6, <3>1
    <3>3. Gapless(rx_fifo.q, base, pushed) /\ (Readable(rx_fifo) /\ ~rx_re => rx_fifo.dout = ec_got + 1)
      BY <1>2, <3>1
    <3>4. up <= pushed + 1
      BY <2>6
    <3>5. Gapless(g.q, to, up) /\ (Readable(g) => g.dout = ec_got + 1 \/ (Readable(rx_fifo) /\ ~rx_re))
      BY <2>8, <3>2, <3>3, <3>4
    <3>6. Readable(rx_fifo) /\ ~rx_re => g.dout = ec_got + 1
      BY <2>8, <3>3
    <3> QED BY <3>1, <3>5, <3>6
  <2>10. Len(g.q) <= Depth /\ g.dout \in Nat
    <3>1. Len(g.q) <= Depth
      BY <1>1, <2>7, FifoFits
    <3>2. g.dout \in Word \union {None}
      BY <2>7 DEF Fifos
    <3>3. MaxWords \in Nat
      BY <1>1
    <3>4. g.dout \in Nat
      BY ONLY <3>2, <3>3 DEF Word, None
    <3> QED BY <3>1, <3>4
  <2>11. CASE ec_got' = ec_got /\ rx_re' = FALSE
    <3>1. base' = to
      BY <2>3, <2>5, <2>11 DEF base
    <3>2. /\ rx_re' => Readable(rx_fifo') /\ rx_fifo'.dout = ec_got' /\ ec_bus' = "rd_ack_pipe"
          /\ Readable(rx_fifo') /\ ~rx_re' => rx_fifo'.dout > ec_got'
      BY <2>3, <2>8, <2>11
    <3>3. ec_got' <= pushed' /\ base' <= pushed'
      <4>1. ec_got <= up
        BY <1>1, <1>2, <1>3, <2>4, <2>6
      <4> QED BY <2>4, <2>8, <2>11, <3>1, <4>1
    <3>4. Ordered(rx_fifo'.q, base', pushed')
      BY <2>3, <2>4, <2>8, <3>1
    <3>5. ~overrun' => /\ Readable(rx_fifo') /\ ~rx_re' => rx_fifo'.dout = ec_got' + 1
                       /\ Gapless(rx_fifo'.q, base', pushed')
      BY <2>3, <2>4, <2>9, <2>11, <3>1
    <3>6. Requests'
      BY <1>3, <3>2, <3>3, <3>4, <3>5 DEF Requests, Ordered, Gapless
    <3> QED BY <1>1, <2>3, <2>7, <2>10, <2>11, <3>6
  <2>12. CASE ec_bus = "idle" /\ ec_bus' = "rd_ack_pipe" /\ Readable(rx_fifo) /\ ec_got' = rx_fifo.dout /\ rx_re' = TRUE
    <3>1. ~rx_re /\ g.dout = rx_fifo.dout /\ Readable(g) /\ to = g.dout /\ base = rx_fifo.dout
      BY <1>2, <2>5, <2>8, <2>12 DEF Readable, base
    <3>2. base' = to /\ ec_got' = to
      BY <2>3, <2>12, <3>1 DEF base
    <3>3. /\ rx_re' => Readable(rx_fifo') /\ rx_fifo'.dout = ec_got' /\ ec_bus' = "rd_ack_pipe"
          /\ Readable(rx_fifo') /\ ~rx_re' => rx_fifo'.dout > ec_got'
      BY <2>3, <2>12, <3>1
    <3>4. ec_got' <= pushed' /\ base' <= pushed'
      BY <2>4, <2>8, <3>2
    <3>5. Ordered(rx_fifo'.q, base', pushed')
      BY <2>3, <2>4, <2>8, <3>2
    <3>6. ~overrun' => /\ Readable(rx_fifo') /\ ~rx_re' => rx_fifo'.dout = ec_got' + 1
                       /\ Gapless(rx_fifo'.q, base', pushed')
      BY <2>3, <2>4, <2>9, <2>12, <3>2
    <3>7. Requests'
      BY <1>3, <3>3, <3>4, <3>5, <3>6 DEF Requests, Ordered, Gapless
    <3>8. rx_fifo.dout > ec_got /\ (~overrun => rx_fifo.dout = ec_got + 1)
      BY <1>2, <2>12, <3>1
    <3>9. rx_fifo.dout \in Nat /\ rx_fifo.dout \in Word \union {None, Junk, Underflow}
      BY <1>1 DEF Word, None
    <3> QED BY <2>3, <2>7, <2>10, <2>12, <3>7, <3>8, <3>9
  <2> QED BY <2>1, <2>11, <2>12, EcReceives
<1> QED BY <1>4, <1>5

-----------------------------------------------------------------------------
(* Together.                                                                 *)

(* Every register stays in its range: the shift registers and the CPUs only  *)
(* ever get words that were sent.                                            *)
LEMMA TypesHold ==
  ASSUME LinkTimed, LinkInv, Next
  PROVE  Types'
<1>1. Types /\ SocInv /\ EcInv /\ Replies /\ Requests /\ LinkMachine
  BY DEF LinkInv, SocInv
<1>2. TypeOK
  BY <1>1 DEF Types
<1> DEFINE Whole == Word \union {None, Junk, Underflow}
<1>3. autohold' \in AutoHolds
  BY <1>1, <1>2, Steps DEF TypeOK
<1>4. spi' \in 0..(SpiDiv - 1) /\ \E p \in EcPeriods : ec' \in 0..(p - 1)
  <2>1. spi \in 0..(SpiDiv - 1) /\ SpiDiv \in Nat /\ SpiDiv >= 1
    BY <1>2, Lengths DEF TypeOK
  <2>2. spi' \in 0..(SpiDiv - 1)
    BY <1>1, <2>1, Steps DEF Within, AtEdge
  <2>3. CASE EcMoves
    <3>1. PICK p \in EcPeriods : ec' = p - 1
      BY <2>3 DEF EcMoves
    <3> QED BY <2>2, <3>1, Lengths
  <2>4. CASE EcRests
    <3>1. PICK p \in EcPeriods : ec \in 0..(p - 1)
      BY <1>2 DEF TypeOK
    <3>2. ec' = ec - 1 /\ ec > 0 /\ p \in Nat
      BY <2>4, Lengths DEF EcRests
    <3> QED BY <2>2, <3>1, <3>2
  <2> QED BY <1>1, <2>3, <2>4, Steps
<1>5. tx' \in 0..MaxWords
  BY <1>1, PushedMoves
<1>6. count' \in 0..Stretch
  <2>1. count \in 0..Stretch /\ Stretch \in Nat /\ tx_re \in BOOLEAN
    BY <1>2, Lengths DEF TypeOK
  <2>2. count' = (IF tx_re THEN Stretch ELSE IF count > 0 THEN count - 1 ELSE 0)
    BY <1>1, SocMoves
  <2> QED BY <2>1, <2>2
<1>7. /\ tx_written_d \in BOOLEAN /\ clk_run \in BOOLEAN /\ csn \in BOOLEAN /\ spicount \in 0..15
      /\ fsm \in {"IDLE", "PRE_ASSERT", "RUN", "POST_ASSERT", "SAMPLE", "WAIT"}
      /\ tx_r \in Whole /\ rx_status \in Whole /\ tx_sr \in Whole /\ rx_sr \in Whole
  BY <1>2 DEF TypeOK
<1>8. /\ fsm' \in {"IDLE", "PRE_ASSERT", "RUN", "POST_ASSERT", "SAMPLE", "WAIT"}
      /\ spicount' \in 0..15 /\ tx_written_d' \in BOOLEAN /\ clk_run' \in BOOLEAN /\ csn' \in BOOLEAN
      /\ tx_r' \in Whole /\ rx_status' \in Whole
  <2>1. Bits \in 1..16 /\ (tx \in Whole)
    BY <1>2, Lengths DEF TypeOK, Word, None
  <2>2. csn' \in BOOLEAN
    BY <1>1, SelectMoves
  <2> HIDE DEF Whole
  <2>3. CASE Within
    BY <1>7, <2>2, <2>3 DEF Within, spiVars
  <2>4. ASSUME AtEdge PROVE tx_written_d' \in BOOLEAN
    BY <2>4 DEF AtEdge, tx_written
  <2>5. CASE AtEdge /\ FsmIdle
    <3>1. PICK start : start = (tx_go /\ ~(autohold /\ hold))
      OBVIOUS
    <3>2. /\ fsm' = IF start THEN "PRE_ASSERT" ELSE "IDLE"
          /\ tx_r' = IF start THEN tx ELSE tx_r
          /\ spicount' = IF start THEN Bits - 1 ELSE spicount
          /\ clk_run' = FALSE /\ rx_status' = rx_status
      BY <2>5, <3>1 DEF FsmIdle
    <3>3. CASE start
      <4>1. fsm' = "PRE_ASSERT" /\ tx_r' = tx /\ spicount' = Bits - 1
        BY <3>2, <3>3
      <4>2. spicount' \in 0..15 /\ tx_r' \in Whole /\ rx_status' \in Whole /\ clk_run' \in BOOLEAN
        <5>1. spicount' \in 0..15
          <6>1. Bits \in 1..16 /\ spicount' = Bits - 1
            BY <2>1, <4>1
          <6> QED BY ONLY <6>1
        <5>2. tx_r' \in Whole /\ rx_status' \in Whole
          BY <1>7, <2>1, <3>2, <4>1
        <5>3. clk_run' \in BOOLEAN
          BY <3>2
        <5> QED BY <5>1, <5>2, <5>3
      <4> QED BY <2>2, <2>4, <2>5, <4>1, <4>2
    <3>4. CASE ~start
      BY <1>7, <2>1, <2>2, <2>4, <2>5, <3>2, <3>4
    <3> QED BY <3>3, <3>4
  <2>6. CASE AtEdge /\ FsmPreAssert
    BY <1>7, <2>2, <2>4, <2>6 DEF FsmPreAssert
  <2>7. CASE AtEdge /\ FsmRun
    <3>1. clk_run' \in BOOLEAN
      BY <2>7 DEF FsmRun
    <3>2. spicount' \in 0..15 /\ (fsm' = "RUN" \/ fsm' = "POST_ASSERT")
      BY <1>7, <2>7 DEF FsmRun, turnaround_delay
    <3>3. UNCHANGED <<csn, tx_r, rx_status>>
      BY <2>7 DEF FsmRun
    <3> QED BY <1>7, <2>2, <2>4, <2>7, <3>1, <3>2, <3>3
  <2>8. CASE AtEdge /\ FsmPostAssert
    BY <1>7, <2>2, <2>4, <2>8 DEF FsmPostAssert
  <2>9. CASE AtEdge /\ FsmSample
    BY <1>7, <2>2, <2>4, <2>9 DEF FsmSample
  <2>10. CASE AtEdge /\ FsmWait
    <3>1. spicount' \in 0..15
      BY <1>7, <2>10 DEF FsmWait
    <3> QED BY <1>7, <2>2, <2>4, <2>10, <3>1 DEF FsmWait
  <2> QED BY <1>1, <2>3, <2>5, <2>6, <2>7, <2>8, <2>9, <2>10, Steps
<1>9. spi_load' \in BOOLEAN /\ tx_sr' \in Whole /\ rx_sr' \in Whole
  <2>1. /\ rx_sr' = IF sclk_edge THEN (IF spicount = 0 THEN tx_r ELSE Junk) ELSE rx_sr
        /\ spi_load' = (csn' \/ (spi_load /\ ~sclk_edge))
        /\ \/ tx_sr' = tx_sr
           \/ \E f \in {tx_fifo, tx_fifo'} : tx_sr' = IF Readable(f) THEN f.dout ELSE Underflow
    BY <1>1, Steps DEF Shift
  <2>2. tx_fifo \in Fifos /\ tx_fifo' \in Fifos
    BY <1>1, RepliesHold DEF Types
  <2>3. rx_sr' \in Whole
    BY <1>7, <2>1
  <2>4. tx_sr' \in Whole
    BY <1>7, <2>1, <2>2 DEF Fifos
  <2> QED BY <2>1, <2>3, <2>4
<1>10. /\ tx_re' \in BOOLEAN /\ tip' \in BOOLEAN /\ done_m' \in BOOLEAN /\ done_r' \in BOOLEAN
       /\ hold_m' \in BOOLEAN /\ hold' \in BOOLEAN
  BY <1>1, <1>2, SocMoves, DriverMoves DEF TypeOK
<1>11. /\ tip_m' \in BOOLEAN /\ tip_r' \in BOOLEAN /\ tip_d' \in BOOLEAN /\ rx_re' \in BOOLEAN
       /\ clrerr' \in BOOLEAN /\ rx_over' \in BOOLEAN /\ tx_under' \in BOOLEAN /\ tx_over' \in BOOLEAN
       /\ tx_over_flag' \in BOOLEAN /\ overrun' \in BOOLEAN
       /\ ec_bus' \in {"idle", "stalled", "wr_ack", "rd_ack_pipe", "rd_ack"}
  <2>1. /\ tip_m \in BOOLEAN /\ tip_r \in BOOLEAN /\ tip_d \in BOOLEAN /\ rx_re \in BOOLEAN
        /\ clrerr \in BOOLEAN /\ rx_over \in BOOLEAN /\ tx_under \in BOOLEAN /\ tx_over \in BOOLEAN
        /\ tx_over_flag \in BOOLEAN /\ overrun \in BOOLEAN
        /\ ec_bus \in {"idle", "stalled", "wr_ack", "rd_ack_pipe", "rd_ack"}
    BY <1>1, <1>2 DEF TypeOK, Types
  <2>2. CASE EcRests
    BY <2>1, <2>2 DEF EcRests, ecVars, syncVars, fifoVars, busVars
  <2>3. CASE EcMoves
    <3>1. /\ tip_m' \in BOOLEAN /\ tip_r' \in BOOLEAN /\ tip_d' \in BOOLEAN
          /\ rx_over' \in BOOLEAN /\ tx_under' \in BOOLEAN /\ tx_over' \in BOOLEAN /\ overrun' \in BOOLEAN
      BY <2>1, <2>3 DEF EcMoves, Peripheral
    <3>2. /\ clrerr' \in BOOLEAN /\ tx_over_flag' \in BOOLEAN /\ rx_re' \in BOOLEAN
          /\ ec_bus' \in {"idle", "stalled", "wr_ack", "rd_ack_pipe", "rd_ack"}
      BY <2>1, <2>3 DEF EcMoves, EcAccess, EcWrite, EcRead, EcReadEmpty, EcClearErrors, EcNoAccess
    <3> QED BY <3>1, <3>2
  <2> QED BY <1>1, <2>2, <2>3, Steps
<1>12. gap' \in 0..(AccessTicks - 1) /\ drv' \in {"tip", "rx", "hold", "write"}
  <2>1. gap \in 0..(AccessTicks - 1) /\ AccessTicks \in Nat /\ AccessTicks >= 2 /\ drv \in {"tip", "rx", "hold", "write"}
    BY <1>1, Lengths DEF Types
  <2>2. gap' \in 0..(AccessTicks - 1)
    <3>1. gap' = AccessTicks - 1 \/ gap' = (IF gap > 0 THEN gap - 1 ELSE 0)
      BY <1>1, DriverMoves DEF DriverTip, DriverRead, DriverHold, DriverWrite, DriverRests, Looks
    <3> QED BY <2>1, <3>1
  <2>3. drv' \in {"tip", "rx", "hold", "write"}
    BY <1>1, <2>1, DriverMoves DEF DriverTip, DriverRead, DriverHold, DriverWrite, DriverRests
  <2> QED BY <2>2, <2>3
<1>13. soc_got' \in Nat /\ soc_got' \in Whole
  <2>1. soc_got \in Nat /\ soc_got \in Whole
    BY <1>1, <1>2 DEF Types, TypeOK
  <2>2. CASE DriverRead
    <3>1. soc_got' = rx_status /\ soc_got' = soc_got + 1
      BY <1>1, <2>2, NextMoves DEF DriverRead
    <3> QED BY <1>7, <2>1, <3>1
  <2>3. CASE ~DriverRead
    BY <1>1, <2>1, <2>3, AnsweredMoves
  <2> QED BY <2>2, <2>3
<1>14. tx_fifo' \in Fifos /\ Len(tx_fifo'.q) <= Depth /\ ec_sent' \in Nat /\ ec_sent' <= MaxWords
       /\ tx_we' \in Word \union {None}
  <2>1. tx_fifo \in Fifos /\ Len(tx_fifo.q) <= Depth /\ tx_we \in Word \union {None}
    BY <1>1, <1>2 DEF Types, TypeOK
  <2>2. Len(tx_fifo'.q) <= Depth
    <3>1. CASE EcRests
      BY <2>1, <3>1 DEF EcRests, ecVars, fifoVars
    <3>2. CASE EcMoves
      <4>1. PICK g : g = tx_fifo'
        OBVIOUS
      <4>2. g = Fifo(tx_fifo, tx_we, donepulse) /\ donepulse \in BOOLEAN
        BY <3>2, <4>1 DEF EcMoves, Peripheral, donepulse
      <4>3. Len(g.q) <= Depth
        BY <2>1, <4>2, FifoMoves, FifoFits
      <4> QED BY <4>1, <4>3
    <3> QED BY <1>1, <3>1, <3>2, Steps
  <2> QED BY <1>1, <2>2, RepliesHold
<1>15. rx_fifo' \in Fifos /\ Len(rx_fifo'.q) <= Depth /\ ec_got' \in Nat /\ ec_got' \in Whole
  BY <1>1, RequestsHold
<1>16. TypeOK'
  BY <1>3, <1>4, <1>5, <1>6, <1>8, <1>9, <1>10, <1>11, <1>13, <1>14, <1>15 DEF TypeOK
<1> QED BY <1>11, <1>12, <1>13, <1>14, <1>15, <1>16 DEF Types

(* The link starts in the invariant.                                         *)
LEMMA LinkStarts ==
  ASSUME LinkTimed, Init
  PROVE  LinkInv
<1>1. /\ SpiDiv \in Nat /\ SpiDiv >= 1 /\ Depth \in Nat /\ MaxWords \in Nat /\ Stretch \in Nat
      /\ AccessTicks \in Nat /\ AccessTicks >= 2 /\ CheckHold = TRUE
  BY Lengths
<1>2. Empty \in Fifos /\ ~Readable(Empty) /\ Len(Empty.q) = 0 /\ Empty.q = <<>>
  BY DEF Empty, Fifos, Readable
<1>3. Types
  <2>1. \E p \in EcPeriods : ec \in 0..(p - 1)
    <3>1. PICK p \in EcPeriods : ec = p - 1
      BY DEF Init
    <3> QED BY <3>1, Lengths
  <2>2. /\ autohold \in AutoHolds /\ spi \in 0..(SpiDiv - 1)
        /\ tx \in 0..MaxWords /\ count \in 0..Stretch /\ spicount \in 0..15
        /\ fsm \in {"IDLE", "PRE_ASSERT", "RUN", "POST_ASSERT", "SAMPLE", "WAIT"}
    BY <1>1 DEF Init, None
  <2>3. {tx_re, tip, done_m, done_r, hold_m, hold, tx_written_d, clk_run, csn, spi_load, overrun,
         tip_m, tip_r, tip_d, rx_re, clrerr, rx_over, tx_under, tx_over, tx_over_flag} \subseteq BOOLEAN
    BY DEF Init
  <2>4. /\ {tx_r, tx_sr, rx_sr, rx_status, soc_got, ec_got} \subseteq Word \union {None, Junk, Underflow}
        /\ \A f \in {rx_fifo, tx_fifo} : Len(f.q) <= Depth
    BY <1>1, <1>2 DEF Init
  <2>5. TypeOK
    BY <2>1, <2>2, <2>3, <2>4 DEF TypeOK
  <2> QED BY <1>1, <1>2, <2>5 DEF Init, Types, None
<1>4. SocInv
  BY <1>1 DEF Init, SocInv, LinkMachine, Asking, Ending, asked, setdone
<1>5. EcInv
  BY <1>1 DEF Init, EcInv, Selected, Offered, pending, waiting, asked
<1>6. Replies
  <2>1. next = 1 + 0 /\ answered = FALSE
    BY <1>1 DEF Init, next, answered, pending, None
  <2> QED BY <1>2, <2>1 DEF Init, Replies, Count, None
<1>7. Requests
  <2>1. pushed = 0 /\ base = 0
    BY <1>2 DEF Init, pushed, base, waiting, asked, pending, None
  <2> QED BY <1>2, <2>1 DEF Init, Requests, asked, pending, None
<1> QED BY <1>3, <1>4, <1>5, <1>6, <1>7 DEF LinkInv

(* Every step keeps it.                                                      *)
LEMMA LinkStep ==
  ASSUME LinkTimed, LinkInv, Next
  PROVE  LinkInv'
<1>1. Types /\ SocInv /\ EcInv /\ Replies /\ Requests /\ LinkMachine /\ Asking /\ Ending
  BY DEF LinkInv, SocInv
<1>2. SocInv'
  BY <1>1, MachineHolds, AskingHolds, EndingHolds DEF SocInv
<1>3. EcInv'
  BY <1>1, SelectedHolds, OfferedHolds DEF EcInv
<1> QED BY <1>1, <1>2, <1>3, TypesHold, RepliesHold, RequestsHold DEF LinkInv

(* A step that changes nothing keeps it too.                                 *)
LEMMA LinkStutters ==
  ASSUME LinkInv, UNCHANGED vars
  PROVE  LinkInv'
BY DEF LinkInv, vars, clockVars, socVars, spiVars, sclkVars, syncVars, fifoVars, busVars, cpuVars,
   Types, TypeOK, SocInv, LinkMachine, Asking, Ending, EcInv, Selected, Offered, Replies, Requests,
   beat, asked, finishing, waiting, Since, setdone, pending, edges, Fell, Rose, answered, next, pushed, base

(* The invariant of the link.                                                *)
THEOREM LinkInvariant ==
  ASSUME LinkTimed
  PROVE  Spec => []LinkInv
<1>1. Init => LinkInv
  BY LinkStarts
<1>2. LinkInv /\ [Next]_vars => LinkInv'
  BY LinkStep, LinkStutters
<1> QED BY <1>1, <1>2, PTL DEF Spec

(* The words that the SoC's CPU reads are the EC's, in order: a driver that  *)
(* looks at hold before it writes gets each of them once and never the code  *)
(* for an empty FIFO, and the EC gets the SoC's in order and all of them     *)
(* unless its FIFO has overflowed; no register leaves its range              *)
(* (spi_7series.py:165, spi_ice40.py:252, 330, 352).                         *)
THEOREM WordsInOrderCorrect ==
  ASSUME LinkTimed
  PROVE  Spec => WordsInOrder
<1>1. LinkInv => TypeOK
  BY DEF LinkInv, Types
<1>2. LinkInv /\ [Next]_vars => [soc_got' # soc_got => soc_got' = soc_got + 1]_vars
  <2>1. ASSUME LinkInv, Next, soc_got' # soc_got PROVE soc_got' = soc_got + 1
    BY <2>1, AnsweredMoves, NextMoves DEF LinkInv
  <2> QED BY <2>1
<1>3. LinkInv /\ [Next]_vars =>
        [ec_got' # ec_got => \/ ec_got' = ec_got + 1
                             \/ overrun /\ ec_got' > ec_got]_vars
  <2>1. ASSUME LinkInv, Next, ec_got' # ec_got PROVE ec_got' = ec_got + 1 \/ (overrun /\ ec_got' > ec_got)
    BY <2>1, RequestsHold DEF LinkInv
  <2> QED BY <2>1
<1> QED BY <1>1, <1>2, <1>3, LinkInvariant, PTL DEF Spec, WordsInOrder, RepliesInOrder, RequestsInOrder
=============================================================================

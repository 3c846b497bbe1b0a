-------------------------------- MODULE Sram --------------------------------
(***************************************************************************)
(* The controller of the external SRAM (sram_32_cached.py), between the    *)
(* L2 cache, which asks for whole lines, and the chip, which wants its     *)
(* pins held for times that the controller counts in cycles.               *)
(*                                                                         *)
(* Registers that the state machine assigns are the fields of r.  Pins are *)
(* registered once more behind them.  A word of data is a model value.     *)
(***************************************************************************)
EXTENDS Integers, Sequences

CONSTANTS
  Words,           \* of a line: 8
  Lines, NoLine,   \* addresses of lines
  Value, Undefined, \* contents of words
  rd_timing, wr_timing, page_rd_timing,   \* as given to the constructor, in cycles
  ConfigTiming,    \* 12
  ResetCycles,     \* 50
  DataSetup,       \* cycles the chip wants data before WE rises
  Exclusive        \* no configuration read is asked for in the cycle in which the idle machine
                   \* finds a request

(* The chip wants its data for a while before a write ends, and a word of an *)
(* open page no later than the first word of a line.                         *)
SramAssumption ==
  /\ {Words, rd_timing, wr_timing, ConfigTiming, ResetCycles, DataSetup} \subseteq Nat \ {0}
  /\ page_rd_timing \in Nat /\ page_rd_timing > 1 /\ page_rd_timing - 1 <= rd_timing + 1
  /\ DataSetup < wr_timing
  /\ Lines # {} /\ Value # {}

VARIABLES
  bus,            \* cbus: cyc (with stb), we, line, data
  read_config,    \* CSR, a pulse
  reset_counter, load_config, sram_ready,
  r,              \* the state machine and what it assigns
  counter,
  data_reg, read_ram, read_reg, sync_oe,
  pins,           \* ce_n, oe_n, we_n, zz_n, adr, data
  mem, page,      \* the chip: contents, page mode configured
  age, dage,      \* cycles since its address and control, its data pins changed, as far as it matters
  open,           \* the line whose first access is complete
  stored          \* history: what the cache wrote

ramVars == <<bus, read_config, reset_counter, load_config, sram_ready, r, counter,
             data_reg, read_ram, read_reg, sync_oe, pins, mem, page, age, dage, open, stored>>

(* Words at different places of a line differ. *)
Contents(v) == [i \in 0..(Words - 1) |-> <<v, i>>]
LineData == {Contents(v) : v \in Value}

(* The timings as the constructor adjusts them, and what the chip needs.     *)
rdTiming == rd_timing + 1
pageTiming == page_rd_timing - 1
MaxAge == IF rdTiming > wr_timing THEN rdTiming ELSE wr_timing

Config == [config |-> "all"]   \* address 0x3fffff
Mode == [config |-> "mode"]    \* address 0xf0, the value for the mode register
At(line, word) == [line |-> line, word |-> word]

RamInit ==
  /\ bus = [cyc |-> FALSE, we |-> FALSE, line |-> CHOOSE l \in Lines : TRUE,
            data |-> CHOOSE d \in LineData : TRUE]
  /\ read_config = FALSE
  /\ reset_counter = ResetCycles /\ load_config = FALSE /\ sram_ready = FALSE
  /\ r = [fsm |-> "IDLE", ack |-> FALSE, zz |-> TRUE, burst |-> 0, limit |-> 0,
          load |-> FALSE, shift |-> FALSE, config |-> FALSE, ce_early |-> FALSE,
          override |-> FALSE, ce_n |-> TRUE, we_n |-> TRUE, oe_n |-> TRUE, status |-> FALSE]
  /\ counter = 0
  /\ data_reg = Undefined /\ read_ram = Undefined /\ sync_oe = FALSE
  /\ read_reg = [i \in 1..Words |-> Undefined]
  /\ pins = [ce_n |-> TRUE, oe_n |-> TRUE, we_n |-> TRUE, zz_n |-> TRUE,
             adr |-> Config, data |-> Undefined]
  /\ \E d \in LineData : mem = [l \in Lines |-> d]
  /\ page = FALSE /\ age = 0 /\ dage = 0 /\ open = NoLine
  /\ stored = mem

-----------------------------------------------------------------------------
(* The cache and software. *)

NoRequest == UNCHANGED bus

(* A request stays until it is acknowledged; the next may follow at once.    *)
Request == /\ ~bus.cyc \/ r.ack
           /\ sram_ready
           /\ \E l \in Lines, d \in LineData, w \in BOOLEAN :
                bus' = [cyc |-> TRUE, we |-> w, line |-> l, data |-> IF w THEN d ELSE bus.data]

Release == r.ack /\ bus' = [bus EXCEPT !.cyc = FALSE]

Cache == \/ (bus.cyc => ~r.ack) /\ NoRequest
         \/ Request
         \/ Release

(* Software asks for the mode of the chip; outside IDLE nobody hears it.     *)
RamSoftware == /\ read_config' \in BOOLEAN
               /\ read_config' => sram_ready
               /\ Exclusive /\ bus'.cyc /\ r'.fsm = "IDLE" => ~read_config'

-----------------------------------------------------------------------------
(* The state machine. *)

counter_done == counter >= r.limit
counter_almost_done == counter = r.limit - 1
last == r.burst = Words - 1

counter_en ==
  \/ r.fsm \in {"CFGRD1", "CFGRD2", "CFGWR1", "CFGRD3", "CONFIG", "RD", "RACK", "WR", "WACK"}
  \/ r.fsm = "IDLE" /\ ~load_config /\ bus.cyc /\ ~bus.we

Counter == counter' = IF counter_en /\ ~counter_done THEN counter + 1 ELSE 0

(* Fault: a read starts with the limit that the one before has left. *)
IdleStaleLimit ==
  /\ r.fsm = "IDLE"
  /\ LET s == [r EXCEPT !.ack = FALSE, !.config = FALSE, !.zz = TRUE]
     IN r' = CASE load_config -> [s EXCEPT !.limit = ConfigTiming, !.zz = FALSE, !.fsm = "CONFIG_PRE"]
               [] ~load_config /\ bus.cyc /\ bus.we -> [s EXCEPT !.burst = 0, !.fsm = "WR_CE"]
               [] ~load_config /\ bus.cyc /\ ~bus.we ->
                    [s EXCEPT !.burst = 0, !.load = TRUE,
                              !.limit = IF r.limit = 0 THEN rdTiming ELSE r.limit, !.fsm = "RD"]
               [] OTHER -> s

(* Where two assignments meet, the later one wins: a configuration read that *)
(* comes with a request is forgotten, but for its override.                  *)
IdleState ==
  LET asked == IF read_config THEN [r EXCEPT !.override = TRUE, !.fsm = "CONFIG_READ"] ELSE r
      s == [asked EXCEPT !.ack = FALSE, !.config = FALSE]
      start == [s EXCEPT !.zz = TRUE, !.burst = 0]
  IN /\ r.fsm = "IDLE"
     /\ r' = CASE load_config -> [s EXCEPT !.limit = ConfigTiming, !.zz = FALSE, !.fsm = "CONFIG_PRE"]
               [] ~load_config /\ bus.cyc /\ bus.we -> [start EXCEPT !.fsm = "WR_CE"]
               [] ~load_config /\ bus.cyc /\ ~bus.we ->
                    [start EXCEPT !.load = TRUE, !.limit = rdTiming, !.fsm = "RD"]
               [] OTHER -> [s EXCEPT !.zz = TRUE]

(* Reading the mode: two reads, a write and a read of the highest address.   *)
ConfigRead == /\ r.fsm = "CONFIG_READ"
              /\ r' = [r EXCEPT !.limit = rdTiming, !.ce_n = TRUE, !.we_n = TRUE, !.oe_n = TRUE,
                                !.fsm = "CFGRD1"]

ConfigNext == [CFGRD1 |-> "CFGRD2", CFGRD2 |-> "CFGWR1", CFGWR1 |-> "CFGRD3", CFGRD3 |-> "IDLE"]

(* A request may wait meanwhile.  It turns the controller's drivers on, also *)
(* in the cycles in which the chip is read.                                  *)
ConfigCycle(read) ==
  /\ r.fsm \in DOMAIN ConfigNext
  /\ LET write == r.fsm = "CFGWR1"  end == r.fsm = "CFGRD3"
     IN r' = IF counter_done
             THEN [r EXCEPT !.limit = IF end THEN r.limit ELSE rdTiming,
                            !.ce_n = TRUE, !.we_n = IF write THEN TRUE ELSE r.we_n,
                            !.oe_n = IF write THEN r.oe_n ELSE TRUE,
                            !.status = IF end THEN read ELSE r.status,
                            !.override = ~end /\ r.override, !.fsm = ConfigNext[r.fsm]]
             ELSE [r EXCEPT !.ce_n = FALSE, !.we_n = IF write THEN FALSE ELSE r.we_n,
                            !.oe_n = IF write THEN r.oe_n ELSE FALSE]

(* Setting the mode after reset. *)
ConfigWrite ==
  \/ r.fsm = "CONFIG_PRE" /\ r' = [r EXCEPT !.fsm = "CONFIG_PRE2"]
  \/ r.fsm = "CONFIG_PRE2" /\ r' = [r EXCEPT !.fsm = "CONFIG_PRE3"]
  \/ r.fsm = "CONFIG_PRE3" /\ r' = [r EXCEPT !.ce_early = TRUE, !.fsm = "CONFIG"]
  \/ /\ r.fsm = "CONFIG"
     /\ r' = IF counter_done THEN [r EXCEPT !.config = FALSE, !.fsm = "ZZ_UP"]
             ELSE [r EXCEPT !.config = TRUE]
  \/ r.fsm = "ZZ_UP" /\ r' = [r EXCEPT !.config = FALSE, !.fsm = "ZZ_UP2"]
  \/ r.fsm = "ZZ_UP2" /\ r' = [r EXCEPT !.ce_early = FALSE, !.fsm = "ZZ_UP3"]
  \/ r.fsm = "ZZ_UP3" /\ r' = [r EXCEPT !.zz = TRUE, !.fsm = "IDLE"]

nextBurst == IF counter_almost_done THEN (r.burst + 1) % Words ELSE r.burst

Read ==
  \/ /\ r.fsm = "RD"
     /\ r' = [r EXCEPT !.burst = nextBurst, !.shift = counter_done,
                       !.limit = IF counter_almost_done /\ ~last THEN pageTiming ELSE r.limit,
                       !.fsm = IF counter_almost_done /\ last THEN "RACK" ELSE "RD"]
  \/ r.fsm = "RACK" /\ r' = [r EXCEPT !.shift = counter_done, !.fsm = "RACK2"]
  \/ r.fsm = "RACK2" /\ r' = [r EXCEPT !.shift = FALSE, !.ack = TRUE, !.fsm = "RACK3"]
  \/ r.fsm = "RACK3" /\ r' = [r EXCEPT !.load = FALSE, !.ack = FALSE, !.fsm = "IDLE"]

Write ==
  \/ r.fsm = "WR_CE" /\ r' = [r EXCEPT !.limit = wr_timing, !.fsm = "WR"]
  \/ /\ r.fsm = "WR"
     /\ r' = [r EXCEPT !.burst = nextBurst, !.ack = IF counter_almost_done /\ last THEN TRUE ELSE r.ack,
                       !.fsm = IF counter_almost_done /\ last THEN "WACK" ELSE "WR"]
  \/ r.fsm = "WACK" /\ r' = [r EXCEPT !.ack = FALSE, !.fsm = "IDLE"]

store == r.fsm = "WR_CE" \/ (r.fsm = "WR" /\ ~counter_almost_done)

-----------------------------------------------------------------------------
(* The data path. *)

StartUp == /\ reset_counter' = IF reset_counter > 0 THEN reset_counter - 1 ELSE 0
           /\ sram_ready' = (reset_counter = 0)
           /\ load_config' = (reset_counter = 1)

adr == CASE ~r.zz -> Mode
         [] r.zz /\ bus.cyc -> At(bus.line, r.burst)
         [] OTHER -> At(CHOOSE l \in Lines : TRUE, 0)

Pins == pins' = IF r.override
                THEN [ce_n |-> r.ce_n, oe_n |-> r.oe_n, we_n |-> r.we_n, zz_n |-> TRUE,
                      adr |-> Config, data |-> Undefined]
                ELSE [ce_n |-> ~(r.config \/ r.ce_early \/ bus.cyc), oe_n |-> ~r.load,
                      we_n |-> ~(store \/ r.config), zz_n |-> r.zz, adr |-> adr, data |-> data_reg]

(* Fault: the controller drives the lines whenever it is accessed. *)
DataOutAlways == data_reg' = bus.data[r.burst] /\ sync_oe' = bus.cyc
DataOut == /\ data_reg' = bus.data[r.burst]
           /\ sync_oe' = (~r.load /\ bus.cyc)

chipDrives == ~pins.ce_n /\ ~pins.oe_n /\ pins.we_n

accessed == /\ pins.adr \notin {Config, Mode}
            /\ \/ age >= rdTiming
               \/ page /\ open = pins.adr.line /\ age >= page_rd_timing

DataPins == CASE sync_oe /\ chipDrives -> Undefined
              [] sync_oe /\ ~chipDrives -> pins.data
              [] ~sync_oe /\ chipDrives /\ accessed -> mem[pins.adr.line][pins.adr.word]
              [] OTHER -> Undefined

DataIn == /\ read_ram' = DataPins
          /\ read_reg' = IF r.shift THEN Append(Tail(read_reg), read_ram) ELSE read_reg

-----------------------------------------------------------------------------
(* The chip. *)

Held(p, q) == [p EXCEPT !.data = Undefined, !.oe_n = TRUE] = [q EXCEPT !.data = Undefined, !.oe_n = TRUE]
Older(a) == IF a < MaxAge THEN a + 1 ELSE a

writeEnds == ~pins.we_n /\ ~pins.ce_n /\ (pins'.we_n \/ pins'.ce_n \/ pins'.adr # pins.adr)

Chip ==
  /\ age' = IF Held(pins', pins) THEN Older(age) ELSE 1
  /\ dage' = IF pins'.data = pins.data THEN Older(dage) ELSE 1
  /\ open' = LET chosen == ~pins.ce_n /\ pins.we_n /\ pins.adr \notin {Config, Mode}
                 stays == ~pins'.ce_n /\ pins'.we_n
             IN CASE chosen /\ accessed -> pins.adr.line
                  [] chosen /\ ~accessed /\ stays -> open
                  [] OTHER -> NoLine
  /\ mem' = IF writeEnds /\ pins.zz_n /\ pins.adr \notin {Config, Mode}
            THEN [mem EXCEPT ![pins.adr.line][pins.adr.word] =
                    IF age >= wr_timing /\ dage >= DataSetup THEN pins.data ELSE Undefined]
            ELSE mem
  /\ page' = (page \/ (writeEnds /\ ~pins.zz_n /\ pins.adr = Mode))

RamObserve == stored' = IF r.ack /\ bus.we THEN [stored EXCEPT ![bus.line] = bus.data] ELSE stored

-----------------------------------------------------------------------------
(* The mode that a configuration read finds: anything, if there is no driver *)
(* or a second one.                                                          *)
modes == IF chipDrives /\ ~sync_oe THEN {page} ELSE BOOLEAN

Machine == \/ IdleState \/ ConfigRead \/ (\E read \in modes : ConfigCycle(read))
           \/ ConfigWrite \/ Read \/ Write

RamCycle == Cache /\ Machine /\ RamSoftware /\ Counter /\ StartUp /\ Pins /\ DataOut /\ DataIn /\ Chip /\ RamObserve

RamNext == RamCycle
RamSpec == RamInit /\ [][RamNext]_ramVars
RamFairSpec == RamSpec /\ WF_ramVars(RamNext)

(* A line that is read is the line that was last written there. *)
ReadsWhatWasWritten == r.ack /\ ~bus.we => \A w \in 1..Words : read_reg[w] = stored[bus.line][w - 1]

(* Controller and chip drive the data lines together in no access of a line. *)
(* They do in a configuration read that a request waits for (168, 294-320).   *)
OneDriver == sync_oe /\ chipDrives => pins.adr = Config

(* A line that is read is the line that was last written there                *)
(* (sram_32_cached.py:257), whatever configuration reads come before it, and  *)
(* the data pins never have two drivers in an access of a line (165-168).     *)
RamKeepsLines == ReadsWhatWasWritten /\ OneDriver

(* A request is acknowledged. *)
RequestAnswered == bus.cyc ~> r.ack
=============================================================================

------------------------------- MODULE MCPorts ------------------------------
(***************************************************************************)
(* Three controllers on the bus that talk to a chip outside: I2C, the      *)
(* external SRAM and the memory LCD.  They share no signal in the code, so *)
(* a behaviour here is one of one of them, the unit, while the others stay *)
(* in an initial state.                                                    *)
(***************************************************************************)
EXTENDS I2cController, Sram, MemLcd

ASSUME PortsAssumption == I2cAssumption /\ SramAssumption /\ PanelAssumption

VARIABLE unit

allVars == <<unit, vars, ramVars, lcdVars>>

PortsInit ==
  /\ unit \in {"i2c", "sram", "lcd"}
  /\ Init
  /\ RamInit /\ (unit # "sram" => mem = [l \in Lines |-> Contents(CHOOSE v \in Value : TRUE)])
  /\ LcdInit /\ (unit # "lcd" => prescaler = CHOOSE p \in Prescalers : TRUE)

PortsNext ==
  \/ unit = "i2c" /\ Next /\ UNCHANGED <<unit, ramVars, lcdVars>>
  \/ unit = "sram" /\ RamNext /\ UNCHANGED <<unit, vars, lcdVars>>
  \/ unit = "lcd" /\ LcdNext /\ UNCHANGED <<unit, vars, ramVars>>

(* The clock runs. *)
PortsSpec == PortsInit /\ [][PortsNext]_allVars /\ WF_allVars(PortsNext)

-----------------------------------------------------------------------------
(* What is asked of a unit comes to its end: an I2C command raises the       *)
(* interrupt flag (core.py:152), a request to the SRAM is acknowledged       *)
(* (sram_32_cached.py:257), an update of the LCD ends (memlcd.py:239).       *)
Asked == command.rd \/ command.wr \/ command.sto \/ bus.cyc \/ fsm_up # "IDLE"
Ended == CASE unit = "i2c" -> intflag [] unit = "sram" -> r.ack [] unit = "lcd" -> fsm_up = "IDLE"
RequestsEnd == Asked ~> Ended
=============================================================================

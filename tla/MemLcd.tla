------------------------------- MODULE MemLcd -------------------------------
(***************************************************************************)
(* The controller of the memory LCD (memlcd.py): an update machine that    *)
(* walks over the lines of the framebuffer from the last to the first, a   *)
(* machine that sends one line, a machine that clocks one bit, and the     *)
(* panel behind the pins.                                                  *)
(*                                                                         *)
(* A bit on its way is named by where it comes from, so that the panel can *)
(* tell whether it got the right one: a bit of a word of the framebuffer   *)
(* by the word and its place in it, a bit of the head by its place.        *)
(***************************************************************************)
EXTENDS Integers

CONSTANTS
  height, RowWords, WordBits, \* lines, words of a line, bits of a word
  ModeBits,                 \* of the head: mode and line address, 16
  Setup, Hold, Low,         \* cycles of SCS: 200, 100, 100
  ClkBits,                  \* width of clkcnt: 8
  Prescalers,               \* that software uses
  DevbootLine,
  Ink,                      \* what software draws in a line
  MaxWrites                 \* bound: writes of software while one update runs

PanelAssumption ==
  /\ {height, RowWords, Setup, Hold, Low} \subseteq Nat \ {0}
  /\ WordBits \in Nat /\ ModeBits \in 1..(WordBits - 1) /\ WordBits % 2 = 0
  /\ DevbootLine \in 1..height

VARIABLES
  fb, dirty,                   \* the framebuffer: what was drawn, the flags behind the last pixel
  lcd_command, prescaler, secured_prescaler, devboot,   \* command; busy is lcd_busy
  fsm_up, lcd_busy, updateall, fetch_dirty, update_line, devboot_line_active,
  dat_r,                       \* the word at the read port
  fsm_phy, scs_cnt, pixcount, modeshift, pixshift, linedone,
  fsm_bit, clkcnt,
  sclk, scs, si,
  rx,                          \* the panel: the frame that comes in
  writes,                      \* of software, since the controller was idle
  due                          \* history: lines that the update has yet to bring to the glass

drawVars == <<fb, dirty, lcd_command, prescaler, devboot>>
upVars == <<fsm_up, lcd_busy, updateall, fetch_dirty, update_line>>
phyVars == <<fsm_phy, scs_cnt, pixcount, modeshift, pixshift, linedone, scs, si>>
lcdVars == <<drawVars, upVars, phyVars, secured_prescaler, devboot_line_active, dat_r,
             fsm_bit, clkcnt, sclk, rx, writes, due>>

Line == 1..height
LineBits == RowWords * WordBits
Flags == WordBits \div 2          \* the upper half of the last word
width == LineBits - Flags

NoFrame == [n |-> 0, line |-> 0, ink |-> "blank", mask |-> FALSE, ok |-> TRUE]
Low0 == [from |-> "low"]

LcdInit ==
  /\ fb = [l \in Line |-> "blank"] /\ dirty = [l \in Line |-> FALSE]
  /\ lcd_command = "none" /\ prescaler \in Prescalers /\ secured_prescaler = prescaler
  /\ devboot = FALSE /\ devboot_line_active = FALSE
  /\ fsm_up = "IDLE" /\ lcd_busy = FALSE /\ updateall = FALSE /\ fetch_dirty = FALSE /\ update_line = 1
  /\ dat_r = [line |-> 1, word |-> 0, ink |-> "blank", dirty |-> FALSE]
  /\ fsm_phy = "IDLE" /\ scs_cnt = 0 /\ pixcount = 0 /\ linedone = FALSE
  /\ modeshift = [line |-> 0, n |-> 0] /\ pixshift = [word |-> dat_r, mask |-> FALSE, n |-> 0]
  /\ fsm_bit = "IDLE" /\ clkcnt = 0
  /\ sclk = FALSE /\ scs = FALSE /\ si = Low0
  /\ rx = NoFrame /\ writes = 0 /\ due = {}

-----------------------------------------------------------------------------
(* Software draws, sets the flag of the line, and asks for an update, at any *)
(* time; whether it does all that with the controller idle is up to it.      *)

Draw == \E l \in Line, i \in Ink :
          /\ fb' = [fb EXCEPT ![l] = i] /\ dirty' = [dirty EXCEPT ![l] = TRUE]
          /\ lcd_command' = "none" /\ UNCHANGED <<prescaler, devboot>>

Clean == /\ dirty' = [l \in Line |-> FALSE]
         /\ lcd_command' = "none" /\ UNCHANGED <<fb, prescaler, devboot>>

Ask == /\ lcd_command' \in {"UpdateDirty", "UpdateAll"}
       /\ UNCHANGED <<fb, dirty, prescaler, devboot>>

Configure == /\ \/ prescaler' \in Prescalers /\ UNCHANGED devboot
                \/ devboot' = TRUE /\ UNCHANGED prescaler
             /\ lcd_command' = "none" /\ UNCHANGED <<fb, dirty>>

LcdPass == lcd_command' = "none" /\ UNCHANGED <<fb, dirty, prescaler, devboot>>

LcdWrite == Draw \/ Clean \/ Ask \/ Configure

LcdSoftware == \/ /\ LcdWrite /\ writes < MaxWrites
                  /\ writes' = IF lcd_busy THEN writes + 1 ELSE 0
               \/ LcdPass /\ writes' = IF lcd_busy THEN writes ELSE 0

(* Once the device is marked, the speed of the panel is fixed.               *)
Secure == secured_prescaler' = IF devboot THEN secured_prescaler ELSE prescaler

-----------------------------------------------------------------------------
(* The read port: the last word of the line while its flags are wanted, else *)
(* the word of the next pixel.  Where there are no flags a clean line is read, *)
(* the worst that a pixel can look like; the read past the end of a line is    *)
(* not used.                                                                  *)

pixadr_rd == [line |-> update_line,
              word |-> IF fetch_dirty THEN RowWords - 1 ELSE (pixcount \div WordBits) % RowWords]

ReadPort == dat_r' = IF update_line \in Line
                     THEN [line |-> update_line, word |-> pixadr_rd.word,
                           ink |-> fb[update_line],
                           dirty |-> pixadr_rd.word = RowWords - 1 /\ dirty[update_line]]
                     ELSE dat_r

(* The marked line is dashed. *)
Marked(l) == devboot /\ l = DevbootLine

Mark == devboot_line_active' = Marked(update_line)

-----------------------------------------------------------------------------
(* The update machine. *)

sendline == fsm_up = "DIRTYLINE"

(* Fault: the flags are looked at in the cycle in which they are asked for.  *)
AcceptUnfetched ==
  /\ fsm_up = "IDLE"
  /\ IF lcd_command # "none"
     THEN /\ lcd_busy' = TRUE /\ fetch_dirty' = TRUE /\ updateall' = (lcd_command = "UpdateAll")
          /\ fsm_up' = "CHECKDIRTY" /\ update_line' = height
     ELSE lcd_busy' = FALSE /\ UNCHANGED <<fetch_dirty, updateall, fsm_up, update_line>>
Accept ==
  /\ fsm_up = "IDLE"
  /\ IF lcd_command # "none"
     THEN /\ lcd_busy' = TRUE /\ fetch_dirty' = TRUE /\ updateall' = (lcd_command = "UpdateAll")
          /\ fsm_up' = "START"
     ELSE lcd_busy' = FALSE /\ UNCHANGED <<fetch_dirty, updateall, fsm_up>>
  /\ UNCHANGED update_line

Start == /\ fsm_up = "START"
         /\ update_line' = height /\ fsm_up' = "FETCHDIRTY"
         /\ UNCHANGED <<lcd_busy, updateall, fetch_dirty>>

Fetch == /\ fsm_up = "FETCHDIRTY" /\ fsm_up' = "CHECKDIRTY"
         /\ UNCHANGED <<lcd_busy, updateall, fetch_dirty, update_line>>

Check ==
  /\ fsm_up = "CHECKDIRTY"
  /\ \/ update_line = 0 /\ fsm_up' = "IDLE" /\ UNCHANGED update_line
     \/ /\ update_line # 0 /\ (dat_r.dirty \/ updateall \/ devboot_line_active)
        /\ fsm_up' = "DIRTYLINE" /\ UNCHANGED update_line
     \/ /\ update_line # 0 /\ ~(dat_r.dirty \/ updateall \/ devboot_line_active)
        /\ update_line' = update_line - 1 /\ fsm_up' = "FETCHDIRTY"
  /\ UNCHANGED <<lcd_busy, updateall, fetch_dirty>>

Send == /\ fsm_up = "DIRTYLINE" /\ fsm_up' = "WAITDONE" /\ fetch_dirty' = FALSE
        /\ UNCHANGED <<lcd_busy, updateall, update_line>>

WaitDone == /\ fsm_up = "WAITDONE"
            /\ IF linedone
               THEN /\ fetch_dirty' = TRUE /\ update_line' = update_line - 1
                    /\ fsm_up' = "FETCHDIRTY"
               ELSE UNCHANGED <<fetch_dirty, update_line, fsm_up>>
            /\ UNCHANGED <<lcd_busy, updateall>>

Update == Accept \/ Start \/ Fetch \/ Check \/ Send \/ WaitDone

-----------------------------------------------------------------------------
(* The line machine: head, pixels and, behind them, the flags as padding.    *)

bitreq == \/ fsm_phy = "MODELINE" /\ pixcount > 0
          \/ fsm_phy = "DATA" /\ pixcount < LineBits + 1
bitack == fsm_bit = "SCLK_HI" /\ clkcnt = 0

modeBit == [from |-> "head", line |-> modeshift.line, n |-> modeshift.n]
pixBit == [from |-> "word", line |-> pixshift.word.line, ink |-> pixshift.word.ink,
           mask |-> pixshift.mask, n |-> pixshift.word.word * WordBits + pixshift.n]
Loaded == [word |-> dat_r, mask |-> devboot_line_active, n |-> 0]

PhyIdle == /\ fsm_phy = "IDLE"
           /\ si' = Low0 /\ linedone' = FALSE
           /\ IF sendline
              THEN /\ scs' = TRUE /\ scs_cnt' = Setup /\ pixcount' = ModeBits
                   /\ modeshift' = [line |-> update_line, n |-> 0] /\ fsm_phy' = "SCS_SETUP"
              ELSE scs' = FALSE /\ UNCHANGED <<scs_cnt, pixcount, modeshift, fsm_phy>>
           /\ UNCHANGED pixshift

(* The three waits: in each the counter runs down to 0. *)
PhyWait ==
  /\ fsm_phy \in {"SCS_SETUP", "SCS_HOLD", "SCS_LOW"}
  /\ IF scs_cnt > 0 THEN scs_cnt' = scs_cnt - 1 /\ UNCHANGED <<fsm_phy, scs, linedone>>
     ELSE \/ /\ fsm_phy = "SCS_SETUP" /\ fsm_phy' = "MODELINE"
             /\ UNCHANGED <<scs_cnt, scs, linedone>>
          \/ /\ fsm_phy = "SCS_HOLD" /\ fsm_phy' = "SCS_LOW"
             /\ scs' = FALSE /\ scs_cnt' = Low /\ UNCHANGED linedone
          \/ /\ fsm_phy = "SCS_LOW" /\ fsm_phy' = "IDLE"
             /\ linedone' = TRUE /\ UNCHANGED <<scs_cnt, scs>>
  /\ UNCHANGED <<pixcount, modeshift, pixshift, si>>

PhyHead == /\ fsm_phy = "MODELINE"
           /\ IF pixcount > 0
              THEN /\ modeshift' = [modeshift EXCEPT !.n = @ + 1] /\ si' = modeBit
                   /\ pixcount' = pixcount - 1 /\ fsm_phy' = "MODELINEWAIT" /\ UNCHANGED pixshift
              ELSE /\ pixcount' = 1 /\ pixshift' = Loaded /\ fsm_phy' = "DATA"
                   /\ UNCHANGED <<modeshift, si>>
           /\ UNCHANGED <<scs, scs_cnt, linedone>>

(* Fault: the next word is taken when the first bit of it is due. *)
PhyDataLate ==
  /\ fsm_phy = "DATA"
  /\ IF pixcount < LineBits + 1
     THEN /\ pixshift' = IF pixcount % WordBits = 1 /\ pixcount > 1 THEN Loaded
                         ELSE [pixshift EXCEPT !.n = (@ + 1) % WordBits]
          /\ scs' = TRUE /\ si' = pixBit /\ pixcount' = pixcount + 1
          /\ fsm_phy' = "DATAWAIT" /\ UNCHANGED scs_cnt
     ELSE si' = Low0 /\ scs_cnt' = Hold /\ fsm_phy' = "SCS_HOLD" /\ UNCHANGED <<pixshift, scs, pixcount>>
  /\ UNCHANGED <<modeshift, linedone>>
PhyData ==
  /\ fsm_phy = "DATA"
  /\ IF pixcount < LineBits + 1
     THEN /\ pixshift' = IF pixcount % WordBits = 0 THEN Loaded
                         ELSE [pixshift EXCEPT !.n = @ + 1]
          /\ scs' = TRUE /\ si' = pixBit /\ pixcount' = pixcount + 1
          /\ fsm_phy' = "DATAWAIT" /\ UNCHANGED scs_cnt
     ELSE si' = Low0 /\ scs_cnt' = Hold /\ fsm_phy' = "SCS_HOLD" /\ UNCHANGED <<pixshift, scs, pixcount>>
  /\ UNCHANGED <<modeshift, linedone>>

PhyBit == /\ fsm_phy \in {"MODELINEWAIT", "DATAWAIT"}
          /\ fsm_phy' = IF ~bitack THEN fsm_phy
                        ELSE IF fsm_phy = "DATAWAIT" THEN "DATA" ELSE "MODELINE"
          /\ UNCHANGED <<scs_cnt, pixcount, modeshift, pixshift, linedone, scs, si>>

SendLine == PhyIdle \/ PhyWait \/ PhyHead \/ PhyData \/ PhyBit

-----------------------------------------------------------------------------
(* The bit machine; clkcnt wraps below 0. *)

Down == clkcnt' = (clkcnt - 1) % 2 ^ ClkBits

BitIdle == /\ fsm_bit = "IDLE"
           /\ sclk' = FALSE /\ clkcnt' = secured_prescaler
           /\ fsm_bit' = IF bitreq THEN "SCLK_LO" ELSE "IDLE"

(* Fault: SCLK rises when the lower half of the count is below that of the   *)
(* prescaler without its last bit but one.                                   *)
BitLowNever == /\ fsm_bit = "SCLK_LO" /\ Down
               /\ IF clkcnt < secured_prescaler \div 8 THEN sclk' = TRUE /\ fsm_bit' = "SCLK_HI"
                  ELSE UNCHANGED <<sclk, fsm_bit>>
BitLow == /\ fsm_bit = "SCLK_LO" /\ Down
          /\ IF clkcnt < secured_prescaler \div 2 THEN sclk' = TRUE /\ fsm_bit' = "SCLK_HI"
             ELSE UNCHANGED <<sclk, fsm_bit>>

BitHigh == /\ fsm_bit = "SCLK_HI" /\ Down
           /\ IF clkcnt = 0 THEN sclk' = FALSE /\ fsm_bit' = "IDLE" ELSE UNCHANGED <<sclk, fsm_bit>>

Clock == BitIdle \/ BitLow \/ BitHigh

-----------------------------------------------------------------------------
(* The panel takes a bit when SCLK rises and the line when SCS falls.        *)

rising == sclk' /\ ~sclk

Belongs(bit) ==
  LET i == rx.n - ModeBits
  IN IF i < 0 THEN bit.from = "head" /\ bit.n = rx.n /\ (rx.n > 0 => bit.line = rx.line)
     ELSE bit.from = "word" /\ bit.n = i /\ bit.line = rx.line

Take(bit) ==
  LET first == rx.n = ModeBits
      pixel == rx.n >= ModeBits /\ rx.n < ModeBits + width
  IN [n |-> rx.n + 1, line |-> IF rx.n = 0 THEN bit.line ELSE rx.line,
      ink |-> CASE ~pixel -> rx.ink
                [] pixel /\ (first \/ <<bit.ink, bit.mask>> = <<rx.ink, rx.mask>>) -> bit.ink
                [] OTHER -> "mixed",
      mask |-> IF pixel /\ first THEN bit.mask ELSE rx.mask,
      ok |-> rx.ok /\ Belongs(bit)]

frameOk == rx.ok /\ rx.n = ModeBits + LineBits

Panel == rx' = IF ~scs' THEN NoFrame
               ELSE IF rising /\ rx.n < ModeBits + LineBits + 1 THEN Take(si) ELSE rx

(* What an update has to show: the flagged lines, or all, and the marked     *)
(* line.  A line that software draws in meanwhile is left to the next update. *)
ToShow == IF fsm_up = "IDLE" /\ lcd_command # "none"
          THEN {l \in Line : dirty[l] \/ lcd_command = "UpdateAll" \/ Marked(l)}
          ELSE due

Changed == {l \in Line : fb'[l] # fb[l] \/ dirty'[l] # dirty[l]}
           \union (IF devboot' # devboot THEN {DevbootLine} ELSE {})

Shown == {l \in {rx.line} : /\ scs /\ ~scs' /\ frameOk /\ rx.ink = fb[l]
                            /\ rx.mask = Marked(l)}

LcdObserve == due' = (ToShow \ Changed) \ Shown

LcdCycle == /\ LcdSoftware /\ Secure /\ ReadPort /\ Mark /\ Update /\ SendLine /\ Clock
            /\ Panel /\ LcdObserve

LcdNext == LcdCycle
LcdSpec == LcdInit /\ [][LcdNext]_lcdVars
LcdFairSpec == LcdSpec /\ WF_lcdVars(LcdNext)

-----------------------------------------------------------------------------
(* When an update is over, each line that it was for has reached the glass   *)
(* as it is in the framebuffer, the marked line with its mark                *)
(* (memlcd.py:243).                                                          *)
LcdUpdateShown == ~lcd_busy => due = {}

(* Every line that the panel is sent is a whole line: head, pixels and       *)
(* padding in their order, whatever software does to the prescaler           *)
(* (memlcd.py:389).                                                          *)
LcdWholeLines == [][scs /\ ~scs' => frameOk]_lcdVars

(* An update ends. *)
LcdUpdateEnds == (fsm_up # "IDLE") ~> (fsm_up = "IDLE")
=============================================================================

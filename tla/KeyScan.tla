------------------------------- MODULE KeyScan ------------------------------
(***************************************************************************)
(* The keyboard scanner (keyboard.py).  A step of the scan clock kbd, 32   *)
(* kHz, alternates with what software does in sys, whose clock is three    *)
(* thousand times as fast: what kbd sends to sys has arrived before the    *)
(* next edge of kbd, what sys sends to kbd takes the registers of kbd.     *)
(*                                                                         *)
(* The registers that the source has for each row are sets of keys here;   *)
(* rowdiff and rowchanging, of which only matters whether any bit is set,  *)
(* are BOOLEAN.                                                            *)
(***************************************************************************)
EXTENDS Integers

CONSTANTS Rows, Cols,        \* the matrix; columns are 0 .. Cols - 1
          debounce_clocks,   \* 163
          Moments            \* bound: the counts at which a key may move

settling == 4
MatrixAssumption == Cols \in Nat \ {0} /\ debounce_clocks \in Nat

Key == Rows \X (0..(Cols - 1))
columns == settling * Cols         \* then come two more counts and the last
lastCount == columns + 2

VARIABLES
  keys,                                   \* the keys that are down
  rows_m, rows,                           \* synchronizer: rows that are high
  colcount, col_r, row_scan, row_debounce, rowshadow,
  scan_done, update_shadow, reset_scan,
  pending_kbd_f, key_ack,
  rows_nonzero, rowdiff, rowchanging,
  db_fsm, debounce_timer, debounced_d, changed_kbd,
  rowdat, keypressed,                     \* in sys: the CSRs of the rows, the event that is pending
  pending_sync, clear_sync,               \* blind transfers to kbd
  known, answered,                        \* software: the rows as it read them; it has, and has to clear
  touched, held,                          \* history: keys down some time, all the time since the scan began
  fetched                                 \* history: acknowledged since the shadow was last loaded

scanVars == <<rows_m, rows, colcount, col_r, row_scan, row_debounce, rowshadow,
              scan_done, update_shadow, reset_scan, pending_kbd_f, key_ack,
              rows_nonzero, rowdiff, rowchanging, db_fsm, debounce_timer, debounced_d, changed_kbd>>
readVars == <<known, answered>>
keyVars == <<keys, scanVars, rowdat, keypressed, pending_sync, clear_sync, readVars, touched, held,
             fetched>>

-----------------------------------------------------------------------------
(* A blind transfer on its way to kbd: the toggle differs from the first     *)
(* register, the first from the second, the second from the third (t, m, o). *)
(* A pulse that comes while one is on its way is not seen.                   *)
NoPulse == [t |-> FALSE, m |-> FALSE, o |-> FALSE]
PulseOn(s) == [t |-> FALSE, m |-> s.t, o |-> s.m]
SendPulse(s) == IF s = NoPulse THEN [s EXCEPT !.t = TRUE] ELSE s

pending_kbd == pending_sync.o
clear_kbd == clear_sync.o

KeyInit ==
  /\ keys = {} /\ rows_m = {} /\ rows = {}
  /\ colcount = 0 /\ col_r = {} /\ row_scan = {} /\ row_debounce = {} /\ rowshadow = {}
  /\ scan_done = FALSE /\ update_shadow = FALSE /\ reset_scan = FALSE
  /\ pending_kbd_f = FALSE /\ key_ack = FALSE
  /\ rows_nonzero = FALSE /\ rowdiff = FALSE /\ rowchanging = FALSE
  /\ db_fsm = "IDLE" /\ debounce_timer = 0 /\ debounced_d = FALSE /\ changed_kbd = FALSE
  /\ rowdat = {} /\ keypressed = FALSE
  /\ pending_sync = NoPulse /\ clear_sync = NoPulse
  /\ known = {} /\ answered = FALSE
  /\ touched = {} /\ held = {}
  /\ fetched = FALSE

-----------------------------------------------------------------------------
(* The scan. *)

(* The column that the decoder drives, none behind the last. *)
driven == IF colcount < columns THEN {colcount \div settling} ELSE {}
high == {k[1] : k \in {k \in keys : k[2] \in driven}}

Sample == /\ rows_m' = high /\ rows' = rows_m /\ col_r' = driven

sampled == IF colcount % settling = 3 THEN rows \X col_r ELSE {}

(* Fault: the keys of a scan are added to those of the one before. *)
ScanKeeps == row_scan' = row_scan \union sampled
Scan == row_scan' = IF reset_scan THEN {} ELSE row_scan \union sampled

ColumnCount == /\ colcount' = IF colcount = lastCount THEN 0 ELSE colcount + 1
         /\ scan_done' = (colcount = columns)
         /\ reset_scan' = (colcount = lastCount)

ackArrives == ~pending_kbd /\ pending_kbd_f
beforeLast == colcount = columns + 1

(* Fault: the shadow follows every scan. *)
ShadowAlways ==
  /\ pending_kbd_f' = pending_kbd
  /\ update_shadow' = beforeLast
  /\ key_ack' = (~beforeLast /\ (ackArrives \/ key_ack))
  /\ rowshadow' = IF update_shadow THEN row_scan ELSE rowshadow

(* The acknowledgement is kept for the end of the scan; one that comes right *)
(* there takes effect at once, without key_ack.                              *)
Shadow ==
  /\ pending_kbd_f' = pending_kbd
  /\ update_shadow' = (beforeLast /\ (ackArrives \/ key_ack))
  /\ key_ack' = (~beforeLast /\ (ackArrives \/ key_ack))
  /\ rowshadow' = IF update_shadow THEN row_scan ELSE rowshadow

-----------------------------------------------------------------------------
(* Debouncing and the interrupt. *)

debounced == db_fsm = "DEBOUNCED" /\ scan_done
clear_deltas == ~rows_nonzero /\ clear_kbd /\ db_fsm = "IDLE"
changed == debounced_d /\ rowdiff

Deltas ==
  /\ rows_nonzero' = (row_scan # {})
  /\ row_debounce' = IF scan_done THEN row_scan ELSE row_debounce
  /\ rowdiff' = (~clear_deltas /\ IF debounced THEN row_scan # rowshadow ELSE rowdiff)
  /\ rowchanging' = (~clear_deltas /\ IF scan_done THEN row_scan # row_debounce ELSE rowchanging)

(* Fault: the debounced state does not wait for the end of a scan. *)
DebounceHasty ==
  /\ debounced_d' = debounced
  /\ \/ /\ db_fsm = "IDLE"
        /\ IF rowchanging THEN debounce_timer' = debounce_clocks /\ db_fsm' = "DEBOUNCING"
           ELSE UNCHANGED <<debounce_timer, db_fsm>>
     \/ /\ db_fsm = "DEBOUNCING"
        /\ debounce_timer' = IF rowchanging THEN debounce_clocks
                             ELSE IF debounce_timer = 0 THEN 0 ELSE debounce_timer - 1
        /\ db_fsm' = IF ~rowchanging /\ debounce_timer = 0 THEN "DEBOUNCED" ELSE "DEBOUNCING"
     \/ db_fsm = "DEBOUNCED" /\ db_fsm' = "IDLE" /\ UNCHANGED debounce_timer

Debounce ==
  /\ debounced_d' = debounced
  /\ \/ /\ db_fsm = "IDLE"
        /\ IF rowchanging THEN debounce_timer' = debounce_clocks /\ db_fsm' = "DEBOUNCING"
           ELSE UNCHANGED <<debounce_timer, db_fsm>>
     \/ /\ db_fsm = "DEBOUNCING"
        /\ debounce_timer' = IF rowchanging THEN debounce_clocks
                             ELSE IF debounce_timer = 0 THEN 0 ELSE debounce_timer - 1
        /\ db_fsm' = IF ~rowchanging /\ debounce_timer = 0 THEN "DEBOUNCED" ELSE "DEBOUNCING"
     \/ /\ db_fsm = "DEBOUNCED" /\ UNCHANGED debounce_timer
        /\ db_fsm' = IF scan_done THEN "IDLE" ELSE "DEBOUNCED"

Changed == changed_kbd' = (changed \/ (changed_kbd /\ ~key_ack))

(* What sys sees before the next edge: the rows while scan_done is up, and   *)
(* the rising edge of changed_kbd.                                           *)
Arrive == /\ rowdat' = IF scan_done' THEN row_scan' ELSE rowdat
          /\ keypressed' = (keypressed \/ (changed_kbd' /\ ~changed_kbd))
          /\ pending_sync' = PulseOn(pending_sync) /\ clear_sync' = PulseOn(clear_sync)

-----------------------------------------------------------------------------
(* The keys move, bouncing or not; software's answer keeps none from it.     *)
Move == \/ /\ colcount \in Moments
           /\ \E k \in Key : keys' = IF k \in keys THEN keys \ {k} ELSE keys \union {k}
        \/ UNCHANGED keys

Observe == /\ touched' = IF reset_scan THEN keys ELSE touched \union keys
           /\ held' = IF reset_scan THEN keys ELSE held \intersect keys
           /\ fetched' = (fetched /\ ~update_shadow)

Edge == /\ Move /\ Sample /\ Scan /\ ColumnCount /\ Shadow /\ Deltas /\ Debounce /\ Changed /\ Arrive /\ Observe
        /\ UNCHANGED readVars

(* Software, as late as it likes, reads the rows and then clears the event. *)
Read == /\ keypressed /\ ~answered
        /\ known' = rowdat /\ answered' = TRUE
        /\ UNCHANGED <<keys, scanVars, rowdat, keypressed, pending_sync, clear_sync, touched, held,
                       fetched>>

Clear == /\ keypressed /\ answered
         /\ keypressed' = FALSE /\ answered' = FALSE /\ fetched' = TRUE
         /\ pending_sync' = SendPulse(pending_sync) /\ clear_sync' = SendPulse(clear_sync)
         /\ UNCHANGED <<keys, scanVars, rowdat, known, touched, held>>

KeyNext == Edge \/ Read \/ Clear
KeySpec == KeyInit /\ [][KeyNext]_keyVars
KeyFairSpec == KeySpec /\ WF_keyVars(Edge) /\ WF_keyVars(Read) /\ WF_keyVars(Clear)

-----------------------------------------------------------------------------
(* The event never fires again: changed_kbd is up, and no acknowledgement    *)
(* that would take it down is to come.                                       *)
event_off == /\ changed_kbd /\ ~keypressed /\ ~key_ack
             /\ pending_sync = NoPulse /\ ~pending_kbd_f

(* No key moves any more. *)
KeysRest == <>[][UNCHANGED keys]_keys

(* Once the keys rest, software gets to know which are down, unless the      *)
(* shadow had got to know them without it, or the event is off.              *)
KeysKnown == KeysRest => <>[](known = keys) \/ <>[](rowshadow = keys) \/ <>[]event_off

(* A scan shows the keys that were down all through it, and none that was    *)
(* not down in it.                                                           *)
ScanIsTrue == scan_done => held \subseteq row_scan /\ row_scan \subseteq touched

(* The shadow, against which a change is detected, takes the scan that       *)
(* software can read, and once for each acknowledgement.                     *)
ShadowIsAsked == [][rowshadow' # rowshadow => fetched /\ rowshadow' = rowdat]_keyVars

(* A scan shows the keys that were down all through it, and none that was    *)
(* not down in it (keyboard.py:95); the shadow takes whole scans, those that *)
(* software can read, and only one for each acknowledgement (148).           *)
KeyScanSound == []ScanIsTrue /\ ShadowIsAsked

(* "There is also a `keypressed` interrupt which fires every time there is a *)
(* change in the row registers" (keyboard.py:46): one that outlasts the      *)
(* bouncing is not left unreported, even if the shadow has not taken it.     *)
EveryChangeFires == KeysRest => []<>(keypressed \/ rowdat = known \/ rowdat = rowshadow)
=============================================================================

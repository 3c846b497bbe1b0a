---------------------------- MODULE FreshStream ----------------------------
(***************************************************************************)
(* What the conditioned random number generator promises to the software   *)
(* that reads it: whatever the two ports do, a random word is handed out   *)
(* at most once, and a checked read never returns the sentinel.            *)
(*                                                                         *)
(* rd is the value on the read-data bus in the current clock cycle, Quiet  *)
(* when no random word is being returned; taken is every word handed out.  *)
(***************************************************************************)
CONSTANTS Port,     \* the read ports
          Word,     \* the random words
          Quiet     \* the bus carries no random word

VARIABLES rd, taken

vars == <<rd, taken>>

Init == /\ rd = Quiet
        /\ taken = {}

(* A read that returns a word nobody has been given before. *)
Take(p) == \E w \in Word \ taken : /\ rd' = [port |-> p, word |-> w]
                                   /\ taken' = taken \union {w}

(* The bus falls quiet again. *)
Release == /\ rd' = Quiet
           /\ UNCHANGED taken

Next == Release \/ \E p \in Port : Take(p)

Spec == Init /\ [][Next]_vars
=============================================================================

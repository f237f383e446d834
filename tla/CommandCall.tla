----------------------------- MODULE CommandCall -----------------------------
(***************************************************************************)
(* What calib_execute_command promises to the rest of the library, without *)
(* buses, retries or power states: a call makes the chip take its command  *)
(* at most once, and returns.  ATCA_SUCCESS means that the chip took it;   *)
(* any other status leaves open whether it did.                            *)
(***************************************************************************)
EXTENDS Naturals

VARIABLES open,    \* a call is running
          effect,  \* how often the chip took the command of the last call
          outcome  \* what the last call returned: "none" while it runs

Outcomes == {"none", "ok", "failed"}

TypeOK == open \in BOOLEAN /\ effect \in {0, 1} /\ outcome \in Outcomes

Init == open = FALSE /\ effect = 0 /\ outcome = "none"

Begin ==
    /\ ~open
    /\ open' = TRUE /\ effect' = 0 /\ outcome' = "none"

Take ==
    /\ open /\ effect = 0
    /\ effect' = 1
    /\ UNCHANGED <<open, outcome>>

Return ==
    /\ open
    /\ open' = FALSE
    /\ outcome' \in {"failed"} \cup (IF effect = 1 THEN {"ok"} ELSE {})
    /\ UNCHANGED effect

Next == Begin \/ Take \/ Return

vars == <<open, effect, outcome>>

Spec == Init /\ [][Next]_vars /\ WF_vars(Return)
=============================================================================

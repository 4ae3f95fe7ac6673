--------------------------- MODULE MCUpdateSession --------------------------
(* Model values and fault budgets for UpdateSession.                       *)
EXTENDS UpdateSession

CONSTANTS a, b, MaxLost, MaxLate, MaxFlash, MaxPower, MaxRerun

\* a fills the slot, b takes one block.
MCSize == [i \in Images |-> IF i = a THEN Slot ELSE 1]

MCBudget == [k \in {"lost", "late", "flash", "power", "rerun"} |->
                CASE k = "lost"  -> MaxLost
                  [] k = "late"  -> MaxLate
                  [] k = "flash" -> MaxFlash
                  [] k = "power" -> MaxPower
                  [] OTHER       -> MaxRerun]
=============================================================================

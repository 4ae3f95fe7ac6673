---------------------------- MODULE MetadataStore ---------------------------
(***************************************************************************)
(* What the metadata journal promises its callers: one durable register.   *)
(* A write that returns 0 has taken effect; one that returns -1, or that a *)
(* power loss cuts short, has taken effect completely or not at all.  A    *)
(* read after any of these sees the old or the new value, nothing else.    *)
(***************************************************************************)
CONSTANTS Values,     \* the metadata payloads
          NoValue     \* "no valid record": readBootMetadata returns -1

VARIABLES value,      \* what readBootMetadata finds
          pending,    \* the payload being appended, or NoValue
          result      \* outcome of the last append: "none", "ok" or "error"

storeVars == <<pending, result, value>>

Init ==
    /\ value \in Values \cup {NoValue}
    /\ pending = NoValue
    /\ result = "none"

\* appendMetadataRecord is called.
Write(v) ==
    /\ pending = NoValue
    /\ pending' = v
    /\ result' = "none"
    /\ UNCHANGED value

\* It returns 0.
Succeed ==
    /\ pending # NoValue
    /\ pending' = NoValue
    /\ result' = "ok"
    /\ value' = pending

\* It returns -1.
Fail ==
    /\ pending # NoValue
    /\ pending' = NoValue
    /\ result' = "error"
    /\ value' \in {value, pending}

\* The power fails, during an append or between two.
Crash ==
    /\ pending' = NoValue
    /\ result' = "none"
    /\ value' \in IF pending = NoValue THEN {value} ELSE {value, pending}

Next == (\E v \in Values : Write(v)) \/ Succeed \/ Fail \/ Crash

Spec == Init /\ [][Next]_storeVars
=============================================================================

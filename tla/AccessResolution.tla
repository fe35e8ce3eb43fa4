--------------------------- MODULE AccessResolution ---------------------------
(***************************************************************************)
(* What the access resolver promises a command that asks it for access    *)
(* (spec.md sections 2 and 4.2; _ensure_authenticated in                  *)
(* src/ykman/cli/piv.py): the request either fails, ending the command,   *)
(* or resolves in one step to the factors that the token's protection     *)
(* mode and the caller's options call for, with the PIN verified last     *)
(* when the PIN stands in for the management key.  A resolved command     *)
(* may gain factors but loses none until it ends.                          *)
(***************************************************************************)
VARIABLES
    phase,     \* "idle", "resolving" or "resolved"
    prot,      \* the token has a PIN-derived or PIN-stored management key
    keyGiven,  \* the caller passed a management key
    require,   \* the caller passed require_pin_and_key
    granted,   \* the factors a resolved command holds
    pinLast    \* the PIN was the last authentication

vars == <<phase, prot, keyGiven, require, granted, pinLast>>

Factors == {"pin", "mgm"}

(* The factors a resolution grants: both when the PIN unlocks the key or  *)
(* the caller requires both on an unprotected token, else the key alone.  *)
Needed(p, k, r) == IF (p /\ ~k) \/ (~p /\ r) THEN Factors ELSE {"mgm"}

TypeOK ==
    /\ phase \in {"idle", "resolving", "resolved"}
    /\ prot \in BOOLEAN /\ keyGiven \in BOOLEAN /\ require \in BOOLEAN
    /\ granted \subseteq Factors /\ pinLast \in BOOLEAN

Init ==
    /\ phase = "idle" /\ prot = FALSE /\ keyGiven = FALSE /\ require = FALSE
    /\ granted = {} /\ pinLast = FALSE

(* A command asks for access.                                              *)
Request ==
    /\ phase = "idle" /\ phase' = "resolving"
    /\ prot' \in BOOLEAN /\ keyGiven' \in BOOLEAN /\ require' \in BOOLEAN
    /\ UNCHANGED <<granted, pinLast>>

(* The resolver returns to the command with what it needs.                 *)
Resolve ==
    /\ phase = "resolving" /\ phase' = "resolved"
    /\ \E g \in SUBSET Factors, l \in BOOLEAN :
         /\ Needed(prot, keyGiven, require) \subseteq g
         /\ (prot /\ ~keyGiven) => l
         /\ granted' = g /\ pinLast' = l
    /\ UNCHANGED <<prot, keyGiven, require>>

(* The resolved command authenticates again.                               *)
Gain ==
    /\ phase = "resolved"
    /\ \E g \in SUBSET Factors, l \in BOOLEAN :
         granted \subseteq g /\ granted' = g /\ pinLast' = l
    /\ UNCHANGED <<phase, prot, keyGiven, require>>

(* The command ends, by a failure of the resolver or after its work.       *)
End ==
    /\ phase # "idle"
    /\ phase' = "idle" /\ prot' = FALSE /\ keyGiven' = FALSE
    /\ require' = FALSE /\ granted' = {} /\ pinLast' = FALSE

Next == Request \/ Resolve \/ Gain \/ End

Spec == Init /\ [][Next]_vars
=============================================================================

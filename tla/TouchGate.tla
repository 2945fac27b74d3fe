----------------------------- MODULE TouchGate -----------------------------
(***************************************************************************)
(* What the broker promises about plaintext: access appears only at the    *)
(* end of a ceremony, the ceremony was completed by a touch of its own,    *)
(* and no LOCK came between its start and its end.  Access may disappear   *)
(* at any time, and LOCK takes away all of it.                             *)
(***************************************************************************)
CONSTANTS Scopes, Keys, NoCeremony

VARIABLES granted,   \* the (scope, key) pairs whose value may be read
          ceremony,  \* the pair the YubiKey is being asked about
          touched,   \* whether it was touched for this ceremony
          void       \* whether a LOCK has come since the ceremony began

gate == <<granted, ceremony, touched, void>>

Rest == ceremony' = NoCeremony /\ touched' = FALSE /\ void' = FALSE

Init == granted = {} /\ ceremony = NoCeremony /\ touched = FALSE /\ void = FALSE

\* Beginning coincides with sweeping what has expired.
Begin ==
    /\ ceremony = NoCeremony
    /\ ceremony' \in Scopes \X Keys
    /\ touched' = FALSE /\ void' = FALSE
    /\ granted' \subseteq granted

Touch ==
    /\ ceremony # NoCeremony
    /\ touched' = TRUE
    /\ UNCHANGED <<granted, ceremony, void>>

Approve ==
    /\ ceremony # NoCeremony /\ touched /\ ~ void
    /\ granted' = granted \cup {ceremony}
    /\ Rest

Abandon ==
    /\ ceremony # NoCeremony
    /\ granted' = granted
    /\ Rest

Revoke ==
    /\ granted' \subseteq granted
    /\ UNCHANGED <<ceremony, touched, void>>

Lock ==
    /\ granted' = {}
    /\ void' = (ceremony # NoCeremony)
    /\ UNCHANGED <<ceremony, touched>>

Next == Begin \/ Touch \/ Approve \/ Abandon \/ Revoke \/ Lock

Spec == Init /\ [][Next]_gate
=============================================================================

----------------------------- MODULE RtrConnection -----------------------------
(***************************************************************************)
(* The life of the connection to the RTR server as rpki.c relies on it:    *)
(* started at most once and in live mode only, used once it is in sync,    *)
(* closed with the configuration.  LiveConnection and RpkiValidate are     *)
(* both shown to implement it.                                             *)
(***************************************************************************)
VARIABLES mode,  \* 1 historical, 0 live
          rtr    \* "none", "starting", "synced" or "closed"

Init == mode = 0 /\ rtr = "none"

\* The configuration is set up for the past.
BeginHistorical == rtr = "none" /\ mode' = 1 /\ UNCHANGED rtr

\* The mode is left, with the connection or before it.
LeaveHistorical == mode = 1 /\ mode' = 0 /\ UNCHANGED rtr

Start == rtr = "none" /\ mode' = 0 /\ rtr' = "starting"

Sync == rtr = "starting" /\ rtr' = "synced" /\ UNCHANGED mode

Close == rtr = "synced" /\ mode = 0 /\ rtr' = "closed" /\ UNCHANGED mode

Next == BeginHistorical \/ LeaveHistorical \/ Start \/ Sync \/ Close

Spec == Init /\ [][Next]_<<mode, rtr>>
=============================================================================

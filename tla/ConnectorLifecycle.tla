------------------------- MODULE ConnectorLifecycle -------------------------
(***************************************************************************)
(* The lifecycle states of a connector and the transitions that            *)
(* ConnectorLifecycleManager accepts (connectors/contract/lifecycle.py).   *)
(* Shared by CapabilityExecutor (one process) and ConnectorState (the row  *)
(* in the database and the processes that write it).                       *)
(***************************************************************************)

LifecycleStates == {"REGISTERED", "CREDENTIAL_BOUND", "VALIDATED", "ACTIVE",
                    "DEGRADED", "FAILED", "SUSPENDED", "DELETED"}

\* Mutant of ALLOWED_TRANSITIONS: deletion can be undone.
AllowedUndelete(s) == LifecycleStates

ALLOWED_TRANSITIONS(s) ==
  CASE s = "REGISTERED"       -> {"CREDENTIAL_BOUND", "SUSPENDED", "DELETED"}
    [] s = "CREDENTIAL_BOUND" -> {"VALIDATED", "FAILED", "SUSPENDED", "DELETED"}
    [] s = "VALIDATED"        -> {"ACTIVE", "DEGRADED", "FAILED", "SUSPENDED", "DELETED"}
    [] s = "ACTIVE"           -> {"DEGRADED", "FAILED", "SUSPENDED", "DELETED"}
    [] s = "DEGRADED"         -> {"ACTIVE", "FAILED", "SUSPENDED", "DELETED"}
    [] s = "FAILED"           -> {"CREDENTIAL_BOUND", "VALIDATED", "SUSPENDED", "DELETED"}
    [] s = "SUSPENDED"        -> {"REGISTERED", "CREDENTIAL_BOUND", "VALIDATED", "ACTIVE",
                                  "FAILED", "DELETED"}
    [] s = "DELETED"          -> {}

=============================================================================

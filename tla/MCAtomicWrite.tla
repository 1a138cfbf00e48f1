--------------------------- MODULE MCAtomicWrite ----------------------------
(* Model values and bounds for model-checking AtomicWrite. *)
EXTENDS AtomicWrite
AllFaults == {"mkdir", "create", "write", "sync", "chmod", "rename", "remove"}
\* Only system calls other than metadata and set_permissions fail.
FaultsButChmod == AllFaults \ {"chmod"}
CONSTANTS Exec
MCModes == {Default, Exec}
MCSources == {NoSource, Exec}
=============================================================================

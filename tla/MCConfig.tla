----------------------------- MODULE MCConfig ------------------------------
(* SysfsConfig over an 8-byte config file of which 6 bytes can be read.    *)
EXTENDS SysfsConfig

MCOffsets == 0..6
MCFaults == {"stat", "open", "io"}
MCNoFaults == {}

=============================================================================

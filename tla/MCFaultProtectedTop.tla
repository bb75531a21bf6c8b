------------------------ MODULE MCFaultProtectedTop ------------------------
(* Small instances of the fault-protected top for TLC. *)
EXTENDS FaultProtectedTop

CONSTANTS c1, c2

MCCiphertext == {c1, c2}
MCOneCiphertext == {c1}
MCCheckedFaults == {"hash_cmd", "ss", "transcript", "material", "hash_error"}
MCStall == {"stall"}
MCSpurious == {"spurious"}
=============================================================================

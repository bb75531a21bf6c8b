------------------------ MODULE MCHandoverController ------------------------
(* Small instances of the handover demonstration for TLC. *)
EXTENDS HandoverController

MCAnywhere == {"before", "at", "after"}
MCEntry == {"before"}

MCBoardA == {"A"}
MCNoBoard == {}

MCAll == Vehicle
MCNone == {}

MCSerial == {FALSE}
MCSerialOrMock == {FALSE, TRUE}

MCEverything == {"pause", "attack", "quit"}
=============================================================================

------------------------- MODULE MCBoardSerialLink -------------------------
(* Small instances of a board's serial link for TLC. *)
EXTENDS BoardSerialLink

CONSTANTS s1, s2, v1, p1

MCLinks == {"serial_board_v2", "board_link_v2", "board_link"}

MCTwoSlots == {s1, s2}
MCOneVehicle == {v1}
MCOnePayload == {p1}
=============================================================================

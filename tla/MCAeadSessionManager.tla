------------------------ MODULE MCAeadSessionManager ------------------------
(* Small instances of the session manager for TLC. *)
EXTENDS AeadSessionManager

CONSTANTS m1, m2

\* A payload that fits and one that is too long.
MCLength == {1, 3}
MCOneLength == {1}
MCMaterial == {m1, m2}
=============================================================================

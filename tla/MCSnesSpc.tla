------------------------------- MODULE MCSnesSpc -------------------------------
(* A small SnesSpc: registers used before, within and at the end of a sample. *)
EXTENDS SnesSpc
MCRegTimes == {-5, 0, 3}
=============================================================================

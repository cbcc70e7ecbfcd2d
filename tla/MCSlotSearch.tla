----------------------------- MODULE MCSlotSearch -----------------------------
(***************************************************************************)
(* Instances of SlotSearch for TLC: slots of 6 hours, so that a day has    *)
(* four, with reservations of one slot, one and a half, and two; times on  *)
(* the grid, half a slot off it (09:00, 21:00) and a sixth off it (07:00,  *)
(* which is not exact), the first and the last slot of the day among them. *)
(* Numbers have 13 significant bits.  13 leaves the same remainder as 53   *)
(* modulo 4, the period of thirds, fifths and fifteenths in binary: they   *)
(* are rounded to the same side, and a slot search is off where it is off  *)
(* in the code.                                                            *)
(***************************************************************************)
EXTENDS SlotSearch

MCTimes == {<<0, 0>>, <<6, 0>>, <<7, 0>>, <<9, 0>>, <<12, 0>>, <<18, 0>>, <<21, 0>>}
=============================================================================

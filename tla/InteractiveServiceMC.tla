------------------------ MODULE InteractiveServiceMC ------------------------
(* Small instances of InteractiveService. *)
EXTENDS InteractiveService, TLC

CONSTANTS r1, r2

TwoRequests == {r1, r2}

(* The second launch may ask for the same, another or too large an amount. *)
SomeAmounts == <<0 .. 1, 0 .. 3>>
=============================================================================

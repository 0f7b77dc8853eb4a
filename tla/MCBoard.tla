------------------------------ MODULE MCBoard ------------------------------
(* A board of each kind, booted once into every end, and the calls of each
   group of drivers in every order.  At most MaxFaults transfers are lost, and
   only in the groups about the chips on the buses. *)
EXTENDS Board

MCApart == {"sd0", "sd1", "sd2", "sd3", "cpu1"}
MCVoltages == {0, 130000}
MCUnreliable == {"rails", "chips"}
=============================================================================

---------------------------- MODULE MCSafetyNet ----------------------------
(* Instances of SafetyNet: the method b of class Z and the function c of   *)
(* module m, and the function b of module z, which the blast radius of the *)
(* first reaches.  A target can be asked for by any full name and by Z.b,  *)
(* which finds the method (the symbol in m.py comes before the one in      *)
(* z.py) and gives the test file of the function of module z.              *)
EXTENDS SafetyNet, TLC

MCFileOf == [s \in Symbols |-> IF s = "z.b" THEN "z.py" ELSE "m.py"]
MCReach == [s \in Symbols |-> IF s = "m.Z.b" THEN {"m.Z.b", "z.b"} ELSE {s}]
MCRequests == Symbols \cup {"Z.b"}
MCFqn == [s \in Symbols |-> s]
MCResolve == [r \in MCRequests |-> IF r = "Z.b" THEN "m.Z.b" ELSE r]
MCPathOf == [r \in MCRequests |-> IF r = "Z.b" THEN "z.b" ELSE r]
MCSymmetry == Permutations(Jobs)
=============================================================================

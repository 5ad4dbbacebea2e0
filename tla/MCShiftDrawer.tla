---------------------------- MODULE MCShiftDrawer ----------------------------
(* Two tills and two users: the first user opens shifts on both tills, the  *)
(* first till is used by both.  Two sales name the first shift; their        *)
(* refunds may be paid by any.                                              *)
EXTENDS ShiftDrawer, TLC

CONSTANTS s1, s2, s3

MCShifts == {s1, s2, s3}
MCDeviceOf == [s \in MCShifts |-> IF s = s2 THEN 2 ELSE 1]
MCStaffOf == [s \in MCShifts |-> IF s = s3 THEN 2 ELSE 1]
MCShiftOf == [o \in Sales |-> s1]
MCSymmetry == Permutations(Sales) \cup Permutations(Workers)
=============================================================================

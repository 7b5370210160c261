---------------------------- MODULE MCDailyData ----------------------------
(***************************************************************************)
(* Small instances of DailyData: which records there are, of which date    *)
(* and file.                                                               *)
(***************************************************************************)
EXTENDS DailyData, TLC

CONSTANTS r1, r2, f1, f2

TwoOfADay == (r1 :> 0) @@ (r2 :> 0)
TwoFiles  == (r1 :> f1) @@ (r2 :> f2)
=============================================================================

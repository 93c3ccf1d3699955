------------------------------ MODULE MCPaging ------------------------------
(***************************************************************************)
(* Four rows, two times (so that rows share one and rows differ), page     *)
(* sizes that are taken as they are, replaced by the default, and cut to   *)
(* the maximum, and two changes of the table during the walk.              *)
(***************************************************************************)
EXTENDS Paging

FourRows == 1 .. 4
TwoTimes == 1 .. 2
AskedFor == {-1, 1, 9}
=============================================================================

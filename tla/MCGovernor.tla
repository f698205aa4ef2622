------------------------------ MODULE MCGovernor ------------------------------
(* The governor with one scan and one worker goroutine waiting, and the      *)
(* smallest ages at which every branch of decide() is taken.                 *)
EXTENDS Governor

MCTierBoundary == <<3, 4, 5>>
MCRate == <<1, 2, 4, 8>>
===============================================================================

---------------------------- MODULE MCIdleTransfer ----------------------------
(* Two media files of one name, one in a directory and one in its subdirectory, *)
(* beside a file that is no media.                                              *)
EXTENDS IdleTransfer, TLC

CONSTANTS a, b, notes, top, sub

MCFiles == {a, b, notes}
MCDirs == {top, sub}
MCMedia == {a, b}
MCChildren == (top :> <<a, sub>>) @@ (sub :> <<b, notes>>)
MCChain == (top :> <<sub>>) @@ (sub :> <<b>>)
MCSize == (a :> 2) @@ (b :> 1) @@ (notes :> 1)
MCBaseName == (a :> "image") @@ (b :> "image") @@ (notes :> "notes")

MCSymmetry == Permutations(Requests) \cup Permutations(Workers)
===============================================================================

---------------------------- MODULE MCWorkbench ----------------------------
(* One window of two files, at most three connections and three terminals;  *)
(* or the store of three hosts, of which two are kept, and four mutations.  *)
EXTENDS Workbench

CONSTANTS path1, path2, hA, hB, hC, m1, m2, m3, m4, m5, m6, m7, m8

\* Saving by hand and by timer; a reconnect; renaming and deleting; closing and
\* opening again; a disconnect; terminals shown, split, closed; terminals over a
\* reconnect; a dying server; terminals over a disconnect; three connections; errors of a live
\* client and late file systems, over terminals and over tabs.
MCMixes ==
    { [connect |-> 1, open |-> 1, show |-> 1, edit |-> 2, save |-> 1],
      [connect |-> 2, loss |-> 1, open |-> 1, show |-> 2, edit |-> 1],
      [connect |-> 1, open |-> 1, show |-> 1, edit |-> 1, rename |-> 1, delete |-> 1],
      [connect |-> 1, open |-> 2, close |-> 1, show |-> 2, edit |-> 1],
      [connect |-> 2, disconnect |-> 1, open |-> 1, show |-> 1],
      [connect |-> 1, shell |-> 2, print |-> 3, hang |-> 1, reveal |-> 1, exit |-> 1],
      [connect |-> 2, loss |-> 1, shell |-> 2, print |-> 1],
      [connect |-> 1, open |-> 1, show |-> 2, edit |-> 1, crash |-> 1],
      [connect |-> 2, disconnect |-> 1, shell |-> 1, print |-> 1],
      [connect |-> 3, loss |-> 1, open |-> 1],
      [connect |-> 2, error |-> 1, files |-> 2, loss |-> 1, shell |-> 1, print |-> 1],
      [connect |-> 1, error |-> 1, files |-> 1, shell |-> 2, print |-> 1],
      [connect |-> 2, error |-> 1, files |-> 1, open |-> 1, show |-> 1],
      [none |-> 0] }

MCStoreMixes == {{}, {m1, m2, m3, m4}, {m1, m2, m5, m6}, {m1, m3, m7, m8}}

MCOp ==
    m1 :> [op |-> "save", host |-> hA] @@ m2 :> [op |-> "import", hosts |-> <<hA, hB, hC>>]
    @@ m3 :> [op |-> "saveTunnel", host |-> hA, tunnel |-> "t"] @@ m4 :> [op |-> "rename", host |-> hB, name |-> hC]
    @@ m5 :> [op |-> "visit", host |-> hA, path |-> "w"] @@ m6 :> [op |-> "save", host |-> hC]
    @@ m7 :> [op |-> "remove", host |-> hA] @@ m8 :> [op |-> "removeTunnel", host |-> hA, tunnel |-> "t"]
=============================================================================

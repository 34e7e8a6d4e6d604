------------------------------ MODULE MC_FuseFs ------------------------------
EXTENDS FuseFs, TLC

CONSTANTS T1, T2, NoThreadV, NullV

Row(ino, parent, name) == [inode |-> ino, parent |-> parent, name |-> name]

(* A recovered tree: the root, a directory "d" holding "f" twice (a stale  *)
(* directory record of an older xid beside the newest one) and a file "g" *)
(* at the top; and the same tree whose root inode record was never found.  *)
Tree == { Row(16, 2, "d"), Row(17, 16, "f"), Row(19, 16, "f"),
          Row(18, 2, "g") }
MCTables == { Tree \cup {Row(2, 1, "root")}, Tree }

(* "/", "/d", "/d/f", "/x/f" (a missing directory), "/g".                   *)
MCPaths == { <<>>, <<"d">>, <<"d", "f">>, <<"x", "f">>, <<"g">> }

MCThreads == {T1, T2}

(* The worker threads run the same code: swapping them is a symmetry.     *)
MCSymmetry == Permutations(MCThreads)
=============================================================================

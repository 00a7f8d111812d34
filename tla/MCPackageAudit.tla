--------------------------- MODULE MCPackageAudit ---------------------------
(* Two packages: one lists a file and a path with a blank whose first word   *)
(* is that file; the other lists a file of its own.                          *)
EXTENDS PackageAudit

MCPackages == {"a", "b"}
MCPathOrder == <<"/f", "/f g", "/h">>
MCPaths == Range(MCPathOrder)
MCListed == ("a" :> <<"/f", "/f g">>) @@ ("b" :> <<"/h">>)
MCFirstWord == ("/f" :> "/f") @@ ("/f g" :> "/f") @@ ("/h" :> "/h")
MCContents == {<<>>, <<1>>, <<1, 2>>}

(* Files are named by numbers.  Nothing depends on the names, so it is       *)
(* enough to begin with them in the order of the paths.                      *)
InOrder ==
  \A k \in DOMAIN MCPathOrder : \A i \in Inodes \ {1} :
    inode[MCPathOrder[k]] = i => \E j \in 1..(k - 1) : inode[MCPathOrder[j]] = i - 1

MCInit == Init /\ InOrder

MCSpec == MCInit /\ [][Next]_vars /\ WF_vars(Program)
=============================================================================

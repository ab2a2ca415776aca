--------------------------- MODULE MCMediaInstall ---------------------------
(* Instances of MediaInstall for TLC: two directories, a file in each, one   *)
(* of them empty; an older version of the same names, and one with a file    *)
(* where there is a directory now, the other way round, and in the latter a  *)
(* directory that is gone since with a file in it.                           *)
EXTENDS MediaInstall, TLC

CONSTANTS root, sub, script, image, gone, lost

MCDirs == {root, sub}
MCFiles == {script, image}
MCParent == sub :> root @@ script :> root @@ image :> sub @@ gone :> script @@ lost :> gone
MCSize == script :> 2 @@ image :> 0
MCOldDisks ==
  {root :> Directory @@ sub :> Directory @@ script :> Old @@ image :> Old,
   root :> Directory @@ sub :> Old @@ script :> Directory @@ gone :> Directory @@ lost :> Old}
=============================================================================

------------------------------- MODULE MCRelease -------------------------------
(***************************************************************************)
(* Seven commits hold two releases from main, or one from main, one from a *)
(* release branch and a bump by hand; where something is packaged, fewer   *)
(* commits hold a release that is begun twice.                             *)
(***************************************************************************)
EXTENDS Release

CONSTANT MaxPackaged  \* bound on the commits, where something is packaged

FewPackaged == pkg # {} \/ published # {} => Len(commits) <= MaxPackaged
=============================================================================

------------------------------ MODULE MCSdFile ------------------------------
(* SdFile.tla for TLC: a program in three clusters, one that lies between    *)
(* them, and a directory; the FAT has two sectors.                           *)
EXTENDS SdFile, TLC

CONSTANTS prog, data, bin

OpenFiles == {prog, data, bin}
Directories == {bin}
Chains == (prog :> <<2, 3, 5>>) @@ (data :> <<4>>) @@ (bin :> <<6>>)
Sizes == (prog :> 15) @@ (data :> 3) @@ (bin :> 4)
Reads == {1, 2}
=============================================================================

---------------------------- MODULE MCGemmComm ----------------------------
(* Instances of the two-rank GEMM: the modes of the launches.              *)
EXTENDS GemmComm

\* every mode that communicates after one that announces other things, or nothing
AllModes == <<2, 5, 3, 1, 4, 6, 0, -1, 2>>
=============================================================================

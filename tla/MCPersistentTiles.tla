------------------------- MODULE MCPersistentTiles -------------------------
(* Instances of the persistent kernels' tile loop.                         *)
EXTENDS PersistentTiles
=============================================================================

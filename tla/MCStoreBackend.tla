--------------------------- MODULE MCStoreBackend ---------------------------
(***************************************************************************)
(* StoreBackend on a small cluster where one request is served at a time:  *)
(* the two jobs of MCControlPlane and a third one that ties with the       *)
(* second and has no retry.                                                *)
(***************************************************************************)
EXTENDS MCControlPlane, StoreBackend

TiedMaxRetries == 3 :> 0 @@ SmallMaxRetries
TiedPriority   == 3 :> 5 @@ SmallPriority
TiedGPU        == 3 :> 0 @@ SmallGPU
TiedGPUMemory  == 3 :> [val |-> 0, suffix |-> "none"] @@ SmallGPUMemory
=============================================================================

------------------------------- MODULE MCPack -------------------------------
(* Blobs of no bytes, one, two, and one over the limit of three. *)
EXTENDS PackUpload

CONSTANTS empty, one, two, huge

MCBlobs == {empty, one, two, huge}
MCSize == [b \in MCBlobs |->
    CASE b = empty -> 0 [] b = one -> 1 [] b = two -> 2 [] b = huge -> 4]
==============================================================================

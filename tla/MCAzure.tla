------------------------------- MODULE MCAzure -------------------------------
(* Up to three puts of one blob, or some of them of the empty one, which is *)
(* put without a copy.                                                      *)
EXTENDS AzurePut

CONSTANTS u1, u2, u3, blob, nil

MCUploads == [u \in Puts |-> IF u = u1 THEN {blob} ELSE {blob, nil}]
==============================================================================

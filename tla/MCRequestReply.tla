--------------------------- MODULE MCRequestReply ---------------------------
(***************************************************************************)
(* Small instances of RequestReply: threads a1 and a2 call send on the     *)
(* client, b1 on the server's side of the first connection.                *)
(***************************************************************************)
EXTENDS RequestReply

CONSTANTS a1, a2, b1

HomeOf == [s \in Sender |-> IF s = b1 THEN 1 ELSE 0]
=============================================================================

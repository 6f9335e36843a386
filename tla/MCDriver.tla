------------------------------ MODULE MCDriver ------------------------------
(***************************************************************************)
(* Packets for DyscoDriver: a segment that is handed back while anything   *)
(* is in the ring, and a small packet, a SYN or a message of the daemon.   *)
(***************************************************************************)
EXTENDS DyscoDriver, TLC

CONSTANTS large, small

Small(k) == (large :> "data") @@ (small :> k)
MCCases == {<<"driver", Small("syn")>>, <<"driver", Small("control")>>, <<"nf", Small("syn")>>}
MCSize == (large :> 3) @@ (small :> 1)
=============================================================================

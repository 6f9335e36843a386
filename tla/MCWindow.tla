------------------------------ MODULE MCWindow ------------------------------
(***************************************************************************)
(* Numbers for DyscoWindow: the left session's wrap while it is throttled, *)
(* the right session has nothing to say.                                   *)
(***************************************************************************)
EXTENDS DyscoWindow

MCFirst == [left |-> 14, right |-> 0]
MCBytes == [left |-> 4, right |-> 0]
=============================================================================

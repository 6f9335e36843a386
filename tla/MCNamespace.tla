---------------------------- MODULE MCNamespace ----------------------------
(***************************************************************************)
(* The instance of DyscoNamespace in namespaces.cfg.  Its users and its    *)
(* namespaces are interchangeable, but DeletionEnds is a liveness property *)
(* and TLC uses no symmetry for it.                                        *)
(***************************************************************************)
EXTENDS DyscoNamespace
=============================================================================

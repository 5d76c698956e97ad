------------------------------ MODULE MCEntities ------------------------------
(***************************************************************************)
(* Model-checking instances of EntityWalks.                                *)
(***************************************************************************)
EXTENDS EntityWalks
=============================================================================

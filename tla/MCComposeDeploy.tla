--------------------------- MODULE MCComposeDeploy ---------------------------
(* ComposeDeploy with the number of attempts the code makes.               *)
EXTENDS ComposeDeploy

=============================================================================

--------------------------- MODULE MCGracefulExit ---------------------------
(* GracefulExit on small sets of threads; the cfgs give the sets.          *)
EXTENDS GracefulExit

=============================================================================

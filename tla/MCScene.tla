------------------------------ MODULE MCScene -------------------------------
(* Two ranks, three images in batches of one, two or all of them, and up to *)
(* three plots of any kind.                                                *)
EXTENDS Scene
=============================================================================

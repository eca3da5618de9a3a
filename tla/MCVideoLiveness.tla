--------------------------- MODULE MCVideoLiveness ---------------------------
(* TLC instances of VideoLiveness: see the .cfg file for the constants. *)
EXTENDS VideoLiveness

\* A head at rest, slightly off, and turned just enough to either side.
MCYaws == {-15, 0, 5, 15}
=============================================================================

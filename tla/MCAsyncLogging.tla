--------------------------- MODULE MCAsyncLogging ---------------------------
(***************************************************************************)
(* Buffers of three slots, of which two are used: five lines fill the       *)
(* current and the next buffer and need a third one, while the back end     *)
(* writes others.  The first period ends after one second.                  *)
(***************************************************************************)
EXTENDS AsyncLogging
=============================================================================

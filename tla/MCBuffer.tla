------------------------------ MODULE MCBuffer ------------------------------
(***************************************************************************)
(* All sequences of up to three bytes, on a buffer whose areas have two     *)
(* bytes each: short enough for every boundary to be met.  An int goes from *)
(* -3 to 2: three bytes and more are what 2^31 and more are in the code.    *)
(***************************************************************************)
EXTENDS Buffer

MCData == UNION {[1..n -> {CR, LF}] : n \in 0..3}
            \cup {<<CR, LF, CR, LF>>}
=============================================================================

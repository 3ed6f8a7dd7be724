-------------------------- MODULE MCStreamSchedule --------------------------
EXTENDS StreamSchedule

CONSTANTS a, b, c

(* No collision, one of two streams, and the larger one it grows to.          *)
MCListings == {{a}, {a, b}, {a, b, c}}
=============================================================================

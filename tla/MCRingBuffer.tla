--------------------------- MODULE MCRingBuffer ---------------------------
(* A ring of three bytes with two descriptors, two readers that open it      *)
(* three times between them, and a stream that goes around it.               *)
EXTENDS RingBuffer

\* What comes after a lost update is not explored: every property is excused
\* from then on, because raced stays.
Unraced == ~raced
=============================================================================

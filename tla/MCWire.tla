------------------------------- MODULE MCWire -------------------------------
(* Instances of Wire for TLC. *)
EXTENDS Wire

\* Lengths around every limit: the four capacities less one and the headers of 5
\* and 7, 4096 less the headers, and 2^16 less the headers.
EdgeLengths ==
  {0, 1, 505, 506, 511, 512, 1019, 1023, 1024, 2043, 2047, 2048, 4089, 4090, 4091, 4092, 4095,
   4096, 65526, 65529, 65530, 65531, 65533, 65534, 65535, 65536, 65541}

\* Verifications at the limits of their parts; the last two pass the encoder, whose
\* only limit is on the sum.
V(capLevel, idLen, secretLen, colon) ==
  [id |-> 258, capLevel |-> capLevel, idLen |-> idLen, secretLen |-> secretLen,
   colon |-> colon]
EdgeVerifies ==
  {V(c, 36, n, FALSE) : c \in 0 .. 3, n \in {23, 24, 64, 65}}
  \cup {V(0, 35, 26, FALSE), V(0, 36, 24, TRUE)}
=============================================================================

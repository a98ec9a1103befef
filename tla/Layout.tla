------------------------------- MODULE Layout -------------------------------
(***************************************************************************)
(* Parts that follow one another without a gap: the certificates of a      *)
(* byte stream, the NV indices it is split across, the records of a log    *)
(* and the digests of a record.                                            *)
(***************************************************************************)
EXTENDS Naturals, Sequences

\* PartialSums(sizes)[n]: what the first n parts take together.
PartialSums(sizes) ==
  LET sum[n \in 0..Len(sizes)] == IF n = 0 THEN 0 ELSE sum[n - 1] + sizes[n]
  IN sum
=============================================================================

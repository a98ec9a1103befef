-------------------------- MODULE MCSignatureList --------------------------
(* Instances of SignatureList for TLC. *)
EXTENDS SignatureList

SmallWords == 0..5 \cup {8, WordMod - 2, WordMod - 1}
SmallLongWords == 0..2 \cup {5, 9, 10, SizeMod - 4, SizeMod - 1}
=============================================================================

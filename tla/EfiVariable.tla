---------------------------- MODULE EfiVariable ----------------------------
(***************************************************************************)
(* UEFI_VARIABLE_DATA, the event data of an EV_EFI_VARIABLE_* measurement: *)
(* a header with two 64-bit lengths, a name and the contents.  Both        *)
(* lengths come from the log.                                              *)
(***************************************************************************)
EXTENDS Naturals

CONSTANTS
  HEADER_BYTES,                 \* the GUID and the two lengths: 32
  MAX_EFI_VARIABLE_NAME_CHARS,  \* 1024
  SizeMod                       \* 2^64: the values of size_t and of a length

ASSUME EfiVariableAssumption ==
  /\ HEADER_BYTES \in Nat
  /\ MAX_EFI_VARIABLE_NAME_CHARS \in Nat
  /\ SizeMod \in Nat \ {0}

\* Mutant: the lengths are added up first, and the sum compared.
TryParseByAddition(size, nameChars, dataBytes) ==
  /\ size >= HEADER_BYTES
  /\ (HEADER_BYTES + nameChars * 2 + dataBytes) % SizeMod <= size

\* Whether event data of `size' bytes that declares these two lengths is well
\* formed.  The bounds are compared in subtraction form.
TryParseEfiVariableData(size, nameChars, dataBytes) ==
  /\ size >= HEADER_BYTES
  /\ nameChars <= MAX_EFI_VARIABLE_NAME_CHARS
  /\ nameChars <= (size - HEADER_BYTES) \div 2
  /\ dataBytes <= (size - HEADER_BYTES) - nameChars * 2

\* Where the contents begin in well-formed event data.
DataAt(nameChars) == HEADER_BYTES + nameChars * 2
=============================================================================

---------------------------- MODULE MCOdcaChain ----------------------------
(* Instances of OdcaChain for TLC. *)
EXTENDS OdcaChain

\* Three certificates, as on the machine the source reports on.
ThreeCerts == <<3, 2, 3>>
=============================================================================

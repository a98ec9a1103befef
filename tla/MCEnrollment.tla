---------------------------- MODULE MCEnrollment ----------------------------
(* Instances of Enrollment for TLC. *)
EXTENDS Enrollment, TLC

CONSTANTS p1, p2, c1, c2, t1, t2

\* A thread and a client in each of two processes.
TwoThreadProc == (t1 :> p1) @@ (t2 :> p2)
TwoClientProc == (c1 :> p1) @@ (c2 :> p2)

\* Two threads of one process, with one client or with a client each.
OneThreadProc == (t1 :> p1) @@ (t2 :> p1)
OneClientProc == (c1 :> p1)
TwoClientsOneProc == (c1 :> p1) @@ (c2 :> p1)

\* Keys and provider addresses are interchangeable.
KeyAndProviderSymmetry == Permutations(Keys) \cup Permutations(Providers)
=============================================================================

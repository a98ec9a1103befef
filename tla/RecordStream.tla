---------------------------- MODULE RecordStream ----------------------------
(***************************************************************************)
(* What ParseAndAnalyzeEventLog promises of the entries it returns: the    *)
(* records of one log, each whole, in order and once, up to the first that *)
(* cannot be read.                                                         *)
(***************************************************************************)
EXTENDS Sequences

CONSTANT Records

VARIABLES
  stage,    \* whether a log was opened and whether it was read to its end
  pending,  \* the records that can still be read
  taken     \* the records read

streamVars == <<stage, pending, taken>>

StreamInit ==
  /\ stage = "closed"
  /\ pending = <<>>
  /\ taken = <<>>

Open ==
  /\ stage = "closed"
  /\ stage' = "open"
  /\ pending' \in Seq(Records)
  /\ UNCHANGED taken

Take ==
  /\ stage = "open"
  /\ pending # <<>>
  /\ taken' = Append(taken, Head(pending))
  /\ pending' = Tail(pending)
  /\ UNCHANGED stage

\* There is no log, or there is nothing more to read in it.
End ==
  /\ stage \in {"closed", "open"}
  /\ pending = <<>>
  /\ stage' = "ended"
  /\ UNCHANGED <<pending, taken>>

StreamNext == Open \/ Take \/ End

StreamSpec == StreamInit /\ [][StreamNext]_streamVars
=============================================================================

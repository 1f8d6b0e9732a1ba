--------------------------- MODULE UploadOutcome ----------------------------
(***************************************************************************)
(* What the uploader of a large capture is promised: the upload is either  *)
(* filed, as a claim, as intakes in the holding queue or as both, or it is *)
(* reported failed and leaves nothing.  Either way it happens once, and in *)
(* the end it happens.                                                     *)
(***************************************************************************)
CONSTANT Jobs

VARIABLES
  outcome,    \* of each job: absent, pending, filed or failed
  documents   \* what has been filed for each job

vars == <<outcome, documents>>

Init ==
  /\ outcome = [j \in Jobs |-> "absent"]
  /\ documents = [j \in Jobs |-> {}]

Accept(j) ==
  /\ outcome[j] = "absent"
  /\ outcome'[j] = "pending"
  /\ documents'[j] = documents[j]

File(j) ==
  /\ outcome[j] = "pending"
  /\ outcome'[j] = "filed"
  /\ documents'[j] \in (SUBSET {"claim", "intakes"}) \ {{}}

GiveUp(j) ==
  /\ outcome[j] = "pending"
  /\ outcome'[j] = "failed"
  /\ documents'[j] = documents[j]

Keep(j) == UNCHANGED <<outcome[j], documents[j]>>

\* Several jobs may be given up in one step.
Next == \A j \in Jobs : Accept(j) \/ File(j) \/ GiveUp(j) \/ Keep(j)

Decided == \A j \in Jobs : outcome[j] = "pending" ~> outcome[j] \in {"filed", "failed"}

Safe == Init /\ [][Next]_vars

Spec == Safe /\ Decided
=============================================================================

--------------------------- MODULE ReviewRepositories ---------------------------
(***************************************************************************)
(* The two places where the API keeps review cases: PostgreSQL (Stewardship) *)
(* or a CSV file (ReviewFile).  _review_repository of api/main.py chooses by  *)
(* STEWARDSHIP_DSN, so a behaviour is one deployment or the other.            *)
(***************************************************************************)
EXTENDS Stewardship

CONSTANTS Job, CaseOrder, Detections, MaxRuns, MaxCalls

VARIABLES dsn, file, call, promised, runs, calls, lost

File == INSTANCE ReviewFile WITH faults <- lost

ASSUME FileAssumption == File!ReviewFileAssumption

fileVars == <<file, call, promised, runs, calls, lost>>

\* os.getenv("STEWARDSHIP_DSN") is read on each request, and stays.
DeploymentInit == Init /\ File!Init /\ dsn \in BOOLEAN
DeploymentNext ==
  /\ UNCHANGED dsn
  /\ \/ dsn /\ Next /\ UNCHANGED fileVars
     \/ ~dsn /\ File!Next /\ UNCHANGED vars
DeploymentSpec == DeploymentInit /\ [][DeploymentNext]_<<vars, fileVars, dsn>>

\* ReviewFile's property: a row that a decision or a detection run has written
\* stands in the file until the next of its case, unless a call that overlapped
\* it or a lost writer has rewritten the file (repository.py:118-145).
DecisionStands == File!DecisionStands
=============================================================================

--------------------------- MODULE CleanerContract --------------------------
(***************************************************************************)
(* What a cleaner run promises, without its goroutines: it decides on a    *)
(* set of notes, backs the database up before it touches the first one,    *)
(* rewrites them a batch at a time, and reports success only when all of   *)
(* them are stored.  It may fail at any moment, between two batches and    *)
(* never inside one.  CleanerRun is shown to implement this.               *)
(***************************************************************************)
EXTENDS Naturals, FiniteSets

CONSTANTS Notes, BatchSize

VARIABLES
  dirty,      \* the notes the template would change
  cancelled,  \* the caller gave the run up
  backedUp,   \* the database was backed up
  phase,      \* planning, applying, succeeded or failed
  plan,       \* the notes the run has decided to rewrite
  stored      \* the notes rewritten so far

cvars == <<dirty, cancelled, backedUp, phase, plan, stored>>

Init ==
  /\ dirty \in SUBSET Notes
  /\ cancelled = FALSE
  /\ backedUp = FALSE
  /\ phase = "planning"
  /\ plan = {}
  /\ stored = {}

Active == phase \in {"planning", "applying"}

Cancel ==
  /\ Active
  /\ cancelled' = TRUE
  /\ UNCHANGED <<dirty, backedUp, phase, plan, stored>>

\* Only a run that was cancelled may settle for part of the dirty notes.
Adopt ==
  /\ phase = "planning"
  /\ phase' = "applying"
  /\ backedUp' = TRUE
  /\ plan' \in SUBSET dirty
  /\ plan' = dirty \/ cancelled
  /\ UNCHANGED <<dirty, cancelled, stored>>

\* Batches are full but for the last.
ApplyBatch ==
  /\ phase = "applying"
  /\ \E batch \in SUBSET (plan \ stored) :
       /\ batch # {}
       /\ Cardinality(batch) <= BatchSize
       /\ Cardinality(batch) = BatchSize \/ batch = plan \ stored
       /\ stored' = stored \union batch
  /\ UNCHANGED <<dirty, cancelled, backedUp, phase, plan>>

\* From planning: a dry run.
Succeed ==
  /\ Active
  /\ phase = "applying" => stored = plan
  /\ phase' = "succeeded"
  /\ UNCHANGED <<dirty, cancelled, backedUp, plan, stored>>

Fail ==
  /\ Active
  /\ phase' = "failed"
  /\ UNCHANGED <<dirty, cancelled, backedUp, plan, stored>>

Next == Cancel \/ Adopt \/ ApplyBatch \/ Succeed \/ Fail

Spec == Init /\ [][Next]_cvars
=============================================================================

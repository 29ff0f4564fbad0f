---------------------------- MODULE Publication ----------------------------
(***************************************************************************)
(* What the ingestion pipeline promises of one dataset, without processes, *)
(* transactions, locks or faults: raw evidence is kept, a candidate is     *)
(* decided on against its critical checks and the exceptions granted, and  *)
(* a decision shows all of its effects at once or none.                    *)
(***************************************************************************)
CONSTANTS
  Payloads,         \* raw payloads
  Batches,          \* normalised observation sets
  BatchOf,          \* [Payloads -> Batches]
  Checks,           \* codes of critical checks
  CriticalFailures  \* [Payloads -> SUBSET Checks]

VARIABLES
  evidence,   \* payloads kept
  catalogue,  \* published batches
  lineage,    \* <<payload, batch>> published together
  decisions,  \* run records; again: one that repeats an earlier one
  complaints  \* <<payload, check>> reported as incidents

vars == <<evidence, catalogue, lineage, decisions, complaints>>

Init ==
  /\ evidence = {}
  /\ catalogue = {}
  /\ lineage = {}
  /\ decisions = {}
  /\ complaints = {}

Keep(pl) ==
  /\ evidence' = evidence \union {pl}
  /\ UNCHANGED <<catalogue, lineage, decisions, complaints>>

Decision(pl, waivers, verdict) ==
  LET first == [payload |-> pl, status |-> verdict,
                waived |-> CriticalFailures[pl] \intersect waivers,
                failed |-> CriticalFailures[pl] \ waivers,
                again |-> FALSE]
  IN  IF first \in decisions THEN [first EXCEPT !.again = TRUE] ELSE first

(* A checksum is published once. *)
Publish(pl, waivers) ==
  /\ pl \in evidence
  /\ CriticalFailures[pl] \subseteq waivers
  /\ BatchOf[pl] \notin catalogue
  /\ catalogue' = catalogue \union {BatchOf[pl]}
  /\ lineage' = lineage \union {<<pl, BatchOf[pl]>>}
  /\ decisions' = decisions \union {Decision(pl, waivers, "succeeded")}
  /\ UNCHANGED <<evidence, complaints>>

Reject(pl, waivers) ==
  /\ pl \in evidence
  /\ ~(CriticalFailures[pl] \subseteq waivers)
  /\ decisions' = decisions \union {Decision(pl, waivers, "failed")}
  /\ complaints' = complaints \union {<<pl, c>> : c \in CriticalFailures[pl] \ waivers}
  /\ UNCHANGED <<evidence, catalogue, lineage>>

Next ==
  \E pl \in Payloads :
    \/ Keep(pl)
    \/ \E waivers \in SUBSET Checks : Publish(pl, waivers) \/ Reject(pl, waivers)

Spec == Init /\ [][Next]_vars
=============================================================================

--------------------------- MODULE MCOffboarding ---------------------------
(***************************************************************************)
(* Instances of Offboarding for TLC: two processes, a control-plane pool   *)
(* and a worker pool.                                                      *)
(***************************************************************************)
EXTENDS Offboarding, TLC

CONSTANTS cp, wk, a, b

\* The processes are alike, so it does not matter which one has the lease first.
Led == leader = a

\* One machine, of either pool or of none, and MaxEdits edits.
Single == Exists(1) /\ ~Exists(2) /\ edits = 0

\* A machine of the control plane and a worker, and one edit.
Staffed == inst[1].claimedBy = cp /\ inst[2].claimedBy = wk /\ edits = MaxEdits - 1

MCInit == Init /\ Led /\ (Single \/ Staffed)

MCSpec == MCInit /\ [][Next]_vars /\ Fairness
=============================================================================

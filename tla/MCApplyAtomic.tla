---------------------------- MODULE MCApplyAtomic ----------------------------
(***************************************************************************)
(* The instance whose sessions are calm: the hypothesis of CallsAtomic.    *)
(***************************************************************************)
EXTENDS MCApplyPlan

ASSUME CalmInstance == Calm
=============================================================================

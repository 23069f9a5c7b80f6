----------------------------- MODULE AtomicApply -----------------------------
(***************************************************************************)
(* What ai.apply_plan promises a client whose plan can be undone: a job    *)
(* spends one approval and then either carries out all its operations, in  *)
(* order, or leaves the triggers as they were, and it does the latter only *)
(* when one of its operations is impossible.                               *)
(***************************************************************************)
EXTENDS Naturals, Sequences

CONSTANTS
    Trees,          \* the trigger data a session may start from
    Jobs,           \* the plans a client sends
    NoJob,
    Refusals,       \* replies of a call that starts no job
    Effect(_, _)    \* the trees an operation can turn a tree into; none: it is impossible

VARIABLES tree, credits, job, outcome
vars == <<tree, credits, job, outcome>>

Init == tree \in Trees /\ credits = 0 /\ job = NoJob /\ outcome = "none"

Grant == credits' = credits + 1 /\ UNCHANGED <<tree, job, outcome>>

Withdraw == job = NoJob /\ credits' = 0 /\ UNCHANGED <<tree, job, outcome>>

Refuse == job = NoJob /\ outcome' \in Refusals /\ UNCHANGED <<tree, credits, job>>

Take ==
    /\ job = NoJob /\ credits > 0
    /\ job' \in Jobs /\ credits' = credits - 1 /\ outcome' = "none"
    /\ UNCHANGED tree

\* The trees that carrying out the whole of "ops" can lead to.
Finals(ops, start) ==
    LET after[i \in 0 .. Len(ops)] ==
            IF i = 0 THEN {start} ELSE UNION {Effect(ops[i], t) : t \in after[i - 1]}
    IN  after[Len(ops)]

Commit ==
    /\ job # NoJob
    /\ tree' \in Finals(job, tree)
    /\ job' = NoJob /\ outcome' = "ok"
    /\ UNCHANGED credits

Abort ==
    /\ job # NoJob
    /\ Finals(job, tree) = {}
    /\ job' = NoJob /\ outcome' = "rolled_back"
    /\ UNCHANGED <<tree, credits>>

Next == Grant \/ Withdraw \/ Refuse \/ Take \/ Commit \/ Abort

Spec == Init /\ [][Next]_vars /\ WF_vars(Commit \/ Abort)
=============================================================================

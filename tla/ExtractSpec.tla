----------------------------- MODULE ExtractSpec -----------------------------
(***************************************************************************)
(* What SealsExtracter.Extract (isaac/seal.go) promises its caller, with   *)
(* the lookups, helper goroutines and map ranges left out: one call        *)
(* returns once, either with every operation of the proposal's seals      *)
(* exactly once, in some order, or with an error when a lookup may fail   *)
(* or the context may expire. The order is not promised: nodes holding    *)
(* different seals in storage order the operations differently.           *)
(***************************************************************************)
EXTENDS SequencesExt

CONSTANTS
    Wanted,    \* the operations carried by the proposal's seals
    CanFail    \* whether a lookup may fail or the context may expire

VARIABLES
    status,    \* "running", "ok" or "failed"
    returned   \* the operations returned

absVars == <<status, returned>>

AbsInit ==
    /\ status = "running"
    /\ returned = << >>

\* Extract returns the wanted operations, each once.
Return ==
    /\ status = "running"
    /\ status' = "ok"
    /\ returned' \in SetToSeqs(Wanted)

\* Extract returns an error and no operations.
Fail ==
    /\ status = "running"
    /\ CanFail
    /\ status' = "failed"
    /\ UNCHANGED returned

AbsNext == Return \/ Fail

\* A call always returns.
AbsSpec == AbsInit /\ [][AbsNext]_absVars /\ WF_absVars(AbsNext)

=============================================================================

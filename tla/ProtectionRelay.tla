--------------------------- MODULE ProtectionRelay ---------------------------
(***************************************************************************)
(* What the turbine protection of bh-intellirupter promises, without its   *)
(* function blocks: it samples the fault input once per scan, counts the   *)
(* rising edges it sees up to PV, and forgets them only when a clear is    *)
(* due.  A clear becomes due after PT quiet scans, or when an operator     *)
(* orders it.  TurbinePLC is shown to implement this specification.        *)
(***************************************************************************)
EXTENDS Naturals

CONSTANTS PV,   \* faults that trip the relay
          PT    \* quiet scans after which the faults may be forgotten

VARIABLES seen,    \* the fault input, as the last scan saw it
          count,   \* faults counted
          quiet,   \* scans timed since the last fault, up to PT
          due      \* the counter may be cleared

vars == <<seen, count, quiet, due>>

Init ==
  /\ seen = FALSE
  /\ count = 0
  /\ quiet = 0
  /\ due = FALSE

Rising(f) == f /\ ~seen

\* One scan that samples f.  The timer may start a scan late, never early.
Observe(f) ==
  /\ seen' = f
  /\ \/ /\ due
        /\ count' = 0
     \/ count' = IF Rising(f) /\ count < PV THEN count + 1 ELSE count
  /\ quiet' \in IF f THEN {0} ELSE {quiet, quiet + 1}
  /\ quiet' <= PT
  /\ due' => due \/ quiet = PT \/ quiet' = PT

\* The operator orders a clear, or takes the order back.
Operator ==
  /\ due' \in BOOLEAN
  /\ UNCHANGED <<seen, count, quiet>>

Next == (\E f \in BOOLEAN : Observe(f)) \/ Operator

Spec == Init /\ [][Next]_vars
=============================================================================

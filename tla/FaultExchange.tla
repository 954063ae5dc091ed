---------------------------- MODULE FaultExchange ----------------------------
(***************************************************************************)
(* What the control loop of RTU and HMI promises, without processes,       *)
(* connections and queues: a reading is asked about, gets the verdict that *)
(* the band demands, and the verdict is acted on before the next reading;  *)
(* coil 1 is raised by that and by nothing else.  Raising and releasing it *)
(* may fail unnoticed, and an exchange may be given up at any time.  Once  *)
(* the loop is broken nothing is promised.                                 *)
(* FaultLoop is shown to implement this specification.                     *)
(***************************************************************************)
VARIABLES asked,    \* the reading of the exchange under way, or "none"
          answer,   \* the verdict on it, or "none"
          raised,   \* coil 1
          broken

vars == <<asked, answer, raised, broken>>

Init == asked = "none" /\ answer = "none" /\ raised = FALSE /\ broken = FALSE

Ask(r) ==
  /\ asked = "none"
  /\ asked' = r
  /\ UNCHANGED <<answer, raised>>

Answer ==
  /\ asked # "none" /\ answer = "none"
  /\ answer' = IF asked = "out" THEN "fault" ELSE "no fault"
  /\ UNCHANGED <<asked, raised>>

Act ==
  /\ answer # "none"
  /\ raised' \in {raised, raised \/ answer = "fault"}
  /\ asked' = "none" /\ answer' = "none"

Release ==
  /\ asked = "none"
  /\ raised' \in {FALSE, raised}
  /\ UNCHANGED <<asked, answer>>

GiveUp ==
  /\ asked' = "none" /\ answer' = "none"
  /\ UNCHANGED raised

Exchange == (\E r \in {"in", "out"} : Ask(r)) \/ Answer \/ Act \/ Release \/ GiveUp

Next == (Exchange /\ ~broken /\ ~broken') \/ broken'

Spec == Init /\ [][Next]_vars
=============================================================================

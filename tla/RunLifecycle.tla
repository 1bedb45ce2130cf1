---------------------------- MODULE RunLifecycle ----------------------------
(***************************************************************************)
(* What a frontend that follows a run may rely on: the order of the phase  *)
(* events on the bus, the end marker, and how the phases that were         *)
(* announced and the status of the result fit together.  Engine implements *)
(* this specification.                                                     *)
(***************************************************************************)
EXTENDS Sequences

Phases == {"setup", "execute", "teardown", "complete"}
Status == {"PASSED", "THRESHOLD_FAILED", "SETUP_FAILED", "EXECUTION_FAILED",
           "TEARDOWN_FAILED", "STOPPED"}

VARIABLES
  events, \* the phases published so far, "end" for the None that follows them
  result  \* "none" yet, a status, or "cancelled" when run_task was cancelled

lifecycleVars == <<events, result>>

LifecycleInit == events = <<>> /\ result = "none"

Announced == {events[i] : i \in DOMAIN events}
LastPhase == IF events = <<>> THEN "none" ELSE events[Len(events)]

Follows(phase) ==
  CASE phase = "setup"    -> LastPhase = "none"
    [] phase = "execute"  -> LastPhase = "setup"
    [] phase = "teardown" -> LastPhase \in {"setup", "execute"}

Announce(phase) ==
  /\ result = "none"
  /\ Follows(phase)
  /\ events' = Append(events, phase)
  /\ UNCHANGED result

(* A run that was not cancelled went through teardown, and failed in setup *)
(* exactly when it never executed.                                         *)
Complete ==
  /\ result = "none"
  /\ LastPhase \in {"setup", "execute", "teardown"}
  /\ events' = events \o <<"complete", "end">>
  /\ \/ result' = "cancelled"
     \/ /\ LastPhase = "teardown"
        /\ result' \in (IF "execute" \in Announced THEN Status \ {"SETUP_FAILED"}
                                                   ELSE {"SETUP_FAILED"})

(* A cancellation may also end the run without a word: before its first    *)
(* step, or in the last one.                                               *)
EndSilently ==
  /\ result = "none"
  /\ LastPhase # "end"
  /\ result' = "cancelled"
  /\ UNCHANGED events

LifecycleNext ==
  \/ \E phase \in {"setup", "execute", "teardown"} : Announce(phase)
  \/ Complete
  \/ EndSilently

LifecycleSpec == LifecycleInit /\ [][LifecycleNext]_lifecycleVars
=============================================================================

------------------------------ MODULE MethodRun ------------------------------
(***************************************************************************)
(* What a loaded Method promises its caller, without instructions, values  *)
(* or chains: a run is started, advances, ends and is reset; inputs are    *)
(* accepted only between runs.  MethodExec implements this module.         *)
(***************************************************************************)
VARIABLES phase,         \* where the current run stands
          missing        \* the inputs the caller has not provided yet

runVars == <<phase, missing>>

Phases == {"ready", "stepping", "executing", "ended"}

Init == phase = "ready"

\* set_input / set_inputs: values are taken over only while no run is under way.
Accept(S) == /\ phase = "ready"
             /\ missing' = missing \ S
             /\ UNCHANGED phase

\* The deprecated accessors hand out a reference and trust the caller.
Expose(S) == /\ phase # "executing"
             /\ missing' = missing \ S
             /\ UNCHANGED phase

\* step(): a run that is not at its end advances, possibly to the end.
Advance == /\ phase \in {"ready", "stepping"}
           /\ phase' \in {"stepping", "ended"}
           /\ UNCHANGED missing

\* execute() starts between runs only, with every input provided ...
Start == /\ phase \in {"ready", "ended"}
         /\ missing = {}
         /\ phase' = "executing"
         /\ UNCHANGED missing

\* ... and, whether it succeeds or fails, leaves the method ready for reuse.
Finish == /\ phase = "executing"
          /\ phase' = "ready"
          /\ UNCHANGED missing

\* reset_execution(): the only way back from the end of a stepped run.
Reset == /\ phase = "ended"
         /\ phase' = "ready"
         /\ UNCHANGED missing

Next == \/ \E S \in SUBSET missing : Accept(S) \/ Expose(S)
        \/ Advance \/ Start \/ Finish \/ Reset

\* An execute() call returns.
Spec == Init /\ [][Next]_runVars /\ WF_runVars(Finish)
=============================================================================

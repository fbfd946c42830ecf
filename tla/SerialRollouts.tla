--------------------------- MODULE SerialRollouts ---------------------------
(***************************************************************************)
(* What the agent promises about the cluster: on each workload rollouts    *)
(* happen one after the other.  A rollout occupies its workload, may set   *)
(* the image to the version its task asks for and to nothing else, and may *)
(* announce success only while the workload has that version.              *)
(***************************************************************************)
CONSTANTS Tasks, Workloads, Version, WorkloadOf, NoTask

VARIABLES image,   \* tag of each workload
          busy,    \* the task that occupies each workload, or NoTask
          outcome  \* what was last announced about each task

vars == <<image, busy, outcome>>

Init ==
  /\ busy = [k \in Workloads |-> NoTask]
  /\ outcome = [t \in Tasks |-> "none"]

Begin(t) ==
  /\ busy[WorkloadOf[t]] = NoTask
  /\ busy' = [busy EXCEPT ![WorkloadOf[t]] = t]
  /\ UNCHANGED <<image, outcome>>

Occupies(t) == busy[WorkloadOf[t]] = t

Apply(t) ==
  /\ Occupies(t)
  /\ image' = [image EXCEPT ![WorkloadOf[t]] = Version[t]]
  /\ UNCHANGED <<busy, outcome>>

Announce(t, r) ==
  /\ Occupies(t)
  /\ r = "success" => image[WorkloadOf[t]] = Version[t]
  /\ outcome' = [outcome EXCEPT ![t] = r]
  /\ UNCHANGED <<image, busy>>

Finish(t) ==
  /\ Occupies(t)
  /\ busy' = [busy EXCEPT ![WorkloadOf[t]] = NoTask]
  /\ UNCHANGED <<image, outcome>>

\* The process ended: nobody occupies anything any more.
Abandon ==
  /\ busy' = [k \in Workloads |-> NoTask]
  /\ UNCHANGED <<image, outcome>>

Next ==
  \/ \E t \in Tasks : Begin(t) \/ Apply(t) \/ Finish(t)
  \/ \E t \in Tasks, r \in {"success", "failure"} : Announce(t, r)
  \/ Abandon

Spec == Init /\ [][Next]_vars
=============================================================================

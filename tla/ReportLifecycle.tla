-------------------------- MODULE ReportLifecycle ---------------------------
(***************************************************************************)
(* What diagnostic reports promise, without saying how: a report is opened *)
(* and ended once, with a verdict that stands; evidence is gathered until  *)
(* it is frozen, which is after the end; only a frozen report is sent, as  *)
(* it was frozen, and the server never holds a second version of it.       *)
(* Diagnostics implements this (DiagnosticsProps).                         *)
(***************************************************************************)

CONSTANTS
  Reports,
  NoPayload  \* what the server has of a report that was never sent

VARIABLES
  stage,     \* of each report: "absent", "open", "ended" or "frozen"
  verdict,   \* how it ended, or "none"
  evidence,  \* what it has gathered
  received   \* the payload of it the server has, or NoPayload

vars == <<stage, verdict, evidence, received>>

Others(f, r) == \A s \in Reports \ {r} : f'[s] = f[s]

Init ==
  /\ stage = [r \in Reports |-> "absent"]
  /\ verdict = [r \in Reports |-> "none"]
  /\ received = [r \in Reports |-> NoPayload]

Open(r) ==
  /\ stage[r] = "absent"
  /\ stage' = [stage EXCEPT ![r] = "open"]
  /\ UNCHANGED <<verdict, evidence, received>>

(* A session ends, or a restart finds several that were left open. *)
End(S) ==
  /\ \A r \in S : stage[r] = "open" /\ verdict'[r] # "none"
  /\ \A r \in Reports \ S : verdict'[r] = verdict[r]
  /\ stage' = [r \in Reports |-> IF r \in S THEN "ended" ELSE stage[r]]
  /\ UNCHANGED <<evidence, received>>

Gather(r) ==
  /\ stage[r] \in {"open", "ended"}
  /\ Others(evidence, r)
  /\ UNCHANGED <<stage, verdict, received>>

Freeze(r) ==
  /\ stage[r] = "ended"
  /\ stage' = [stage EXCEPT ![r] = "frozen"]
  /\ Others(evidence, r)
  /\ UNCHANGED <<verdict, received>>

Send(r) ==
  /\ stage[r] = "frozen" /\ received[r] = NoPayload
  /\ received'[r] # NoPayload /\ received'[r].evidence = evidence[r]
  /\ Others(received, r)
  /\ UNCHANGED <<stage, verdict, evidence>>

Next ==
  \/ \E r \in Reports : Open(r) \/ Gather(r) \/ Freeze(r) \/ Send(r)
  \/ \E S \in SUBSET Reports : End(S)

Spec == Init /\ [][Next]_vars
==============================================================================

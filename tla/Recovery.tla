------------------------------ MODULE Recovery ------------------------------
(***************************************************************************)
(* assess_recovery (src/src/health.rs) over time: the disposition HWD      *)
(* reports while a controller fails and the kernel and elan-guardian       *)
(* recover it.  The function keeps no state; what it is asked about does.  *)
(* The guardian is outside this repository and is modelled by the evidence *)
(* it leaves: two u32 counters, the age of the window they count in, and   *)
(* whether the last recovery worked.                                       *)
(***************************************************************************)
EXTENDS Naturals

CONSTANTS
  MaxU32,                                  \* u32::MAX
  MaxRecoveries, Window, QuarantineTime,   \* the signed RecoveryPolicy, validated
  EndTime                                  \* bound on the clock

ASSUME PolicyAssumption ==
  /\ MaxU32 \in Nat
  /\ MaxRecoveries \in 1 .. MaxU32
  /\ Window \in Nat \ {0} /\ QuarantineTime \in Nat \ {0}
  /\ EndTime \in Nat

VARIABLES
  bound, nodes, lastOk,   \* driver_bound, event_nodes_present, last_recovery_succeeded
  kernel, guardian,       \* kernel_recoveries, guardian_recoveries
  age,                    \* window_age_seconds
  now,
  quarantinedAt           \* the last time an assessment said Quarantine after
                          \* one that did not, or NeverQuarantined

vars == <<bound, nodes, lastOk, kernel, guardian, age, now, quarantinedAt>>
NeverQuarantined == EndTime + 1

Severity == [Healthy |-> 0, Recovered |-> 1, Degraded |-> 2, Quarantine |-> 3]
Dispositions == DOMAIN Severity

-----------------------------------------------------------------------------
\* Mutant: the sum and the product wrap around.
Wrapping(n) == n % (MaxU32 + 1)
\* Mutant: wider arithmetic whose result does not fit the counter.
Widened(n) == n
\* u32::saturating_add and saturating_mul.
Saturate(n) == IF n > MaxU32 THEN MaxU32 ELSE n

\* Mutant: a window of age exactly window_seconds is already over.
StrictWindow(windowAge) == windowAge < Window
WithinWindow(windowAge) == windowAge <= Window

Recoveries(k, g, windowAge) == IF WithinWindow(windowAge) THEN Saturate(k + g) ELSE 0

\* Mutant: a failed recovery is forgiven once the driver is back.
IgnoreFailedRecovery(driverBound, nodesPresent, succeeded) == driverBound /\ nodesPresent
Working(driverBound, nodesPresent, succeeded) == driverBound /\ nodesPresent /\ succeeded

AssessRecovery(driverBound, nodesPresent, succeeded, recoveries) ==
  IF Working(driverBound, nodesPresent, succeeded)
  THEN CASE recoveries = 0 -> "Healthy"
         [] recoveries # 0 /\ recoveries < MaxRecoveries -> "Recovered"
         [] recoveries >= MaxRecoveries /\ recoveries < Saturate(2 * MaxRecoveries)
              -> "Degraded"
         [] OTHER -> "Quarantine"
  ELSE IF recoveries >= MaxRecoveries THEN "Quarantine" ELSE "Degraded"

Disposition ==
  AssessRecovery(bound, nodes, lastOk, Recoveries(kernel, guardian, age))

-----------------------------------------------------------------------------
Init ==
  /\ bound = TRUE /\ nodes = TRUE /\ lastOk = TRUE
  /\ kernel = 0 /\ guardian = 0
  /\ age = 0 /\ now = 0
  /\ quarantinedAt = NeverQuarantined

\* The clock of quarantine starts when the disposition becomes Quarantine.
Assess ==
  quarantinedAt' = IF Disposition' = "Quarantine" /\ Disposition # "Quarantine"
                   THEN now' ELSE quarantinedAt

\* The controller stops: the driver unbinds or its event nodes disappear.
Break ==
  /\ bound /\ nodes
  /\ bound' \in BOOLEAN
  /\ nodes' = ~bound'
  /\ UNCHANGED <<lastOk, kernel, guardian, age, now>>
  /\ Assess

\* One recovery by the kernel watchdog or by the guardian; the counters are
\* u32s that stop at their maximum.  It may fail, or leave the device incomplete.
Recover ==
  /\ \/ kernel < MaxU32 /\ kernel' = kernel + 1 /\ UNCHANGED guardian
     \/ guardian < MaxU32 /\ guardian' = guardian + 1 /\ UNCHANGED kernel
  /\ lastOk' \in BOOLEAN /\ bound' \in BOOLEAN /\ nodes' \in BOOLEAN
  /\ UNCHANGED <<age, now>>
  /\ Assess

Tick ==
  /\ now < EndTime
  /\ now' = now + 1
  /\ age' = age + 1
  /\ UNCHANGED <<bound, nodes, lastOk, kernel, guardian>>
  /\ Assess

\* The guardian starts counting anew once the window is over.
NewWindow ==
  /\ age > Window
  /\ age' = 0 /\ kernel' = 0 /\ guardian' = 0
  /\ UNCHANGED <<bound, nodes, lastOk, now>>
  /\ Assess

Next == Break \/ Recover \/ Tick \/ NewWindow
Spec == Init /\ [][Next]_vars

-----------------------------------------------------------------------------
(* Properties.                                                             *)

\* Every variable has its type, what is counted fits a u32, and the
\* disposition is one of the four.
TypeOK ==
  /\ bound \in BOOLEAN /\ nodes \in BOOLEAN /\ lastOk \in BOOLEAN
  /\ kernel \in 0 .. MaxU32 /\ guardian \in 0 .. MaxU32
  /\ age \in 0 .. EndTime
  /\ now \in 0 .. EndTime
  /\ quarantinedAt \in 0 .. NeverQuarantined
  /\ Recoveries(kernel, guardian, age) \in 0 .. MaxU32
  /\ Disposition \in Dispositions

\* Within a window the disposition never improves on more recoveries alone:
\* only a device that comes back, a recovery that works after one that failed,
\* or the second in which the window ends can lower the severity; that the
\* guardian then starts to count anew lowers nothing.  (health.rs 24-49)
OnlyEvidenceRelaxes ==
  [][Severity[Disposition'] < Severity[Disposition] =>
        \/ ~(bound /\ nodes /\ lastOk) /\ bound' /\ nodes' /\ lastOk'
        \/ age <= Window /\ age' > Window]_vars

\* Recovery is bounded: at twice the threshold inside the window, however the
\* two counters share it and at any counter width, the profile is quarantined.
\* (RECOVERY.md 3 and 16; health.rs test repeated_recovery_does_not_loop_forever)
BoundedRecovery ==
  age <= Window /\ kernel + guardian >= 2 * MaxRecoveries => Disposition = "Quarantine"

\* A controller whose last recovery failed, or that is still missing, is never
\* reported as working, and is quarantined from the threshold on.
FailureIsReported ==
  ~(bound /\ nodes /\ lastOk) =>
     /\ Disposition \in {"Degraded", "Quarantine"}
     /\ age <= Window /\ kernel + guardian >= MaxRecoveries => Disposition = "Quarantine"

\* RECOVERY.md 16-17: a profile that reaches quarantine stays there "for its
\* declared interval".
QuarantineLasts ==
  quarantinedAt # NeverQuarantined /\ now - quarantinedAt < QuarantineTime
     => Disposition = "Quarantine"
=============================================================================

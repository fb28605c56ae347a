--------------------------- MODULE RecoveryProofs ---------------------------
(* Proofs about Recovery, for every policy and every counter width.         *)
EXTENDS Recovery, TLAPS

IInv == TypeOK /\ age <= now

LEMMA SaturateFits ==
  ASSUME NEW n \in Nat
  PROVE  /\ Saturate(n) \in 0 .. MaxU32 /\ Saturate(n) <= n
         /\ \A m \in Nat : m <= n => Saturate(m) <= Saturate(n)
         /\ n <= MaxU32 => Saturate(n) = n
         /\ n > MaxU32 => Saturate(n) = MaxU32
  BY PolicyAssumption DEF Saturate

\* assess_recovery is total, and its severity grows with the recoveries.
LEMMA AssessMonotone ==
  ASSUME NEW b \in BOOLEAN, NEW n \in BOOLEAN, NEW s \in BOOLEAN,
         NEW r \in 0 .. MaxU32, NEW q \in 0 .. MaxU32, r <= q
  PROVE  /\ AssessRecovery(b, n, s, r) \in Dispositions
         /\ Severity[AssessRecovery(b, n, s, r)] <= Severity[AssessRecovery(b, n, s, q)]
  <1> DEFINE top == Saturate(2 * MaxRecoveries)
  <1>1. top \in 0 .. MaxU32 /\ MaxRecoveries <= top
    BY PolicyAssumption, SaturateFits DEF Saturate
  <1> HIDE DEF top
  <1>2. MaxRecoveries \in Nat /\ MaxRecoveries >= 1 /\ MaxU32 \in Nat
    BY PolicyAssumption
  <1>3. CASE Working(b, n, s)
    <2>1. /\ AssessRecovery(b, n, s, r) =
               IF r = 0 THEN "Healthy" ELSE IF r < MaxRecoveries THEN "Recovered"
               ELSE IF r < top THEN "Degraded" ELSE "Quarantine"
          /\ AssessRecovery(b, n, s, q) =
               IF q = 0 THEN "Healthy" ELSE IF q < MaxRecoveries THEN "Recovered"
               ELSE IF q < top THEN "Degraded" ELSE "Quarantine"
      BY <1>1, <1>2, <1>3 DEF AssessRecovery, top
    <2> QED BY <1>1, <1>2, <2>1 DEF Severity, Dispositions
  <1>4. CASE ~Working(b, n, s)
    BY <1>2, <1>4 DEF AssessRecovery, Severity, Dispositions
  <1> QED BY <1>3, <1>4

LEMMA DispositionTyped ==
  ASSUME bound \in BOOLEAN, nodes \in BOOLEAN, lastOk \in BOOLEAN,
         kernel \in 0 .. MaxU32, guardian \in 0 .. MaxU32
  PROVE  /\ Recoveries(kernel, guardian, age) \in 0 .. MaxU32
         /\ Disposition \in Dispositions
  <1>1. Recoveries(kernel, guardian, age) \in 0 .. MaxU32
    BY PolicyAssumption, SaturateFits DEF Recoveries
  <1> QED BY <1>1, AssessMonotone DEF Disposition

LEMMA InitInv == Init => IInv
  <1> SUFFICES ASSUME Init PROVE IInv
    OBVIOUS
  <1>1. kernel \in 0 .. MaxU32 /\ guardian \in 0 .. MaxU32
    BY PolicyAssumption DEF Init
  <1> QED BY <1>1, PolicyAssumption, DispositionTyped DEF Init, IInv, TypeOK, NeverQuarantined

\* What a step must leave typed is the recorded evidence; the disposition follows.
LEMMA StepTyped ==
  ASSUME /\ bound' \in BOOLEAN /\ nodes' \in BOOLEAN /\ lastOk' \in BOOLEAN
         /\ kernel' \in 0 .. MaxU32 /\ guardian' \in 0 .. MaxU32
         /\ now' \in 0 .. EndTime /\ age' \in 0 .. EndTime /\ age' <= now'
         /\ quarantinedAt \in 0 .. NeverQuarantined
         /\ quarantinedAt' \in {quarantinedAt, now'}
  PROVE  IInv'
  <1>1. Recoveries(kernel', guardian', age') \in 0 .. MaxU32
    BY PolicyAssumption, SaturateFits DEF Recoveries
  <1>2. AssessRecovery(bound', nodes', lastOk', Recoveries(kernel', guardian', age'))
          \in Dispositions
    BY <1>1, AssessMonotone
  <1>3. quarantinedAt' \in 0 .. NeverQuarantined
    BY PolicyAssumption DEF NeverQuarantined
  <1> QED BY <1>1, <1>2, <1>3 DEF IInv, TypeOK, Disposition, NeverQuarantined

LEMMA NextInv == IInv /\ [Next]_vars => IInv'
  <1> SUFFICES ASSUME IInv, [Next]_vars PROVE IInv'
    OBVIOUS
  <1> USE PolicyAssumption DEF IInv, TypeOK
  <1>a. CASE Break
    <2>1. bound' \in BOOLEAN /\ nodes' \in BOOLEAN /\ lastOk' = lastOk
          /\ kernel' = kernel /\ guardian' = guardian /\ age' = age /\ now' = now
          /\ quarantinedAt' \in {quarantinedAt, now'}
      BY <1>a DEF Break, Assess
    <2> QED BY <2>1, StepTyped
  <1>b. CASE Recover
    <2>1. /\ kernel' \in 0 .. MaxU32 /\ guardian' \in 0 .. MaxU32
          /\ bound' \in BOOLEAN /\ nodes' \in BOOLEAN /\ lastOk' \in BOOLEAN
          /\ age' = age /\ now' = now /\ quarantinedAt' \in {quarantinedAt, now'}
      BY <1>b DEF Recover, Assess
    <2> QED BY <2>1, StepTyped
  <1>c. CASE Tick
    <2>1. /\ bound' = bound /\ nodes' = nodes /\ lastOk' = lastOk
          /\ kernel' = kernel /\ guardian' = guardian
          /\ now < EndTime /\ age' = age + 1 /\ now' = now + 1
          /\ quarantinedAt' \in {quarantinedAt, now'}
      BY <1>c DEF Tick, Assess
    <2>2. now' \in 0 .. EndTime /\ age' \in 0 .. EndTime /\ age' <= now'
      BY <2>1
    <2> QED BY <2>1, <2>2, StepTyped
  <1>d. CASE NewWindow
    <2>1. /\ bound' = bound /\ nodes' = nodes /\ lastOk' = lastOk
          /\ kernel' = 0 /\ guardian' = 0 /\ age' = 0 /\ now' = now
          /\ quarantinedAt' \in {quarantinedAt, now'}
      BY <1>d DEF NewWindow, Assess
    <2> QED BY <2>1, StepTyped
  <1>e. CASE UNCHANGED vars
    <2>1. /\ bound' = bound /\ nodes' = nodes /\ lastOk' = lastOk
          /\ kernel' = kernel /\ guardian' = guardian /\ age' = age /\ now' = now
          /\ quarantinedAt' = quarantinedAt
      BY <1>e DEF vars
    <2> QED BY <2>1, StepTyped
  <1> QED BY <1>a, <1>b, <1>c, <1>d, <1>e DEF Next

LEMMA SpecInv == Spec => []IInv
  BY InitInv, NextInv, PTL DEF Spec

\* What is counted fits the counter and every state has a disposition.
THEOREM TypeCorrect == Spec => []TypeOK
  <1>1. IInv => TypeOK
    BY DEF IInv
  <1> QED BY <1>1, SpecInv, PTL

\* Twice the threshold inside a window quarantines, for every threshold,
\* every window and every counter width.
THEOREM RecoveryIsBounded == Spec => []BoundedRecovery
  <1>1. IInv => BoundedRecovery
    <2> SUFFICES ASSUME IInv, age <= Window, kernel + guardian >= 2 * MaxRecoveries
                 PROVE  Disposition = "Quarantine"
      BY DEF BoundedRecovery
    <2> DEFINE r == Recoveries(kernel, guardian, age)
               top == Saturate(2 * MaxRecoveries)
    <2>1. r = Saturate(kernel + guardian)
      BY DEF Recoveries, WithinWindow
    <2>2. r >= top /\ r \in Nat /\ top \in Nat /\ top >= MaxRecoveries
      BY <2>1, PolicyAssumption DEF Saturate, IInv, TypeOK
    <2> HIDE DEF r, top
    <2>3. r >= MaxRecoveries /\ r # 0 /\ ~(r < MaxRecoveries) /\ ~(r < top)
      BY <2>2, PolicyAssumption
    <2>4. AssessRecovery(bound, nodes, lastOk, r) = "Quarantine"
      BY <2>3 DEF AssessRecovery, top
    <2> QED BY <2>4 DEF Disposition, r
  <1> QED BY <1>1, SpecInv, PTL

\* A missing device or a failed recovery is never reported as working.
THEOREM FailureIsAlwaysReported == Spec => []FailureIsReported
  <1>1. IInv => FailureIsReported
    <2> SUFFICES ASSUME IInv, ~(bound /\ nodes /\ lastOk) PROVE FailureIsReported
      BY DEF FailureIsReported
    <2> DEFINE r == Recoveries(kernel, guardian, age)
    <2>1. Disposition = IF r >= MaxRecoveries THEN "Quarantine" ELSE "Degraded"
      BY DEF Disposition, AssessRecovery, Working
    <2>2. age <= Window /\ kernel + guardian >= MaxRecoveries => r >= MaxRecoveries
      BY PolicyAssumption DEF Recoveries, WithinWindow, Saturate, IInv, TypeOK
    <2> QED BY <2>1, <2>2 DEF FailureIsReported
  <1> QED BY <1>1, SpecInv, PTL

LEMMA SumGrows ==
  ASSUME NEW k \in Nat, NEW g \in Nat, NEW k2 \in Nat, NEW g2 \in Nat, k <= k2, g <= g2
  PROVE  k + g \in Nat /\ k2 + g2 \in Nat /\ k + g <= k2 + g2
  OBVIOUS

\* More recoveries never improve the report, and neither does counting anew;
\* only evidence does, or the second in which the window ends.
THEOREM RelaxationNeedsEvidence == Spec => OnlyEvidenceRelaxes
  <1> DEFINE A == Severity[Disposition'] < Severity[Disposition] =>
                    \/ ~(bound /\ nodes /\ lastOk) /\ bound' /\ nodes' /\ lastOk'
                    \/ age <= Window /\ age' > Window
  <1>1. IInv /\ IInv' /\ [Next]_vars => [A]_vars
    <2> SUFFICES ASSUME IInv, IInv', Next, ~(age <= Window /\ age' > Window),
                        ~(~(bound /\ nodes /\ lastOk) /\ bound' /\ nodes' /\ lastOk')
                 PROVE  ~(Severity[Disposition'] < Severity[Disposition])
      OBVIOUS
    <2> USE DEF IInv, TypeOK
    <2> DEFINE r == Recoveries(kernel, guardian, age)
               q == Recoveries(kernel', guardian', age')
    <2>1. r \in 0 .. MaxU32 /\ q \in 0 .. MaxU32
      OBVIOUS
    <2>2. r <= q
      <3>1. kernel \in Nat /\ guardian \in Nat /\ kernel' \in Nat /\ guardian' \in Nat
            /\ age \in Nat /\ age' \in Nat /\ MaxU32 \in Nat /\ Window \in Nat
        <4>1. MaxU32 \in Nat /\ EndTime \in Nat /\ Window \in Nat
          BY PolicyAssumption
        <4> QED BY <4>1
      <3> HIDE DEF IInv, TypeOK
      <3>2. ASSUME WithinWindow(age) PROVE kernel <= kernel' /\ guardian <= guardian'
        <4>1. CASE Break
          BY <3>1, <4>1 DEF Break
        <4>2. CASE Recover
          <5>1. CASE kernel' = kernel + 1 /\ guardian' = guardian
            BY <3>1, <5>1
          <5>2. CASE guardian' = guardian + 1 /\ kernel' = kernel
            BY <3>1, <5>2
          <5> QED BY <4>2, <5>1, <5>2 DEF Recover
        <4>3. CASE Tick
          BY <3>1, <4>3 DEF Tick
        <4>4. CASE NewWindow
          BY <3>1, <3>2, <4>4 DEF NewWindow, WithinWindow
        <4> QED BY <4>1, <4>2, <4>3, <4>4 DEF Next
      <3>3. WithinWindow(age) => WithinWindow(age')
        BY <3>1 DEF WithinWindow
      <3>4. ASSUME WithinWindow(age)
            PROVE  Saturate(kernel + guardian) <= Saturate(kernel' + guardian')
        <4> DEFINE n == kernel + guardian
                   m == kernel' + guardian'
        <4>1. n \in Nat /\ m \in Nat /\ n <= m
          BY <3>1, <3>2, <3>4, SumGrows
        <4> HIDE DEF n, m
        <4>2. Saturate(n) <= Saturate(m)
          BY <4>1, SaturateFits
        <4> QED BY <4>2 DEF n, m
      <3>5. CASE WithinWindow(age)
        <4>1. r = Saturate(kernel + guardian) /\ q = Saturate(kernel' + guardian')
          BY <3>3, <3>5 DEF Recoveries
        <4> QED BY <3>4, <3>5, <4>1
      <3>6. CASE ~WithinWindow(age)
        <4>1. r = 0
          BY <3>6 DEF Recoveries
        <4> QED BY <2>1, <3>1, <4>1
      <3> QED BY <3>5, <3>6
    <2>3. Severity[AssessRecovery(bound, nodes, lastOk, r)]
            <= Severity[AssessRecovery(bound, nodes, lastOk, q)]
      BY <2>1, <2>2, AssessMonotone
    <2>4. Severity[AssessRecovery(bound, nodes, lastOk, q)]
            <= Severity[AssessRecovery(bound', nodes', lastOk', q)]
      <3>1. CASE Working(bound, nodes, lastOk) = Working(bound', nodes', lastOk')
        <4>1. AssessRecovery(bound, nodes, lastOk, q) = AssessRecovery(bound', nodes', lastOk', q)
          BY <3>1 DEF AssessRecovery
        <4>2. AssessRecovery(bound, nodes, lastOk, q) \in Dispositions
          BY <2>1, AssessMonotone
        <4> QED BY <4>1, <4>2 DEF Severity, Dispositions
      <3>2. CASE Working(bound, nodes, lastOk) /\ ~Working(bound', nodes', lastOk')
        BY <2>1, <3>2, PolicyAssumption DEF AssessRecovery, Severity, Saturate
      <3> QED BY <3>1, <3>2 DEF Working
    <2>5. /\ Severity[Disposition] \in Nat /\ Severity[Disposition'] \in Nat
          /\ Severity[AssessRecovery(bound, nodes, lastOk, q)] \in Nat
      BY <2>1, AssessMonotone DEF Severity, Dispositions
    <2> QED BY <2>3, <2>4, <2>5 DEF Disposition
  <1>2. [][A]_vars => OnlyEvidenceRelaxes
    BY DEF OnlyEvidenceRelaxes
  <1> HIDE DEF A
  <1> QED BY <1>1, <1>2, SpecInv, PTL DEF Spec
=============================================================================

--------------------------- MODULE ProfileProofs ---------------------------
(***************************************************************************)
(* What HardwareProfile::validate guarantees of a profile, whatever the    *)
(* document says: the facts that the plan command and the recovery of a    *)
(* profile take for granted; and which profile resolve selects.            *)
(***************************************************************************)
EXTENDS Profile, OrderTheorems

\* A list that has as many places as a finite set has elements, and has them
\* all, has each of them once and nothing else.  (profile.rs 312-317)
LEMMA CountedList ==
  ASSUME NEW list, Len(list) \in Nat, DOMAIN list = 1 .. Len(list),
         NEW S, IsFiniteSet(S), Len(list) = Cardinality(S), S \subseteq Elements(list)
  PROVE  Distinctly(list) /\ Elements(list) = S
  <1> DEFINE places == 1 .. Len(list)
  <1>1. IsFiniteSet(places) /\ Cardinality(places) = Len(list)
    BY FS_Interval
  <1>2. Distinctly(list)
    <2> SUFFICES ASSUME NEW i \in places, NEW j \in places, list[i] = list[j], i # j
                 PROVE  FALSE
      BY DEF Distinctly
    <2> DEFINE others == places \ {j}
               at     == [k \in others |-> list[k]]
               image  == {at[k] : k \in others}
    <2>1. IsFiniteSet(others) /\ Cardinality(others) = Len(list) - 1
      <3>1. IsFiniteSet(others) /\ Cardinality(others) = Cardinality(places) - 1
        <4> HIDE DEF places
        <4> QED BY <1>1, FS_RemoveElement
      <3> QED BY <1>1, <3>1
    <2>2. IsFiniteSet(image) /\ Cardinality(image) <= Cardinality(others)
      <3> DEFINE T == image
      <3>1. at \in Surjection(others, T)
        BY DEF Surjection
      <3> QED BY <2>1, <3>1, FS_Surjection
    <2>3. S \subseteq image
      <3> SUFFICES ASSUME NEW x \in S PROVE x \in image
        OBVIOUS
      <3>1. PICK k \in places : x = list[k]
        BY DEF Elements
      <3>2. CASE k # j
        BY <3>1, <3>2
      <3>3. CASE k = j
        BY <3>1, <3>3
      <3> QED BY <3>2, <3>3
    <2>4. Cardinality(S) <= Cardinality(image)
      BY <2>2, <2>3, FS_Subset
    <2>5. Cardinality(S) \in Nat /\ Cardinality(image) \in Nat
      BY <2>2, FS_CardinalityType
    <2> QED BY <2>1, <2>2, <2>4, <2>5
  <1>3. Elements(list) = S
    <2> DEFINE at    == [k \in places |-> list[k]]
               image == {at[k] : k \in places}
    <2>1. image = Elements(list)
      BY DEF Elements
    <2>2. at \in Surjection(places, image)
      BY DEF Surjection
    <2>3. IsFiniteSet(image) /\ Cardinality(image) <= Cardinality(places)
      BY <1>1, <2>2, FS_Surjection
    <2>4. Cardinality(S) <= Cardinality(image)
      BY <2>1, <2>3, FS_Subset
    <2>5. Cardinality(S) = Cardinality(image)
      <3>1. Cardinality(S) \in Nat /\ Cardinality(image) \in Nat
        BY <2>3, FS_CardinalityType
      <3> QED BY <1>1, <2>3, <2>4, <3>1
    <2> QED BY <2>1, <2>3, <2>5, FS_Subset
  <1> QED BY <1>2, <1>3

\* The names of the packages are finitely many.
LEMMA PackagesAreFinite ==
  ASSUME NEW doc, Len(doc.package) \in Nat, DOMAIN doc.package = 1 .. Len(doc.package)
  PROVE  IsFiniteSet(PackageNames(doc))
  <1> DEFINE places == 1 .. Len(doc.package)
             nameAt == [i \in places |-> doc.package[i].name]
  <1>1. nameAt \in Surjection(places, PackageNames(doc))
    <2>1. PackageNames(doc) = {nameAt[i] : i \in places}
      BY DEF PackageNames
    <2> QED BY <2>1 DEF Surjection
  <1>2. IsFiniteSet(places)
    <2>1. \A n \in Nat : IsFiniteSet(1 .. n)
      BY FS_Interval
    <2> QED BY <2>1
  <1> QED BY <1>1, <1>2, FS_Surjection

\* A profile that validates is sound: its rules ask for something and only
\* for known fields; it is not in conflict with itself; a hardware profile
\* has a Driver ABI range that is not empty; its compiler policy requires
\* only what it allows and its architecture has; its rollback removes each
\* of its packages once and nothing else; its cooldown ends within its
\* window.  (profile.rs 196-341)
THEOREM ValidateGuarantees ==
  ASSUME NEW doc, IsDocument(doc), ProfileFrom(doc).ok
  PROVE  IsSound(ProfileFrom(doc))
  <1> DEFINE profile == Validated(doc)
  <1>1. Validate(doc) /\ ProfileFrom(doc) = profile
    BY DEF ProfileFrom
  <1>2. /\ profile.id \in Nat /\ profile.priority \in Int
        /\ profile.id \notin profile.conflicts
    BY <1>1 DEF Validated, IsDocument, Validate, ConflictsValid, Elements
  <1>3. /\ profile.rules # <<>> /\ IsFiniteSet(DOMAIN profile.rules)
        /\ \A i \in DOMAIN profile.rules :
             DOMAIN profile.rules[i] # {} /\ DOMAIN profile.rules[i] \subseteq Fields
    <2>1. DOMAIN profile.rules = 1 .. Len(doc.rules) /\ Len(doc.rules) \in Nat
      <3>1. doc.rules \in Seq(Elements(doc.rules))
        BY DEF IsDocument
      <3> QED BY <3>1 DEF Validated
    <2>2. \A i \in DOMAIN profile.rules : DOMAIN profile.rules[i] = Given(doc.rules[i])
      BY DEF Validated, Rule
    <2>3. \A i \in DOMAIN doc.rules : Given(doc.rules[i]) # {}
      BY <1>1 DEF Validate, HeaderValid, RuleValid
    <2>4. \A rule : Given(rule) \subseteq Fields
      BY DEF Given, Fields
    <2>5. DOMAIN doc.rules = DOMAIN profile.rules
      BY DEF Validated
    <2>6. profile.rules # <<>>
      <3>1. doc.rules # <<>> /\ doc.rules \in Seq(Elements(doc.rules))
        BY <1>1 DEF Validate, HeaderValid, IsDocument
      <3>2. Len(doc.rules) # 0
        BY <3>1
      <3>3. DOMAIN profile.rules # {}
        <4>1. \A n \in Nat : n # 0 => 1 \in 1 .. n
          OBVIOUS
        <4>2. 1 \in DOMAIN profile.rules
          <5> HIDE DEF profile
          <5> QED BY <2>1, <3>2, <4>1
        <4> QED BY <4>2
      <3>4. DOMAIN <<>> = {}
        OBVIOUS
      <3> QED BY <3>3, <3>4
    <2>7. IsFiniteSet(DOMAIN profile.rules)
      <3>1. \A n \in Nat : IsFiniteSet(1 .. n)
        BY FS_Interval
      <3> QED BY <2>1, <3>1
    <2> QED BY <2>2, <2>3, <2>4, <2>5, <2>6, <2>7
  <1>4. profile.hardware =>
          \E abi \in profile.abi : AtMost(AbiOf[abi.minimum], AbiOf[abi.maximum])
    BY <1>1 DEF Validated, Validate, DriverAbiValid
  <1>5. \A policy \in profile.compiler :
          /\ policy.required \subseteq policy.allowed
          /\ policy.allowed \subseteq Supports(policy.architecture)
    BY <1>1 DEF Validated, Validate, CompilerValid
  <1>8. \A x, y \in profile.compiler : x = y
    BY DEF Validated, IsDocument
  <1>6. Distinctly(profile.removals) /\ Elements(profile.removals) = profile.packages
    <2>1. IsFiniteSet(PackageNames(doc))
      BY PackagesAreFinite DEF IsDocument
    <2>2. Distinctly(doc.remove_packages) /\ Elements(doc.remove_packages) = PackageNames(doc)
      BY <1>1, <2>1, CountedList DEF Validate, RollbackValid, IsDocument
    <2> QED BY <2>2 DEF Validated
  <1>7. \A r \in profile.recovery :
          r.max_recoveries # 0 /\ r.cooldown_seconds \in 1 .. r.window_seconds - 1
    BY <1>1 DEF Validated, Validate, RecoveryValid, IsDocument
  <1> QED BY <1>1, <1>2, <1>3, <1>4, <1>5, <1>6, <1>7, <1>8 DEF IsSound

-----------------------------------------------------------------------------
(* What resolve returns, for every list of profiles and every device.        *)

\* The shape validate and the types of profile.rs give a profile.
ProfileShape(p) ==
  /\ p.id \in Nat /\ p.priority \in Int
  /\ IsFiniteSet(DOMAIN p.rules)
  /\ \A i \in DOMAIN p.rules : DOMAIN p.rules[i] \subseteq Fields
\* Any finite set of positions will do for a list.
ProfileList(profiles) ==
  /\ IsFiniteSet(DOMAIN profiles) /\ DOMAIN profiles \subseteq Nat
  /\ \A i \in DOMAIN profiles : ProfileShape(profiles[i])

LEMMA FieldsFinite == IsFiniteSet(Fields)
  <1> DEFINE a == {"bus", "vendor", "product", "subsystem_vendor", "subsystem_product"}
             b == {"class", "revision", "name_contains", "modalias_contains", "driver"}
             c == {"dmi_vendor_contains", "dmi_product_contains", "dmi_board_contains",
                   "property"}
  <1>1. IsFiniteSet({"bus"}) /\ IsFiniteSet({"class"}) /\ IsFiniteSet({"dmi_vendor_contains"})
    BY FS_Singleton
  <1>2. /\ a = ((({"bus"} \cup {"vendor"}) \cup {"product"}) \cup {"subsystem_vendor"})
                   \cup {"subsystem_product"}
        /\ b = ((({"class"} \cup {"revision"}) \cup {"name_contains"})
                   \cup {"modalias_contains"}) \cup {"driver"}
        /\ c = (({"dmi_vendor_contains"} \cup {"dmi_product_contains"})
                   \cup {"dmi_board_contains"}) \cup {"property"}
    OBVIOUS
  <1> HIDE DEF a, b, c
  <1>3. IsFiniteSet(a)
    BY <1>1, <1>2, FS_AddElement, Zenon
  <1>4. IsFiniteSet(b)
    BY <1>1, <1>2, FS_AddElement, Zenon
  <1>5. IsFiniteSet(c)
    BY <1>1, <1>2, FS_AddElement, Zenon
  <1>6. Fields = (a \cup b) \cup c
    BY DEF Fields, a, b, c
  <1> QED BY <1>3, <1>4, <1>5, <1>6, FS_Union

\* Every rank is a natural number.
LEMMA RankType ==
  ASSUME NEW p, ProfileShape(p), NEW facts
  PROVE  AdvisoryRank(p, facts) \in Nat
  <1> DEFINE D == DOMAIN p.rules
             G == UNION {{i} \X DOMAIN p.rules[i] : i \in D}
  <1>1. IsFiniteSet(D)
    BY DEF ProfileShape
  <1>2. IsFiniteSet(D \X Fields)
    BY <1>1, FieldsFinite, FS_Product
  <1>3. G \subseteq D \X Fields
    BY DEF ProfileShape
  <1>4. Cardinality(G) \in Nat
    <2> HIDE DEF D, G
    <2> QED BY <1>2, <1>3, FS_Subset, FS_CardinalityType
  <1>5. \A T \in SUBSET D : Cardinality(T) \in Nat
    BY <1>1, FS_Subset, FS_CardinalityType
  <1>6. Specificity(p.rules) \in Nat
    BY <1>4 DEF Specificity
  <1>7. ExactIdentity(p.rules) \in Nat /\ DriverMatch(p.rules, facts) \in Nat
    BY <1>5 DEF ExactIdentity, DriverMatch
  <1> QED BY <1>6, <1>7 DEF AdvisoryRank

-----------------------------------------------------------------------------
\* Some profile has the highest priority.
LEMMA TopExists ==
  ASSUME NEW profiles, ProfileList(profiles), NEW E \in SUBSET DOMAIN profiles, E # {}
  PROVE  HighestPriority(E, profiles) # {}
  <1> DEFINE R == {e \in E \X E : profiles[e[1]].priority > profiles[e[2]].priority}
  <1>1. IsFiniteSet(E)
    <2>1. IsFiniteSet(DOMAIN profiles)
      BY DEF ProfileList
    <2> QED BY <2>1, FS_Subset
  <1>2. \A i \in E : profiles[i].priority \in Int
    BY DEF ProfileList, ProfileShape
  <1>3. \A i, j \in E : <<i, j>> \in R <=> profiles[i].priority > profiles[j].priority
    OBVIOUS
  <1> HIDE DEF R
  <1>4. PICK i \in E : \A j \in E : <<j, i>> \notin R
    <2>1. \A i \in E : <<i, i>> \notin R
      BY <1>2, <1>3
    <2>2. \A i, j, k \in E : <<i, j>> \in R /\ <<j, k>> \in R => <<i, k>> \in R
      BY <1>2, <1>3
    <2> QED BY <1>1, <2>1, <2>2, FiniteHasFirst
  <1>5. ASSUME NEW j \in E
        PROVE  profiles[j].priority <= profiles[i].priority
    <2>1. ~(profiles[j].priority > profiles[i].priority)
      BY <1>3, <1>4
    <2>2. profiles[j].priority \in Int /\ profiles[i].priority \in Int
      BY <1>2
    <2> QED BY <2>1, <2>2
  <1> QED BY <1>5 DEF HighestPriority

\* The sort has a first element, and nothing of the same priority ranks above it.
LEMMA WinnerIsFirst ==
  ASSUME NEW profiles, ProfileList(profiles), NEW facts,
         NEW top \in SUBSET DOMAIN profiles, top # {}
  PROVE  LET w == Winner(facts, profiles, top) IN
         /\ w \in top
         /\ \A j \in top : AdvisoryRank(profiles[j], facts) <= AdvisoryRank(profiles[w], facts)
  <1> DEFINE rank(i) == AdvisoryRank(profiles[i], facts)
             R == {e \in top \X top : Before(facts, profiles, e[1], e[2])}
  <1>1. \A i \in top : rank(i) \in Nat /\ profiles[i].id \in Nat /\ i \in Nat
    <2>1. \A i \in top : ProfileShape(profiles[i]) /\ i \in Nat
      BY DEF ProfileList
    <2> QED BY <2>1, RankType DEF ProfileShape
  <1>2. \A i, j \in top : Before(facts, profiles, i, j) <=>
           \/ rank(i) > rank(j)
           \/ rank(i) = rank(j) /\ (\/ profiles[i].id < profiles[j].id
                                    \/ profiles[i].id = profiles[j].id /\ i < j)
    BY DEF Before
  <1>3. \A i, j \in top : <<i, j>> \in R <=> Before(facts, profiles, i, j)
    OBVIOUS
  <1> HIDE DEF rank, R
  <1>4. PICK w \in top : \A j \in top : <<j, w>> \notin R
    <2>1. IsFiniteSet(top)
      <3>1. IsFiniteSet(DOMAIN profiles)
        BY DEF ProfileList
      <3> QED BY <3>1, FS_Subset
    <2>2. \A i \in top : <<i, i>> \notin R
      BY <1>1, <1>2, <1>3
    <2>3. \A i, j, k \in top : <<i, j>> \in R /\ <<j, k>> \in R => <<i, k>> \in R
      BY <1>1, <1>2, <1>3
    <2> QED BY <2>1, <2>2, <2>3, FiniteHasFirst
  <1>5. ASSUME NEW j \in top, j # w
        PROVE  Before(facts, profiles, w, j)
    <2>1. ~Before(facts, profiles, j, w)
      BY <1>3, <1>4
    <2>2. /\ rank(j) \in Nat /\ profiles[j].id \in Nat /\ j \in Nat
          /\ rank(w) \in Nat /\ profiles[w].id \in Nat /\ w \in Nat
      BY <1>1
    <2> QED BY <1>2, <1>5, <2>1, <2>2
  <1>6. /\ Winner(facts, profiles, top) \in top
        /\ \A j \in top \ {Winner(facts, profiles, top)} :
              Before(facts, profiles, Winner(facts, profiles, top), j)
    BY <1>5 DEF Winner
  <1>7. \A j \in top : rank(j) <= rank(Winner(facts, profiles, top))
    BY <1>1, <1>2, <1>6
  <1> QED BY <1>6, <1>7 DEF rank

-----------------------------------------------------------------------------
\* What a selection means (profile.rs 437-491): the profile matches the device,
\* every other matching profile has a lower priority or the same priority and
\* a lower rank, and no matching profile is in conflict with it.
THEOREM SelectionIsBest ==
  ASSUME NEW profiles, ProfileList(profiles), NEW facts,
         resolve(facts, profiles).kind = "selected"
  PROVE  LET w == resolve(facts, profiles).winner
             p == profiles[w]
         IN
         /\ w \in DOMAIN profiles /\ ProfileMatches(p, facts)
         /\ \A j \in DOMAIN profiles \ {w} :
              LET q == profiles[j] IN
              ProfileMatches(q, facts) =>
                /\ \/ q.priority < p.priority
                   \/ /\ q.priority = p.priority
                      /\ AdvisoryRank(q, facts) < AdvisoryRank(p, facts)
                /\ q.id # p.id => q.id \notin p.conflicts /\ p.id \notin q.conflicts
  <1> DEFINE E == Eligible(facts, profiles)
             top == HighestPriority(E, profiles)
             w == Winner(facts, profiles, top)
             tied == Tied(facts, profiles, top, w)
             rivals == Rivals(E, profiles, w)
  <1>1. /\ E # {} /\ ~(Cardinality(tied) > 1) /\ rivals = {}
        /\ resolve(facts, profiles) = Selected(w)
    BY DEF resolve, NoMatch, Ambiguous, Conflict, Selected
  <1>2. resolve(facts, profiles).winner = w
    BY <1>1 DEF Selected
  <1>3. E \in SUBSET DOMAIN profiles /\ \A j \in DOMAIN profiles :
           j \in E <=> ProfileMatches(profiles[j], facts)
    BY DEF Eligible
  <1>4. top \in SUBSET E /\ top # {}
    <2>1. top # {}
      BY <1>1, <1>3, TopExists
    <2> QED BY <2>1 DEF HighestPriority
  <1>5. w \in top /\ \A j \in top : AdvisoryRank(profiles[j], facts)
                                       <= AdvisoryRank(profiles[w], facts)
    BY <1>3, <1>4, WinnerIsFirst
  <1>6. tied = {w}
    <2>1. w \in tied
      BY <1>5 DEF Tied
    <2>2. IsFiniteSet(tied)
      <3>1. IsFiniteSet(DOMAIN profiles)
        BY DEF ProfileList
      <3>2. tied \in SUBSET DOMAIN profiles
        BY <1>3, <1>4 DEF Tied
      <3> QED BY <3>1, <3>2, FS_Subset
    <2> HIDE DEF tied, w
    <2>3. Cardinality(tied) \in Nat /\ Cardinality(tied) # 0
      BY <2>1, <2>2, FS_CardinalityType, FS_EmptySet
    <2>4. Cardinality(tied) = 1
      BY <1>1, <2>3
    <2> QED BY <2>1, <2>2, <2>4, FS_Singleton
  <1>7. \A j \in DOMAIN profiles : profiles[j].priority \in Int
                                   /\ AdvisoryRank(profiles[j], facts) \in Nat
    BY RankType DEF ProfileList, ProfileShape
  <1>8. ASSUME NEW j \in E, j # w
        PROVE  /\ \/ profiles[j].priority < profiles[w].priority
                  \/ /\ profiles[j].priority = profiles[w].priority
                     /\ AdvisoryRank(profiles[j], facts) < AdvisoryRank(profiles[w], facts)
               /\ profiles[j].id # profiles[w].id =>
                    /\ profiles[j].id \notin profiles[w].conflicts
                    /\ profiles[w].id \notin profiles[j].conflicts
    <2>1. profiles[j].priority <= profiles[w].priority
      BY <1>5 DEF HighestPriority
    <2>2. CASE j \in top
      <3>1. profiles[j].priority = profiles[w].priority
        BY <1>3, <1>4, <1>5, <1>7, <2>1, <2>2 DEF HighestPriority
      <3>2. AdvisoryRank(profiles[j], facts) # AdvisoryRank(profiles[w], facts)
        BY <1>6, <1>8, <2>2 DEF Tied
      <3>3. AdvisoryRank(profiles[j], facts) < AdvisoryRank(profiles[w], facts)
        BY <1>3, <1>4, <1>5, <1>7, <2>2, <3>2
      <3>4. j \notin rivals
        BY <1>1
      <3> QED BY <3>1, <3>3, <3>4 DEF Rivals, ConflictBetween
    <2>3. CASE j \notin top
      <3>1. profiles[j].priority < profiles[w].priority
        <4>1. PICK k \in E : ~(profiles[k].priority <= profiles[j].priority)
          BY <2>3 DEF HighestPriority
        <4>2. profiles[k].priority <= profiles[w].priority
          BY <1>5 DEF HighestPriority
        <4> QED BY <1>3, <1>4, <1>5, <1>7, <4>1, <4>2
      <3>2. j \notin rivals
        BY <1>1
      <3> QED BY <3>1, <3>2 DEF Rivals, ConflictBetween
    <2> QED BY <2>2, <2>3
  <1> QED BY <1>2, <1>3, <1>4, <1>5, <1>8
=============================================================================

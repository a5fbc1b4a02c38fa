--------------------------- MODULE BoincAppProofs ---------------------------
(***************************************************************************)
(* Proofs about BoincApp, for every number of milestones, sensors,         *)
(* managers and crashes.                                                   *)
(***************************************************************************)
EXTENDS BoincApp, FiniteSetTheorems, WellFoundedInduction, TLAPS

----------------------------------------------------------------------------
(***************************************************************************)
(* Loops that pass over elements of a sequence.                            *)
(***************************************************************************)
\* A set of numbers has a least one.
LEMMA Least ==
  ASSUME NEW S, S \subseteq Nat, S # {}
  PROVE  \E x \in S : \A y \in S : x <= y
<1>1. \E x \in S : \A y \in S : ~(<<y, x>> \in OpToRel(<, Nat))
  BY WFMin, NatLessThanWellFounded, Zenon
<1>2. \A x, y \in S : ~(<<y, x>> \in OpToRel(<, Nat)) => ~(y < x)
  BY DEF OpToRel
<1>3. \A x, y \in S : ~(y < x) => x <= y
  OBVIOUS
<1>4. QED
  BY <1>1, <1>2, <1>3, Zenon

\* The counter of a loop goes up by one at a place that counts.
LEMMA CounterNext ==
  ASSUME NEW n \in Nat, NEW places, places \subseteq 1 .. n, NEW j \in Nat
  PROVE  /\ Counter(places, j) \in Nat
         /\ Counter(places, j + 1) =
              IF j \in places THEN Counter(places, j) + 1 ELSE Counter(places, j)
<1>1. IsFiniteSet(1 .. n)
  BY FS_Interval
<1>2. IsFiniteSet({k \in places : k < j})
  <2>1. {k \in places : k < j} \in SUBSET (1 .. n)
    OBVIOUS
  <2>2. QED
    BY <1>1, <2>1, FS_Subset
<1>3. /\ j \in places => {k \in places : k < j + 1} = {k \in places : k < j} \cup {j}
      /\ j \notin places => {k \in places : k < j + 1} = {k \in places : k < j}
  <2>1. \A k \in places : k < j + 1 <=> k < j \/ k = j
    OBVIOUS
  <2>2. \A k \in places : k = j => ~(k < j)
    OBVIOUS
  <2>3. QED
    BY <2>1, <2>2, Zenon
<1>4. j \notin {k \in places : k < j}
  OBVIOUS
<1>5. QED
  BY <1>2, <1>3, <1>4, FS_AddElement, FS_CardinalityType DEF Counter

\* Every value up to the number of places is the counter of a place.
LEMMA CounterHits ==
  ASSUME NEW n \in Nat, NEW places, places \subseteq 1 .. n,
         NEW c \in 1 .. Cardinality(places)
  PROVE  \E j \in places : Counter(places, j) = c - 1
<1>1. IsFiniteSet(places) /\ Cardinality(places) \in Nat
  <2>1. IsFiniteSet(1 .. n) /\ places \in SUBSET (1 .. n)
    BY FS_Interval
  <2>2. QED
    BY <2>1, FS_Subset, FS_CardinalityType
<1> DEFINE far == {j \in Nat : Counter(places, j) >= c}
<1>2. n + 1 \in far
  <2>1. \A k \in places : k < n + 1
    OBVIOUS
  <2>2. {k \in places : k < n + 1} = places
    BY <2>1, Zenon
  <2>3. QED
    BY <1>1, <2>2 DEF Counter
<1>3. PICK j \in far : \A k \in far : j <= k
  BY <1>2, Least
<1>4. j # 0
  <2>1. \A k \in places : ~(k < 0)
    OBVIOUS
  <2>2. {k \in places : k < 0} = {}
    BY <2>1, Zenon
  <2>3. Counter(places, 0) = 0
    BY <2>2, FS_EmptySet DEF Counter
  <2>4. QED
    BY <2>3
<1>5. j - 1 \in Nat /\ j - 1 \notin far /\ Counter(places, j - 1) \in Nat
      /\ Counter(places, j - 1) < c
  <2>1. j - 1 \in Nat /\ j - 1 \notin far
    BY <1>3, <1>4
  <2>2. Counter(places, j - 1) \in Nat
    BY <2>1, CounterNext
  <2>3. ~(Counter(places, j - 1) >= c)
    BY <2>1
  <2> HIDE DEF far
  <2>4. QED
    BY <2>1, <2>2, <2>3
<1>6. Counter(places, j) = IF j - 1 \in places THEN Counter(places, j - 1) + 1
                           ELSE Counter(places, j - 1)
  <2>1. j - 1 + 1 = j
    BY <1>5
  <2>2. Counter(places, j - 1 + 1) = IF j - 1 \in places THEN Counter(places, j - 1) + 1
                                     ELSE Counter(places, j - 1)
    BY <1>5, CounterNext
  <2> HIDE DEF far
  <2>3. QED
    BY <2>1, <2>2
<1>7. QED
  BY <1>3, <1>5, <1>6

\* What such a loop keeps is a sequence of elements of its own.
LEMMA KeepType ==
  ASSUME NEW X, NEW seq \in Seq(X), NEW S
  PROVE  /\ Keep(seq, S) \in Seq(X)
         /\ Elements(Keep(seq, S)) \subseteq Elements(seq) \cap S
<1> DEFINE places == At(seq, S)
<1>1. places \subseteq 1 .. Len(seq) /\ Len(seq) \in Nat
  BY DEF At
<1>2. Cardinality(places) \in Nat
  <2>1. IsFiniteSet(1 .. Len(seq)) /\ places \in SUBSET (1 .. Len(seq))
    BY <1>1, FS_Interval
  <2>2. QED
    BY <2>1, FS_Subset, FS_CardinalityType
<1>3. ASSUME NEW c \in 1 .. Cardinality(places)
      PROVE  Keep(seq, S)[c] \in Elements(seq) \cap S
  <2>1. \E j \in places : Counter(places, j) = c - 1
    BY <1>1, CounterHits
  <2> DEFINE j == CHOOSE j \in places : Counter(places, j) = c - 1
  <2>2. j \in places
    BY <2>1
  <2>3. Keep(seq, S)[c] = seq[j]
    BY DEF Keep
  <2> HIDE DEF j
  <2>4. QED
    BY <2>2, <2>3 DEF At, Elements
<1>4. Elements(seq) \subseteq X
  BY DEF Elements
<1>5. DOMAIN Keep(seq, S) = 1 .. Cardinality(places)
  BY DEF Keep
<1>6. Keep(seq, S) \in [1 .. Cardinality(places) -> X]
  <2>1. Keep(seq, S) = [c \in 1 .. Cardinality(places) |-> Keep(seq, S)[c]]
    BY DEF Keep
  <2>2. \A c \in 1 .. Cardinality(places) : Keep(seq, S)[c] \in X
    BY <1>3, <1>4
  <2> HIDE DEF places
  <2>3. QED
    BY <2>1, <2>2
<1>7. Keep(seq, S) \in Seq(X)
  BY <1>2, <1>6
<1>8. QED
  BY <1>3, <1>5, <1>7 DEF Elements

----------------------------------------------------------------------------
(***************************************************************************)
(* The operators on the sensors keep the types of what they change.        *)
(***************************************************************************)

\* push_back appends one or two points to the datapoints of a sensor.
LEMMA PushBackType ==
  ASSUME DataTypeOK, NEW s \in Sensor
  PROVE  PushBack(s) \in Seq(Point)
BY DEF DataTypeOK, PushBack, Point, Null

\* A pass of measurements keeps the types of what it touches.
LEMMA MeasureType ==
  ASSUME DataTypeOK, NEW S, NEW D, Measure(S, D)
  PROVE  /\ taken' \in [Sensor -> Nat]
         /\ m_datapoints' \in [Sensor -> Seq(Point)]
         /\ m_firstDatapoint' \in [Sensor -> BOOLEAN]
<1>1. taken' \in [Sensor -> Nat]
  BY DEF DataTypeOK, Measure
<1>2. \A s \in Sensor : m_datapoints[s] \o PushBack(s) \in Seq(Point)
  BY PushBackType DEF DataTypeOK
<1>3. m_datapoints' \in [Sensor -> Seq(Point)]
  BY <1>2 DEF DataTypeOK, Measure
<1>4. m_firstDatapoint' \in [Sensor -> BOOLEAN]
  BY DEF DataTypeOK, Measure
<1>5. QED
  BY <1>1, <1>3, <1>4

\* So does update_sensors of a manager with a fixed set of sensors, ...
LEMMA UpdateFixedType ==
  ASSUME DataTypeOK, NEW m \in Manager, UpdateFixed(m)
  PROVE  DataTypeOK'
<1>1. CASE m_error[m]
  BY <1>1 DEF UpdateFixed, sensorVars, DataTypeOK
<1>2. CASE ~m_error[m]
  <2>1. PICK S \in SUBSET Measurable(Elements(m_sensors[m])),
             failed \in BOOLEAN :
          /\ Measure(S, {})
          /\ m_error' = [m_error EXCEPT ![m] = failed]
          /\ UNCHANGED m_error_reported
    BY <1>2 DEF UpdateFixed
  <2>2. m_error' \in [Manager -> BOOLEAN]
    BY <2>1 DEF DataTypeOK
  <2>3. QED
    BY <2>1, <2>2, MeasureType DEF DataTypeOK
<1>3. QED
  BY <1>1, <1>2

\* ... of any manager, ...
LEMMA UpdateSensorsType ==
  ASSUME DataTypeOK, NEW m \in Manager, UpdateSensors(m)
  PROVE  DataTypeOK'
<1>1. CASE m # BoincManager
  BY <1>1, UpdateFixedType DEF UpdateSensors
<1>2. CASE m = BoincManager
  <2>1. UpdateBoinc
    BY <1>2 DEF UpdateSensors
  <2>2. CASE UNCHANGED sensorVars
    BY <2>2 DEF sensorVars, DataTypeOK
  <2>3. CASE /\ m_error' = [m_error EXCEPT ![BoincManager] = TRUE]
             /\ UNCHANGED <<m_datapoints, m_firstDatapoint, m_error_reported,
                            taken>>
    BY <2>3 DEF DataTypeOK
  <2>4. CASE /\ \E S, D : Measure(S, D)
             /\ UNCHANGED <<m_error, m_error_reported>>
    <3>1. PICK S, D : Measure(S, D)
      BY <2>4
    <3>2. QED
      BY <2>4, <3>1, MeasureType DEF DataTypeOK
  <2>5. QED
    BY <2>1, <2>2, <2>3, <2>4 DEF UpdateBoinc, MeasureResults
<1>3. QED
  BY <1>1, <1>2

\* ... the error branch of add_sensors, ...
LEMMA ReportErrorType ==
  ASSUME DataTypeOK, NEW m \in Manager, ReportError(m)
  PROVE  m_error_reported' \in [Manager -> BOOLEAN]
BY DEF ReportError, DataTypeOK

\* ... add_sensors of any manager, ...
LEMMA AddSensorsType ==
  ASSUME DataTypeOK, NEW m \in Manager, AddSensors(m)
  PROVE  DataTypeOK'
<1>1. CASE m = BoincManager /\ AddBoinc
  <2>1. CASE m_error[m]
    BY <1>1, <2>1, ReportErrorType DEF AddBoinc, DataTypeOK
  <2>2. CASE ~m_error[m]
    BY <1>1, <2>2 DEF AddBoinc, DataTypeOK, sensorVars
  <2>3. QED
    BY <2>1, <2>2
<1>2. CASE AddUpdateFirst(m)
  <2>1. CASE m_error[m]
    BY <1>2, <2>1, ReportErrorType DEF AddUpdateFirst, DataTypeOK
  <2>2. CASE ~m_error[m]
    <3>1. PICK S : \/ Measure(S, {}) /\ UNCHANGED <<m_error, m_error_reported>>
                   \/ /\ Measure(S, {})
                      /\ m_error' = [m_error EXCEPT ![m] = TRUE]
                      /\ ReportError(m)
      BY <1>2, <2>2 DEF AddUpdateFirst
    <3>2. QED
      BY <3>1, MeasureType, ReportErrorType DEF DataTypeOK
  <2>3. QED
    BY <2>1, <2>2
<1>3. CASE AddUpdateAfter(m)
  <2>1. CASE m_error[m]
    BY <1>3, <2>1, ReportErrorType DEF AddUpdateAfter, DataTypeOK
  <2>2. CASE ~m_error[m]
    BY <1>3, <2>2, UpdateFixedType DEF AddUpdateAfter
  <2>3. QED
    BY <2>1, <2>2
<1>4. QED
  BY <1>1, <1>2, <1>3 DEF AddSensors

\* ... releaseManagers and the loss of memory, ...
LEMMA NoManagersType ==
  ASSUME DataTypeOK, NoManagers
  PROVE  DataTypeOK'
BY DEF NoManagers, DataTypeOK

\* ... and the constructors of the managers in a new process.
LEMMA NewManagersType ==
  ASSUME DataTypeOK, NewManagers
  PROVE  DataTypeOK'
BY DEF NewManagers, SensorsAtStart, DataTypeOK

\* A reader gets a sequence of points, the ones that were buffered or none.
LEMMA DecodedForIs ==
  ASSUME NEW s \in Sensor
  PROVE  DecodedFor(s) = IF s \in Elements(PrintedSensors)
                         THEN m_datapoints[s] ELSE <<>>
BY DEF DecodedFor, PrintedData, Elements

----------------------------------------------------------------------------
(***************************************************************************)
(* The milestones.  Inv is inductive: the type of the application, the     *)
(* type of the data and how the saved milestone, the one in progress and   *)
(* the closed ones are related.                                            *)
(***************************************************************************)
Inv == AppTypeOK /\ DataTypeOK /\ ProgressInv

\* The work a process can have, and the milestones there can be.
LEMMA WorkFacts ==
  /\ Longest \in Nat /\ 0 < Longest /\ Milestones <= Longest /\ DefaultMilestones <= Longest
  /\ <<milestones, seconds>> \in Work
       => /\ milestones \in Nat /\ 0 < milestones /\ milestones <= Longest
          /\ seconds \in Nat /\ 0 < seconds
BY WorkAssumption DEF Longest, Work

\* Milestones later in the row begin later; the work unit ends after all.
LEMMA TimeIsMonotone ==
  ASSUME NEW t \in Nat, 0 < t, NEW a \in Nat, NEW b \in Nat, a < b
  PROVE  /\ t * a \in Nat
         /\ t * b \in Nat
         /\ t * (a + 1) \in Nat
         /\ t * a < t * b
         /\ t * (a + 1) <= t * b
<1>1. PICK d \in Nat : b = a + 1 + d
  <2>1. b - a - 1 \in Nat /\ b = a + 1 + (b - a - 1)
    OBVIOUS
  <2>2. QED
    BY <2>1
<1>2. t * d \in Nat
  OBVIOUS
<1>3. t * b = t * a + t + t * d
  BY <1>1
<1>4. t * (a + 1) = t * a + t
  OBVIOUS
<1>5. t * a \in Nat
  OBVIOUS
<1>6. QED
  BY <1>2, <1>3, <1>4, <1>5

LEMMA Shorter ==
  ASSUME NEW a \in Nat, NEW b \in Nat, a <= b, NEW S, 0 .. b - 1 \subseteq S
  PROVE  0 .. a - 1 \subseteq S
OBVIOUS

LEMMA ProductType ==
  ASSUME NEW a \in Nat, NEW b \in Nat
  PROVE  a * b \in Nat
OBVIOUS

\* The process that never ran satisfies the inductive invariant.
LEMMA InitInv == Init => Inv
<1>1. SUFFICES ASSUME Init
               PROVE  Inv
  OBVIOUS
<1>2. <<milestones, seconds>> \in Work /\ milestones = Milestones /\ seconds = Seconds
  BY <1>1 DEF Init, Work
<1>3. WorkUnit \in Nat /\ 0 < WorkUnit
  <2>1. seconds * 0 < seconds * milestones /\ seconds * milestones \in Nat
    BY <1>2, WorkFacts, TimeIsMonotone
  <2>2. QED
    BY <1>2, <2>1, WorkFacts DEF WorkUnit
<1>4. Len(ManagerSeq) \in Nat
  BY ManagerAssumption
<1>5. \A T : <<>> \in Seq(T)
  OBVIOUS
<1>6. DataTypeOK
  BY <1>1, <1>5 DEF Init, DataTypeOK, Point
<1>7. AppTypeOK
  <2>1. delivered \in [Sensor -> Seq(Point)] /\ trickles \in Seq(Milestone)
    BY <1>1, <1>5 DEF Init
  <2>2. next \in 1 .. Len(ManagerSeq) + 1
    BY <1>1, <1>4 DEF Init
  <2>3. /\ {milestone, milestone_tmp, start} \subseteq Milestone
        /\ out \in {0, Milestones, DefaultMilestones}
        /\ i \in 0 .. Longest
        /\ {elapsed, fraction, crashes, forgotten} \subseteq Nat
    BY <1>1, WorkFacts DEF Init, Milestone
  <2>4. pc \in PC /\ debug \in BOOLEAN
    BY <1>1 DEF Init, PC
  <2>5. closed \subseteq Milestone
    BY <1>1 DEF Init
  <2>6. QED
    BY <1>2, <2>1, <2>2, <2>3, <2>4, <2>5 DEF AppTypeOK
<1>8. ProgressInv
  <2>1. /\ pc = "down" /\ 0 .. milestone - 1 = {} /\ 0 .. out - 1 = {}
        /\ closed = 0 .. 0 - 1 /\ fraction = 0
    BY <1>1 DEF Init
  <2>2. CompleteMeansDone
    BY <1>3, <2>1 DEF CompleteMeansDone
  <2>3. \E m \in 0 .. Longest : closed = 0 .. m - 1
    BY <2>1, WorkFacts
  <2>4. QED
    BY <2>1, <2>2, <2>3 DEF ProgressInv, Running, InMilestone
<1>9. QED
  BY <1>6, <1>7, <1>8 DEF Inv

\* A milestone is a number, and so is what a file says.
LEMMA InvFacts ==
  ASSUME Inv
  PROVE  /\ milestone \in Nat /\ milestone_tmp \in Nat /\ start \in Nat /\ i \in Nat
         /\ milestone < Longest /\ milestone_tmp < Longest /\ start < Longest
         /\ milestones \in Nat /\ 0 < milestones /\ milestones <= Longest
         /\ seconds \in Nat /\ 0 < seconds
         /\ elapsed \in Nat /\ fraction \in Nat /\ crashes \in Nat /\ forgotten \in Nat
         /\ out \in Nat /\ i <= Longest /\ Longest \in Nat
         /\ WorkUnit \in Nat
<1>1. /\ {milestone, milestone_tmp, start} \subseteq 0 .. Longest - 1
      /\ i \in 0 .. Longest
      /\ {elapsed, fraction, crashes, forgotten} \subseteq Nat
  BY DEF Inv, AppTypeOK, Milestone
<1>2. out \in Nat
  BY WorkAssumption DEF Inv, AppTypeOK
<1>3. /\ Longest \in Nat /\ milestones \in Nat /\ 0 < milestones /\ milestones <= Longest
      /\ seconds \in Nat /\ 0 < seconds
  BY WorkFacts DEF Inv, AppTypeOK
<1>4. WorkUnit \in Nat
  BY <1>3, ProductType DEF WorkUnit
<1>5. QED
  BY <1>1, <1>2, <1>3, <1>4

\* Most steps do not come near the files or the end of a milestone.
LEMMA ProgressFrame ==
  ASSUME ProgressInv,
         UNCHANGED <<milestone, out, milestones, seconds, closed, i>>,
         pc' = "rename" => milestone_tmp' \in {i, 0},
         pc' \in Running => pc \in Running,
         pc' \in InMilestone => pc \in InMilestone,
         pc' \in {"finalize", "write", "finish"} => pc \in {"finalize", "write", "finish"},
         pc' = "done" => 0 .. milestones - 1 \subseteq closed,
         fraction' >= WorkUnit => fraction >= WorkUnit \/ 0 .. milestones - 1 \subseteq closed
  PROVE  ProgressInv'
BY DEF ProgressInv, CompleteMeansDone, WorkUnit

\* The constructor in a new process.
LEMMA StartInv ==
  ASSUME Inv, Start
  PROVE  Inv'
<1>1. DataTypeOK'
  <2>1. CASE NewManagers
    BY <2>1, NewManagersType DEF Inv
  <2>2. CASE UNCHANGED sensorVars
    BY <2>2 DEF Inv, DataTypeOK, sensorVars
  <2>3. QED
    BY <2>1, <2>2 DEF Start
<1>2. CASE pc' = "failed" /\ UNCHANGED <<workVars, i, next, elapsed, fraction, forgotten>>
  <2>1. UNCHANGED <<milestone, milestone_tmp, out, milestones, seconds, start, closed, i, next,
                    elapsed, fraction, forgotten, crashes, debug, trickles, delivered>>
    BY <1>2 DEF Start, fileVars, historyVars, workVars
  <2>2. AppTypeOK'
    BY <1>2, <2>1 DEF Inv, AppTypeOK, PC
  <2>3. ProgressInv'
    BY <1>2, <2>1, ProgressFrame DEF Inv, Running, InMilestone, PC
  <2>4. QED
    BY <1>1, <2>2, <2>3 DEF Inv
<1>3. CASE /\ \E work \in Work : milestones' = work[1] /\ seconds' = work[2]
           /\ GetMilestone /\ i' = start' /\ elapsed' = 0 /\ next' = 1
           /\ fraction' = seconds' * start'
           /\ pc' = IF i' < milestones' THEN "save" ELSE "finalize"
  <2>1. UNCHANGED <<milestone, milestone_tmp, out, closed, crashes, debug, trickles, delivered>>
    BY DEF Start, fileVars, historyVars
  <2>2. <<milestones', seconds'>> \in Work
    BY <1>3 DEF Work
  <2>3. /\ milestones' \in Nat /\ 0 < milestones' /\ milestones' <= Longest
        /\ seconds' \in Nat /\ 0 < seconds'
    BY <2>2, WorkAssumption DEF Longest, Work
  <2>4. start' \in {milestone, 0} /\ start' \in Nat /\ start' < Longest /\ start' <= milestone
        /\ forgotten' \in Nat
    BY <1>3, InvFacts DEF GetMilestone, Forget
  <2>5. seconds' * start' \in Nat
    BY <2>3, <2>4, ProductType
  <2>6. AppTypeOK'
    <3>1. start' \in Milestone /\ i' \in 0 .. Longest
      BY <1>3, <2>4, WorkFacts DEF Milestone
    <3>2. next' \in 1 .. Len(ManagerSeq) + 1
      BY <1>3, ManagerAssumption
    <3>3. pc' \in PC
      BY <1>3 DEF PC
    <3>4. {elapsed, fraction, crashes, forgotten}' \subseteq Nat
      BY <1>3, <2>1, <2>4, <2>5, InvFacts
    <3>5. QED
      BY <2>1, <2>2, <3>1, <3>2, <3>3, <3>4 DEF Inv, AppTypeOK
  <2>7. 0 .. start' - 1 \subseteq closed
    <3>1. 0 .. milestone - 1 \subseteq closed
      BY DEF Inv, ProgressInv
    <3>2. milestone \in Nat /\ start' \in Nat /\ start' <= milestone
      BY <2>4, InvFacts
    <3>3. QED
      BY <3>1, <3>2, Shorter
  <2>8. fraction' >= seconds' * milestones' => 0 .. milestones' - 1 \subseteq closed
    <3>1. CASE start' < milestones'
      <4>1. /\ seconds' * start' < seconds' * milestones'
            /\ seconds' * start' \in Nat /\ seconds' * milestones' \in Nat
        BY <2>3, <2>4, <3>1, TimeIsMonotone
      <4>2. QED
        BY <1>3, <4>1
    <3>2. CASE start' >= milestones'
      <4>1. milestones' \in Nat /\ start' \in Nat /\ milestones' <= start'
        BY <2>3, <2>4, <3>2
      <4>2. QED
        BY <2>7, <4>1, Shorter
    <3>3. start' \in Nat /\ milestones' \in Nat
      BY <2>3, <2>4
    <3>4. start' < milestones' \/ start' >= milestones'
      BY <3>3
    <3>5. QED
      BY <3>1, <3>2, <3>4
  <2>9. ProgressInv'
    <3>1. /\ 0 .. milestone - 1 \subseteq closed /\ 0 .. out - 1 \subseteq closed
          /\ \E m \in 0 .. Longest : closed = 0 .. m - 1
      BY DEF Inv, ProgressInv
    <3>2. CompleteMeansDone'
      BY <2>1, <2>8 DEF CompleteMeansDone, WorkUnit
    <3>3. i' = start' /\ i' \in Nat /\ milestones' \in Nat
      BY <1>3, <2>3, <2>4
    <3>4. CASE i' < milestones'
      <4>1. pc' = "save"
        BY <1>3, <3>4
      <4>2. QED
        BY <2>1, <2>7, <3>1, <3>2, <3>3, <3>4, <4>1 DEF ProgressInv
    <3>5. CASE i' >= milestones'
      <4>1. pc' = "finalize"
        BY <1>3, <3>3, <3>5
      <4>2. QED
        BY <2>1, <2>7, <3>1, <3>2, <3>3, <3>5, <4>1 DEF ProgressInv, InMilestone
    <3>6. QED
      BY <3>3, <3>4, <3>5
  <2>10. QED
    BY <1>1, <2>6, <2>9 DEF Inv
<1>4. QED
  BY <1>2, <1>3 DEF Start

\* The end of a milestone.
LEMMA PrintInv ==
  ASSUME Inv, PrintAndSend
  PROVE  Inv'
<1>1. DataTypeOK'
  BY DEF Inv, PrintAndSend, ClearPrinted, DataTypeOK
<1>2. \A s \in Sensor : delivered[s] \o DecodedFor(s) \in Seq(Point)
  <2>1. ASSUME NEW s \in Sensor
        PROVE  DecodedFor(s) \in Seq(Point)
    <3>1. m_datapoints[s] \in Seq(Point) /\ <<>> \in Seq(Point)
      BY DEF Inv, DataTypeOK
    <3>2. QED
      BY <3>1, DecodedForIs
  <2>2. \A s \in Sensor : delivered[s] \in Seq(Point)
    BY DEF Inv, AppTypeOK
  <2>3. QED
    BY <2>1, <2>2
<1>3. delivered' \in [Sensor -> Seq(Point)]
  BY <1>2 DEF PrintAndSend, historyVars, Inv, AppTypeOK
<1>4. /\ pc = "print" /\ i \in Nat /\ i < milestones /\ i \in Milestone
      /\ 0 .. i - 1 \subseteq closed
  BY InvFacts DEF PrintAndSend, Inv, ProgressInv, InMilestone, Running, PC, Milestone
<1>5. trickles' \in Seq(Milestone)
  <2>1. trickles \in Seq(Milestone)
    BY DEF Inv, AppTypeOK
  <2>2. trickles' = trickles \/ trickles' = Append(trickles, i)
    BY DEF PrintAndSend, historyVars
  <2>3. QED
    BY <1>4, <2>1, <2>2
<1>6. UNCHANGED <<debug, milestone, milestone_tmp, out, milestones, seconds, start, next,
                  elapsed, fraction, crashes, forgotten>>
  BY DEF PrintAndSend, fileVars, workVars
<1>7. CASE CloseMilestone
  <2>1. closed' = closed \cup {i} /\ i' = i + 1
        /\ pc' = IF i + 1 < milestones THEN "save" ELSE "finalize"
    BY <1>7 DEF CloseMilestone
  <2>2. AppTypeOK'
    <3>1. i' \in 0 .. Longest /\ closed' \subseteq Milestone /\ pc' \in PC
      BY <1>4, <2>1, InvFacts DEF Inv, AppTypeOK, PC
    <3>2. QED
      BY <1>3, <1>5, <1>6, <3>1 DEF Inv, AppTypeOK
  <2>3. 0 .. i' - 1 \subseteq closed'
    BY <1>4, <2>1
  <2>4. \E m \in 0 .. Longest : closed' = 0 .. m - 1
    <3>1. PICK m \in 0 .. Longest : closed = 0 .. m - 1
      BY DEF Inv, ProgressInv
    <3>2. CASE i < m
      <4>1. closed' = 0 .. m - 1
        BY <1>4, <2>1, <3>1, <3>2, InvFacts
      <4>2. QED
        BY <4>1
    <3>3. CASE i >= m
      <4>1. i = m
        BY <1>4, <3>1, <3>3, InvFacts
      <4>2. closed' = 0 .. (m + 1) - 1 /\ m + 1 \in 0 .. Longest
        BY <1>4, <2>1, <3>1, <4>1, InvFacts
      <4>3. QED
        BY <4>2
    <3>4. QED
      BY <1>4, <3>2, <3>3, InvFacts
  <2>5. ProgressInv'
    <3>1. /\ 0 .. milestone - 1 \subseteq closed' /\ 0 .. out - 1 \subseteq closed'
      BY <2>1 DEF Inv, ProgressInv
    <3>2. CompleteMeansDone'
      <4>1. CompleteMeansDone
        BY DEF Inv, ProgressInv
      <4>2. QED
        BY <1>6, <2>1, <4>1 DEF CompleteMeansDone, WorkUnit
    <3>3. milestones \in Nat
      BY InvFacts
    <3>4. CASE i' < milestones
      <4>1. pc' = "save"
        BY <2>1, <3>4
      <4>2. QED
        BY <1>6, <2>3, <2>4, <3>1, <3>2, <3>4, <4>1 DEF ProgressInv
    <3>5. CASE i' >= milestones
      <4>1. pc' = "finalize"
        BY <1>4, <2>1, <3>3, <3>5
      <4>2. QED
        BY <1>6, <2>3, <2>4, <3>1, <3>2, <3>5, <4>1 DEF ProgressInv, InMilestone
    <3>6. QED
      BY <1>4, <2>1, <3>3, <3>4, <3>5
  <2>6. QED
    BY <1>1, <2>2, <2>5 DEF Inv
<1>8. CASE pc' = "failed" /\ UNCHANGED <<i, historyVars>>
  <2>1. AppTypeOK'
    BY <1>3, <1>5, <1>6, <1>8 DEF Inv, AppTypeOK, PC, historyVars
  <2>2. ProgressInv'
    BY <1>6, <1>8, ProgressFrame DEF Inv, Running, InMilestone, PC, historyVars
  <2>3. QED
    BY <1>1, <2>1, <2>2 DEF Inv
<1>9. QED
  BY <1>7, <1>8 DEF PrintAndSend

\* Every step of the application, a crash included, keeps it.
LEMMA StepInv ==
  ASSUME Inv, [Next]_vars
  PROVE  Inv'
<1> USE DEF Inv, workVars
<1>1. CASE SaveTmp
  <2>1. DataTypeOK'
    BY <1>1 DEF SaveTmp, DataTypeOK, sensorVars
  <2>2. /\ i \in Milestone /\ 0 \in Milestone
        /\ forgotten' \in Nat /\ milestone_tmp' \in {milestone_tmp, i, 0}
    <3>1. i < milestones
      BY <1>1 DEF SaveTmp, ProgressInv, InMilestone
    <3>2. i \in Milestone /\ 0 \in Milestone
      BY <3>1, InvFacts DEF Milestone
    <3>3. forgotten' \in Nat
      BY <1>1, InvFacts DEF SaveTmp, Forget
    <3>4. QED
      BY <1>1, <3>2, <3>3 DEF SaveTmp
  <2>3. AppTypeOK'
    BY <1>1, <2>2 DEF SaveTmp, AppTypeOK, PC, historyVars
  <2>4. ProgressInv'
    BY <1>1, ProgressFrame DEF SaveTmp, Running, InMilestone, PC, historyVars
  <2>5. QED
    BY <2>1, <2>3, <2>4
<1>2. CASE Rename
  <2>1. DataTypeOK'
    BY <1>2 DEF Rename, DataTypeOK, sensorVars
  <2>2. AppTypeOK'
    BY <1>2, WorkFacts DEF Rename, AppTypeOK, PC, historyVars, Milestone
  <2>3. CASE pc' = "failed" /\ UNCHANGED <<milestone, milestone_tmp>>
    <3>1. /\ pc' \notin Running /\ pc' \notin InMilestone
          /\ UNCHANGED <<milestone, out, milestones, seconds, closed, i, fraction>>
      BY <1>2, <2>3 DEF Rename, Running, InMilestone, historyVars
    <3>2. ProgressInv'
      BY <2>3, <3>1, ProgressFrame
    <3>3. QED
      BY <2>1, <2>2, <3>2
  <2>4. CASE pc' = "loop" /\ milestone' = milestone_tmp
    <3>1. 0 .. milestone' - 1 \subseteq closed
      <4>1. 0 .. i - 1 \subseteq closed /\ 0 .. 0 - 1 \subseteq closed
        BY <1>2 DEF Rename, ProgressInv, Running, PC
      <4>2. milestone_tmp \in {i, 0}
        BY <1>2 DEF Rename, ProgressInv
      <4>3. QED
        BY <2>4, <4>1, <4>2
    <3>2. QED
      BY <1>2, <2>2, <2>1, <2>4, <3>1
         DEF Rename, ProgressInv, CompleteMeansDone, WorkUnit, Running, InMilestone, PC,
             historyVars
  <2>5. QED
    BY <1>2, <2>1, <2>2, <2>3, <2>4 DEF Rename
<1>3. CASE LoopTest
  <2>1. DataTypeOK'
    BY <1>3 DEF LoopTest, DataTypeOK, sensorVars
  <2>2. Position \in Nat
    BY InvFacts DEF Position
  <2>3. seconds * (i + 1) \in Nat /\ seconds * (i + 1) <= WorkUnit
    BY <1>3, InvFacts, TimeIsMonotone DEF LoopTest, ProgressInv, InMilestone, WorkUnit
  <2>4. fraction' \in Nat /\ (fraction' >= WorkUnit => fraction >= WorkUnit)
    BY <1>3, <2>2, <2>3, InvFacts DEF LoopTest
  <2>5. AppTypeOK'
    BY <1>3, <2>4, ManagerAssumption DEF LoopTest, AppTypeOK, PC, fileVars, historyVars
  <2>6. ProgressInv'
    BY <1>3, <2>4, ProgressFrame
       DEF LoopTest, Running, InMilestone, PC, fileVars, historyVars
  <2>7. QED
    BY <2>1, <2>5, <2>6
<1>4. CASE UpdateManager
  <2>1. ManagerSeq[next] \in Manager
    BY <1>4, ManagerAssumption DEF UpdateManager, AppTypeOK
  <2>2. DataTypeOK'
    BY <1>4, <2>1, UpdateSensorsType DEF UpdateManager
  <2>3. AppTypeOK'
    BY <1>4, ManagerAssumption
       DEF UpdateManager, AppTypeOK, PC, fileVars, historyVars
  <2>4. ProgressInv'
    BY <1>4, ProgressFrame DEF UpdateManager, fileVars, historyVars
  <2>5. QED
    BY <2>2, <2>3, <2>4
<1>5. CASE Wait
  <2>1. DataTypeOK'
    BY <1>5 DEF Wait, DataTypeOK, sensorVars
  <2>2. AppTypeOK'
    BY <1>5, WorkAssumption DEF Wait, AppTypeOK, PC, fileVars, historyVars
  <2>3. ProgressInv'
    BY <1>5, ProgressFrame DEF Wait, Running, InMilestone, PC, fileVars, historyVars
  <2>4. QED
    BY <2>1, <2>2, <2>3
<1>6. CASE CollectManager
  <2>1. ManagerSeq[next] \in Manager
    BY <1>6, ManagerAssumption DEF CollectManager, AppTypeOK
  <2>2. DataTypeOK'
    BY <1>6, <2>1, AddSensorsType DEF CollectManager
  <2>3. AppTypeOK'
    BY <1>6, ManagerAssumption
       DEF CollectManager, AppTypeOK, PC, fileVars, historyVars
  <2>4. ProgressInv'
    BY <1>6, ProgressFrame
       DEF CollectManager, Running, InMilestone, PC, fileVars, historyVars
  <2>5. QED
    BY <2>2, <2>3, <2>4
<1>7. CASE Finalize
  <2>1. DataTypeOK'
    BY <1>7, NoManagersType DEF Finalize
  <2>2. out' \in {out, 0}
    BY <1>7 DEF Finalize
  <2>3. AppTypeOK'
    BY <1>7, <2>2 DEF Finalize, AppTypeOK, PC, historyVars
  <2>4. 0 .. out' - 1 \subseteq closed
    BY <2>2 DEF ProgressInv
  <2>5. ProgressInv'
    BY <1>7, <2>4
       DEF Finalize, ProgressInv, CompleteMeansDone, WorkUnit, Running, InMilestone, PC,
           historyVars
  <2>6. QED
    BY <2>1, <2>3, <2>5
<1>8. CASE WriteOut
  <2>1. DataTypeOK'
    BY <1>8 DEF WriteOut, DataTypeOK, sensorVars
  <2>2. out' \in {milestones, 0}
    BY <1>8 DEF WriteOut
  <2>3. AppTypeOK'
    <3>1. milestones \in {Milestones, DefaultMilestones}
      BY DEF AppTypeOK, Work
    <3>2. QED
      BY <1>8, <2>2, <3>1 DEF WriteOut, AppTypeOK, PC, historyVars
  <2>4. 0 .. out' - 1 \subseteq closed
    <3>1. 0 .. i - 1 \subseteq closed /\ i >= milestones
      BY <1>8 DEF WriteOut, ProgressInv, Running, PC
    <3>2. QED
      BY <2>2, <3>1, InvFacts
  <2>5. ProgressInv'
    BY <1>8, <2>4
       DEF WriteOut, ProgressInv, CompleteMeansDone, WorkUnit, Running, InMilestone, PC,
           historyVars
  <2>6. QED
    BY <2>1, <2>3, <2>5
<1>9. CASE Finish
  <2>1. DataTypeOK'
    BY <1>9 DEF Finish, DataTypeOK, sensorVars
  <2>2. AppTypeOK'
    BY <1>9, InvFacts DEF Finish, AppTypeOK, PC, fileVars, historyVars
  <2>3. 0 .. milestones - 1 \subseteq closed
    <3>1. 0 .. i - 1 \subseteq closed /\ i >= milestones
      BY <1>9 DEF Finish, ProgressInv, Running, PC
    <3>2. QED
      BY <3>1, InvFacts
  <2>4. ProgressInv'
    BY <1>9, <2>3, ProgressFrame DEF Finish, Running, InMilestone, PC, fileVars, historyVars
  <2>5. QED
    BY <2>1, <2>2, <2>4
<1>10. CASE Crash
  <2>1. DataTypeOK'
    BY <1>10, NoManagersType DEF Crash
  <2>2. AppTypeOK'
    BY <1>10, InvFacts DEF Crash, AppTypeOK, PC, fileVars, historyVars
  <2>3. ProgressInv'
    BY <1>10, ProgressFrame DEF Crash, Running, InMilestone, PC, fileVars, historyVars
  <2>4. QED
    BY <2>1, <2>2, <2>3
<1>11. CASE UNCHANGED vars
  BY <1>11 DEF vars, sensorVars, collectVars, fileVars, historyVars, appVars,
               AppTypeOK, DataTypeOK, ProgressInv, CompleteMeansDone, WorkUnit
<1>12. QED
  BY <1>1, <1>2, <1>3, <1>4, <1>5, <1>6, <1>7, <1>8, <1>9, <1>10, <1>11, StartInv,
     PrintInv
     DEF Next, Step, Over

\* The inductive invariant of BoincApp::loop holds in every reachable state: the
\* types, and how the milestone in progress is related to the files.
THEOREM Invariance == Spec => []Inv
<1>1. QED
  BY InitInv, StepInv, PTL DEF Spec

\* No milestone is passed over: a restart never begins behind a milestone whose
\* trickle was not accepted, and `out' never vouches for one.
THEOREM NothingIsSkipped == Spec => []NothingSkipped
<1>1. Inv => NothingSkipped
  BY DEF Inv, ProgressInv, NothingSkipped
<1>2. QED
  BY <1>1, Invariance, PTL

\* BOINC is told that the work is complete only when it is.
THEOREM CompleteIsDone == Spec => []CompleteMeansDone
<1>1. Inv => CompleteMeansDone
  BY DEF Inv, ProgressInv
<1>2. QED
  BY <1>1, Invariance, PTL

\* The milestone that a trickle closes is one already closed, or the next one.
LEMMA CloseIsReport ==
  ASSUME Inv, PrintAndSend, CloseMilestone, closed' # closed
  PROVE  \E n \in {Milestones, DefaultMilestones} : \E m \in 0 .. n - 1 :
           closed = 0 .. m - 1 /\ closed' = 0 .. m
<1>1. /\ pc = "print" /\ i \in Nat /\ i < milestones /\ 0 .. i - 1 \subseteq closed
      /\ closed' = closed \cup {i} /\ i \notin closed
  BY InvFacts DEF PrintAndSend, CloseMilestone, Inv, ProgressInv, InMilestone, Running, PC
<1>2. PICK m \in 0 .. Longest : closed = 0 .. m - 1
  BY DEF Inv, ProgressInv
<1>3. i = m
  BY <1>1, <1>2, InvFacts
<1>4. closed' = 0 .. m
  BY <1>1, <1>2, <1>3, InvFacts
<1>5. milestones \in {Milestones, DefaultMilestones} /\ m \in 0 .. milestones - 1
  BY <1>1, <1>3, InvFacts DEF Inv, AppTypeOK, Work
<1>6. QED
  BY <1>2, <1>4, <1>5

\* What BOINC sees is a work unit as WorkUnit describes it, for every number of
\* stops and whatever becomes of the files: milestones are reported for the first
\* time in their order, a restart passes over none of them, and the work is
\* complete only when all are reported (the safety part; that the work unit ends
\* needs fairness and is left to TLC).
THEOREM Implementation == Spec => WU!Spec
<1> DEFINE state == IF pc = "done" THEN "complete"
                    ELSE IF pc = "failed" THEN "failed" ELSE "open"
<1>1. Init => WU!Init
  BY DEF Init, WU!Init
<1>2. ASSUME Inv, Inv', [Next]_vars
      PROVE  [WU!Next]_<<milestone, closed, state>>
  <2>1. CASE Rename
    <3>1. /\ pc = "rename" /\ pc' \in {"loop", "failed"} /\ UNCHANGED closed
          /\ pc' = "failed" => UNCHANGED milestone
      BY <2>1 DEF Rename, historyVars
    <3>2. 0 .. milestone' - 1 \subseteq closed
      BY <1>2, <3>1 DEF Inv, ProgressInv
    <3>3. \E n \in {Milestones, DefaultMilestones} : milestone' \in 0 .. n - 1
      <4>1. milestone' \in 0 .. Longest - 1
        BY <1>2 DEF Inv, AppTypeOK, Milestone
      <4>2. QED
        BY <4>1 DEF Longest
    <3>4. QED
      BY <3>1, <3>2, <3>3 DEF WU!Next, WU!Progress, WU!Save, WU!Fail
  <2>2. CASE PrintAndSend
    <3>1. UNCHANGED milestone /\ pc = "print"
      BY <2>2 DEF PrintAndSend, fileVars
    <3>2. CASE CloseMilestone
      <4>1. pc' \in {"save", "finalize"}
        BY <3>2 DEF CloseMilestone
      <4>2. closed' = closed \/ WU!Report
        BY <1>2, <2>2, <3>1, <3>2, <4>1, CloseIsReport DEF WU!Report
      <4>3. QED
        BY <3>1, <4>1, <4>2 DEF WU!Next, WU!Progress
    <3>3. CASE pc' = "failed" /\ UNCHANGED historyVars
      BY <3>1, <3>3 DEF historyVars, WU!Next, WU!Progress, WU!Fail
    <3>4. QED
      BY <2>2, <3>2, <3>3 DEF PrintAndSend
  <2>3. CASE Finish
    <3>1. /\ UNCHANGED <<milestone, closed>> /\ pc = "finish" /\ pc' = "done"
      BY <2>3 DEF Finish, fileVars, historyVars
    <3>2. 0 .. milestones - 1 \subseteq closed
      <4>1. i >= milestones /\ 0 .. i - 1 \subseteq closed
        BY <1>2, <3>1 DEF Inv, ProgressInv, Running, PC
      <4>2. QED
        BY <1>2, <4>1, InvFacts
    <3>3. milestones \in {Milestones, DefaultMilestones}
      BY <1>2 DEF Inv, AppTypeOK, Work
    <3>4. QED
      BY <3>1, <3>2, <3>3 DEF WU!Next, WU!Progress, WU!Complete
  <2>4. CASE Start \/ SaveTmp \/ Finalize
    <3>1. /\ UNCHANGED <<milestone, closed>> /\ pc \notin {"done", "failed"}
          /\ pc' # "done"
      BY <2>4 DEF Start, SaveTmp, Finalize, fileVars, historyVars
    <3>2. QED
      BY <3>1 DEF WU!Next, WU!Progress, WU!Fail
  <2>5. CASE LoopTest \/ UpdateManager \/ Wait \/ CollectManager \/ WriteOut \/ Crash
    <3>1. /\ UNCHANGED <<milestone, closed>>
          /\ pc \notin {"done", "failed"} /\ pc' \notin {"done", "failed"}
      BY <2>5 DEF LoopTest, UpdateManager, Wait, CollectManager, WriteOut, Crash,
                  Running, fileVars, historyVars
    <3>2. QED
      BY <3>1
  <2>6. CASE UNCHANGED vars
    BY <2>6 DEF vars, fileVars, appVars, historyVars
  <2>7. QED
    BY <1>2, <2>1, <2>2, <2>3, <2>4, <2>5, <2>6 DEF Next, Step, Over
<1>3. QED
  BY <1>1, <1>2, Invariance, PTL DEF Spec, WU!Spec, WU!vars

----------------------------------------------------------------------------
(***************************************************************************)
(* The series of a sensor.                                                 *)
(***************************************************************************)

\* Points already there keep their place when others are appended.
LEMMA ConcatHead ==
  ASSUME NEW a \in Seq(Point), NEW b \in Seq(Point), NEW j \in DOMAIN a
  PROVE  j \in DOMAIN (a \o b) /\ (a \o b)[j] = a[j]
OBVIOUS

\* Delivering what is buffered does not depend on how it was grouped.
LEMMA ConcatIsAssociative ==
  ASSUME NEW a \in Seq(Point), NEW b \in Seq(Point), NEW c \in Seq(Point)
  PROVE  (a \o b) \o c = a \o (b \o c)
OBVIOUS

\* What was received before a loss stays readable.
LEMMA ReadablePrefix ==
  ASSUME NEW a \in Seq(Point), NEW b \in Seq(Point), Readable(a \o b)
  PROVE  Readable(a)
<1>1. \A j \in DOMAIN a : j \in DOMAIN (a \o b) /\ (a \o b)[j] = a[j]
  BY ConcatHead
<1>2. a # <<>> => 1 \in DOMAIN a
  OBVIOUS
<1>3. QED
  BY <1>1, <1>2 DEF Readable

\* The next measurement continues a series that ends with the last one.
LEMMA ReadableNext ==
  ASSUME NEW a \in Seq(Point), NEW t \in Nat, Readable(a), a # <<>>,
         a[Len(a)] = t, t # 0, \A j \in DOMAIN a : a[j] <= t
  PROVE  LET b == a \o <<t + 1>>
         IN  /\ Readable(b)
             /\ \A j \in DOMAIN b : b[j] <= t + 1
             /\ b # <<>> /\ b[Len(b)] = t + 1
<1> DEFINE b == a \o <<t + 1>>
           n == Len(a)
<1>1. /\ DOMAIN a = 1 .. n /\ n \in Nat /\ n >= 1
      /\ DOMAIN b = 1 .. n + 1 /\ Len(b) = n + 1
      /\ b[n + 1] = t + 1
      /\ \A j \in 1 .. n : b[j] = a[j] /\ a[j] \in Nat
  BY DEF Point
<1> HIDE DEF b, n
<1>2. ASSUME NEW j \in 1 .. n + 1, NEW k \in 1 .. n + 1, b[j] # Null, b[k] # Null
      PROVE  (j < k => b[j] < b[k]) /\ (k = j + 1 => b[k] = b[j] + 1)
  <2>1. CASE k \in 1 .. n
    <3>1. CASE j \in 1 .. n
      BY <1>1, <1>2, <2>1, <3>1 DEF Readable
    <3>2. CASE j = n + 1
      BY <1>1, <2>1, <3>2
    <3>3. QED
      BY <1>1, <3>1, <3>2
  <2>2. CASE k = n + 1
    <3>1. j \in 1 .. n => b[j] <= t /\ b[k] = t + 1
      BY <1>1, <2>2
    <3>2. j = n => b[j] = t
      BY <1>1 DEF n
    <3>3. QED
      BY <1>1, <2>2, <3>1, <3>2
  <2>3. QED
    BY <1>1, <2>1, <2>2
<1>3. b[1] = Null
  BY <1>1 DEF Readable
<1>4. Readable(b)
  BY <1>1, <1>2, <1>3 DEF Readable
<1>5. \A j \in DOMAIN b : b[j] <= t + 1
  BY <1>1
<1>6. b # <<>>
  BY <1>1
<1>7. QED
  BY <1>1, <1>4, <1>5, <1>6 DEF b

\* After a NaN any later measurement may follow.
LEMMA ReadableNew ==
  ASSUME NEW a \in Seq(Point), NEW t \in Nat, Readable(a),
         \A j \in DOMAIN a : a[j] <= t
  PROVE  LET b == a \o <<Null, t + 1>>
         IN  /\ Readable(b)
             /\ \A j \in DOMAIN b : b[j] <= t + 1
             /\ b # <<>> /\ b[Len(b)] = t + 1
<1> DEFINE b == a \o <<Null, t + 1>>
           n == Len(a)
<1>1. /\ DOMAIN a = 1 .. n /\ n \in Nat
      /\ DOMAIN b = 1 .. n + 2 /\ Len(b) = n + 2
      /\ b[n + 1] = Null /\ b[n + 2] = t + 1
      /\ \A j \in 1 .. n : b[j] = a[j] /\ a[j] \in Nat
  BY DEF Point, Null
<1> HIDE DEF b, n
<1>2. ASSUME NEW j \in 1 .. n + 2, NEW k \in 1 .. n + 2, b[j] # Null, b[k] # Null
      PROVE  (j < k => b[j] < b[k]) /\ (k = j + 1 => b[k] = b[j] + 1)
  <2>1. CASE j \in 1 .. n /\ k \in 1 .. n
    BY <1>1, <1>2, <2>1 DEF Readable
  <2>2. CASE j \in 1 .. n /\ k = n + 2
    BY <1>1, <2>2
  <2>3. CASE j = n + 2
    BY <1>1, <2>3
  <2>4. j # n + 1 /\ k # n + 1
    BY <1>1, <1>2
  <2>5. QED
    BY <1>1, <2>1, <2>2, <2>3, <2>4
<1>3. b[1] = Null
  <2>1. CASE n = 0
    BY <1>1, <2>1
  <2>2. CASE n # 0
    <3>1. a # <<>>
      BY <1>1, <2>2 DEF n
    <3>2. QED
      BY <1>1, <2>2, <3>1 DEF Readable
  <2>3. QED
    BY <2>1, <2>2
<1>4. Readable(b)
  BY <1>1, <1>2, <1>3 DEF Readable
<1>5. \A j \in DOMAIN b : b[j] <= t + 1
  BY <1>1 DEF Null
<1>6. b # <<>>
  BY <1>1
<1>7. QED
  BY <1>1, <1>4, <1>5, <1>6 DEF b

\* The same series, read by SeriesOK in the next state.
LEMMA SeriesMeasured ==
  ASSUME DataTypeOK, NEW s \in Sensor, delivered[s] \in Seq(Point),
         SeriesOK(s), NEW S, NEW D, Measure(S, D), UNCHANGED delivered
  PROVE  SeriesOK(s)'
<1>1. /\ m_datapoints[s] \in Seq(Point) /\ taken[s] \in Nat
      /\ m_firstDatapoint[s] \in BOOLEAN /\ Series(s) \in Seq(Point)
  BY DEF DataTypeOK, Series
<1>2. CASE s \in D
  <2>1. /\ m_datapoints'[s] = <<>> /\ m_firstDatapoint'[s] = TRUE
        /\ taken'[s] \in {taken[s], taken[s] + 1}
    BY <1>2 DEF Measure
  <2>2. Series(s)' = delivered[s]
    BY <2>1 DEF Series
  <2>3. Readable(delivered[s])
    BY <1>1, ReadablePrefix DEF SeriesOK, Series
  <2>4. ASSUME NEW j \in DOMAIN delivered[s]
        PROVE  delivered[s][j] <= taken'[s]
    <3>1. j \in DOMAIN Series(s) /\ Series(s)[j] = delivered[s][j]
      BY <1>1, ConcatHead DEF Series
    <3>2. delivered[s][j] <= taken[s] /\ delivered[s][j] \in Nat
      BY <3>1 DEF SeriesOK, Point
    <3>3. QED
      BY <1>1, <2>1, <3>2
  <2>5. QED
    BY <2>1, <2>2, <2>3, <2>4 DEF SeriesOK
<1>3. CASE s \notin D /\ s \in S
  <2>1. /\ m_datapoints'[s] = m_datapoints[s] \o PushBack(s)
        /\ m_firstDatapoint'[s] = FALSE
        /\ taken'[s] = taken[s] + 1
    BY <1>1, <1>3 DEF Measure
  <2>2. Series(s)' = Series(s) \o PushBack(s)
    <3>1. Series(s)' = delivered[s] \o (m_datapoints[s] \o PushBack(s))
      BY <2>1 DEF Series
    <3>2. QED
      BY <1>1, <3>1, PushBackType, ConcatIsAssociative DEF Series
  <2>3. /\ Readable(Series(s)')
        /\ \A j \in DOMAIN Series(s)' : Series(s)'[j] <= taken[s] + 1
        /\ Series(s)' # <<>> /\ Series(s)'[Len(Series(s)')] = taken[s] + 1
    <3>1. CASE m_firstDatapoint[s]
      BY <1>1, <2>2, <3>1, ReadableNew DEF SeriesOK, PushBack
    <3>2. CASE ~m_firstDatapoint[s]
      BY <1>1, <2>2, <3>2, ReadableNext DEF SeriesOK, PushBack
    <3>3. QED
      BY <3>1, <3>2
  <2>4. taken[s] + 1 # 0
    BY <1>1
  <2>5. QED
    BY <2>1, <2>3, <2>4 DEF SeriesOK
<1>4. CASE s \notin D /\ s \notin S
  <2>1. /\ m_datapoints'[s] = m_datapoints[s]
        /\ m_firstDatapoint'[s] = m_firstDatapoint[s]
        /\ taken'[s] = taken[s]
    BY <1>1, <1>4 DEF Measure
  <2>2. Series(s)' = Series(s)
    BY <2>1 DEF Series
  <2>3. QED
    BY <2>1, <2>2 DEF SeriesOK
<1>5. QED
  BY <1>2, <1>3, <1>4

\* A step of the managers: it measures and deletes, or leaves the data alone.
DataStep ==
  /\ UNCHANGED delivered
  /\ \/ UNCHANGED <<m_datapoints, m_firstDatapoint, taken>>
     \/ \E S, D : Measure(S, D)

\* Any measuring, printing-free step keeps the series of a sensor in order.
LEMMA SeriesStep ==
  ASSUME DataTypeOK, NEW s \in Sensor, delivered[s] \in Seq(Point),
         SeriesOK(s), DataStep
  PROVE  SeriesOK(s)'
<1>1. CASE UNCHANGED <<m_datapoints, m_firstDatapoint, taken>>
  <2>1. Series(s)' = Series(s)
    BY <1>1 DEF Series, DataStep
  <2>2. QED
    BY <1>1, <2>1 DEF SeriesOK
<1>2. CASE \E S, D : Measure(S, D)
  BY <1>2, SeriesMeasured DEF DataStep
<1>3. QED
  BY <1>1, <1>2 DEF DataStep

\* Sensors::update touches the series only by measuring, ...
LEMMA UpdateIsDataStep ==
  ASSUME NEW m, UpdateSensors(m), UNCHANGED delivered
  PROVE  DataStep
<1>1. CASE UpdateFixed(m)
  BY <1>1 DEF UpdateFixed, sensorVars, DataStep
<1>2. CASE UpdateBoinc
  BY <1>2 DEF UpdateBoinc, MeasureResults, sensorVars, DataStep
<1>3. QED
  BY <1>1, <1>2 DEF UpdateSensors

\* ... and so do the add_sensors that print_datapoints calls.
LEMMA AddIsDataStep ==
  ASSUME NEW m, AddSensors(m), UNCHANGED delivered
  PROVE  DataStep
<1>1. CASE AddBoinc
  BY <1>1 DEF AddBoinc, sensorVars, DataStep
<1>2. CASE AddUpdateFirst(m)
  BY <1>2 DEF AddUpdateFirst, DataStep
<1>3. CASE AddUpdateAfter(m)
  BY <1>3 DEF AddUpdateAfter, UpdateFixed, sensorVars, DataStep
<1>4. QED
  BY <1>1, <1>2, <1>3 DEF AddSensors

\* Memory without managers: only what was delivered is left.
LEMMA SeriesForgotten ==
  ASSUME DataTypeOK, NEW s \in Sensor, delivered[s] \in Seq(Point),
         SeriesOK(s), NoManagers, UNCHANGED delivered
  PROVE  SeriesOK(s)'
<1>1. Measure({}, Sensor)
  BY DEF NoManagers, Measure, DataTypeOK
<1>2. QED
  BY <1>1, SeriesMeasured

\* Printing moves what is buffered to the readers of the trickle, or leaves it.
LEMMA SeriesPrinted ==
  ASSUME DataTypeOK, NEW s \in Sensor, delivered \in [Sensor -> Seq(Point)],
         SeriesOK(s), ClearPrinted, UNCHANGED <<m_firstDatapoint, taken>>,
         delivered' = [r \in Sensor |-> delivered[r] \o DecodedFor(r)]
  PROVE  SeriesOK(s)'
<1>1. m_datapoints[s] \in Seq(Point) /\ delivered[s] \in Seq(Point)
  BY DEF DataTypeOK
<1>2. /\ m_datapoints'[s] = IF s \in Elements(PrintedSensors)
                            THEN <<>> ELSE m_datapoints[s]
      /\ delivered'[s] = delivered[s] \o DecodedFor(s)
  BY DEF ClearPrinted
<1>3. CASE s \in Elements(PrintedSensors)
  <2>1. /\ delivered'[s] = delivered[s] \o m_datapoints[s]
        /\ m_datapoints'[s] = <<>>
    BY <1>2, <1>3, DecodedForIs
  <2>2. Series(s)' = Series(s)
    BY <1>1, <2>1 DEF Series
  <2>3. QED
    BY <2>1, <2>2 DEF SeriesOK
<1>4. CASE s \notin Elements(PrintedSensors)
  <2>1. delivered'[s] = delivered[s] /\ m_datapoints'[s] = m_datapoints[s]
    BY <1>1, <1>2, <1>4, DecodedForIs
  <2>2. Series(s)' = Series(s)
    BY <2>1 DEF Series
  <2>3. QED
    BY <2>1, <2>2 DEF SeriesOK
<1>5. QED
  BY <1>3, <1>4

----------------------------------------------------------------------------
\* Before the first process nothing is buffered and nothing was delivered.
LEMMA SeriesInit == Init => SeriesInv
<1> SUFFICES ASSUME Init
             PROVE  SeriesInv
  OBVIOUS
<1>1. Readable(<<>>)
  BY DEF Readable
<1>2. ASSUME NEW s \in Sensor
      PROVE  SeriesOK(s) /\ delivered[s] = <<>>
  <2>1. delivered[s] = <<>> /\ m_datapoints[s] = <<>> /\ m_firstDatapoint[s] = TRUE
    BY DEF Init
  <2>2. Series(s) = <<>>
    BY <2>1 DEF Series
  <2>3. QED
    BY <1>1, <2>1, <2>2 DEF SeriesOK
<1>3. QED
  BY <1>1, <1>2 DEF SeriesInv, NoSilentGap

\* The part of SeriesInv about what was delivered follows from the other one.
LEMMA SeriesSuffices ==
  ASSUME Inv, SeriesInv, UNCHANGED <<debug, delivered>>,
         pc' # "failed" => pc # "failed",
         \A s \in Sensor : SeriesOK(s) /\ ~debug /\ pc' # "failed" => SeriesOK(s)'
  PROVE  SeriesInv'
BY DEF SeriesInv, NoSilentGap

\* Every step keeps all series readable: one case per action.
LEMMA SeriesNext ==
  ASSUME Inv, SeriesInv, [Next]_vars
  PROVE  SeriesInv'
<1>1. /\ DataTypeOK /\ delivered \in [Sensor -> Seq(Point)]
      /\ \A s \in Sensor : delivered[s] \in Seq(Point)
  BY DEF Inv, AppTypeOK
<1>2. CASE DataStep /\ UNCHANGED debug /\ pc # "failed"
  BY <1>1, <1>2, SeriesStep, SeriesSuffices DEF DataStep
<1>3. CASE NoManagers /\ UNCHANGED <<debug, delivered>> /\ pc # "failed"
  BY <1>1, <1>3, SeriesForgotten, SeriesSuffices
<1>4. CASE PrintAndSend
  <2>1. /\ ClearPrinted /\ pc = "print"
        /\ UNCHANGED <<debug, m_firstDatapoint, taken>>
    BY <1>4 DEF PrintAndSend
  <2>2. CASE debug
    <3>1. UNCHANGED delivered
      BY <1>4, <2>2 DEF PrintAndSend, historyVars
    <3>2. QED
      BY <2>1, <2>2, <3>1 DEF SeriesInv, NoSilentGap
  <2>3. CASE ~debug /\ pc' = "failed"
    <3>1. UNCHANGED delivered
      BY <1>4, <2>3 DEF PrintAndSend, CloseMilestone, historyVars
    <3>2. QED
      BY <2>1, <2>3, <3>1 DEF SeriesInv, NoSilentGap
  <2>4. CASE ~debug /\ pc' # "failed"
    <3>1. delivered' = [s \in Sensor |-> delivered[s] \o DecodedFor(s)]
      <4>1. CASE HasDatapoints \/ errors # {}
        BY <1>4, <2>4, <4>1 DEF PrintAndSend
      <4>2. CASE ~HasDatapoints /\ errors = {}
        <5>1. UNCHANGED delivered
          BY <1>4, <2>4, <4>2 DEF PrintAndSend
        <5>2. \A s \in Sensor : DecodedFor(s) = <<>>
          BY <4>2, DecodedForIs DEF PrintedSensors, Elements
        <5>3. \A s \in Sensor : delivered[s] \o DecodedFor(s) = delivered[s]
          BY <1>1, <5>2
        <5>4. QED
          BY <1>1, <5>1, <5>3
      <4>3. QED
        BY <4>1, <4>2
    <3>2. \A s \in Sensor : SeriesOK(s)'
      BY <1>1, <2>1, <2>4, <3>1, SeriesPrinted DEF SeriesInv
    <3>3. \A s \in Sensor : /\ delivered'[s] \in Seq(Point)
                            /\ m_datapoints'[s] \in Seq(Point)
      <4>1. Inv'
        BY StepInv
      <4>2. QED
        BY <4>1 DEF Inv, AppTypeOK, DataTypeOK
    <3>4. \A s \in Sensor : Readable(delivered'[s])
      BY <3>2, <3>3, ReadablePrefix DEF SeriesOK, Series
    <3>5. QED
      BY <2>1, <2>4, <3>2, <3>4 DEF SeriesInv, NoSilentGap
  <2>5. QED
    BY <2>2, <2>3, <2>4
<1>5. CASE UpdateManager
  <2>1. UpdateSensors(ManagerSeq[next]) /\ UNCHANGED <<delivered, debug>>
    BY <1>5 DEF UpdateManager, historyVars
  <2>2. pc # "failed"
    BY <1>5 DEF UpdateManager
  <2>3. DataStep
    BY <2>1, UpdateIsDataStep
  <2>4. QED
    BY <1>2, <2>1, <2>2, <2>3
<1>6. CASE CollectManager
  <2>1. AddSensors(ManagerSeq[next]) /\ UNCHANGED <<delivered, debug>>
    BY <1>6 DEF CollectManager, historyVars
  <2>2. pc # "failed"
    BY <1>6 DEF CollectManager
  <2>3. DataStep
    BY <2>1, AddIsDataStep
  <2>4. QED
    BY <1>2, <2>1, <2>2, <2>3
<1>7. CASE SaveTmp \/ Rename \/ LoopTest \/ Wait \/ WriteOut \/ Finish
  <2>1. /\ UNCHANGED <<m_datapoints, m_firstDatapoint, taken, delivered, debug>>
        /\ pc # "failed"
    BY <1>7 DEF SaveTmp, Rename, LoopTest, Wait, WriteOut, Finish, sensorVars,
                historyVars
  <2>2. QED
    BY <1>2, <2>1 DEF DataStep
<1>8. CASE Start
  <2>1. /\ UNCHANGED <<m_datapoints, m_firstDatapoint, taken, delivered, debug>>
        /\ pc # "failed"
    BY <1>8 DEF Start, NewManagers, SensorsAtStart, sensorVars, historyVars
  <2>2. QED
    BY <1>2, <2>1 DEF DataStep
<1>9. CASE Finalize \/ Crash
  BY <1>3, <1>9 DEF Finalize, Crash, Running, historyVars
<1>10. CASE UNCHANGED vars
  <2>1. UNCHANGED <<m_datapoints, m_firstDatapoint, taken, delivered, debug, pc>>
    BY <1>10 DEF vars, sensorVars, historyVars, appVars
  <2>2. \A s \in Sensor : SeriesOK(s) => SeriesOK(s)'
    BY <2>1 DEF SeriesOK, Series
  <2>3. QED
    BY <2>1, <2>2, SeriesSuffices
<1>11. QED
  BY <1>4, <1>5, <1>6, <1>7, <1>8, <1>9, <1>10 DEF Next, Step, Over

\* The server never receives a series with a hole it cannot see, a measurement
\* twice, out of order or under another sensor's name.
THEOREM NoGapIsSilent == Spec => []NoSilentGap
<1>1. Spec => [](Inv /\ SeriesInv)
  <2>1. Init => Inv /\ SeriesInv
    BY InitInv, SeriesInit
  <2>2. Inv /\ SeriesInv /\ [Next]_vars => (Inv /\ SeriesInv)'
    BY StepInv, SeriesNext
  <2>3. QED
    BY <2>1, <2>2, PTL DEF Spec
<1>2. Inv /\ SeriesInv => NoSilentGap
  BY DEF SeriesInv
<1>3. QED
  BY <1>1, <1>2, PTL

----------------------------------------------------------------------------
(***************************************************************************)
(* The trickles of the milestones.                                         *)
(***************************************************************************)
\* The places of a row where it falls by d at least (Again for 0, Back for 1), and
\* how many there are once the trickle of milestone m has been added.
Turns(row, d) == {j \in 1 .. Len(row) - 1 : row[j] >= row[j + 1] + d}
Due(row, d, m) ==
  Cardinality(Turns(row, d))
    + IF row # <<>> /\ row[Len(row)] >= m + d THEN 1 ELSE 0

\* A stop pays for the place where the trickles of the next process begin, a number
\* lost for the place where they go back: whatever trickle may come next is paid.
SendInv ==
  /\ Cardinality(Turns(trickles, 0)) <= crashes
  /\ Cardinality(Turns(trickles, 1)) <= forgotten
  /\ pc = "down" => Due(trickles, 0, 0) <= crashes
  /\ pc \in Running => Due(trickles, 0, i) <= crashes /\ Due(trickles, 1, i) <= forgotten
  /\ pc \in Running \cup {"down"} => Due(trickles, 1, milestone) <= forgotten
  /\ pc = "rename"
       => Due(trickles, 1, i) + (IF milestone_tmp = i THEN 0 ELSE 1) <= forgotten
  /\ pc \in {"loop", "update", "collect", "print"}
       => Due(trickles, 1, i) + (IF milestone = i THEN 0 ELSE 1) <= forgotten

LEMMA TurnsType ==
  ASSUME NEW row \in Seq(Nat), NEW d \in Nat
  PROVE  IsFiniteSet(Turns(row, d)) /\ Cardinality(Turns(row, d)) \in Nat
<1>1. Len(row) \in Nat
  OBVIOUS
<1>2. IsFiniteSet(1 .. Len(row) - 1) /\ Turns(row, d) \in SUBSET (1 .. Len(row) - 1)
  <2>1. 1 \in Int /\ Len(row) - 1 \in Int
    BY <1>1
  <2>2. IsFiniteSet(1 .. Len(row) - 1)
    BY <2>1, FS_Interval
  <2>3. Turns(row, d) \in SUBSET (1 .. Len(row) - 1)
    BY DEF Turns
  <2>4. QED
    BY <2>2, <2>3
<1>3. QED
  BY <1>2, FS_Subset, FS_CardinalityType

\* One place more at most, and fewer the later the milestone is.
LEMMA DueFacts ==
  ASSUME NEW row \in Seq(Nat), NEW d \in Nat, NEW m \in Nat
  PROVE  /\ Due(row, d, m) \in Nat /\ Cardinality(Turns(row, d)) \in Nat
         /\ Cardinality(Turns(row, d)) <= Due(row, d, m)
         /\ Due(row, d, m) <= Cardinality(Turns(row, d)) + 1
         /\ \A n \in Nat : m <= n => Due(row, d, n) <= Due(row, d, m)
<1> DEFINE c == Cardinality(Turns(row, d))
<1>1. c \in Nat
  BY TurnsType
<1>2. row # <<>> => row[Len(row)] \in Nat
  OBVIOUS
<1> HIDE DEF c
<1>3. ASSUME NEW n \in Nat
      PROVE  Due(row, d, n) = c + IF row # <<>> /\ row[Len(row)] >= n + d THEN 1 ELSE 0
  BY DEF Due, c
<1>4. Due(row, d, m) = c + IF row # <<>> /\ row[Len(row)] >= m + d THEN 1 ELSE 0
  BY <1>3
<1>5. Due(row, d, m) \in Nat /\ c <= Due(row, d, m) /\ Due(row, d, m) <= c + 1
  BY <1>1, <1>4
<1>6. ASSUME NEW n \in Nat, m <= n
      PROVE  Due(row, d, n) <= Due(row, d, m)
  <2>1. CASE row # <<>> /\ row[Len(row)] >= n + d
    <3>1. row[Len(row)] >= m + d
      BY <1>2, <1>6, <2>1
    <3>2. QED
      BY <1>1, <1>3, <1>4, <2>1, <3>1
  <2>2. CASE ~(row # <<>> /\ row[Len(row)] >= n + d)
    BY <1>1, <1>3, <1>5, <2>2
  <2>3. QED
    BY <2>1, <2>2
<1>7. QED
  BY <1>1, <1>5, <1>6 DEF c

\* What is known of a row with a trickle more.
LEMMA AppendFacts ==
  ASSUME NEW row \in Seq(Nat), NEW x \in Nat
  PROVE  /\ Append(row, x) \in Seq(Nat) /\ Append(row, x) # <<>>
         /\ Len(Append(row, x)) = Len(row) + 1 /\ Len(row) \in Nat
         /\ Append(row, x)[Len(row) + 1] = x
         /\ \A j \in 1 .. Len(row) : Append(row, x)[j] = row[j]
         /\ row = <<>> <=> Len(row) = 0
OBVIOUS

\* The trickle that was due makes the turn it was due for.
LEMMA DueAppend ==
  ASSUME NEW row \in Seq(Nat), NEW x \in Nat, NEW d \in Nat
  PROVE  /\ Cardinality(Turns(Append(row, x), d)) = Due(row, d, x)
         /\ \A m \in Nat : Due(Append(row, x), d, m)
                             = Due(row, d, x) + IF x >= m + d THEN 1 ELSE 0
<1> DEFINE more == Append(row, x)
           n == Len(row)
<1>1. /\ more # <<>> /\ Len(more) = n + 1 /\ n \in Nat /\ more[n + 1] = x
      /\ \A j \in 1 .. n : more[j] = row[j]
      /\ row = <<>> <=> n = 0
  BY AppendFacts
<1>2. IsFiniteSet(Turns(row, d)) /\ Cardinality(Turns(row, d)) \in Nat
  BY TurnsType
<1> HIDE DEF more, n
<1>3. Turns(row, d) = {j \in 1 .. n - 1 : row[j] >= row[j + 1] + d}
  BY DEF Turns, n
<1>4. Turns(more, d) = {j \in 1 .. n : more[j] >= more[j + 1] + d}
  <2>1. Len(more) - 1 = n
    BY <1>1
  <2>2. QED
    BY <2>1 DEF Turns
<1>5. \A j \in 1 .. n - 1 : more[j] = row[j] /\ more[j + 1] = row[j + 1]
  BY <1>1
<1>6. Cardinality(Turns(more, d)) = Due(row, d, x)
  <2>1. Due(row, d, x) = Cardinality(Turns(row, d))
                           + IF n # 0 /\ row[n] >= x + d THEN 1 ELSE 0
    BY <1>1 DEF Due, n
  <2>2. CASE n # 0 /\ row[n] >= x + d
    <3>1. n \in Turns(more, d) /\ n \notin Turns(row, d)
      BY <1>1, <1>3, <1>4, <2>2
    <3>2. Turns(more, d) = Turns(row, d) \cup {n}
      <4>1. \A j : j \in 1 .. n <=> j \in 1 .. n - 1 \/ j = n
        BY <1>1, <2>2
      <4>2. \A j \in 1 .. n - 1 : j \in Turns(more, d) <=> j \in Turns(row, d)
        BY <1>1, <1>3, <1>4, <1>5
      <4>3. \A j : j \in Turns(row, d) => j \in 1 .. n - 1
        BY <1>3
      <4>4. \A j : j \in Turns(more, d) => j \in 1 .. n
        BY <1>4
      <4>5. QED
        BY <3>1, <4>1, <4>2, <4>3, <4>4
    <3>3. Cardinality(Turns(more, d)) = Cardinality(Turns(row, d)) + 1
      BY <1>2, <3>1, <3>2, FS_AddElement
    <3>4. QED
      BY <2>1, <2>2, <3>3
  <2>3. CASE ~(n # 0 /\ row[n] >= x + d)
    <3>1. n \notin Turns(more, d)
      BY <1>1, <1>4, <2>3
    <3>2. Turns(more, d) = Turns(row, d)
      <4>1. \A j : j \in 1 .. n => j \in 1 .. n - 1 \/ j = n
        BY <1>1
      <4>2. \A j \in 1 .. n - 1 : j \in Turns(more, d) <=> j \in Turns(row, d)
        BY <1>1, <1>3, <1>4, <1>5
      <4>3. \A j : j \in Turns(row, d) => j \in 1 .. n - 1
        BY <1>3
      <4>4. \A j : j \in Turns(more, d) => j \in 1 .. n
        BY <1>4
      <4>5. QED
        BY <3>1, <4>1, <4>2, <4>3, <4>4
    <3>3. QED
      BY <1>2, <2>1, <2>3, <3>2
  <2>4. QED
    BY <2>2, <2>3
<1>7. ASSUME NEW m \in Nat
      PROVE  Due(more, d, m) = Due(row, d, x) + IF x >= m + d THEN 1 ELSE 0
  <2>1. more[Len(more)] = x
    BY <1>1
  <2>2. QED
    BY <1>1, <1>6, <2>1 DEF Due
<1>8. QED
  BY <1>6, <1>7 DEF more

\* The two properties, in the terms of the invariant.
LEMMA TricklesType ==
  ASSUME Inv
  PROVE  /\ trickles \in Seq(Nat)
         /\ Again(trickles) = Turns(trickles, 0)
         /\ Back(trickles) = Turns(trickles, 1)
<1>1. trickles \in Seq(Nat)
  <2>1. Milestone \subseteq Nat
    BY WorkFacts DEF Milestone
  <2>2. trickles \in Seq(Milestone)
    BY DEF Inv, AppTypeOK
  <2>3. /\ Len(trickles) \in Nat /\ trickles = [j \in 1 .. Len(trickles) |-> trickles[j]]
        /\ \A j \in 1 .. Len(trickles) : trickles[j] \in Milestone
    BY <2>2
  <2>4. \A j \in 1 .. Len(trickles) : trickles[j] \in Nat
    BY <2>1, <2>3
  <2>5. trickles \in [1 .. Len(trickles) -> Nat]
    BY <2>3, <2>4
  <2>6. QED
    BY <2>3, <2>5
<1>2. \A j \in 1 .. Len(trickles) - 1 : trickles[j] \in Nat /\ trickles[j + 1] \in Nat
  BY <1>1
<1>3. Again(trickles) = Turns(trickles, 0)
  BY <1>2 DEF Again, Turns
<1>4. Back(trickles) = Turns(trickles, 1)
  <2>1. \A j \in 1 .. Len(trickles) - 1 :
          trickles[j] > trickles[j + 1] <=> trickles[j] >= trickles[j + 1] + 1
    BY <1>2
  <2>2. QED
    BY <2>1 DEF Back, Turns
<1>5. QED
  BY <1>1, <1>3, <1>4

LEMMA SendInit == Init => SendInv
<1> SUFFICES ASSUME Init
             PROVE  SendInv
  OBVIOUS
<1>1. trickles = <<>> /\ pc = "down" /\ milestone = 0 /\ crashes = 0 /\ forgotten = 0
  BY DEF Init
<1>2. ASSUME NEW d \in {0, 1}
      PROVE  Cardinality(Turns(trickles, d)) = 0 /\ Due(trickles, d, 0) = 0
  <2>1. Turns(trickles, d) = {}
    BY <1>1 DEF Turns
  <2>2. Cardinality(Turns(trickles, d)) = 0
    BY <2>1, FS_EmptySet
  <2>3. QED
    BY <1>1, <2>2 DEF Due
<1>3. QED
  BY <1>1, <1>2 DEF SendInv, Running

\* Most steps send nothing and go on with the same milestone and the same files.
LEMMA SendFrame ==
  ASSUME SendInv, UNCHANGED <<trickles, crashes, forgotten, i, milestone>>,
         pc' # "down" \/ UNCHANGED pc,
         pc' \in Running => pc \in Running,
         pc' = "rename" => UNCHANGED <<pc, milestone_tmp>>,
         pc' \in {"loop", "update", "collect", "print"}
           => pc \in {"loop", "update", "collect", "print"}
  PROVE  SendInv'
BY DEF SendInv, Running

\* The numbers the invariant is about.
LEMMA SendFacts ==
  ASSUME Inv
  PROVE  /\ crashes \in Nat /\ forgotten \in Nat /\ milestone \in Nat /\ i \in Nat
         /\ \A d \in {0, 1} : \A m \in Nat :
              /\ Due(trickles, d, m) \in Nat /\ Cardinality(Turns(trickles, d)) \in Nat
              /\ Cardinality(Turns(trickles, d)) <= Due(trickles, d, m)
              /\ Due(trickles, d, m) <= Cardinality(Turns(trickles, d)) + 1
              /\ \A n \in Nat : m <= n => Due(trickles, d, n) <= Due(trickles, d, m)
<1>1. \A d \in {0, 1} : d \in Nat
  OBVIOUS
<1>2. QED
  BY <1>1, InvFacts, TricklesType, DueFacts

\* A new process begins at the saved milestone, or a number is lost.
LEMMA SendStart ==
  ASSUME Inv, SendInv, Start
  PROVE  SendInv'
<1>1. CASE pc' = "failed" /\ UNCHANGED <<i, forgotten>>
  <2>1. UNCHANGED <<trickles, crashes, forgotten, i, milestone>>
    BY <1>1 DEF Start, historyVars, fileVars
  <2>2. QED
    BY <1>1, <2>1, SendFrame DEF Running
<1>2. CASE GetMilestone /\ i' = start' /\ pc' \in {"save", "finalize"}
  <2>1. UNCHANGED <<trickles, crashes, milestone>> /\ pc = "down"
    BY DEF Start, historyVars, fileVars
  <2>2. Due(trickles, 0, 0) <= crashes /\ Due(trickles, 1, milestone) <= forgotten
        /\ Cardinality(Turns(trickles, 1)) <= forgotten
        /\ Cardinality(Turns(trickles, 0)) <= crashes
    BY <2>1 DEF SendInv
  <2>3. /\ start' \in Nat /\ forgotten' \in Nat /\ forgotten' >= forgotten
        /\ start' = milestone \/ (start' = 0 /\ forgotten' = forgotten + 1)
    BY <1>2, SendFacts DEF GetMilestone, Forget
  <2>4. Due(trickles, 0, start') <= crashes
    <3>1. Due(trickles, 0, start') <= Due(trickles, 0, 0)
      BY <2>3, SendFacts
    <3>2. QED
      BY <2>2, <2>3, <3>1, SendFacts
  <2>5. Due(trickles, 1, start') <= forgotten'
    <3>1. Due(trickles, 1, start') <= Cardinality(Turns(trickles, 1)) + 1
          /\ Due(trickles, 1, start') \in Nat /\ Cardinality(Turns(trickles, 1)) \in Nat
      BY <2>3, SendFacts
    <3>2. CASE start' = milestone
      BY <2>2, <2>3, <3>1, <3>2, SendFacts
    <3>3. CASE forgotten' = forgotten + 1
      BY <2>2, <3>1, <3>3, SendFacts
    <3>4. QED
      BY <2>3, <3>2, <3>3
  <2>6. Due(trickles, 1, milestone) <= forgotten' /\ Cardinality(Turns(trickles, 1)) <= forgotten'
    BY <2>2, <2>3, SendFacts
  <2>7. QED
    BY <1>2, <2>1, <2>2, <2>4, <2>5, <2>6 DEF SendInv
<1>3. QED
  BY <1>1, <1>2 DEF Start

\* The number of the milestone in progress is written, or lost.
LEMMA SendSave ==
  ASSUME Inv, SendInv, SaveTmp
  PROVE  SendInv'
<1>1. /\ UNCHANGED <<trickles, crashes, i, milestone>> /\ pc = "save"
      /\ pc' \in {"rename", "failed"}
  BY DEF SaveTmp, historyVars
<1>2. pc \in Running
  BY <1>1 DEF Running, PC
<1>3. /\ Due(trickles, 1, i) <= forgotten /\ Due(trickles, 1, milestone) <= forgotten
      /\ Due(trickles, 0, i) <= crashes
      /\ Cardinality(Turns(trickles, 0)) <= crashes
      /\ Cardinality(Turns(trickles, 1)) <= forgotten
  BY <1>2 DEF SendInv
<1>4. CASE pc' = "failed" /\ UNCHANGED forgotten
  BY <1>1, <1>4, SendFrame DEF Running
<1>5. CASE pc' = "rename" /\ milestone_tmp' = i /\ UNCHANGED forgotten
  <2>1. Due(trickles, 1, i) + 0 <= forgotten
    BY <1>3, SendFacts
  <2>2. QED
    BY <1>1, <1>3, <1>5, <2>1 DEF SendInv
<1>6. CASE pc' = "rename" /\ Forget(i)
  <2>1. forgotten' = forgotten + 1
    BY <1>6 DEF Forget
  <2>2. /\ Due(trickles, 1, i) <= forgotten' /\ Due(trickles, 1, milestone) <= forgotten'
        /\ Due(trickles, 1, i) + 1 <= forgotten' /\ Due(trickles, 1, i) + 0 <= forgotten'
        /\ Cardinality(Turns(trickles, 1)) <= forgotten'
    BY <1>3, <2>1, SendFacts
  <2>3. QED
    BY <1>1, <1>3, <1>6, <2>2 DEF SendInv
<1>7. QED
  BY <1>4, <1>5, <1>6 DEF SaveTmp

LEMMA SendRename ==
  ASSUME Inv, SendInv, Rename
  PROVE  SendInv'
<1>1. UNCHANGED <<trickles, crashes, forgotten, i>> /\ pc = "rename"
  BY DEF Rename, historyVars
<1>2. CASE pc' = "failed" /\ UNCHANGED milestone
  BY <1>1, <1>2, SendFrame DEF Running
<1>3. CASE pc' = "loop" /\ milestone' = milestone_tmp
  <2>1. pc \in Running
    BY <1>1 DEF Running, PC
  <2>2. /\ Due(trickles, 1, i) + (IF milestone_tmp = i THEN 0 ELSE 1) <= forgotten
        /\ Due(trickles, 1, i) <= forgotten /\ Due(trickles, 0, i) <= crashes
        /\ Cardinality(Turns(trickles, 0)) <= crashes
        /\ Cardinality(Turns(trickles, 1)) <= forgotten
    BY <1>1, <2>1 DEF SendInv
  <2>3. Due(trickles, 1, milestone_tmp) <= forgotten
    <3>1. CASE milestone_tmp = i
      BY <2>2, <3>1
    <3>2. CASE milestone_tmp # i
      <4>1. Due(trickles, 1, i) + 1 <= forgotten
        BY <2>2, <3>2
      <4>2. milestone_tmp \in Nat
        BY InvFacts
      <4>3. QED
        BY <4>1, <4>2, SendFacts
    <3>3. QED
      BY <3>1, <3>2
  <2>4. QED
    BY <1>1, <1>3, <2>2, <2>3 DEF SendInv
<1>4. QED
  BY <1>2, <1>3 DEF Rename

\* The trickle that was due leaves, or none does; the milestone is over.
LEMMA SendPrint ==
  ASSUME Inv, SendInv, PrintAndSend
  PROVE  SendInv'
<1>1. UNCHANGED <<crashes, forgotten, milestone>> /\ pc = "print"
  BY DEF PrintAndSend, fileVars
<1>2. pc \in Running
  BY <1>1 DEF Running, PC
<1>3. /\ Due(trickles, 1, i) + (IF milestone = i THEN 0 ELSE 1) <= forgotten
      /\ Due(trickles, 1, i) <= forgotten /\ Due(trickles, 0, i) <= crashes
      /\ Due(trickles, 1, milestone) <= forgotten
      /\ Cardinality(Turns(trickles, 0)) <= crashes
      /\ Cardinality(Turns(trickles, 1)) <= forgotten
  BY <1>1, <1>2 DEF SendInv
<1>4. CASE pc' = "failed" /\ UNCHANGED <<i, historyVars>>
  BY <1>1, <1>4, SendFrame DEF Running, historyVars
<1>5. CASE UNCHANGED trickles /\ CloseMilestone
  <2>1. i' = i + 1 /\ pc' \in {"save", "finalize"}
    BY <1>5 DEF CloseMilestone
  <2>2. /\ Due(trickles, 0, i + 1) <= Due(trickles, 0, i)
        /\ Due(trickles, 1, i + 1) <= Due(trickles, 1, i)
        /\ i + 1 \in Nat
    BY SendFacts
  <2>3. Due(trickles, 0, i + 1) <= crashes /\ Due(trickles, 1, i + 1) <= forgotten
    BY <1>3, <2>2, SendFacts
  <2>4. QED
    BY <1>1, <1>3, <1>5, <2>1, <2>3 DEF SendInv
<1>6. CASE trickles' = Append(trickles, i) /\ CloseMilestone
  <2>1. i' = i + 1 /\ pc' \in {"save", "finalize"}
    BY <1>6 DEF CloseMilestone
  <2>2. ASSUME NEW d \in {0, 1}
        PROVE  /\ Cardinality(Turns(trickles', d)) = Due(trickles, d, i)
               /\ \A m \in Nat : Due(trickles', d, m)
                                   = Due(trickles, d, i) + IF i >= m + d THEN 1 ELSE 0
    <3>1. d \in Nat /\ i \in Nat /\ trickles \in Seq(Nat)
      BY SendFacts, TricklesType
    <3>2. QED
      BY <1>6, <3>1, DueAppend
  <2>3. /\ Due(trickles', 0, i + 1) = Due(trickles, 0, i)
        /\ Due(trickles', 1, i + 1) = Due(trickles, 1, i)
    <3>1. i \in Nat /\ i + 1 \in Nat /\ ~(i >= i + 1 + 0) /\ ~(i >= i + 1 + 1)
          /\ Due(trickles, 0, i) \in Nat /\ Due(trickles, 1, i) \in Nat
      BY SendFacts
    <3>2. /\ Due(trickles', 0, i + 1)
               = Due(trickles, 0, i) + IF i >= i + 1 + 0 THEN 1 ELSE 0
          /\ Due(trickles', 1, i + 1)
               = Due(trickles, 1, i) + IF i >= i + 1 + 1 THEN 1 ELSE 0
      BY <2>2, <3>1
    <3>3. QED
      BY <3>1, <3>2
  <2>4. Due(trickles', 1, milestone) <= forgotten
    <3>1. CASE milestone = i
      BY <1>3, <2>2, <3>1, SendFacts
    <3>2. CASE milestone # i
      <4>1. Due(trickles, 1, i) + 1 <= forgotten
        BY <1>3, <3>2
      <4>2. /\ milestone \in Nat /\ i \in Nat /\ forgotten \in Nat
            /\ Due(trickles, 1, i) \in Nat
        BY SendFacts
      <4>3. Due(trickles', 1, milestone)
              = Due(trickles, 1, i) + IF i >= milestone + 1 THEN 1 ELSE 0
        BY <2>2, <4>2
      <4>4. QED
        BY <4>1, <4>2, <4>3
    <3>3. QED
      BY <3>1, <3>2
  <2>5. /\ Cardinality(Turns(trickles', 0)) <= crashes
        /\ Cardinality(Turns(trickles', 1)) <= forgotten
    BY <1>3, <2>2
  <2>6. QED
    BY <1>1, <1>3, <2>1, <2>3, <2>4, <2>5 DEF SendInv
<1>7. QED
  BY <1>4, <1>5, <1>6 DEF PrintAndSend

\* One case per action that touches what the invariant is about.
LEMMA SendStep ==
  ASSUME Inv, SendInv, [Next]_vars
  PROVE  SendInv'
<1>1. CASE LoopTest \/ UpdateManager \/ Wait \/ CollectManager \/ Finalize \/ WriteOut
           \/ Finish
  <2>1. UNCHANGED <<trickles, crashes, forgotten, i, milestone>>
    BY <1>1 DEF LoopTest, UpdateManager, Wait, CollectManager, Finalize, WriteOut,
                Finish, historyVars, fileVars
  <2>2. /\ pc \in Running /\ pc' \notin {"down", "rename"}
        /\ pc' \in {"loop", "update", "collect", "print"}
             => pc \in {"loop", "update", "collect", "print"}
    BY <1>1 DEF LoopTest, UpdateManager, Wait, CollectManager, Finalize, WriteOut,
                Finish, Running, PC
  <2>3. QED
    BY <2>1, <2>2, SendFrame
<1>2. CASE Crash
  <2>1. /\ UNCHANGED <<trickles, milestone, i, forgotten>> /\ crashes' = crashes + 1
        /\ pc' = "down" /\ pc \in Running
    BY <1>2 DEF Crash, historyVars, fileVars
  <2>2. /\ Due(trickles, 1, milestone) <= forgotten
        /\ Cardinality(Turns(trickles, 0)) <= crashes
        /\ Cardinality(Turns(trickles, 1)) <= forgotten
    BY <2>1 DEF SendInv
  <2>3. Due(trickles, 0, 0) <= crashes + 1 /\ Cardinality(Turns(trickles, 0)) <= crashes + 1
    BY <2>2, SendFacts
  <2>4. QED
    BY <2>1, <2>2, <2>3 DEF SendInv, Running
<1>3. CASE UNCHANGED vars
  BY <1>3, SendFrame DEF vars, appVars, fileVars, historyVars
<1>4. QED
  BY <1>1, <1>2, <1>3, SendStart, SendSave, SendRename, SendPrint DEF Next, Step, Over

\* RepeatedOnlyByCrash: the trickles leave in the order of the milestones and once
\* for each, but for one place per stop of the process; they go back only where the
\* saved number was lost.
THEOREM SentInOrder == Spec => []RepeatedOnlyByCrash
<1>1. Spec => [](Inv /\ SendInv)
  <2>1. Init => Inv /\ SendInv
    BY InitInv, SendInit
  <2>2. Inv /\ SendInv /\ [Next]_vars => (Inv /\ SendInv)'
    BY StepInv, SendStep
  <2>3. QED
    BY <2>1, <2>2, PTL DEF Spec
<1>2. Inv /\ SendInv => RepeatedOnlyByCrash
  BY TricklesType DEF SendInv, RepeatedOnlyByCrash
<1>3. QED
  BY <1>1, <1>2, PTL

----------------------------------------------------------------------------
(***************************************************************************)
(* The lists of sensors.                                                   *)
(***************************************************************************)
\* A manager lists its own sensors, ...
ListInv ==
  /\ ListTypeOK
  /\ \A m \in Manager : Elements(m_sensors[m]) \subseteq Elements(SensorSeq[m])

\* ... has said so only if it is in error, ...
ErrorInv ==
  \A m \in Manager \ {BoincManager} : m_error_reported[m] => m_error[m]

\* ... and not in an earlier process; ...
FreshInv == pc = "down" => \A m \in Manager : ~m_error_reported[m]

\* ... and its sensors are not in a trickle that is made after that one: neither
\* before print_datapoints has come to it nor if it had nothing more to report.
CollectInv ==
  pc \in {"collect", "print"} =>
    \A j \in DOMAIN ManagerSeq :
      LET m == ManagerSeq[j]
      IN  m # BoincManager
            /\ (j >= next \/ (m_error_reported[m] /\ m \notin errors))
          => Elements(sensors) \cap Elements(SensorSeq[m]) = {}

\* All four.
SilentInv == ListInv /\ ErrorInv /\ FreshInv /\ CollectInv

\* Sensors that go on are sensors of the list before or of all there can be.
LEMMA ConcatType ==
  ASSUME NEW X, NEW a \in Seq(X), NEW b \in Seq(X)
  PROVE  /\ a \o b \in Seq(X)
         /\ Elements(a \o b) \subseteq Elements(a) \cup Elements(b)
<1>1. /\ a \o b \in Seq(X) /\ DOMAIN (a \o b) = 1 .. Len(a) + Len(b)
      /\ Len(a) \in Nat /\ Len(b) \in Nat
      /\ DOMAIN a = 1 .. Len(a) /\ DOMAIN b = 1 .. Len(b)
      /\ \A j \in 1 .. Len(a) + Len(b) :
           (a \o b)[j] = IF j <= Len(a) THEN a[j] ELSE b[j - Len(a)]
  OBVIOUS
<1>2. ASSUME NEW j \in 1 .. Len(a) + Len(b)
      PROVE  (a \o b)[j] \in Elements(a) \cup Elements(b)
  <2>1. CASE j <= Len(a)
    BY <1>1, <2>1 DEF Elements
  <2>2. CASE ~(j <= Len(a))
    <3>1. j - Len(a) \in DOMAIN b
      BY <1>1, <2>2
    <3>2. QED
      BY <1>1, <2>2, <3>1 DEF Elements
  <2>3. QED
    BY <2>1, <2>2
<1>3. QED
  BY <1>1, <1>2 DEF Elements

LEMMA ResultList ==
  ASSUME ListInv, NEW running
  PROVE  /\ ResultSensors(running) \in Seq(Sensor)
         /\ Elements(ResultSensors(running)) \subseteq Elements(SensorSeq[BoincManager])
<1> DEFINE known == m_sensors[BoincManager]
           all == SensorSeq[BoincManager]
           new == running \ Elements(known)
<1>1. known \in Seq(Sensor) /\ Elements(known) \subseteq Elements(all)
  BY ManagerAssumption DEF ListInv, ListTypeOK
<1>2. all \in Seq(Sensor)
  BY ManagerAssumption
<1>3. ResultSensors(running) = Keep(known, running) \o Keep(all, new)
  BY DEF ResultSensors
<1> HIDE DEF known, all, new
<1>4. /\ Keep(known, running) \in Seq(Sensor) /\ Keep(all, new) \in Seq(Sensor)
      /\ Elements(Keep(known, running)) \subseteq Elements(all)
      /\ Elements(Keep(all, new)) \subseteq Elements(all)
  BY <1>1, <1>2, KeepType
<1>5. QED
  BY <1>3, <1>4, ConcatType DEF all

\* A step that has nothing to do with the managers.
LEMMA SilentFrame ==
  ASSUME SilentInv,
         UNCHANGED <<m_sensors, m_error, m_error_reported, sensors, errors>>,
         pc' \in {"collect", "print"} => UNCHANGED <<pc, next>>,
         pc' = "down" => pc = "down"
  PROVE  SilentInv'
BY DEF SilentInv, ListInv, ListTypeOK, ErrorInv, FreshInv, CollectInv

\* Sensors::update, which print_datapoints does not interleave with.
LEMMA SilentUpdate ==
  ASSUME DataTypeOK, SilentInv, NEW k \in Manager, UpdateSensors(k),
         UNCHANGED collectVars, pc' \notin {"collect", "print", "down"}
  PROVE  SilentInv'
<1>1. CASE k # BoincManager
  <2>1. UpdateFixed(k)
    BY <1>1 DEF UpdateSensors
  <2>2. /\ UNCHANGED <<m_sensors, m_error_reported>>
        /\ \A m \in Manager : m_error[m] => m_error'[m]
    BY <2>1 DEF UpdateFixed, sensorVars, DataTypeOK
  <2>3. QED
    BY <2>2 DEF SilentInv, ListInv, ListTypeOK, ErrorInv, FreshInv, CollectInv,
                collectVars
<1>2. CASE k = BoincManager
  <2>1. UpdateBoinc
    BY <1>2 DEF UpdateSensors
  <2>2. /\ UNCHANGED m_error_reported
        /\ \A m \in Manager \ {BoincManager} : m_error'[m] = m_error[m]
    BY <2>1 DEF UpdateBoinc, MeasureResults, sensorVars, DataTypeOK
  <2>3. \/ UNCHANGED m_sensors
        \/ \E running :
             m_sensors' = [m_sensors EXCEPT ![BoincManager] = ResultSensors(running)]
    BY <2>1 DEF UpdateBoinc, MeasureResults, sensorVars
  <2>4. ListInv'
    <3>1. CASE UNCHANGED m_sensors
      BY <3>1 DEF SilentInv, ListInv, ListTypeOK, collectVars
    <3>2. ASSUME NEW running,
                 m_sensors' = [m_sensors EXCEPT ![BoincManager] = ResultSensors(running)]
          PROVE  ListInv'
      <4>1. /\ ResultSensors(running) \in Seq(Sensor)
            /\ Elements(ResultSensors(running)) \subseteq Elements(SensorSeq[BoincManager])
        BY ResultList DEF SilentInv
      <4>2. m_sensors' \in [Manager -> Seq(Sensor)]
        BY <3>2, <4>1 DEF SilentInv, ListInv, ListTypeOK
      <4>3. \A m \in Manager : Elements(m_sensors'[m]) \subseteq Elements(SensorSeq[m])
        BY <3>2, <4>1 DEF SilentInv, ListInv, ListTypeOK
      <4>4. QED
        BY <4>2, <4>3 DEF SilentInv, ListInv, ListTypeOK, collectVars
    <3>3. QED
      BY <2>3, <3>1, <3>2
  <2>5. QED
    BY <2>2, <2>4 DEF SilentInv, ErrorInv, FreshInv, CollectInv
<1>3. QED
  BY <1>1, <1>2

\* add_sensors either lists the sensors of a manager without an error or reports
\* an error, unless it has done so.
LEMMA AddIs ==
  ASSUME DataTypeOK, ErrorInv, NEW k \in Manager, AddSensors(k)
  PROVE  /\ UNCHANGED m_sensors
         /\ ErrorInv'
         /\ \/ /\ ListSensors(k)
               /\ UNCHANGED m_error_reported
               /\ k # BoincManager => ~m_error_reported[k]
            \/ ReportError(k)
<1>1. CASE k = BoincManager /\ AddBoinc
  BY <1>1 DEF AddBoinc, sensorVars, ErrorInv, DataTypeOK, ReportError
<1>2. CASE AddUpdateFirst(k)
  BY <1>2 DEF AddUpdateFirst, ErrorInv, DataTypeOK, ReportError
<1>3. CASE AddUpdateAfter(k)
  BY <1>3 DEF AddUpdateAfter, UpdateFixed, sensorVars, ErrorInv, DataTypeOK, ReportError
<1>4. QED
  BY <1>1, <1>2, <1>3 DEF AddSensors

LEMMA SilentCollect ==
  ASSUME Inv, SilentInv, CollectManager
  PROVE  SilentInv'
<1> DEFINE k == ManagerSeq[next]
<1>1. /\ next \in DOMAIN ManagerSeq /\ next' = next + 1 /\ next \in Nat
      /\ pc = "collect" /\ k \in Manager
      /\ DOMAIN ManagerSeq = 1 .. Len(ManagerSeq) /\ Len(ManagerSeq) \in Nat
      /\ \A j \in DOMAIN ManagerSeq : ManagerSeq[j] \in Manager
  BY ManagerAssumption DEF CollectManager, Inv, AppTypeOK
<1>2. /\ UNCHANGED m_sensors
      /\ ErrorInv'
      /\ \/ /\ ListSensors(k)
            /\ UNCHANGED m_error_reported
            /\ k # BoincManager => ~m_error_reported[k]
         \/ ReportError(k)
  BY <1>1, AddIs DEF CollectManager, Inv, SilentInv
<1>3. /\ sensors \in Seq(Sensor) /\ m_sensors[k] \in Seq(Sensor) /\ errors \subseteq Manager
      /\ Elements(m_sensors[k]) \subseteq Elements(SensorSeq[k])
  BY <1>1 DEF SilentInv, ListInv, ListTypeOK
<1>4. ListInv'
  <2>1. sensors' \in Seq(Sensor) /\ errors' \subseteq Manager
    BY <1>1, <1>2, <1>3, ConcatType DEF ListSensors, ReportError
  <2>2. QED
    BY <1>2, <2>1 DEF SilentInv, ListInv, ListTypeOK
<1>5. Elements(sensors') \subseteq Elements(sensors) \cup Elements(SensorSeq[k])
  BY <1>2, <1>3, ConcatType DEF ListSensors, ReportError
<1>6. ASSUME NEW j \in DOMAIN ManagerSeq, NEW m, m = ManagerSeq[j], m # BoincManager,
             j >= next' \/ (m_error_reported'[m] /\ m \notin errors')
      PROVE  Elements(sensors') \cap Elements(SensorSeq[m]) = {}
  <2>0. /\ m \in Manager
        /\ j >= next \/ (m_error_reported[m] /\ m \notin errors)
             => Elements(sensors) \cap Elements(SensorSeq[m]) = {}
    BY <1>1, <1>6 DEF SilentInv, CollectInv
  <2>1. CASE j # next
    <3>1. m # k
      BY <1>1, <1>6, <2>1, ManagerAssumption
    <3>2. Elements(SensorSeq[m]) \cap Elements(SensorSeq[k]) = {}
      BY <1>1, <2>0, <3>1, ManagerAssumption
    <3>3. m_error_reported'[m] = m_error_reported[m] /\ (m \in errors => m \in errors')
      BY <1>2, <2>0, <3>1 DEF ListSensors, ReportError, Inv, DataTypeOK
    <3>4. Elements(sensors) \cap Elements(SensorSeq[m]) = {}
      BY <1>1, <1>6, <2>0, <3>3
    <3>5. QED
      BY <1>5, <3>2, <3>4
  <2>2. CASE j = next
    <3>1. m = k /\ Elements(sensors) \cap Elements(SensorSeq[m]) = {}
      BY <1>1, <1>6, <2>0, <2>2
    <3>2. m_error_reported'[m] /\ m \notin errors'
      BY <1>1, <1>6, <2>2
    <3>3. UNCHANGED sensors
      BY <1>2, <1>6, <3>1, <3>2 DEF ReportError
    <3>4. QED
      BY <3>1, <3>3
  <2>3. QED
    BY <2>1, <2>2
<1>7. CollectInv'
  BY <1>6 DEF CollectInv
<1>8. FreshInv'
  BY DEF CollectManager, FreshInv
<1>9. QED
  BY <1>2, <1>4, <1>7, <1>8 DEF SilentInv

LEMMA SilentInit == Init => SilentInv
<1> SUFFICES ASSUME Init
             PROVE  SilentInv
  OBVIOUS
<1>1. <<>> \in Seq(Sensor) /\ Elements(<<>>) = {}
  BY DEF Elements
<1>2. m_sensors = [m \in Manager |-> <<>>] /\ sensors = <<>> /\ errors = {} /\ pc = "down"
      /\ m_error_reported = [m \in Manager |-> FALSE]
  BY DEF Init
<1>3. QED
  BY <1>1, <1>2 DEF SilentInv, ListInv, ListTypeOK, ErrorInv, FreshInv, CollectInv

LEMMA SilentStep ==
  ASSUME Inv, SilentInv, [Next]_vars
  PROVE  SilentInv'
<1>0. <<>> \in Seq(Sensor) /\ Elements(<<>>) = {}
  BY DEF Elements
<1>1. CASE Start /\ pc' # "failed"
  <2>1. /\ m_sensors' = [m \in Manager |->
                           IF m = BoincManager THEN <<>> ELSE SensorSeq[m]]
        /\ UNCHANGED <<m_error_reported, sensors, errors>>
        /\ pc' \in {"save", "finalize"} /\ pc = "down"
    BY <1>1 DEF Start, NewManagers, SensorsAtStart, collectVars
  <2>2. ListInv'
    <3>1. m_sensors' \in [Manager -> Seq(Sensor)]
      BY <1>0, <2>1, ManagerAssumption
    <3>2. \A m \in Manager : Elements(m_sensors'[m]) \subseteq Elements(SensorSeq[m])
      BY <1>0, <2>1
    <3>3. QED
      BY <2>1, <3>1, <3>2 DEF SilentInv, ListInv, ListTypeOK
  <2>3. ErrorInv' /\ FreshInv'
    BY <2>1 DEF SilentInv, ErrorInv, FreshInv
  <2>4. QED
    BY <2>1, <2>2, <2>3 DEF SilentInv, CollectInv
<1>2. CASE Finalize \/ Crash
  <2>1. /\ NoManagers /\ pc' \notin {"collect", "print"}
    BY <1>2 DEF Finalize, Crash
  <2>2. /\ m_sensors' = [m \in Manager |-> <<>>] /\ sensors' = <<>> /\ errors' = {}
        /\ m_error_reported' = [m \in Manager |-> FALSE]
    BY <2>1 DEF NoManagers
  <2>3. ListInv'
    BY <1>0, <2>2 DEF ListInv, ListTypeOK
  <2>4. ErrorInv' /\ FreshInv' /\ CollectInv'
    BY <2>1, <2>2 DEF ErrorInv, FreshInv, CollectInv
  <2>5. QED
    BY <2>3, <2>4 DEF SilentInv
<1>3. CASE LoopTest
  <2>1. UNCHANGED <<m_sensors, m_error, m_error_reported>>
    BY <1>3 DEF LoopTest, sensorVars
  <2>2. \/ sensors' = <<>> /\ errors' = {}
        \/ UNCHANGED <<sensors, errors>> /\ pc' = "update"
    BY <1>3 DEF LoopTest, collectVars
  <2>3. QED
    BY <1>0, <1>3, <2>1, <2>2 DEF LoopTest, SilentInv, ListInv, ListTypeOK, ErrorInv,
                                  FreshInv, CollectInv
<1>4. CASE UpdateManager
  <2>1. ManagerSeq[next] \in Manager
    BY <1>4, ManagerAssumption DEF UpdateManager, Inv, AppTypeOK
  <2>2. QED
    BY <1>4, <2>1, SilentUpdate DEF UpdateManager, Inv
<1>5. CASE CollectManager
  BY <1>5, SilentCollect
<1>6. CASE SaveTmp \/ Rename \/ Wait \/ PrintAndSend \/ WriteOut \/ Finish
           \/ (Start /\ pc' = "failed")
  <2>1. UNCHANGED <<m_sensors, m_error, m_error_reported, sensors, errors>>
    BY <1>6 DEF SaveTmp, Rename, Wait, PrintAndSend, WriteOut, Finish, Start, sensorVars,
                collectVars
  <2>2. pc' \notin {"collect", "print", "down"}
    BY <1>6 DEF SaveTmp, Rename, Wait, PrintAndSend, CloseMilestone, WriteOut, Finish
  <2>3. pc' # "down"
    BY <2>2
  <2>4. QED
    BY <2>1, <2>2, <2>3, SilentFrame
<1>7. CASE UNCHANGED vars
  BY <1>7, SilentFrame DEF vars, sensorVars, collectVars, appVars
<1>8. QED
  BY <1>1, <1>2, <1>3, <1>4, <1>5, <1>6, <1>7 DEF Next, Step, Over

LEMMA SilentInvariance == Spec => [](Inv /\ SilentInv)
<1>1. Init => Inv /\ SilentInv
  BY InitInv, SilentInit
<1>2. Inv /\ SilentInv /\ [Next]_vars => (Inv /\ SilentInv)'
  BY StepInv, SilentStep
<1>3. QED
  BY <1>1, <1>2, PTL DEF Spec

\* The variables of the application and of its sensors keep to their types.
THEOREM TypeCorrect == Spec => []TypeOK
<1>1. Inv /\ SilentInv => TypeOK
  BY DEF Inv, SilentInv, ListInv, TypeOK
<1>2. QED
  BY <1>1, SilentInvariance, PTL

\* A sensor that a trickle lists was collected for it.
LEMMA PrintedWasCollected ==
  ASSUME ListTypeOK
  PROVE  Elements(PrintedSensors) \subseteq Elements(sensors)
<1>1. Elements(NonEmpty) \subseteq Elements(sensors)
  BY KeepType DEF ListTypeOK, NonEmpty
<1>2. Elements(<<>>) = {}
  BY DEF Elements
<1>3. QED
  BY <1>1, <1>2 DEF PrintedSensors

\* SilentAfterError: once a manager with a fixed set of sensors has reported its
\* error, no data of its sensors leaves the process, not even what was buffered.
THEOREM ErrorSilences == Spec => SilentAfterError
<1> DEFINE Silent(m, s) ==
      pc = "print" /\ m_error_reported[m] /\ m \notin errors /\ s \in Elements(SensorSeq[m])
        => delivered'[s] = delivered[s]
<1>1. ASSUME Inv, SilentInv, Next, NEW m \in Manager \ {BoincManager}, NEW s \in Sensor,
             pc = "print", m_error_reported[m], m \notin errors, s \in Elements(SensorSeq[m])
      PROVE  delivered'[s] = delivered[s]
  <2>1. s \notin Elements(sensors)
    <3>1. PICK j \in DOMAIN ManagerSeq : ManagerSeq[j] = m
      BY ManagerAssumption DEF Elements
    <3>2. QED
      BY <1>1, <3>1 DEF SilentInv, CollectInv
  <2>2. DecodedFor(s) = <<>>
    BY <1>1, <2>1, PrintedWasCollected DEF DecodedFor, SilentInv, ListInv
  <2>3. delivered[s] \in Seq(Point) /\ delivered \in [Sensor -> Seq(Point)]
    BY <1>1 DEF Inv, AppTypeOK
  <2>4. delivered' = delivered
        \/ delivered' = [r \in Sensor |-> delivered[r] \o DecodedFor(r)]
    BY <1>1 DEF Next, Step, Over, vars, historyVars, Start, SaveTmp, Rename, LoopTest,
                UpdateManager, Wait, CollectManager, PrintAndSend, Finalize, WriteOut,
                Finish, Crash
  <2>5. delivered[s] \o <<>> = delivered[s]
    BY <2>3
  <2>6. QED
    BY <2>2, <2>4, <2>5
<1>2. Inv /\ SilentInv /\ [Next]_vars
        => [\A m \in Manager \ {BoincManager}, s \in Sensor : Silent(m, s)]_vars
  BY <1>1
<1>3. QED
  BY <1>2, SilentInvariance, PTL DEF Spec, SilentAfterError
============================================================================

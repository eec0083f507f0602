--------------------------- MODULE ServicesProofs ----------------------------
(* Proofs about the services, for any number of requests, workers, tenants    *)
(* and numbers.                                                               *)
EXTENDS Services, FiniteSetTheorems, SequenceTheorems, WellFoundedInduction, TLAPS

\* A step of the platform is a step of the service under study, which stays the
\* same one.
LEMMA Frame ==
  [Next]_vars =>
    /\ UNCHANGED service
    /\ service = "watermark" => [Watermark!Next]_watermarkVars
    /\ service = "kafka" => [Kafka!Next]_kafkaVars
    /\ service = "index" => [SearchIndex!Next]_indexVars
    /\ service = "documents" => [Documents!Next]_documentsVars
    /\ service = "sequence" => [Sequence!Next]_sequenceVars
    /\ service = "view" => [View!Next]_viewVars
    /\ service = "manifest" => [Manifest!Next]_manifestVars
    /\ service = "settings" => [Settings!Next]_settingsVars
    /\ service = "limit" => [Limit!LimitNext]_limitVars
    /\ service = "rate" => [Limit!RateNext]_rateVars
    /\ service = "workers" => [Workers!Next]_workersVars
    /\ service = "namespaces" => [Namespaces!Next]_namespacesVars
    /\ service = "plans" => [Catalogue!Next]_plansVars
    /\ service = "cache" => [Cached!Next]_cacheVars
    /\ service = "external" => [External!Next]_externalVars
    /\ service = "accounts" => [Account!Next]_accountsVars
    /\ service = "daemons" => [Daemons!Next]_daemonsVars
<1>1. Next => UNCHANGED service
  BY DEF Next, OthersRest
<1>2. CASE Next
  BY <1>1, <1>2 DEF Next
<1>3. CASE UNCHANGED vars
  BY <1>3 DEF vars
<1> QED BY <1>2, <1>3

-----------------------------------------------------------------------------
(* Least and greatest numbers                                                *)

\* A set of numbers has a least one.
LEMMA Least ==
  ASSUME NEW T \in SUBSET Nat, T # {}
  PROVE  \E x \in T : \A y \in T : x <= y
<1> DEFINE R == {ss \in Nat \X Nat : ss[1] < ss[2]}
<1>1. IsWellFoundedOn(R, Nat)
  BY NatLessThanWellFounded DEF OpToRel
<1> HIDE DEF R
<1>2. PICK x \in T : \A y \in T : ~ (<<y, x>> \in R)
  BY <1>1, WFMin
<1>3. ASSUME NEW y \in T PROVE x <= y
  <2>1. <<y, x>> \notin R
    BY <1>2
  <2> QED BY <2>1 DEF R
<1> QED BY <1>3

\* A bounded one has a greatest.
LEMMA Greatest ==
  ASSUME NEW n \in Nat, NEW T \in SUBSET (0 .. n), T # {}
  PROVE  \E x \in T : \A y \in T : y <= x
<1> DEFINE U == {n - x : x \in T}
<1>1. \A x \in T : n - x \in U /\ n - x \in Nat
  OBVIOUS
<1>5. U \in SUBSET Nat /\ U # {}
  <2>1. PICK x \in T : TRUE
    OBVIOUS
  <2>2. \A u \in U : u \in Nat
    BY <1>1
  <2> HIDE DEF U
  <2> QED BY <1>1, <2>1, <2>2
<1>2. PICK u \in U : \A v \in U : u <= v
  <2> HIDE DEF U
  <2> QED BY <1>5, Least
<1>3. PICK x \in T : u = n - x
  OBVIOUS
<1>4. ASSUME NEW y \in T PROVE y <= x
  <2>1. u <= n - y
    BY <1>1, <1>2
  <2> QED BY <1>3, <2>1
<1> QED BY <1>4

-----------------------------------------------------------------------------
(* Fabric sequences                                                          *)

\* Numbers that a sequence with a step handed out since the last reset move away from
\* the start one way, and the counter is at the last of them.
SequenceInv ==
    LET up(a, b) == IF counter.inc > 0 THEN a < b ELSE b < a IN
    /\ counter \in [v : Int, inc : Int, stored : BOOLEAN] /\ handed \in Seq(Int) /\ lastReset \in 0 .. Len(handed)
    /\ counter = Sequence!NoCounter => handed = << >>
    /\ counter.inc # 0 =>
         /\ \A i, j \in lastReset + 1 .. Len(handed) : i < j => up(handed[i], handed[j])
         /\ \A i \in lastReset + 1 .. Len(handed) : handed[i] = counter.v \/ up(handed[i], counter.v)

\* A longer run of one increment goes further.
LEMMA Spread ==
  ASSUME NEW inc \in Int, NEW a \in Int, NEW b \in Int, a < b
  PROVE  (inc > 0 => inc * a < inc * b) /\ (inc < 0 => inc * b < inc * a)
OBVIOUS

\* What a call appends.
LEMMA Appended ==
  ASSUME NEW s \in Seq(Int), NEW n \in Nat, NEW g \in [1 .. n -> Int]
  PROVE  /\ s \o g \in Seq(Int) /\ Len(s \o g) = Len(s) + n
         /\ \A i \in 1 .. Len(s) : (s \o g)[i] = s[i]
         /\ \A i \in Len(s) + 1 .. Len(s) + n : (s \o g)[i] = g[i - Len(s)]
OBVIOUS

\* A call of nextval on a sequence without a step appends numbers as well.
LEMMA StuckNextval ==
  ASSUME SequenceInv, NEW start \in Int, NEW inc \in Steps, NEW count \in Nat \ {0},
         Sequence!Nextval(start, inc, count), Sequence!Advance(start, inc, count).inc = 0
  PROVE  SequenceInv'
<1> DEFINE c == Sequence!Advance(start, inc, count)
           g == [i \in 1 .. count |-> c.v - c.inc * (count - i)]
<1>1. inc \in Int /\ counter \in [v : Int, inc : Int, stored : BOOLEAN]
  BY SequenceAssumption DEF SequenceInv
<1>2. counter' = c /\ handed' = handed \o g /\ lastReset' = lastReset
  BY DEF Sequence!Nextval
<1>3. c \in [v : Int, inc : Int, stored : BOOLEAN] /\ c.inc = 0 /\ c # Sequence!NoCounter
  <2>1. start + inc * (count - 1) \in Int /\ counter.v + counter.inc * count \in Int
    BY <1>1
  <2>2. CASE counter = Sequence!NoCounter
    BY <1>1, <2>1, <2>2 DEF Sequence!Advance, Sequence!Counter, Sequence!NoCounter
  <2>3. CASE counter # Sequence!NoCounter
    <3>1. c = [counter EXCEPT !.v = counter.v + counter.inc * count] /\ c.inc = counter.inc /\ c.stored = counter.stored
      BY <1>1, <2>3 DEF Sequence!Advance
    <3>2. counter.inc * count = 0
      BY <1>1, <3>1
    <3>3. c = counter
      BY <1>1, <3>1, <3>2
    <3> QED BY <1>1, <2>3, <3>3
  <2> QED BY <2>2, <2>3
<1> HIDE DEF c
<1>4. g \in [1 .. count -> Int]
  BY <1>3
<1>5. handed' \in Seq(Int) /\ Len(handed') = Len(handed) + count
  BY <1>2, <1>4, Appended DEF SequenceInv
<1> QED BY <1>2, <1>3, <1>5 DEF SequenceInv

\* A call of nextval appends numbers that go on from the counter.
LEMMA NextvalStep ==
  ASSUME SequenceInv, NEW start \in Int, NEW inc \in Steps, NEW count \in Nat \ {0},
         Sequence!Nextval(start, inc, count), Sequence!Advance(start, inc, count).inc # 0
  PROVE  SequenceInv'
<1> DEFINE n == Len(handed)
           c == Sequence!Advance(start, inc, count)
           far(k) == c.inc * k
           g == [i \in 1 .. count |-> c.v - far(count - i)]
           up(a, b) == IF c.inc > 0 THEN a < b ELSE b < a
<1>1. inc \in Int /\ n \in Nat
  BY SequenceAssumption DEF SequenceInv
<1>2. counter' = c /\ handed' = handed \o g /\ lastReset' = lastReset
  BY DEF Sequence!Nextval
<1>3. c \in [v : Int, inc : Int, stored : BOOLEAN] /\ c.inc # 0
  <2>1. CASE counter = Sequence!NoCounter
    BY <1>1, <2>1 DEF Sequence!Advance, Sequence!Counter
  <2>2. CASE counter # Sequence!NoCounter
    <3>1. PICK w \in Int : w = counter.v + counter.inc * count
      BY <1>1 DEF SequenceInv
    <3>2. c = [counter EXCEPT !.v = w]
      BY <2>2, <3>1 DEF Sequence!Advance
    <3>3. counter \in [v : Int, inc : Int, stored : BOOLEAN]
      BY DEF SequenceInv
    <3>4. c.inc # 0
      OBVIOUS
    <3> HIDE DEF c
    <3> QED BY <3>1, <3>2, <3>3, <3>4
  <2> QED BY <2>1, <2>2
<1>4. counter # Sequence!NoCounter => c.inc = counter.inc /\ counter.v = c.v - far(count)
  BY DEF Sequence!Advance, SequenceInv
<1> HIDE DEF c
<1>5. /\ far(0) = 0 /\ \A k \in Int : far(k) \in Int
      /\ \A k, m \in Int : k < m => (c.inc > 0 => far(k) < far(m)) /\ (c.inc < 0 => far(m) < far(k))
  BY <1>3, Spread
<1>19. \A m \in Int : 0 < m => (c.inc > 0 => 0 < far(m)) /\ (c.inc < 0 => far(m) < 0)
  <2>1. ASSUME NEW m \in Int, 0 < m PROVE (c.inc > 0 => far(0) < far(m)) /\ (c.inc < 0 => far(m) < far(0))
    BY <1>5, <2>1
  <2> HIDE DEF far
  <2> QED BY <1>5, <2>1
<1> HIDE DEF far
<1>11. c.v \in Int /\ c.inc \in Int /\ (c.inc > 0 \/ c.inc < 0)
  BY <1>3
<1>6. g \in [1 .. count -> Int]
  BY <1>3, <1>5
<1>7. /\ handed' \in Seq(Int) /\ Len(handed') = n + count
      /\ \A i \in 1 .. n : handed'[i] = handed[i]
      /\ \A i \in n + 1 .. n + count : handed'[i] = c.v - far(n + count - i)
  <2>1. \A i \in n + 1 .. n + count : i - n \in 1 .. count /\ count - (i - n) = n + count - i
    BY <1>1
  <2> QED BY <1>1, <1>2, <1>6, <2>1, Appended DEF SequenceInv
<1>8. \A i \in lastReset + 1 .. n, j \in n + 1 .. n + count : up(handed'[i], handed'[j])
  <2>1. SUFFICES ASSUME NEW i \in lastReset + 1 .. n, NEW j \in n + 1 .. n + count
        PROVE up(handed'[i], handed'[j])
    OBVIOUS
  <2>2. counter # Sequence!NoCounter /\ lastReset \in Nat
    BY <1>1 DEF SequenceInv
  <2>3. handed[i] \in Int /\ counter.v \in Int
    BY <1>1, <2>2 DEF SequenceInv
  <2>4. handed[i] = counter.v \/ up(handed[i], counter.v)
    BY <1>3, <1>4, <2>2 DEF SequenceInv
  <2>5. handed'[i] = handed[i] /\ handed'[j] = c.v - far(n + count - j) /\ counter.v = c.v - far(count)
    BY <1>1, <1>4, <1>7, <2>2
  <2>6. n + count - j \in Int /\ n + count - j < count
    BY <1>1
  <2>7. far(n + count - j) \in Int /\ far(count) \in Int
        /\ (c.inc > 0 => far(n + count - j) < far(count)) /\ (c.inc < 0 => far(count) < far(n + count - j))
    BY <1>5, <2>6
  <2>8. CASE c.inc > 0
    <3>1. handed[i] = counter.v \/ handed[i] < counter.v
      BY <2>4, <2>8
    <3>2. counter.v < handed'[j] /\ handed'[j] \in Int
      BY <1>11, <2>3, <2>5, <2>7, <2>8
    <3>3. handed'[i] < handed'[j]
      BY <2>3, <2>5, <3>1, <3>2
    <3> QED BY <2>8, <3>3
  <2>9. CASE c.inc < 0
    <3>0. ~(c.inc > 0)
      BY <1>11, <2>9
    <3>1. handed[i] = counter.v \/ counter.v < handed[i]
      BY <2>4, <3>0
    <3>2. handed'[j] < counter.v /\ handed'[j] \in Int
      BY <1>11, <2>3, <2>5, <2>7, <2>9
    <3>3. handed'[j] < handed'[i]
      BY <2>3, <2>5, <3>1, <3>2
    <3> QED BY <3>0, <3>3
  <2> QED BY <1>11, <2>8, <2>9
<1>9. \A i, j \in n + 1 .. n + count : i < j => up(handed'[i], handed'[j])
  <2>1. SUFFICES ASSUME NEW i \in n + 1 .. n + count, NEW j \in n + 1 .. n + count, i < j
        PROVE up(handed'[i], handed'[j])
    OBVIOUS
  <2>2. n + count - j \in Int /\ n + count - i \in Int /\ n + count - j < n + count - i
    BY <1>1, <2>1
  <2>3. /\ far(n + count - j) \in Int /\ far(n + count - i) \in Int
        /\ (c.inc > 0 => far(n + count - j) < far(n + count - i)) /\ (c.inc < 0 => far(n + count - i) < far(n + count - j))
    BY <1>5, <2>2
  <2>4. handed'[i] = c.v - far(n + count - i) /\ handed'[j] = c.v - far(n + count - j)
    BY <1>7
  <2> QED BY <1>11, <2>3, <2>4
<1>10. \A i \in n + 1 .. n + count : handed'[i] = c.v \/ up(handed'[i], c.v)
  <2>1. SUFFICES ASSUME NEW i \in n + 1 .. n + count PROVE handed'[i] = c.v \/ up(handed'[i], c.v)
    OBVIOUS
  <2>2. n + count - i \in Int /\ (n + count - i = 0 \/ 0 < n + count - i)
    BY <1>1
  <2>3. /\ far(n + count - i) \in Int
        /\ far(n + count - i) = 0 \/ (c.inc > 0 /\ 0 < far(n + count - i)) \/ (c.inc < 0 /\ far(n + count - i) < 0)
    <3>1. CASE n + count - i = 0
      BY <1>5, <3>1
    <3>2. CASE 0 < n + count - i
      BY <1>5, <1>11, <1>19, <2>2, <3>2
    <3> QED BY <2>2, <3>1, <3>2
  <2>4. handed'[i] = c.v - far(n + count - i)
    BY <1>7
  <2> QED BY <1>11, <2>3, <2>4
<1>12. lastReset' \in 0 .. Len(handed')
  BY <1>1, <1>2, <1>7 DEF SequenceInv
<1>13. \A i, j \in lastReset + 1 .. n : i < j => up(handed'[i], handed'[j])
  <2>1. counter # Sequence!NoCounter \/ n = 0
    BY DEF SequenceInv
  <2>2. \A i \in lastReset + 1 .. n : i \in 1 .. n
    BY <1>1 DEF SequenceInv
  <2>3. n # 0 => \A i, j \in lastReset + 1 .. n : i < j =>
          IF counter.inc > 0 THEN handed[i] < handed[j] ELSE handed[j] < handed[i]
    BY <1>3, <1>4, <2>1 DEF SequenceInv
  <2>4. n # 0 => c.inc = counter.inc
    BY <1>4, <2>1
  <2> QED BY <1>1, <1>7, <2>2, <2>3, <2>4
<1>14. \A i \in lastReset + 1 .. n : up(handed'[i], c.v)
  <2>1. SUFFICES ASSUME NEW i \in lastReset + 1 .. n PROVE up(handed'[i], c.v)
    OBVIOUS
  <2>2. n + count \in n + 1 .. n + count /\ handed'[n + count] = c.v
    <3>1. n + count \in n + 1 .. n + count /\ n + count - (n + count) = 0
      BY <1>1
    <3>2. handed'[n + count] = c.v - far(n + count - (n + count))
      BY <1>7, <3>1
    <3>3. far(n + count - (n + count)) = far(0)
      BY <3>1
    <3>4. far(0) = 0
      BY <1>5
    <3>5. handed'[n + count] = c.v - 0
      BY <3>2, <3>3, <3>4
    <3> QED BY <1>11, <3>1, <3>5
  <2>3. up(handed'[i], handed'[n + count])
    BY <1>8, <2>2
  <2> QED BY <2>2, <2>3
<1>15. c # Sequence!NoCounter
  BY <1>3 DEF Sequence!NoCounter
<1>16. \A i \in lastReset + 1 .. n + count : i \in lastReset + 1 .. n \/ i \in n + 1 .. n + count
  BY <1>1 DEF SequenceInv
<1>17. \A i, j \in lastReset + 1 .. n + count : i < j => up(handed'[i], handed'[j])
  <2>1. SUFFICES ASSUME NEW i \in lastReset + 1 .. n + count, NEW j \in lastReset + 1 .. n + count, i < j
        PROVE up(handed'[i], handed'[j])
    OBVIOUS
  <2>2. ~(i \in n + 1 .. n + count /\ j \in lastReset + 1 .. n)
    BY <1>1, <2>1
  <2> QED BY <1>8, <1>9, <1>13, <1>16, <2>1, <2>2
<1>18. \A i \in lastReset + 1 .. n + count : handed'[i] = c.v \/ up(handed'[i], c.v)
  BY <1>10, <1>14, <1>16
<1> QED BY <1>2, <1>3, <1>7, <1>12, <1>15, <1>17, <1>18 DEF SequenceInv

\* The number that a document insert takes is the next one.
LEMMA NextDefaultStep == SequenceInv /\ Sequence!NextDefault => SequenceInv'
<1> SUFFICES ASSUME SequenceInv, Sequence!NextDefault PROVE SequenceInv'
  OBVIOUS
<1>0. CASE counter.inc = 0
  <2>1. counter' = [counter EXCEPT !.v = counter.v + counter.inc] /\ counter # Sequence!NoCounter
        /\ handed' = Append(handed, counter'.v) /\ lastReset' = lastReset
    BY DEF Sequence!NextDefault
  <2>2. counter' = counter /\ counter.v \in Int
    BY <1>0, <2>1 DEF SequenceInv
  <2>3. handed' \in Seq(Int) /\ Len(handed') = Len(handed) + 1
    BY <2>1, <2>2 DEF SequenceInv
  <2> QED BY <1>0, <2>1, <2>2, <2>3 DEF SequenceInv
<1> SUFFICES ASSUME counter.inc # 0 PROVE SequenceInv'
  BY <1>0
<1> DEFINE n == Len(handed)
           up(a, b) == IF counter.inc > 0 THEN a < b ELSE b < a
<1>1. n \in Nat /\ counter.v \in Int /\ counter.inc \in Int /\ counter.inc # 0 /\ lastReset \in 0 .. n
  BY DEF Sequence!NextDefault, SequenceInv
<1>2. counter' \in [v : Int, inc : Int, stored : BOOLEAN] /\ counter'.inc = counter.inc /\ counter'.v = counter.v + counter.inc
  <2>1. counter' = [counter EXCEPT !.v = counter.v + counter.inc]
    BY DEF Sequence!NextDefault
  <2>2. counter \in [v : Int, inc : Int, stored : BOOLEAN] /\ counter.v + counter.inc \in Int
    BY <1>1 DEF SequenceInv
  <2> QED BY <2>1, <2>2
<1>3. /\ handed' \in Seq(Int) /\ Len(handed') = n + 1 /\ handed'[n + 1] = counter'.v
      /\ \A i \in 1 .. n : handed'[i] = handed[i] /\ handed[i] \in Int
  BY <1>1, <1>2 DEF Sequence!NextDefault, SequenceInv
<1>4. up(counter.v, counter'.v)
  BY <1>1, <1>2
<1>5. /\ \A i, j \in lastReset + 1 .. n : i < j => up(handed[i], handed[j])
      /\ \A i \in lastReset + 1 .. n : handed[i] = counter.v \/ up(handed[i], counter.v)
  BY DEF SequenceInv
<1>6. \A i \in lastReset + 1 .. n : up(handed'[i], counter'.v)
  <2> SUFFICES ASSUME NEW i \in lastReset + 1 .. n PROVE up(handed'[i], counter'.v)
    OBVIOUS
  <2>1. i \in 1 .. n /\ handed'[i] = handed[i] /\ handed[i] \in Int
    BY <1>1, <1>3
  <2>2. handed[i] = counter.v \/ up(handed[i], counter.v)
    BY <1>5
  <2> QED BY <1>1, <1>2, <2>1, <2>2
<1>7. \A i, j \in lastReset + 1 .. n + 1 : i < j => up(handed'[i], handed'[j])
  <2> SUFFICES ASSUME NEW i \in lastReset + 1 .. n + 1, NEW j \in lastReset + 1 .. n + 1, i < j
               PROVE  up(handed'[i], handed'[j])
    OBVIOUS
  <2>1. CASE j = n + 1
    BY <1>1, <1>3, <1>6, <2>1
  <2>2. CASE j # n + 1
    <3>1. i \in lastReset + 1 .. n /\ j \in lastReset + 1 .. n /\ handed'[i] = handed[i] /\ handed'[j] = handed[j]
      BY <1>1, <1>3, <2>2
    <3> QED BY <1>5, <3>1
  <2> QED BY <2>1, <2>2
<1>8. \A i \in lastReset + 1 .. n + 1 : handed'[i] = counter'.v \/ up(handed'[i], counter'.v)
  <2> SUFFICES ASSUME NEW i \in lastReset + 1 .. n + 1 PROVE handed'[i] = counter'.v \/ up(handed'[i], counter'.v)
    OBVIOUS
  <2>1. i = n + 1 \/ i \in lastReset + 1 .. n
    BY <1>1
  <2> QED BY <1>3, <1>6, <2>1
<1>9. counter' # Sequence!NoCounter /\ lastReset' = lastReset /\ lastReset \in 0 .. n + 1
  <2>1. counter'.inc # 0
    BY <1>1, <1>2
  <2>2. counter' # Sequence!NoCounter
    BY <2>1 DEF Sequence!NoCounter
  <2>3. lastReset' = lastReset
    BY DEF Sequence!NextDefault
  <2> QED BY <1>1, <2>2, <2>3
<1> QED BY <1>1, <1>2, <1>3, <1>7, <1>8, <1>9 DEF SequenceInv

\* Applying the manifest starts a new run.
LEMMA ApplyManifestStep ==
  ASSUME SequenceInv, NEW inc \in Steps, Sequence!ApplyManifest(1, inc)
  PROVE  SequenceInv'
<1>1. inc \in Int /\ Len(handed) \in Nat
  BY SequenceAssumption DEF SequenceInv
<1>2. counter' \in [v : Int, inc : Int, stored : BOOLEAN] /\ counter'.stored
  BY <1>1 DEF Sequence!ApplyManifest, Sequence!ManifestStep, Sequence!Counter
<1>3. counter' # Sequence!NoCounter
  BY <1>2 DEF Sequence!NoCounter
<1> QED BY <1>1, <1>2, <1>3 DEF Sequence!ApplyManifest, SequenceInv

\* Numbers on one side of each other differ.
LEMMA RunIsFresh == SequenceInv => Sequence!NumbersAreFresh
<1> SUFFICES ASSUME SequenceInv, counter.inc # 0, NEW i \in lastReset + 1 .. Len(handed),
                    NEW j \in lastReset + 1 .. Len(handed), i < j
             PROVE  handed[i] # handed[j]
  BY DEF Sequence!NumbersAreFresh, SequenceInv
<1>1. handed[i] \in Int /\ handed[j] \in Int
  BY DEF SequenceInv
<1> QED BY <1>1 DEF SequenceInv

\* Fabric sequences never hand out a number twice between two resets, whatever
\* starts, increments of either sign and counts the callers ask for: unless the first
\* call fixed the increment at 0.
THEOREM SequencesAreFresh == Spec => []NumbersAreFresh
<1> DEFINE I == service = "sequence" => SequenceInv
<1>1. Init => I
  BY DEF Init, Sequence!Init, SequenceInv, Sequence!NoCounter
<1>2. I /\ [Next]_vars => I'
  <2> SUFFICES ASSUME SequenceInv, service = "sequence", [Next]_vars PROVE SequenceInv'
    BY Frame
  <2>1. [Sequence!Next]_sequenceVars
    BY Frame
  <2>2. CASE Sequence!Next
    BY <2>2, SequenceAssumption, StuckNextval, NextvalStep, NextDefaultStep, ApplyManifestStep DEF Sequence!Next
  <2>3. CASE UNCHANGED sequenceVars
    BY <2>3 DEF sequenceVars, SequenceInv
  <2> QED BY <2>1, <2>2, <2>3
<1>3. I => NumbersAreFresh
  BY RunIsFresh DEF NumbersAreFresh
<1> QED BY <1>1, <1>2, <1>3, PTL DEF Spec
-----------------------------------------------------------------------------
(* Materialized views                                                        *)

RefreshType == [pc : {"idle", "truncate", "insert"}, rows : Seq(Nat), left : Seq(Nat), clean : BOOLEAN]
ViewTyped == refresh \in [Refreshers -> RefreshType] /\ view \in Seq(Nat) /\ data \in Nat

\* An idle request holds nothing; one that has not truncated yet has all of its
\* rows to insert.
ViewShape == \A r \in Refreshers :
    /\ refresh[r].pc = "idle" => refresh[r] = View!NoRefresh
    /\ refresh[r].pc = "truncate" => refresh[r].left = refresh[r].rows

\* The view holds the first rows of a refresh, and the rest is left.
Half(r) ==
    /\ Len(view) + Len(refresh[r].left) = Len(refresh[r].rows)
    /\ \A i \in 1 .. Len(view) : view[i] = refresh[r].rows[i]
    /\ \A i \in 1 .. Len(refresh[r].left) : refresh[r].left[i] = refresh[r].rows[Len(view) + i]

\* So it is for a refresh that is alone since its TRUNCATE; one that is not will
\* say so when it ends.
CleanIsAlone == \A r \in View!Writing : refresh[r].clean => View!Writing = {r} /\ Half(r)

ViewInv == ViewTyped /\ ViewShape /\ CleanIsAlone /\ View!QuietViewIsWhole

\* The query's answer is held for the refresh that asked.
LEMMA RunQueryStep ==
  ASSUME ViewInv, NEW r \in Refreshers, NEW n \in Nat, View!RunQuery(r, n)
  PROVE  ViewInv'
<1> DEFINE rows == [i \in 1 .. n |-> data]
<1>1. rows \in Seq(Nat)
  BY DEF ViewInv, ViewTyped
<1>2. refresh' \in [Refreshers -> RefreshType] /\ refresh'[r].pc = "truncate" /\ refresh'[r].left = refresh'[r].rows
      /\ \A q \in Refreshers \ {r} : refresh'[q] = refresh[q]
  BY <1>1 DEF View!RunQuery, ViewInv, ViewTyped, ViewShape, RefreshType
<1>3. View!Writing' = View!Writing /\ UNCHANGED <<view, data, expected>>
  BY <1>2 DEF View!RunQuery, View!Writing, View!NoRefresh, ViewInv, ViewTyped
<1>4. \A q \in View!Writing : q # r
  BY DEF View!RunQuery, View!Writing, View!NoRefresh
<1>5. ViewTyped' /\ ViewShape' /\ View!QuietViewIsWhole'
  BY <1>2, <1>3 DEF ViewInv, ViewTyped, ViewShape, View!QuietViewIsWhole, RefreshType
<1>6. \A q \in View!Writing : refresh'[q] = refresh[q]
  BY <1>2, <1>4 DEF View!Writing
<1>7. CleanIsAlone'
  <2> SUFFICES ASSUME NEW q \in View!Writing, refresh[q].clean PROVE (View!Writing = {q})' /\ Half(q)'
    BY <1>3, <1>6 DEF CleanIsAlone
  <2>1. View!Writing = {q} /\ Half(q)
    BY DEF ViewInv, CleanIsAlone
  <2> QED BY <1>3, <1>6, <2>1 DEF Half
<1> QED BY <1>5, <1>7 DEF ViewInv

\* A refresh that truncates is alone if nobody inserts, and nobody is alone after.
LEMMA TruncateStep ==
  ASSUME ViewInv, NEW r \in Refreshers, View!Truncate(r)
  PROVE  ViewInv'
<1>1. /\ refresh' \in [Refreshers -> RefreshType] /\ refresh'[r].pc = "insert"
      /\ refresh'[r].left = refresh[r].left /\ refresh'[r].rows = refresh[r].rows
      /\ refresh'[r].clean => View!Writing = {}
      /\ \A q \in Refreshers \ {r} :
           /\ refresh'[q].pc = refresh[q].pc /\ refresh'[q].left = refresh[q].left /\ refresh'[q].rows = refresh[q].rows
           /\ refresh'[q].clean = (refresh[q].clean /\ refresh[q].pc # "insert")
  BY DEF View!Truncate, ViewInv, ViewTyped, ViewShape, RefreshType
<1>2. view' = << >> /\ data' = data
  BY DEF View!Truncate
<1>3. View!Writing' = View!Writing \cup {r}
  BY <1>1 DEF View!Writing
<1>4. \A q \in Refreshers \ {r} : refresh'[q].pc = "idle" => refresh'[q] = refresh[q]
  BY DEF View!Truncate, ViewInv, ViewTyped, ViewShape, View!NoRefresh, RefreshType
<1>5. \A q \in View!Writing' : refresh'[q].clean => q = r /\ View!Writing' = {r}
  BY <1>1, <1>3 DEF View!Writing
<1>6. refresh[r].left = refresh[r].rows /\ refresh[r].left \in Seq(Nat)
  BY DEF View!Truncate, ViewInv, ViewTyped, ViewShape, RefreshType
<1>7. ViewTyped' /\ ViewShape' /\ View!QuietViewIsWhole'
  BY <1>1, <1>2, <1>3, <1>4 DEF ViewInv, ViewTyped, ViewShape, View!QuietViewIsWhole, View!NoRefresh
<1>8. Half(r)'
  BY <1>1, <1>2, <1>6 DEF Half
<1> QED BY <1>5, <1>7, <1>8 DEF ViewInv, CleanIsAlone

\* A row moves from what is left into the view.
LEMMA InsertRowStep ==
  ASSUME ViewInv, NEW r \in Refreshers, View!InsertRow(r)
  PROVE  ViewInv'
<1> DEFINE left == refresh[r].left
<1>1. left \in Seq(Nat) /\ left # << >> /\ view \in Seq(Nat) /\ refresh[r].pc = "insert" /\ r \in View!Writing
  BY DEF View!InsertRow, ViewInv, ViewTyped, RefreshType, View!Writing
<1>2. /\ refresh' \in [Refreshers -> RefreshType] /\ refresh'[r].left = Tail(left)
      /\ refresh'[r].pc = "insert" /\ refresh'[r].rows = refresh[r].rows /\ refresh'[r].clean = refresh[r].clean
      /\ \A q \in Refreshers \ {r} : refresh'[q] = refresh[q]
  <2>1. Tail(left) \in Seq(Nat)
    BY <1>1
  <2> QED BY <1>1, <2>1 DEF View!InsertRow, ViewInv, ViewTyped, RefreshType
<1>3. view' = Append(view, Head(left)) /\ view' \in Seq(Nat) /\ UNCHANGED data
  BY <1>1 DEF View!InsertRow
<1>4. View!Writing' = View!Writing
  BY <1>1, <1>2 DEF View!Writing
<1>5. ASSUME refresh[r].clean
      PROVE  Half(r)'
  <2> DEFINE rows == refresh[r].rows
             v == view
  <2>1. /\ Len(v) + Len(left) = Len(rows)
        /\ \A i \in 1 .. Len(v) : v[i] = rows[i]
        /\ \A i \in 1 .. Len(left) : left[i] = rows[Len(v) + i]
    BY <1>1, <1>5 DEF ViewInv, CleanIsAlone, Half
  <2>2. Len(view') = Len(v) + 1 /\ view'[Len(v) + 1] = left[1] /\ \A i \in 1 .. Len(v) : view'[i] = v[i]
    BY <1>1, <1>3
  <2>3. Len(left) \in Nat \ {0} /\ Len(v) \in Nat
        /\ Len(Tail(left)) = Len(left) - 1 /\ \A i \in 1 .. Len(Tail(left)) : Tail(left)[i] = left[i + 1]
    BY <1>1
  <2>4. Len(view') + Len(Tail(left)) = Len(rows)
    <3>1. Len(view') + Len(Tail(left)) = (Len(v) + 1) + (Len(left) - 1)
      BY <2>2, <2>3
    <3>2. \A a, b \in Nat : (a + 1) + (b - 1) = a + b
      OBVIOUS
    <3>3. Len(v) \in Nat /\ Len(left) \in Nat
      BY <2>3
    <3> QED BY <2>1, <3>1, <3>2, <3>3, Zenon
  <2>5. ASSUME NEW i \in 1 .. Len(view') PROVE view'[i] = rows[i]
    <3>1. CASE i = Len(v) + 1
      BY <2>1, <2>2, <2>3, <3>1
    <3>2. CASE i # Len(v) + 1
      BY <2>1, <2>2, <2>3, <3>2
    <3> QED BY <3>1, <3>2
  <2>6. ASSUME NEW i \in 1 .. Len(Tail(left)) PROVE Tail(left)[i] = rows[Len(view') + i]
    <3>1. i + 1 \in 1 .. Len(left) /\ Len(v) + (i + 1) = Len(view') + i
      BY <2>2, <2>3
    <3> QED BY <2>1, <2>3, <3>1
  <2> QED BY <1>2, <2>4, <2>5, <2>6 DEF Half
<1>6. \A q \in View!Writing \ {r} : ~refresh[q].clean
  BY <1>1 DEF ViewInv, CleanIsAlone
<1>7. ViewTyped' /\ ViewShape' /\ View!QuietViewIsWhole'
  BY <1>1, <1>2, <1>3, <1>4 DEF ViewInv, ViewTyped, ViewShape, View!QuietViewIsWhole, View!NoRefresh
<1>8. CleanIsAlone'
  <2> SUFFICES ASSUME NEW q \in View!Writing', refresh'[q].clean PROVE (View!Writing = {q})' /\ Half(q)'
    BY DEF CleanIsAlone
  <2>1. q = r /\ refresh[r].clean
    BY <1>2, <1>4, <1>6 DEF View!Writing
  <2>2. View!Writing = {r}
    BY <1>1, <2>1 DEF ViewInv, CleanIsAlone
  <2> QED BY <1>4, <1>5, <2>1, <2>2
<1> QED BY <1>7, <1>8 DEF ViewInv

\* A refresh that ends was alone, and the view is its rows; or nobody knows.
LEMMA EndStep ==
  ASSUME ViewInv, NEW r \in Refreshers, View!Finish(r) \/ View!Fails(r)
  PROVE  ViewInv'
<1>0. View!NoRefresh \in RefreshType
  BY DEF View!NoRefresh, RefreshType
<1>1. /\ refresh' \in [Refreshers -> RefreshType] /\ refresh'[r] = View!NoRefresh
      /\ \A q \in Refreshers \ {r} : refresh'[q] = refresh[q]
      /\ UNCHANGED <<view, data>>
  BY <1>0 DEF View!Finish, View!Fails, ViewInv, ViewTyped
<1>2. View!Writing' = View!Writing \ {r}
  BY <1>1 DEF View!Writing, View!NoRefresh
<1>3. expected' = View!Unknown \/ (r \notin View!Writing /\ expected' = expected) \/ view = expected'
  <2>1. CASE View!Finish(r) /\ refresh[r].clean
    <3>1. /\ refresh[r].left = << >> /\ r \in View!Writing /\ expected' = refresh[r].rows
          /\ refresh[r].rows \in Seq(Nat) /\ view \in Seq(Nat)
      BY <2>1 DEF View!Finish, View!Writing, ViewInv, ViewTyped, ViewShape, RefreshType
    <3>2. Half(r)
      BY <2>1, <3>1 DEF ViewInv, CleanIsAlone
    <3>4. Len(view) = Len(refresh[r].rows) /\ \A i \in 1 .. Len(view) : view[i] = refresh[r].rows[i]
      BY <3>1, <3>2 DEF Half
    <3> QED BY <3>1, <3>4, SeqEqual
  <2>2. CASE View!Finish(r) /\ ~refresh[r].clean
    BY <2>2 DEF View!Finish
  <2>3. CASE View!Fails(r)
    BY <2>3 DEF View!Fails, View!Writing
  <2> QED BY <2>1, <2>2, <2>3
<1>4. \A q \in View!Writing' : refresh'[q].clean => View!Writing = {q}
  BY <1>1, <1>2 DEF ViewInv, CleanIsAlone, View!Writing
<1>5. ViewTyped' /\ ViewShape'
  BY <1>1 DEF ViewInv, ViewTyped, ViewShape, View!NoRefresh
<1>6. \A q \in View!Writing' : q # r /\ refresh'[q] = refresh[q] /\ q \in View!Writing
  BY <1>1, <1>2 DEF View!Writing
<1>7. CleanIsAlone'
  <2> SUFFICES ASSUME NEW q \in View!Writing', refresh'[q].clean PROVE (View!Writing = {q})' /\ Half(q)'
    BY DEF CleanIsAlone
  <2>1. View!Writing = {q} /\ Half(q) /\ View!Writing' = {q}
    BY <1>2, <1>4, <1>6 DEF ViewInv, CleanIsAlone
  <2> QED BY <1>1, <1>6, <2>1 DEF Half
<1>8. View!QuietViewIsWhole'
  BY <1>1, <1>2, <1>3 DEF ViewInv, View!QuietViewIsWhole
<1> QED BY <1>5, <1>7, <1>8 DEF ViewInv

\* While nobody refreshes a view, it holds one whole result, all of one version,
\* however many refreshes overlapped before.
THEOREM QuietViewsAreWhole == Spec => []QuietViewIsWhole
<1> DEFINE I == service = "view" => ViewInv
<1>1. Init => I
  BY DEF Init, View!Init, ViewInv, ViewTyped, ViewShape, CleanIsAlone, Half, View!QuietViewIsWhole, View!NoRefresh, View!Writing, RefreshType
<1>2. I /\ [Next]_vars => I'
  <2> SUFFICES ASSUME ViewInv, service = "view", [Next]_vars PROVE ViewInv'
    BY Frame
  <2>1. [View!Next]_viewVars
    BY Frame
  <2>2. CASE View!ChangeData
    BY <2>2 DEF View!ChangeData, ViewInv, ViewTyped, ViewShape, CleanIsAlone, Half, View!QuietViewIsWhole, View!Writing
  <2>3. CASE \E r \in Refreshers, n \in 0 .. MaxRows : View!RunQuery(r, n)
    <3>1. PICK r \in Refreshers, n \in 0 .. MaxRows : View!RunQuery(r, n)
      BY <2>3
    <3>2. n \in Nat
      OBVIOUS
    <3> QED BY <3>1, <3>2, RunQueryStep
  <2>4. CASE \E r \in Refreshers : View!Truncate(r) \/ View!InsertRow(r) \/ View!Finish(r) \/ View!Fails(r)
    BY <2>4, TruncateStep, InsertRowStep, EndStep
  <2>5. CASE UNCHANGED viewVars
    BY <2>5 DEF viewVars, ViewInv, ViewTyped, ViewShape, CleanIsAlone, Half, View!QuietViewIsWhole, View!Writing
  <2> QED BY <2>1, <2>2, <2>3, <2>4, <2>5 DEF View!Next
<1>3. I => QuietViewIsWhole
  BY DEF ViewInv, QuietViewIsWhole
<1> QED BY <1>1, <1>2, <1>3, PTL DEF Spec

-----------------------------------------------------------------------------
(* Tenants and their schemas                                                 *)

Names == Seq(STRING)
SchemaType == [name : Names, owner : TenantIds, orphan : BOOLEAN]
TxType == {Namespaces!NoTx} \cup [op : {"create"}, id : TenantIds]
          \cup [op : {"schema"}, id : TenantIds, name : Names]
          \cup [op : {"delete", "purge"}, id : TenantIds, drop : SUBSET Names]

NamespacesTyped ==
    /\ tenants \subseteq TenantIds
    /\ schemas \subseteq SchemaType
    /\ tx \in [Transactions -> TxType]

\* No tenant's id extends another's.
TenantsApart == \A t, u \in tenants : Namespaces!Belongs(t, u) => t = u

\* A request that creates a tenant holds the lock, and what it has checked still
\* holds.
CreatorLocks == \A r \in Transactions : tx[r].op = "create" =>
    /\ lock = r
    /\ \A t \in tenants : t # tx[r].id => ~Namespaces!Belongs(t, tx[r].id) /\ ~Namespaces!Belongs(tx[r].id, t)

\* A schema carries its owner's name, and its owner is there or it is an orphan.
SchemasOwned == \A s \in schemas : Namespaces!Belongs(s.name, s.owner) /\ (s.owner \in tenants \/ s.orphan)

\* So will one that is being created.
RequestsOwned == \A r \in Transactions : tx[r].op = "schema" => Namespaces!Belongs(tx[r].name, tx[r].id)

NamespacesInv == NamespacesTyped /\ TenantsApart /\ CreatorLocks /\ SchemasOwned /\ RequestsOwned

\* A name starts with another when it has its parts.
LEMMA BelongsIs ==
  \A c, a \in Names : Namespaces!Belongs(c, a) <=> Len(a) <= Len(c) /\ \A i \in 1 .. Len(a) : a[i] = c[i]
<1> SUFFICES ASSUME NEW c \in Names, NEW a \in Names
             PROVE  Namespaces!Belongs(c, a) <=> Len(a) <= Len(c) /\ \A i \in 1 .. Len(a) : a[i] = c[i]
  OBVIOUS
<1>1. SubSeq(a, 1, Len(a)) = a
  BY DEF Names
<1>2. CASE Len(a) <= Len(c)
  <2>1. /\ SubSeq(c, 1, Len(a)) \in Seq(STRING) /\ Len(SubSeq(c, 1, Len(a))) = Len(a)
        /\ \A i \in 1 .. Len(a) : SubSeq(c, 1, Len(a))[i] = c[i]
    BY <1>2 DEF Names
  <2>2. a = SubSeq(c, 1, Len(a)) <=> \A i \in 1 .. Len(a) : a[i] = c[i]
    BY <2>1, SeqEqual DEF Names
  <2> QED BY <1>1, <1>2, <2>2 DEF Namespaces!Belongs, Namespaces!IsPrefix
<1>3. CASE ~(Len(a) <= Len(c))
  BY <1>3 DEF Namespaces!Belongs, Namespaces!IsPrefix
<1> QED BY <1>2, <1>3

\* A tenant's names start with its id.
LEMMA OwnNames ==
  \A a, b \in Names : Namespaces!Belongs(a, a) /\ Namespaces!PhysicalName(a, b) \in Names
                      /\ Namespaces!Belongs(Namespaces!PhysicalName(a, b), a)
<1> SUFFICES ASSUME NEW a \in Names, NEW b \in Names
             PROVE  Namespaces!Belongs(a, a) /\ a \o b \in Names /\ Namespaces!Belongs(a \o b, a)
  BY DEF Namespaces!PhysicalName
<1>1. a \o b \in Names /\ Len(a \o b) = Len(a) + Len(b) /\ \A i \in 1 .. Len(a) : (a \o b)[i] = a[i]
  BY DEF Names
<1>2. Len(a) \in Nat /\ Len(b) \in Nat
  BY DEF Names
<1>3. Len(a) <= Len(a) /\ Len(a) <= Len(a \o b)
  BY <1>1, <1>2
<1>4. Namespaces!Belongs(a, a)
  BY <1>3, BelongsIs
<1>5. Namespaces!Belongs(a \o b, a)
  <2>1. \A i \in 1 .. Len(a) : a[i] = (a \o b)[i]
    BY <1>1
  <2> QED BY <1>1, <1>3, <2>1, BelongsIs
<1> QED BY <1>1, <1>4, <1>5

\* Of two beginnings of a name, one is a beginning of the other.
LEMMA BeginningsNest ==
  \A a, b, c \in Names : Namespaces!Belongs(c, a) /\ Namespaces!Belongs(c, b)
                           => Namespaces!Belongs(a, b) \/ Namespaces!Belongs(b, a)
<1> SUFFICES ASSUME NEW a \in Names, NEW b \in Names, NEW c \in Names,
                    Namespaces!Belongs(c, a), Namespaces!Belongs(c, b)
             PROVE  Namespaces!Belongs(a, b) \/ Namespaces!Belongs(b, a)
  OBVIOUS
<1>1. /\ \A i \in 1 .. Len(a) : a[i] = c[i]
      /\ \A i \in 1 .. Len(b) : b[i] = c[i]
  BY BelongsIs
<1>2. Len(a) \in Nat /\ Len(b) \in Nat
  BY DEF Names
<1>3. CASE Len(a) <= Len(b)
  BY <1>1, <1>2, <1>3, BelongsIs
<1>4. CASE Len(b) <= Len(a)
  BY <1>1, <1>2, <1>4, BelongsIs
<1> QED BY <1>2, <1>3, <1>4

\* A tenant or a schema that appears is apart from the others and owned.
LEMMA NamespacesHold ==
  NamespacesInv => Namespaces!NamespacesDisjoint
<1> SUFFICES ASSUME NamespacesInv, NEW t \in tenants, NEW s \in schemas, Namespaces!Belongs(s.name, t)
             PROVE  s.owner = t \/ s.orphan
  BY DEF Namespaces!NamespacesDisjoint
<1>1. CASE s.owner \in tenants
  <2>1. Namespaces!Belongs(s.name, s.owner)
    BY DEF NamespacesInv, SchemasOwned
  <2>2. s.name \in Names /\ s.owner \in Names /\ t \in Names
    BY <1>1, NamespaceAssumption DEF NamespacesInv, NamespacesTyped, SchemaType, Names
  <2>3. Namespaces!Belongs(s.owner, t) \/ Namespaces!Belongs(t, s.owner)
    BY <2>1, <2>2, BeginningsNest
  <2> QED BY <1>1, <2>3 DEF NamespacesInv, TenantsApart
<1>2. CASE s.owner \notin tenants
  BY <1>2 DEF NamespacesInv, SchemasOwned
<1> QED BY <1>1, <1>2

\* The transaction of one request is replaced.
OtherTx(r) == \A q \in Transactions \ {r} : tx'[q] = tx[q]

\* Nothing to hold for a request without a transaction.
LEMMA NoTxIsIdle == Namespaces!NoTx \in TxType /\ Namespaces!NoTx.op = "none"
BY DEF Namespaces!NoTx, TxType

\* The tenant of a transaction.
LEMMA TxHasTenant == \A x \in TxType : x.op # "none" => x.id \in TenantIds
BY DEF TxType, Namespaces!NoTx

\* An id is checked under the lock.
LEMMA CheckOverlapStep ==
  ASSUME NamespacesInv, NEW r \in Transactions, NEW id \in TenantIds, Namespaces!CheckOverlap(r, id)
  PROVE  NamespacesInv'
<1>1. tx' \in [Transactions -> TxType] /\ tx'[r].op = "create" /\ tx'[r].id = id /\ OtherTx(r)
  BY DEF Namespaces!CheckOverlap, NamespacesInv, NamespacesTyped, TxType, OtherTx
<1>2. UNCHANGED <<tenants, schemas>> /\ lock = "nobody" /\ lock' = r
  BY DEF Namespaces!CheckOverlap, Namespaces!TakeLock, Namespaces!NoHolder
<1>3. \A t \in tenants : t # id => ~Namespaces!Belongs(t, id) /\ ~Namespaces!Belongs(id, t)
  BY DEF Namespaces!CheckOverlap, Namespaces!Overlaps, Namespaces!Belongs
<1>4. \A q \in Transactions : tx[q].op # "create"
  BY <1>2, NamespaceAssumption DEF NamespacesInv, CreatorLocks
<1>5. CreatorLocks'
  BY <1>1, <1>2, <1>3, <1>4 DEF CreatorLocks, OtherTx
<1>6. RequestsOwned'
  BY <1>1 DEF NamespacesInv, RequestsOwned, OtherTx
<1> QED BY <1>1, <1>2, <1>5, <1>6 DEF NamespacesInv, NamespacesTyped, TenantsApart, SchemasOwned

\* A schema that is provided is its owner's.
LEMMA ProvideOwns ==
  ASSUME NEW name \in Names, NEW id \in TenantIds, Namespaces!Belongs(name, id),
         Namespaces!Provide(name, id), schemas \subseteq SchemaType, SchemasOwned,
         tenants \subseteq tenants'
  PROVE  schemas' \subseteq SchemaType /\ SchemasOwned'
<1> DEFINE new == [name |-> name, owner |-> id, orphan |-> id \notin tenants']
<1>1. schemas' \subseteq schemas \cup {new}
  BY DEF Namespaces!Provide
<1>2. new \in SchemaType /\ new.name = name /\ new.owner = id /\ (new.owner \in tenants' \/ new.orphan)
  BY DEF SchemaType
<1> HIDE DEF new
<1> QED BY <1>1, <1>2 DEF SchemasOwned

\* The checked id is entered, with its schema.
LEMMA CommitTenantStep ==
  ASSUME NamespacesInv, NEW r \in Transactions, Namespaces!CommitTenant(r)
  PROVE  NamespacesInv'
<1> DEFINE id == tx[r].id
<1>1. tx' \in [Transactions -> TxType] /\ tx'[r] = Namespaces!NoTx /\ OtherTx(r)
  BY NoTxIsIdle DEF Namespaces!CommitTenant, NamespacesInv, NamespacesTyped, OtherTx
<1>2. tx[r].op = "create" /\ tenants' = tenants \cup {id} /\ Namespaces!Provide(id, id)
  BY DEF Namespaces!CommitTenant
<1>3. id \in TenantIds /\ id \in Names /\ Namespaces!Belongs(id, id)
  <2>1. id \in TenantIds
    BY <1>2, TxHasTenant DEF NamespacesInv, NamespacesTyped
  <2> QED BY <2>1, NamespaceAssumption, OwnNames DEF Names
<1>4. lock = r /\ \A t \in tenants : t # id => ~Namespaces!Belongs(t, id) /\ ~Namespaces!Belongs(id, t)
  BY <1>2 DEF NamespacesInv, CreatorLocks
<1>5. \A q \in Transactions : tx'[q].op # "create"
  BY <1>1, <1>4, NoTxIsIdle DEF NamespacesInv, CreatorLocks, OtherTx
<1>6. TenantsApart'
  BY <1>2, <1>4 DEF NamespacesInv, TenantsApart
<1>7. schemas' \subseteq SchemaType /\ SchemasOwned'
  BY <1>2, <1>3, ProvideOwns DEF NamespacesInv, NamespacesTyped
<1>8. CreatorLocks' /\ RequestsOwned'
  BY <1>1, <1>5, NoTxIsIdle DEF NamespacesInv, CreatorLocks, RequestsOwned, OtherTx
<1> QED BY <1>1, <1>2, <1>3, <1>6, <1>7, <1>8 DEF NamespacesInv, NamespacesTyped

\* A transaction that is given up lets go of its own lock only.
LEMMA RollbackStep ==
  ASSUME NamespacesInv, NEW r \in Transactions, Namespaces!Rollback(r)
  PROVE  NamespacesInv'
<1>1. tx' \in [Transactions -> TxType] /\ tx'[r] = Namespaces!NoTx /\ OtherTx(r) /\ UNCHANGED <<tenants, schemas>>
  BY NoTxIsIdle DEF Namespaces!Rollback, NamespacesInv, NamespacesTyped, OtherTx
<1>2. \A q \in Transactions \ {r} : lock = q => lock' = q
  BY DEF Namespaces!Rollback, Namespaces!Release
<1> QED BY <1>1, <1>2, NoTxIsIdle DEF NamespacesInv, NamespacesTyped, TenantsApart, SchemasOwned, CreatorLocks, RequestsOwned, OtherTx

\* A request for a schema names it after its tenant.
LEMMA StartSchemaStep ==
  ASSUME NamespacesInv, NEW r \in Transactions, NEW id \in TenantIds, NEW l \in Logical, Namespaces!StartSchema(r, id, l)
  PROVE  NamespacesInv'
<1> DEFINE name == Namespaces!PhysicalName(id, l)
<1>1. name \in Names /\ Namespaces!Belongs(name, id)
  BY NamespaceAssumption, OwnNames DEF Names
<1>2. /\ tx' \in [Transactions -> TxType] /\ tx'[r].op = "schema" /\ tx'[r].id = id /\ tx'[r].name = name /\ OtherTx(r)
      /\ UNCHANGED <<tenants, schemas, lock>>
  BY <1>1 DEF Namespaces!StartSchema, NamespacesInv, NamespacesTyped, TxType, OtherTx
<1>3. RequestsOwned' /\ CreatorLocks'
  BY <1>1, <1>2 DEF NamespacesInv, RequestsOwned, CreatorLocks, OtherTx
<1> QED BY <1>2, <1>3 DEF NamespacesInv, NamespacesTyped, TenantsApart, SchemasOwned

\* The schema is made, for a tenant that may be gone.
LEMMA CreateSchemaStep ==
  ASSUME NamespacesInv, NEW r \in Transactions, Namespaces!CreateSchema(r)
  PROVE  NamespacesInv'
<1>1. tx' \in [Transactions -> TxType] /\ tx'[r] = Namespaces!NoTx /\ OtherTx(r) /\ UNCHANGED <<tenants, lock>>
  BY NoTxIsIdle DEF Namespaces!CreateSchema, NamespacesInv, NamespacesTyped, OtherTx
<1>2. tx[r].name \in Names /\ tx[r].id \in TenantIds /\ Namespaces!Belongs(tx[r].name, tx[r].id)
  BY DEF Namespaces!CreateSchema, NamespacesInv, NamespacesTyped, TxType, RequestsOwned, Namespaces!NoTx
<1>3. schemas' \subseteq SchemaType /\ SchemasOwned'
  BY <1>1, <1>2, ProvideOwns DEF Namespaces!CreateSchema, NamespacesInv, NamespacesTyped
<1> QED BY <1>1, <1>3, NoTxIsIdle DEF NamespacesInv, NamespacesTyped, TenantsApart, CreatorLocks, RequestsOwned, OtherTx

\* A deletion or a purge lists what it will drop.
LEMMA ListStep ==
  ASSUME NamespacesInv, NEW r \in Transactions, NEW id \in TenantIds,
         Namespaces!ListSchemas(r, id) \/ Namespaces!ListPurge(r, id)
  PROVE  NamespacesInv'
<1> DEFINE drop == {s.name : s \in {x \in schemas : Namespaces!Belongs(x.name, id)}}
<1>1. drop \in SUBSET Names
  BY DEF NamespacesInv, NamespacesTyped, SchemaType
<1>2. tx' = [tx EXCEPT ![r] = [op |-> "delete", id |-> id, drop |-> drop]]
      \/ tx' = [tx EXCEPT ![r] = [op |-> "purge", id |-> id, drop |-> drop]]
  BY DEF Namespaces!ListSchemas, Namespaces!ListPurge
<1> HIDE DEF drop
<1>3. /\ tx' \in [Transactions -> TxType] /\ tx'[r].op \in {"delete", "purge"} /\ OtherTx(r)
  BY <1>1, <1>2 DEF NamespacesInv, NamespacesTyped, TxType, OtherTx
<1>4. UNCHANGED <<tenants, schemas, lock>>
  BY DEF Namespaces!ListSchemas, Namespaces!ListPurge
<1> QED BY <1>3, <1>4 DEF NamespacesInv, NamespacesTyped, TenantsApart, SchemasOwned, CreatorLocks, RequestsOwned, OtherTx

\* A tenant goes with its schemas; the ones the deletion did not see are orphans.
LEMMA CommitDeleteStep ==
  ASSUME NamespacesInv, NEW r \in Transactions, Namespaces!CommitDelete(r)
  PROVE  NamespacesInv'
<1>1. tx' \in [Transactions -> TxType] /\ tx'[r] = Namespaces!NoTx /\ OtherTx(r) /\ UNCHANGED lock
  BY NoTxIsIdle DEF Namespaces!CommitDelete, NamespacesInv, NamespacesTyped, OtherTx
<1>2. tenants' = tenants \ {tx[r].id}
  BY DEF Namespaces!CommitDelete
<1>3. ASSUME NEW s \in schemas'
      PROVE  /\ s \in SchemaType /\ Namespaces!Belongs(s.name, s.owner)
             /\ s.owner \in tenants' \/ s.orphan
  <2>1. PICK x \in schemas : s = [x EXCEPT !.orphan = @ \/ x.owner = tx[r].id]
    BY <1>3 DEF Namespaces!CommitDelete
  <2>2. x \in SchemaType /\ Namespaces!Belongs(x.name, x.owner) /\ (x.owner \in tenants \/ x.orphan)
    BY DEF NamespacesInv, NamespacesTyped, SchemasOwned
  <2>3. s \in SchemaType /\ s.name = x.name /\ s.owner = x.owner /\ s.orphan = (x.orphan \/ x.owner = tx[r].id)
    BY <2>1, <2>2 DEF SchemaType
  <2> QED BY <1>2, <2>2, <2>3
<1> QED BY <1>1, <1>2, <1>3, NoTxIsIdle DEF NamespacesInv, NamespacesTyped, TenantsApart, SchemasOwned, CreatorLocks, RequestsOwned, OtherTx

\* A purge drops schemas and makes the workspace's own again.
LEMMA PurgeStep ==
  ASSUME NamespacesInv, NEW r \in Transactions, NEW kept, NEW recreated, Namespaces!PurgeSchemas(r, kept, recreated)
  PROVE  NamespacesInv'
<1> DEFINE own == [name |-> tx[r].id, owner |-> tx[r].id, orphan |-> tx[r].id \notin tenants]
<1>1. tx' \in [Transactions -> TxType] /\ tx'[r] = Namespaces!NoTx /\ OtherTx(r) /\ UNCHANGED <<tenants, lock>>
  BY NoTxIsIdle DEF Namespaces!PurgeSchemas, NamespacesInv, NamespacesTyped, OtherTx
<1>2. schemas' \subseteq schemas \cup {own}
  BY DEF Namespaces!PurgeSchemas
<1>3. tx[r].id \in TenantIds /\ tx[r].id \in Names /\ Namespaces!Belongs(tx[r].id, tx[r].id)
  <2>1. tx[r].id \in TenantIds
    BY TxHasTenant DEF Namespaces!PurgeSchemas, NamespacesInv, NamespacesTyped
  <2> QED BY <2>1, NamespaceAssumption, OwnNames DEF Names
<1>4. own \in SchemaType /\ own.name = tx[r].id /\ own.owner = tx[r].id /\ (own.owner \in tenants \/ own.orphan)
  BY <1>3 DEF SchemaType
<1> HIDE DEF own
<1>5. schemas' \subseteq SchemaType /\ SchemasOwned'
  BY <1>1, <1>2, <1>3, <1>4 DEF NamespacesInv, NamespacesTyped, SchemasOwned
<1> QED BY <1>1, <1>5, NoTxIsIdle DEF NamespacesInv, NamespacesTyped, TenantsApart, CreatorLocks, RequestsOwned, OtherTx

\* Whatever is created, deleted and purged concurrently, no schema of one tenant can
\* be taken for another's, except an orphan.
THEOREM TenantsAreDisjoint == Spec => []NamespacesDisjoint
<1> DEFINE I == service = "namespaces" => NamespacesInv
<1>1. Init => I
  BY NoTxIsIdle DEF Init, Namespaces!Init, NamespacesInv, NamespacesTyped, TenantsApart, CreatorLocks, SchemasOwned, RequestsOwned
<1>2. I /\ [Next]_vars => I'
  <2> SUFFICES ASSUME NamespacesInv, service = "namespaces", [Next]_vars PROVE NamespacesInv'
    BY Frame
  <2>1. [Namespaces!Next]_namespacesVars
    BY Frame
  <2>2. CASE UNCHANGED namespacesVars
    BY <2>2 DEF namespacesVars, NamespacesInv, NamespacesTyped, TenantsApart, CreatorLocks, SchemasOwned, RequestsOwned
  <2>3. CASE Namespaces!Next
    BY <2>3, CheckOverlapStep, CommitTenantStep, RollbackStep, StartSchemaStep, CreateSchemaStep, ListStep,
       CommitDeleteStep, PurgeStep DEF Namespaces!Next
  <2> QED BY <2>1, <2>2, <2>3
<1>3. I => NamespacesDisjoint
  BY NamespacesHold DEF NamespacesDisjoint
<1> QED BY <1>1, <1>2, <1>3, PTL DEF Spec

-----------------------------------------------------------------------------
(* The worker registry                                                       *)

NodeType == [member : BOOLEAN, should : BOOLEAN, shards : BOOLEAN]
OpType == {Workers!NoOp}
          \cup [kind : {"add", "shards"}, pc : {"citus", "row"}, host : Hosts, should : BOOLEAN]
          \cup [kind : {"remove"}, pc : {"citus", "row"}, host : Hosts]
          \cup [kind : {"sync"}, pc : {"rows", "repair"}, live : SUBSET Hosts, rows : SUBSET Hosts, read : BOOLEAN, alone : BOOLEAN]

WorkersTyped ==
    /\ node \in [Hosts -> NodeType]
    /\ row \in [Hosts -> {"none", "PENDING", "LIVE", "DRIFT"}]
    /\ op \in [Admins -> OpType]
    /\ torn \in BOOLEAN

OnHost(o) == o.kind \in {"add", "shards", "remove"}
Agrees(h) == IF node[h].member THEN row[h] \notin {"none", "PENDING"} ELSE row[h] \in {"none", "DRIFT"}

\* Where an operation has brought its host.
Underway(o) ==
    /\ o.kind = "add" => row[o.host] = "PENDING" /\ (node[o.host].member <=> o.pc = "row")
    /\ o.kind = "shards" => node[o.host].member /\ row[o.host] \notin {"none", "PENDING"}
    /\ o.kind = "remove" => /\ row[o.host] # "none" /\ (node[o.host].member <=> o.pc = "citus")
                            /\ o.pc = "citus" => row[o.host] # "PENDING"

\* Unless something was torn, operations have hosts of their own, and a sync is alone.
OpsApart == ~torn => \A a, b \in Admins : a # b /\ op[a].kind # "none" /\ op[b].kind # "none" =>
    OnHost(op[a]) /\ OnHost(op[b]) /\ op[a].host # op[b].host

\* A sync that was alone so far has read what is there, or nothing; one that was not
\* is torn.
SyncsAlone == \A a \in Admins : op[a].kind = "sync" =>
    /\ ~op[a].alone => torn
    /\ op[a].alone => /\ \A b \in Admins \ {a} : op[b].kind = "none"
                      /\ op[a].live = IF op[a].read THEN Workers!Live ELSE {}
                      /\ op[a].pc = "repair" => op[a].rows = Workers!Registered

HostsTracked == ~torn =>
    /\ \A a \in Admins : Underway(op[a])
    /\ \A h \in Hosts : (\A a \in Admins : OnHost(op[a]) => op[a].host # h) => Agrees(h)

WorkersInv == WorkersTyped /\ OpsApart /\ SyncsAlone /\ HostsTracked

\* What an operation carries.
LEMMA OpFields ==
  \A o \in OpType :
    /\ o.kind \in {"none", "add", "shards", "remove", "sync"}
    /\ o = Workers!NoOp <=> o.kind = "none"
    /\ OnHost(o) => o.host \in Hosts /\ o.pc \in {"citus", "row"}
    /\ o.kind \in {"add", "shards"} => o.should \in BOOLEAN
    /\ o.kind = "sync" => o.alone \in BOOLEAN /\ o.read \in BOOLEAN /\ o.pc \in {"rows", "repair"}
                          /\ o.live \subseteq Hosts /\ o.rows \subseteq Hosts
<1> SUFFICES ASSUME NEW o \in OpType
             PROVE  /\ o.kind \in {"none", "add", "shards", "remove", "sync"}
                    /\ o = Workers!NoOp <=> o.kind = "none"
                    /\ OnHost(o) => o.host \in Hosts /\ o.pc \in {"citus", "row"}
                    /\ o.kind \in {"add", "shards"} => o.should \in BOOLEAN
                    /\ o.kind = "sync" => o.alone \in BOOLEAN /\ o.read \in BOOLEAN /\ o.pc \in {"rows", "repair"}
                                          /\ o.live \subseteq Hosts /\ o.rows \subseteq Hosts
  OBVIOUS
<1>1. CASE o = Workers!NoOp
  BY <1>1 DEF Workers!NoOp, OnHost
<1>2. CASE o \in [kind : {"add", "shards"}, pc : {"citus", "row"}, host : Hosts, should : BOOLEAN]
  BY <1>2 DEF Workers!NoOp, OnHost
<1>3. CASE o \in [kind : {"remove"}, pc : {"citus", "row"}, host : Hosts]
  BY <1>3 DEF Workers!NoOp, OnHost
<1>4. CASE o \in [kind : {"sync"}, pc : {"rows", "repair"}, live : SUBSET Hosts, rows : SUBSET Hosts, read : BOOLEAN, alone : BOOLEAN]
  BY <1>4 DEF Workers!NoOp, OnHost
<1> QED BY <1>1, <1>2, <1>3, <1>4 DEF OpType

\* An operation that begins spoils every sync in flight.
LEMMA BeginFacts ==
  ASSUME WorkersTyped, NEW a \in Admins, NEW o \in OpType, NEW hosts, NEW misread \in BOOLEAN,
         Workers!Begin(a, o, hosts, misread)
  PROVE  /\ op' \in [Admins -> OpType] /\ op'[a] = o /\ op[a].kind = "none"
         /\ \A b \in Admins \ {a} : /\ op[b].kind # "sync" => op'[b] = op[b]
                                    /\ op[b].kind = "sync" => op'[b].kind = "sync" /\ ~op'[b].alone
         /\ torn' \in BOOLEAN
         /\ ~torn' => /\ ~torn /\ ~misread
                      /\ \A b \in Admins \ {a} : op[b].kind # "none" => op[b].kind # "sync" /\ op[b].host \notin hosts
<1>1. op'[a] = o /\ op[a].kind = "none"
  BY DEF Workers!Begin, Workers!NoOp
<1>2. ASSUME NEW b \in Admins \ {a}
      PROVE  /\ op'[b] \in OpType
             /\ op[b].kind # "sync" => op'[b] = op[b]
             /\ op[b].kind = "sync" => op'[b].kind = "sync" /\ ~op'[b].alone
  <2>1. CASE op[b].kind # "sync"
    BY <2>1 DEF Workers!Begin, WorkersTyped
  <2>2. CASE op[b].kind = "sync"
    <3>1. op[b] \in [kind : {"sync"}, pc : {"rows", "repair"}, live : SUBSET Hosts, rows : SUBSET Hosts, read : BOOLEAN, alone : BOOLEAN]
      BY <2>2 DEF WorkersTyped, OpType, Workers!NoOp
    <3>2. op'[b] = [op[b] EXCEPT !.alone = FALSE]
      BY <2>2 DEF Workers!Begin
    <3>3. op'[b] \in [kind : {"sync"}, pc : {"rows", "repair"}, live : SUBSET Hosts, rows : SUBSET Hosts, read : BOOLEAN, alone : BOOLEAN]
          /\ ~op'[b].alone
      BY <3>1, <3>2
    <3> QED BY <2>2, <3>3 DEF OpType
  <2> QED BY <2>1, <2>2
<1>3. op' \in [Admins -> OpType]
  <2>1. op' = [b \in Admins |-> op'[b]]
    BY DEF Workers!Begin
  <2>2. \A b \in Admins : op'[b] \in OpType
    BY <1>1, <1>2
  <2> QED BY <2>1, <2>2
<1>4. torn' = (torn \/ Workers!Conflicts(a, hosts) \/ misread)
  BY DEF Workers!Begin
<1>5. ASSUME ~torn', NEW b \in Admins \ {a}, op[b].kind # "none"
      PROVE  op[b].kind # "sync" /\ op[b].host \notin hosts
  <2>1. op[b] # Workers!NoOp
    BY <1>5, OpFields DEF WorkersTyped
  <2> QED BY <1>4, <1>5, <2>1 DEF Workers!Conflicts
<1> QED BY <1>1, <1>2, <1>3, <1>4, <1>5 DEF WorkersTyped, Workers!Conflicts

\* Beginning an operation on a host changes at most that host's row, and brings
\* the host where the operation says.
LEMMA BeginOnHost ==
  ASSUME WorkersInv, NEW a \in Admins, NEW h \in Hosts, NEW o \in OpType, NEW misread \in BOOLEAN,
         Workers!Begin(a, o, {h}, misread), OnHost(o), o.host = h, WorkersTyped',
         node' = node, \A g \in Hosts \ {h} : row'[g] = row[g],
         ~misread /\ Agrees(h) => Underway(op[a])'
  PROVE  WorkersInv'
<1>1. /\ op'[a] = o /\ op[a].kind = "none"
      /\ \A b \in Admins \ {a} : /\ op[b].kind # "sync" => op'[b] = op[b]
                                 /\ op[b].kind = "sync" => op'[b].kind = "sync" /\ ~op'[b].alone
      /\ ~torn' => /\ ~torn /\ ~misread
                   /\ \A b \in Admins \ {a} : op[b].kind # "none" => op[b].kind # "sync" /\ op[b].host # h
  BY BeginFacts DEF WorkersInv
<1>2. ~torn' => \A b \in Admins \ {a} : op'[b] = op[b] /\ (op[b].kind # "none" => OnHost(op[b]) /\ op[b].host # h)
  BY <1>1, OpFields DEF WorkersInv, WorkersTyped, OnHost
<1>3. OpsApart'
  BY <1>1, <1>2 DEF WorkersInv, OpsApart
<1>4. SyncsAlone'
  BY <1>1 DEF SyncsAlone, OnHost
<1>5. ASSUME ~torn'
      PROVE  /\ \A b \in Admins : Underway(op[b])'
             /\ \A g \in Hosts : (\A b \in Admins : OnHost(op[b]) => op[b].host # g)' => Agrees(g)'
  <2>1. ~torn /\ \A b \in Admins : OnHost(op[b]) => op[b].host # h
    BY <1>1, <1>2, <1>5 DEF OnHost
  <2>2. Agrees(h)
    BY <2>1 DEF WorkersInv, HostsTracked
  <2>3. ASSUME NEW b \in Admins \ {a} PROVE Underway(op[b])'
    <3>1. Underway(op[b]) /\ op'[b] = op[b]
      BY <1>2, <1>5, <2>1 DEF WorkersInv, HostsTracked
    <3>2. OnHost(op[b]) => op[b].host \in Hosts \ {h}
      BY <2>1, OpFields DEF WorkersInv, WorkersTyped
    <3> QED BY <3>1, <3>2 DEF Underway, OnHost
  <2>4. ASSUME NEW g \in Hosts, (\A b \in Admins : OnHost(op[b]) => op[b].host # g)' PROVE Agrees(g)'
    <3>1. g # h
      BY <1>1, <2>4
    <3>2. \A b \in Admins : OnHost(op[b]) => op[b].host # g
      BY <1>1, <1>2, <1>5, <2>4 DEF OnHost
    <3>3. Agrees(g)
      BY <2>1, <3>2 DEF WorkersInv, HostsTracked
    <3> QED BY <3>1, <3>3 DEF Agrees
  <2> QED BY <1>1, <1>5, <2>2, <2>3, <2>4
<1> QED BY <1>3, <1>4, <1>5 DEF WorkersInv, HostsTracked

\* An operation goes on or ends: only its own host changes.
LEMMA StepOnHost ==
  ASSUME WorkersInv, NEW a \in Admins, NEW h \in Hosts, OnHost(op[a]), op[a].host = h, WorkersTyped',
         torn => torn', \A b \in Admins \ {a} : op'[b] = op[b],
         \A g \in Hosts \ {h} : node'[g] = node[g] /\ row'[g] = row[g],
         \/ op'[a].kind = "none" /\ (~torn' => Agrees(h)')
         \/ OnHost(op'[a]) /\ op'[a].host = h /\ (~torn' => Underway(op[a])')
  PROVE  WorkersInv'
<1>1. op[a].kind # "none" /\ op[a].kind # "sync"
  BY DEF OnHost
<1>2. OpsApart'
  BY <1>1 DEF WorkersInv, OpsApart
<1>3. SyncsAlone'
  BY <1>1 DEF WorkersInv, SyncsAlone, OnHost
<1>4. ASSUME ~torn', NEW b \in Admins PROVE Underway(op[b])'
  <2>1. CASE b = a
    BY <1>4, <2>1 DEF Underway, OnHost
  <2>2. CASE b # a
    <3>1. Underway(op[b]) /\ op'[b] = op[b] /\ (OnHost(op[b]) => op[b].host # h)
      BY <1>1, <1>4, <2>2 DEF WorkersInv, HostsTracked, OpsApart, OnHost
    <3>2. OnHost(op[b]) => op[b].host \in Hosts \ {h}
      BY <3>1, OpFields DEF WorkersInv, WorkersTyped
    <3> QED BY <3>1, <3>2 DEF Underway, OnHost
  <2> QED BY <2>1, <2>2
<1>5. ASSUME ~torn', NEW g \in Hosts, (\A b \in Admins : OnHost(op[b]) => op[b].host # g)' PROVE Agrees(g)'
  <2>1. CASE g = h
    BY <1>5, <2>1
  <2>2. CASE g # h
    <3>1. \A b \in Admins : OnHost(op[b]) => op[b].host # g
      BY <1>5, <2>2
    <3>2. Agrees(g)
      BY <1>5, <3>1 DEF WorkersInv, HostsTracked
    <3> QED BY <2>2, <3>2 DEF Agrees
  <2> QED BY <2>1, <2>2
<1> QED BY <1>2, <1>3, <1>4, <1>5 DEF WorkersInv, HostsTracked

\* The row and the node of one host after a statement.
LEMMA NodeFields ==
  \A n \in NodeType, x \in BOOLEAN :
    /\ Workers!NoNode \in NodeType /\ ~Workers!NoNode.member
    /\ [n EXCEPT !.member = TRUE, !.should = x] \in NodeType /\ [n EXCEPT !.member = TRUE, !.should = x].member
    /\ [n EXCEPT !.should = x] \in NodeType /\ [n EXCEPT !.should = x].member = n.member
    /\ [n EXCEPT !.shards = x] \in NodeType /\ [n EXCEPT !.shards = x].member = n.member
BY DEF NodeType, Workers!NoNode

\* add enters its row first.
LEMMA AddRowStep ==
  ASSUME WorkersInv, NEW a \in Admins, NEW h \in Hosts, NEW s \in BOOLEAN, Workers!AddRow(a, h, s)
  PROVE  WorkersInv'
<1> DEFINE o == [kind |-> "add", pc |-> "citus", host |-> h, should |-> s]
<1>1. o \in OpType /\ OnHost(o) /\ o.host = h /\ o.kind = "add" /\ o.pc = "citus"
  BY DEF OpType, OnHost
<1>2. Workers!Begin(a, o, {h}, FALSE) /\ node' = node
  BY DEF Workers!AddRow
<1>3. row[h] = "none" /\ row'[h] = "PENDING" /\ \A g \in Hosts \ {h} : row'[g] = row[g]
  BY DEF Workers!AddRow, WorkersInv, WorkersTyped
<1>4. row' \in [Hosts -> {"none", "PENDING", "LIVE", "DRIFT"}]
  BY DEF Workers!AddRow, WorkersInv, WorkersTyped
<1> HIDE DEF o
<1>5. op' \in [Admins -> OpType] /\ op'[a] = o /\ torn' \in BOOLEAN
  BY <1>1, <1>2, BeginFacts DEF WorkersInv
<1>6. WorkersTyped'
  BY <1>2, <1>4, <1>5 DEF WorkersInv, WorkersTyped
<1>7. Agrees(h) => Underway(op[a])'
  BY <1>1, <1>2, <1>3, <1>5 DEF Agrees, Underway
<1> QED BY <1>1, <1>2, <1>3, <1>6, <1>7, BeginOnHost

\* Shards are set for a node that is there, and one without shards is removed; one
\* that could not be read loses only its row.
LEMMA StartStep ==
  ASSUME WorkersInv, NEW a \in Admins, NEW h \in Hosts, NEW s \in BOOLEAN, NEW read \in BOOLEAN,
         Workers!StartSetShards(a, h, s) \/ Workers!StartRemove(a, h, read)
  PROVE  WorkersInv'
<1> DEFINE o == IF Workers!StartSetShards(a, h, s)
                THEN [kind |-> "shards", pc |-> "citus", host |-> h, should |-> s]
                ELSE [kind |-> "remove", pc |-> IF read /\ node[h].member THEN "citus" ELSE "row", host |-> h]
<1> DEFINE misread == IF Workers!StartSetShards(a, h, s) THEN FALSE ELSE node[h].member /\ ~(read /\ node[h].member)
<1>0. misread \in BOOLEAN
  BY DEF WorkersInv, WorkersTyped, NodeType
<1>1. o \in OpType /\ OnHost(o) /\ o.host = h /\ o.kind \in {"shards", "remove"}
  BY DEF OpType, OnHost
<1>2. Workers!Begin(a, o, {h}, misread) /\ node' = node /\ row' = row
  BY DEF Workers!StartSetShards, Workers!StartRemove
<1>3. /\ row[h] # "none"
      /\ o.kind = "shards" => node[h].member
      /\ o.kind = "remove" /\ ~misread => (node[h].member <=> o.pc = "citus")
  <2>1. node[h].member \in BOOLEAN
    BY DEF WorkersInv, WorkersTyped, NodeType
  <2>2. CASE Workers!StartSetShards(a, h, s)
    BY <2>2 DEF Workers!StartSetShards
  <2>3. CASE ~Workers!StartSetShards(a, h, s)
    <3>1. row[h] # "none" /\ o.kind = "remove" /\ (o.pc = "citus" <=> read /\ node[h].member)
      BY <2>3 DEF Workers!StartRemove
    <3>2. misread <=> node[h].member /\ ~(read /\ node[h].member)
      BY <2>3
    <3> QED BY <2>1, <3>1, <3>2
  <2> QED BY <2>2, <2>3
<1> HIDE DEF o, misread
<1>4. op' \in [Admins -> OpType] /\ op'[a] = o /\ torn' \in BOOLEAN
  BY <1>0, <1>1, <1>2, BeginFacts DEF WorkersInv
<1>5. WorkersTyped'
  BY <1>2, <1>4 DEF WorkersInv, WorkersTyped
<1>6. ~misread /\ Agrees(h) => Underway(op[a])'
  BY <1>1, <1>2, <1>3, <1>4 DEF Agrees, Underway
<1> QED BY <1>0, <1>1, <1>2, <1>5, <1>6, BeginOnHost

\* The Citus call of an operation goes before its row.
LEMMA CitusStep ==
  ASSUME WorkersInv, NEW a \in Admins,
         Workers!AddNode(a) \/ Workers!SetNodeProperty(a) \/ Workers!RemoveNode(a)
  PROVE  WorkersInv'
<1>1. OnHost(op[a]) /\ op[a].pc = "citus" /\ op' = [op EXCEPT ![a].pc = "row"] /\ UNCHANGED <<row, torn>>
  BY DEF Workers!AddNode, Workers!SetNodeProperty, Workers!RemoveNode, OnHost
<1>h. PICK h \in Hosts : op[a].host = h
  BY <1>1, OpFields DEF WorkersInv, WorkersTyped
<1>2. (op[a].kind \in {"add", "shards"} => op[a].should \in BOOLEAN)
  BY <1>1, OpFields DEF WorkersInv, WorkersTyped
<1>3. /\ op' \in [Admins -> OpType]
      /\ op'[a].kind = op[a].kind /\ op'[a].host = h /\ op'[a].pc = "row"
      /\ \A b \in Admins \ {a} : op'[b] = op[b]
  BY <1>1, <1>h DEF WorkersInv, WorkersTyped, OpType, OnHost, Workers!NoOp
<1>4. /\ node' \in [Hosts -> NodeType]
      /\ \A g \in Hosts \ {h} : node'[g] = node[g]
      /\ op[a].kind \in {"add", "shards"} => node'[h].member
      /\ op[a].kind = "remove" => ~node'[h].member
  <2>1. node[h] \in NodeType
    BY DEF WorkersInv, WorkersTyped
  <2>2. CASE Workers!AddNode(a)
    <3> DEFINE n == [node[h] EXCEPT !.member = TRUE, !.should = op[a].should]
    <3>1. node' = [node EXCEPT ![h] = n] /\ op[a].kind = "add"
      BY <1>h, <2>2 DEF Workers!AddNode
    <3>2. n \in NodeType /\ n.member
      BY <1>2, <2>1, <3>1, NodeFields
    <3> HIDE DEF n
    <3> QED BY <3>1, <3>2 DEF WorkersInv, WorkersTyped
  <2>3. CASE Workers!SetNodeProperty(a)
    BY <1>2, <1>h, <2>1, <2>3, NodeFields DEF Workers!SetNodeProperty, WorkersInv, WorkersTyped
  <2>4. CASE Workers!RemoveNode(a)
    <3>1. node' = [node EXCEPT ![h] = Workers!NoNode] /\ op[a].kind = "remove"
      BY <1>h, <2>4 DEF Workers!RemoveNode
    <3>2. Workers!NoNode \in NodeType /\ ~Workers!NoNode.member
      BY <2>1, NodeFields
    <3> QED BY <3>1, <3>2 DEF WorkersInv, WorkersTyped
  <2> QED BY <2>2, <2>3, <2>4
<1>5. WorkersTyped'
  BY <1>1, <1>3, <1>4 DEF WorkersInv, WorkersTyped
<1>6. ~torn => Underway(op[a])
  BY DEF WorkersInv, HostsTracked
<1>7. ~torn' => Underway(op[a])'
  BY <1>1, <1>3, <1>4, <1>6, <1>h DEF Underway
<1>8. OnHost(op'[a])
  BY <1>1, <1>3 DEF OnHost
<1> QED BY <1>1, <1>h, <1>3, <1>4, <1>5, <1>7, <1>8, StepOnHost

\* The row follows, and the operation has ended.
LEMMA RowStep ==
  ASSUME WorkersInv, NEW a \in Admins,
         \/ Workers!AddActivates(a) \/ Workers!AddFails(a) \/ Workers!SetRowStatus(a) \/ Workers!RemoveRow(a)
         \/ Workers!OpDies(a) /\ OnHost(op[a])
  PROVE  WorkersInv'
<1>1. OnHost(op[a]) /\ Workers!End(a) /\ node' = node
  BY DEF Workers!AddActivates, Workers!AddFails, Workers!SetRowStatus, Workers!RemoveRow, Workers!OpDies, OnHost
<1>h. PICK h \in Hosts : op[a].host = h
  BY <1>1, OpFields DEF WorkersInv, WorkersTyped
<1>2. op[a].pc \in {"citus", "row"}
  BY <1>1, OpFields DEF WorkersInv, WorkersTyped
<1>3. /\ op' \in [Admins -> OpType] /\ op'[a].kind = "none"
      /\ \A b \in Admins \ {a} : op'[b] = op[b]
  BY <1>1 DEF Workers!End, Workers!NoOp, WorkersInv, WorkersTyped, OpType
<1>4. /\ row' \in [Hosts -> {"none", "PENDING", "LIVE", "DRIFT"}]
      /\ \A g \in Hosts \ {h} : row'[g] = row[g]
  BY <1>h DEF Workers!AddActivates, Workers!AddFails, Workers!SetRowStatus, Workers!RemoveRow, Workers!OpDies, WorkersInv, WorkersTyped
<1>5. torn' \in BOOLEAN /\ (torn => torn')
  BY DEF Workers!AddActivates, Workers!AddFails, Workers!SetRowStatus, Workers!RemoveRow, Workers!OpDies, WorkersInv, WorkersTyped
<1>6. WorkersTyped'
  BY <1>1, <1>3, <1>4, <1>5 DEF WorkersInv, WorkersTyped
<1>7. ASSUME ~torn' PROVE Agrees(h)'
  <2>1. Underway(op[a])
    BY <1>5, <1>7 DEF WorkersInv, HostsTracked
  <2>2. CASE Workers!AddActivates(a) \/ Workers!SetRowStatus(a)
    BY <1>1, <1>2, <1>h, <2>1, <2>2 DEF Workers!AddActivates, Workers!SetRowStatus, Underway, Agrees, WorkersInv, WorkersTyped
  <2>3. CASE Workers!AddFails(a)
    BY <1>1, <1>2, <1>h, <1>7, <2>1, <2>3 DEF Workers!AddFails, Underway, Agrees, WorkersInv, WorkersTyped
  <2>4. CASE Workers!RemoveRow(a)
    BY <1>1, <1>2, <1>h, <2>1, <2>4 DEF Workers!RemoveRow, Underway, Agrees, WorkersInv, WorkersTyped
  <2>5. CASE Workers!OpDies(a)
    BY <1>7, <2>5 DEF Workers!OpDies
  <2> QED BY <2>2, <2>3, <2>4, <2>5
<1> QED BY <1>1, <1>h, <1>3, <1>4, <1>5, <1>6, <1>7, StepOnHost

\* A sync lists the nodes; it is alone if nothing else was under way.
LEMMA StartSyncStep ==
  ASSUME WorkersInv, NEW a \in Admins, NEW read \in BOOLEAN, Workers!StartSync(a, read)
  PROVE  WorkersInv'
<1> DEFINE o == [kind |-> "sync", pc |-> "rows", live |-> IF read THEN Workers!Live ELSE {}, rows |-> {},
                  read |-> read, alone |-> ~Workers!Conflicts(a, Hosts)]
<1>1. o \in OpType /\ o.kind = "sync" /\ o.pc = "rows" /\ (o.live = IF o.read THEN Workers!Live ELSE {})
      /\ o.alone = ~Workers!Conflicts(a, Hosts)
  BY DEF OpType, Workers!Live, Workers!Conflicts
<1>2. Workers!Begin(a, o, Hosts, FALSE) /\ UNCHANGED <<node, row>>
  BY DEF Workers!StartSync
<1>3. torn' = (torn \/ ~o.alone)
  BY <1>1, <1>2 DEF Workers!Begin, WorkersInv, WorkersTyped, Workers!Conflicts
<1>4. \A b \in Admins \ {a} : o.alone => op[b].kind = "none"
  <2> SUFFICES ASSUME NEW b \in Admins \ {a}, o.alone PROVE op[b].kind = "none"
    OBVIOUS
  <2>1. op[b] = Workers!NoOp \/ (op[b].kind # "sync" /\ op[b].host \notin Hosts)
    BY <1>1 DEF Workers!Conflicts
  <2> QED BY <2>1, OpFields DEF WorkersInv, WorkersTyped, OnHost
<1> HIDE DEF o
<1>5. /\ op' \in [Admins -> OpType] /\ op'[a] = o /\ op[a].kind = "none"
      /\ \A b \in Admins \ {a} : /\ op[b].kind # "sync" => op'[b] = op[b]
                                 /\ op[b].kind = "sync" => op'[b].kind = "sync" /\ ~op'[b].alone
      /\ torn' \in BOOLEAN
  BY <1>1, <1>2, BeginFacts DEF WorkersInv
<1>6. WorkersTyped'
  BY <1>2, <1>5 DEF WorkersInv, WorkersTyped
<1>7. ~torn' => ~torn /\ op'[a].kind = "sync" /\ \A b \in Admins \ {a} : op[b].kind = "none" /\ op'[b] = op[b]
  BY <1>1, <1>3, <1>4, <1>5
<1>8. OpsApart'
  BY <1>7 DEF OpsApart
<1>9. SyncsAlone'
  <2> SUFFICES ASSUME NEW b \in Admins, op'[b].kind = "sync"
               PROVE  /\ ~op'[b].alone => torn'
                      /\ op'[b].alone => /\ \A c \in Admins \ {b} : op'[c].kind = "none"
                                         /\ (op'[b].live = IF op'[b].read THEN Workers!Live' ELSE {})
                                         /\ op'[b].pc = "repair" => op'[b].rows = Workers!Registered'
    BY DEF SyncsAlone
  <2>1. CASE b = a
    BY <1>1, <1>2, <1>3, <1>4, <1>5, <2>1 DEF Workers!Live
  <2>2. CASE b # a
    <3>1. op[b].kind = "sync" /\ ~op'[b].alone
      BY <1>5, <2>2
    <3>2. ~o.alone
      BY <1>4, <2>2, <3>1
    <3> QED BY <1>3, <3>1, <3>2
  <2> QED BY <2>1, <2>2
<1>10. HostsTracked'
  <2> SUFFICES ASSUME ~torn'
               PROVE  /\ \A b \in Admins : Underway(op[b])'
                      /\ \A h \in Hosts : Agrees(h)'
    BY DEF HostsTracked
  <2>1. \A h \in Hosts : Agrees(h)
    BY <1>5, <1>7 DEF WorkersInv, HostsTracked, OnHost
  <2>2. \A b \in Admins : ~OnHost(op'[b])
    BY <1>7 DEF OnHost
  <2> QED BY <1>2, <2>1, <2>2 DEF Agrees, Underway, OnHost
<1> QED BY <1>6, <1>8, <1>9, <1>10 DEF WorkersInv

\* Then it reads the rows.
LEMMA SyncReadsStep ==
  ASSUME WorkersInv, NEW a \in Admins, Workers!SyncReadsRows(a)
  PROVE  WorkersInv'
<1>1. op[a] \in [kind : {"sync"}, pc : {"rows", "repair"}, live : SUBSET Hosts, rows : SUBSET Hosts, read : BOOLEAN, alone : BOOLEAN]
  BY DEF Workers!SyncReadsRows, WorkersInv, WorkersTyped, OpType, Workers!NoOp
<1>2. Workers!Registered \in SUBSET Hosts
  BY DEF Workers!Registered
<1>3. /\ op' = [op EXCEPT ![a] = [op[a] EXCEPT !.pc = "repair", !.rows = Workers!Registered]]
      /\ UNCHANGED <<node, row, torn>>
  BY <1>1 DEF Workers!SyncReadsRows, WorkersInv, WorkersTyped
<1>4. /\ op'[a] \in [kind : {"sync"}, pc : {"rows", "repair"}, live : SUBSET Hosts, rows : SUBSET Hosts, read : BOOLEAN, alone : BOOLEAN]
      /\ op'[a].live = op[a].live /\ op'[a].read = op[a].read /\ op'[a].alone = op[a].alone /\ op'[a].rows = Workers!Registered
      /\ \A b \in Admins \ {a} : op'[b] = op[b]
  BY <1>1, <1>2, <1>3 DEF WorkersInv, WorkersTyped
<1>5. op[a].kind = "sync" /\ op'[a].kind = "sync"
  BY <1>1, <1>4
<1>6. WorkersTyped'
  <2>1. op'[a] \in OpType
    BY <1>4 DEF OpType
  <2> QED BY <1>3, <2>1 DEF WorkersInv, WorkersTyped
<1>7. \A b \in Admins : (op'[b].kind = "none" <=> op[b].kind = "none") /\ (OnHost(op'[b]) <=> OnHost(op[b]))
                        /\ (OnHost(op[b]) => op'[b] = op[b])
  BY <1>4, <1>5 DEF OnHost
<1>8. OpsApart'
  BY <1>3, <1>7 DEF WorkersInv, OpsApart
<1>9. SyncsAlone'
  <2> SUFFICES ASSUME NEW b \in Admins, op'[b].kind = "sync"
               PROVE  /\ ~op'[b].alone => torn'
                      /\ op'[b].alone => /\ \A c \in Admins \ {b} : op'[c].kind = "none"
                                         /\ (op'[b].live = IF op'[b].read THEN Workers!Live' ELSE {})
                                         /\ op'[b].pc = "repair" => op'[b].rows = Workers!Registered'
    BY DEF SyncsAlone
  <2>1. Workers!Live' = Workers!Live /\ Workers!Registered' = Workers!Registered
    BY <1>3 DEF Workers!Live, Workers!Registered
  <2>2. op[b].kind = "sync" /\ op'[b].alone = op[b].alone /\ op'[b].live = op[b].live /\ op'[b].read = op[b].read
        /\ (b = a => op'[b].rows = Workers!Registered) /\ (b # a => op'[b] = op[b])
    BY <1>4, <1>5
  <2>3. /\ ~op[b].alone => torn
        /\ op[b].alone => /\ \A c \in Admins \ {b} : op[c].kind = "none"
                          /\ op[b].live = IF op[b].read THEN Workers!Live ELSE {}
                          /\ op[b].pc = "repair" => op[b].rows = Workers!Registered
    BY <2>2 DEF WorkersInv, SyncsAlone
  <2> QED BY <1>3, <1>7, <2>1, <2>2, <2>3
<1>10. HostsTracked'
  <2> SUFFICES ASSUME ~torn'
               PROVE  /\ \A b \in Admins : Underway(op[b])'
                      /\ \A h \in Hosts : (\A b \in Admins : OnHost(op[b]) => op[b].host # h)' => Agrees(h)'
    BY DEF HostsTracked
  <2>1. \A b \in Admins : Underway(op[b])'
    <3> SUFFICES ASSUME NEW b \in Admins PROVE Underway(op[b])'
      OBVIOUS
    <3>1. CASE OnHost(op[b])
      <4>1. Underway(op[b]) /\ op'[b] = op[b]
        BY <1>3, <1>7, <3>1 DEF WorkersInv, HostsTracked
      <4> QED BY <1>3, <4>1 DEF Underway
    <3>2. CASE ~OnHost(op[b])
      BY <1>7, <3>2 DEF OnHost, Underway
    <3> QED BY <3>1, <3>2
  <2>2. ASSUME NEW h \in Hosts, (\A b \in Admins : OnHost(op[b]) => op[b].host # h)' PROVE Agrees(h)'
    <3>1. \A b \in Admins : OnHost(op[b]) => op[b].host # h
      BY <1>7, <2>2
    <3> QED BY <1>3, <3>1 DEF WorkersInv, HostsTracked, Agrees
  <2> QED BY <2>1, <2>2
<1> QED BY <1>6, <1>8, <1>9, <1>10 DEF WorkersInv

\* It repairs what it has read; if it was alone all along, has read the nodes and
\* skipped none, everything agrees.
LEMMA SyncRepairsStep ==
  ASSUME WorkersInv, NEW a \in Admins, NEW skipped \in SUBSET Hosts, Workers!SyncRepairs(a, skipped)
  PROVE  WorkersInv'
<1>1. op[a].kind = "sync" /\ op[a].pc = "repair" /\ UNCHANGED node
  BY DEF Workers!SyncRepairs
<1>2. /\ op' \in [Admins -> OpType] /\ op'[a].kind = "none"
      /\ \A b \in Admins \ {a} : op'[b] = op[b]
  BY DEF Workers!SyncRepairs, Workers!End, Workers!NoOp, WorkersInv, WorkersTyped, OpType
<1>3. /\ row' \in [Hosts -> {"none", "PENDING", "LIVE", "DRIFT"}]
      /\ \A h \in Hosts :
           \/ h \in (op[a].live \ op[a].rows) \ skipped /\ row[h] = "none" /\ row'[h] = "LIVE"
           \/ h \in op[a].rows \ op[a].live /\ row[h] \notin {"none", "PENDING"} /\ row'[h] = "DRIFT"
           \/ /\ ~(h \in (op[a].live \ op[a].rows) \ skipped /\ row[h] = "none")
              /\ ~(h \in op[a].rows \ op[a].live /\ row[h] \notin {"none", "PENDING"})
              /\ row'[h] = row[h]
  BY DEF Workers!SyncRepairs, WorkersInv, WorkersTyped
<1>4. torn' = (torn /\ (~op[a].alone \/ ~op[a].read \/ skipped # {} \/ \E h \in Hosts : row[h] = "PENDING"))
      /\ skipped \subseteq op[a].live \ op[a].rows
  BY DEF Workers!SyncRepairs
<1>5. WorkersTyped'
  BY <1>1, <1>2, <1>3, <1>4 DEF WorkersInv, WorkersTyped
<1>6. (~op[a].alone => torn) /\ op[a].alone \in BOOLEAN
  BY <1>1, OpFields DEF WorkersInv, WorkersTyped, SyncsAlone
<1>7. ~torn' => op[a].alone
  BY <1>4, <1>6
<1>8. op[a].alone => \A b \in Admins : op'[b].kind = "none"
  BY <1>1, <1>2 DEF WorkersInv, SyncsAlone
<1>9. OpsApart'
  BY <1>7, <1>8 DEF OpsApart
<1>10. SyncsAlone'
  <2> SUFFICES ASSUME NEW b \in Admins, op'[b].kind = "sync"
               PROVE  ~op'[b].alone /\ torn'
    BY DEF SyncsAlone
  <2>1. b # a /\ op[b].kind = "sync" /\ op'[b] = op[b] /\ ~op[a].alone
    BY <1>2, <1>8
  <2>2. ~op[b].alone
    BY <1>1, <2>1 DEF WorkersInv, SyncsAlone
  <2> QED BY <1>4, <1>6, <2>1, <2>2
<1>11. HostsTracked'
  <2> SUFFICES ASSUME ~torn'
               PROVE  /\ \A b \in Admins : Underway(op[b])'
                      /\ \A h \in Hosts : Agrees(h)'
    BY DEF HostsTracked
  <2>1. \A b \in Admins : Underway(op[b])'
    BY <1>7, <1>8 DEF Underway
  <2>2. (op[a].live = IF op[a].read THEN Workers!Live ELSE {}) /\ op[a].rows = Workers!Registered
    BY <1>1, <1>7 DEF WorkersInv, SyncsAlone
  <2>3. CASE torn
    <3>1. op[a].read /\ skipped = {} /\ \A h \in Hosts : row[h] # "PENDING"
      BY <1>4, <1>7, <2>3
    <3> QED BY <1>1, <1>3, <2>1, <2>2, <3>1 DEF Agrees, Workers!Live, Workers!Registered
  <2>4. CASE ~torn
    <3>1. \A b \in Admins : ~OnHost(op[b])
      BY <1>1, <1>7 DEF WorkersInv, SyncsAlone, OnHost
    <3>2. \A h \in Hosts : Agrees(h)
      BY <2>4, <3>1 DEF WorkersInv, HostsTracked
    <3> QED BY <1>1, <1>3, <2>1, <2>2, <3>2 DEF Agrees, Workers!Live, Workers!Registered
  <2> QED BY <2>3, <2>4
<1> QED BY <1>5, <1>9, <1>10, <1>11 DEF WorkersInv

\* A sync that dies leaves everything torn.
LEMMA SyncDiesStep ==
  ASSUME WorkersInv, NEW a \in Admins, Workers!OpDies(a), ~OnHost(op[a])
  PROVE  WorkersInv'
<1>1. op[a].kind = "sync" /\ torn' = TRUE /\ UNCHANGED <<node, row>>
  BY OpFields DEF Workers!OpDies, WorkersInv, WorkersTyped, OnHost
<1>2. /\ op' \in [Admins -> OpType] /\ op'[a].kind = "none"
      /\ \A b \in Admins \ {a} : op'[b] = op[b]
  BY DEF Workers!OpDies, Workers!End, Workers!NoOp, WorkersInv, WorkersTyped, OpType
<1>3. SyncsAlone'
  <2> SUFFICES ASSUME NEW b \in Admins, op'[b].kind = "sync"
               PROVE  ~op'[b].alone
    BY <1>1 DEF SyncsAlone
  <2>1. op[b].kind = "sync" /\ op'[b] = op[b] /\ b # a
    BY <1>2
  <2> QED BY <1>1, <2>1 DEF WorkersInv, SyncsAlone
<1> QED BY <1>1, <1>2, <1>3 DEF WorkersInv, WorkersTyped, OpsApart, HostsTracked

\* Shards move; nodes come and go by operations only.
LEMMA ShardsMove ==
  ASSUME WorkersInv, Workers!Distribute \/ Workers!Rebalance
  PROVE  WorkersInv'
<1>1. UNCHANGED <<row, op, torn>>
  BY DEF Workers!Distribute, Workers!Rebalance
<1>2. ASSUME NEW h \in Hosts
      PROVE  node'[h] \in NodeType /\ node'[h].member = node[h].member
  <2>1. node[h] \in NodeType
    BY DEF WorkersInv, WorkersTyped
  <2>2. node'[h] \in {node[h], [node[h] EXCEPT !.shards = TRUE], [node[h] EXCEPT !.shards = node[h].should]}
    BY DEF Workers!Distribute, Workers!Rebalance
  <2>3. node[h].should \in BOOLEAN
    BY <2>1 DEF NodeType
  <2>4. CASE node'[h] = node[h]
    BY <2>1, <2>4
  <2>5. CASE node'[h] = [node[h] EXCEPT !.shards = TRUE]
    BY <2>1, <2>5, NodeFields
  <2>6. CASE node'[h] = [node[h] EXCEPT !.shards = node[h].should]
    <3>1. CASE node[h].should = TRUE
      <4>1. node'[h] = [node[h] EXCEPT !.shards = TRUE]
        BY <2>6, <3>1
      <4> QED BY <2>5, <4>1
    <3>2. CASE node[h].should = FALSE
      <4>1. node'[h] = [node[h] EXCEPT !.shards = FALSE]
        BY <2>6, <3>2
      <4> QED BY <2>1, <4>1, NodeFields
    <3> QED BY <2>3, <3>1, <3>2
  <2> QED BY <2>2, <2>4, <2>5, <2>6
<1>3. node' \in [Hosts -> NodeType]
  <2>1. node' = [h \in Hosts |-> node'[h]]
    BY DEF Workers!Distribute, Workers!Rebalance
  <2> QED BY <1>2, <2>1
<1>4. Workers!Live' = Workers!Live /\ Workers!Registered' = Workers!Registered
  BY <1>1, <1>2 DEF Workers!Live, Workers!Registered
<1>5. \A h \in Hosts : Agrees(h)' <=> Agrees(h)
  BY <1>1, <1>2 DEF Agrees
<1>6. \A b \in Admins : Underway(op[b]) => Underway(op[b])'
  BY <1>1, <1>2, OpFields DEF Underway, OnHost, WorkersInv, WorkersTyped
<1> QED BY <1>1, <1>3, <1>4, <1>5, <1>6 DEF WorkersInv, WorkersTyped, OpsApart, SyncsAlone, HostsTracked

\* With nothing in flight, the registry and Citus name the same workers, unless an
\* operation died halfway, two overlapped or a removal could not read the nodes since
\* the last undisturbed sync that read them and found the names of its imports free.
THEOREM RegistryFollowsCitus == Spec => []RegistryAgrees
<1> DEFINE I == service = "workers" => WorkersInv
<1>1. Init => I
  <2> SUFFICES ASSUME Init PROVE WorkersInv
    OBVIOUS
  <2>1. node \in [Hosts -> NodeType] /\ (\A h \in Hosts : ~node[h].member /\ row[h] = "none")
        /\ row \in [Hosts -> {"none", "PENDING", "LIVE", "DRIFT"}]
    BY DEF Init, Workers!Init, Workers!NoNode, NodeType
  <2>2. op \in [Admins -> OpType] /\ (\A a \in Admins : op[a].kind = "none") /\ torn = FALSE
    BY DEF Init, Workers!Init, Workers!NoOp, OpType
  <2> QED BY <2>1, <2>2 DEF WorkersInv, WorkersTyped, OpsApart, SyncsAlone, HostsTracked, Underway, Agrees
<1>2. I /\ [Next]_vars => I'
  <2> SUFFICES ASSUME WorkersInv, service = "workers", [Next]_vars PROVE WorkersInv'
    BY Frame
  <2>1. [Workers!Next]_workersVars
    BY Frame
  <2>2. CASE UNCHANGED workersVars
    BY <2>2 DEF workersVars, WorkersInv, WorkersTyped, OpsApart, SyncsAlone, HostsTracked, Underway, Agrees, Workers!Live,
       Workers!Registered
  <2>3. CASE Workers!Distribute \/ Workers!Rebalance
    BY <2>3, ShardsMove
  <2>4. ASSUME NEW a \in Admins, Workers!OpStep(a) PROVE WorkersInv'
    BY <2>4, AddRowStep, StartStep, CitusStep, RowStep, StartSyncStep, SyncReadsStep, SyncRepairsStep, SyncDiesStep
       DEF Workers!OpStep
  <2> QED BY <2>1, <2>2, <2>3, <2>4 DEF Workers!Next
<1>3. I => RegistryAgrees
  <2> SUFFICES ASSUME WorkersInv, ~torn, \A a \in Admins : op[a] = Workers!NoOp, NEW h \in Hosts PROVE Agrees(h)
    BY DEF RegistryAgrees, Workers!RegistryAgrees, Agrees
  <2>1. \A a \in Admins : ~OnHost(op[a])
    BY DEF Workers!NoOp, OnHost
  <2> QED BY <2>1 DEF WorkersInv, HostsTracked
<1> QED BY <1>1, <1>2, <1>3, PTL DEF Spec

-----------------------------------------------------------------------------
(* Constraints on document sources                                           *)

DocType == [key : Documents!Nullable, ref : Documents!Nullable, at : Nat, seen : Nat, checked : SUBSET {"unique", "ref"}]
RequestType == [pc : {"check", "write"}, route : Documents!Routes, rows : Seq(Documents!Row) \ {<< >>}, seen : Nat, next : Nat]
WriterType == {Documents!Idle} \cup RequestType

DocumentsTyped ==
    /\ docs \subseteq DocType
    /\ gone \in [Values -> Nat]
    /\ stamp \in Nat
    /\ writer \in [Writers -> WriterType]

\* Stamps are taken in order.
StampsPast ==
    /\ \A d \in docs : d.seen <= stamp /\ d.at <= stamp
    /\ \A w \in Writers : writer[w].pc # "idle" => writer[w].seen <= stamp

\* What was looked up, and found free or there, can only have changed since.
UniqueSince(k, seen) == k # 0 => \A e \in docs : e.key = k => e.at > seen
RefSince(ref, seen) == ref # 0 /\ ref \notin parents => gone[ref] > seen
RowSince(route, x, seen) ==
    /\ UniqueSince(x.key, seen)
    /\ route # "hub_insert" => RefSince(x.ref, seen)

\* The rows a request has looked up so far, or all of them.
Looked(p) == IF p.pc = "write" THEN DOMAIN p.rows ELSE {i \in DOMAIN p.rows : i < p.next}
ChecksSince == \A w \in Writers :
    writer[w].pc # "idle" /\ writer[w].route # "hub_update" =>
        /\ \A i \in Looked(writer[w]) : RowSince(writer[w].route, writer[w].rows[i], writer[w].seen)
        /\ writer[w].pc = "check" => writer[w].next \in DOMAIN writer[w].rows

DocumentsInv == DocumentsTyped /\ StampsPast /\ ChecksSince /\ Documents!ConflictsAreRaces

\* A request that is not idle has rows and the stamp of its first look.
LEMMA WriterFields ==
  \A p \in WriterType :
    /\ Documents!Idle.pc = "idle"
    /\ p.pc \in {"idle", "check", "write"}
    /\ p.pc = "idle" => p = Documents!Idle
    /\ p.pc # "idle" => p \in RequestType
BY DEF WriterType, RequestType, Documents!Idle

\* The parts of a request.
LEMMA RequestFields ==
  \A p \in RequestType :
    /\ p.route \in Documents!Routes /\ p.rows \in Seq(Documents!Row) /\ p.rows # << >> /\ p.seen \in Nat /\ p.next \in Nat
    /\ p.pc \in {"check", "write"}
    /\ \A n \in Nat : [p EXCEPT !.next = n] \in RequestType /\ [p EXCEPT !.next = n].next = n
                      /\ [p EXCEPT !.next = n].route = p.route /\ [p EXCEPT !.next = n].rows = p.rows
                      /\ [p EXCEPT !.next = n].seen = p.seen /\ [p EXCEPT !.next = n].pc = p.pc
    /\ [p EXCEPT !.pc = "write"] \in RequestType /\ [p EXCEPT !.pc = "write"].pc = "write"
    /\ [p EXCEPT !.pc = "write"].route = p.route /\ [p EXCEPT !.pc = "write"].rows = p.rows
    /\ [p EXCEPT !.pc = "write"].seen = p.seen
BY DEF RequestType

\* While the collections rest, one request replaces its state by one whose looks hold.
LEMMA RequestStep ==
  ASSUME DocumentsInv, NEW w \in Writers, UNCHANGED <<docs, parents, gone, stamp>>,
         writer' \in [Writers -> WriterType], \A v \in Writers \ {w} : writer'[v] = writer[v],
         writer'[w].pc # "idle" =>
            /\ writer'[w].seen <= stamp
            /\ writer'[w].route # "hub_update" =>
                 /\ \A i \in Looked(writer'[w]) : RowSince(writer'[w].route, writer'[w].rows[i], writer'[w].seen)
                 /\ writer'[w].pc = "check" => writer'[w].next \in DOMAIN writer'[w].rows
  PROVE  DocumentsInv'
<1>1. \A route, x, seen : RowSince(route, x, seen)' <=> RowSince(route, x, seen)
  BY DEF RowSince, UniqueSince, RefSince
<1>2. ChecksSince'
  <2> SUFFICES ASSUME NEW v \in Writers, writer'[v].pc # "idle", writer'[v].route # "hub_update"
               PROVE  /\ \A i \in Looked(writer'[v]) : RowSince(writer'[v].route, writer'[v].rows[i], writer'[v].seen)
                      /\ writer'[v].pc = "check" => writer'[v].next \in DOMAIN writer'[v].rows
    BY <1>1 DEF ChecksSince, Looked, RowSince, UniqueSince, RefSince
  <2>1. CASE v = w
    BY <2>1
  <2>2. CASE v # w
    BY <2>2 DEF DocumentsInv, ChecksSince
  <2> QED BY <2>1, <2>2
<1> QED BY <1>2 DEF DocumentsInv, DocumentsTyped, StampsPast, Documents!ConflictsAreRaces

\* A request starts with nothing looked up, or with nothing to look up.
LEMMA StartStepDocuments ==
  ASSUME DocumentsInv, NEW w \in Writers, NEW route \in Documents!Routes, NEW rows \in Documents!Batches,
         Documents!Start(w, route, rows)
  PROVE  DocumentsInv'
<1> DEFINE p == [pc |-> IF route = "hub_update" THEN "write" ELSE "check", route |-> route, rows |-> rows, seen |-> stamp, next |-> 1]
<1>1. PICK n \in 1 .. MaxBatch : rows \in [1 .. n -> Documents!Row]
  BY DEF Documents!Batches
<1>2. n \in Nat /\ 1 <= n
  BY <1>1
<1>3. rows \in Seq(Documents!Row) /\ rows # << >> /\ 1 \in DOMAIN rows /\ DOMAIN rows \subseteq Nat \ {0}
  BY <1>1, <1>2
<1>4. p \in RequestType /\ p.pc # "idle" /\ p.seen = stamp /\ p.next = 1 /\ p.rows = rows /\ p.route = route
      /\ (route # "hub_update" => p.pc = "check")
  BY <1>3 DEF RequestType, DocumentsInv, DocumentsTyped
<1>5. writer' = [writer EXCEPT ![w] = p] /\ UNCHANGED <<docs, parents, gone, stamp>>
  BY DEF Documents!Start
<1> HIDE DEF p
<1>6. writer' \in [Writers -> WriterType] /\ writer'[w] = p /\ \A v \in Writers \ {w} : writer'[v] = writer[v]
  BY <1>4, <1>5 DEF DocumentsInv, DocumentsTyped, WriterType
<1>7. p.route # "hub_update" => Looked(p) = {}
  <2>1. \A i \in DOMAIN rows : ~(i < 1)
    BY <1>3
  <2> QED BY <1>4, <2>1 DEF Looked
<1>8. stamp <= stamp
  BY DEF DocumentsInv, DocumentsTyped
<1> QED BY <1>3, <1>4, <1>5, <1>6, <1>7, <1>8, RequestStep

\* A look that finds nothing wrong holds from then on.
LEMMA CheckRowStep ==
  ASSUME DocumentsInv, NEW w \in Writers, Documents!CheckRow(w)
  PROVE  DocumentsInv'
<1> DEFINE p == writer[w]
           q == writer'[w]
<1>1. p.pc = "check" /\ UNCHANGED <<docs, parents, gone, stamp>>
  BY DEF Documents!CheckRow
<1>2. p \in RequestType
  BY <1>1, WriterFields DEF DocumentsInv, DocumentsTyped
<1>3. p.rows \in Seq(Documents!Row) /\ p.next \in Nat /\ p.seen \in Nat
  BY <1>2, RequestFields
<1>4. \/ q = Documents!Idle
      \/ /\ ~Documents!Violates(p.route, p.rows[p.next]) /\ p.next < Len(p.rows)
         /\ q = [p EXCEPT !.next = p.next + 1]
      \/ /\ ~Documents!Violates(p.route, p.rows[p.next]) /\ ~(p.next < Len(p.rows))
         /\ q = [p EXCEPT !.pc = "write"]
  BY DEF Documents!CheckRow, DocumentsInv, DocumentsTyped
<1>5. \A v \in Writers \ {w} : writer'[v] = writer[v]
  BY DEF Documents!CheckRow, DocumentsInv, DocumentsTyped
<1>6. q \in WriterType
  <2>1. p.next + 1 \in Nat
    BY <1>3
  <2> QED BY <1>2, <1>4, <2>1, RequestFields DEF WriterType
<1>7. writer' \in [Writers -> WriterType]
  <2>1. writer' = [writer EXCEPT ![w] = q]
    BY DEF Documents!CheckRow, DocumentsInv, DocumentsTyped
  <2> QED BY <1>5, <1>6, <2>1 DEF DocumentsInv, DocumentsTyped
<1>8. ASSUME q.pc # "idle"
      PROVE  q.route = p.route /\ q.rows = p.rows /\ q.seen = p.seen /\ ~Documents!Violates(p.route, p.rows[p.next])
             /\ \/ q.pc = "check" /\ q.next = p.next + 1 /\ p.next < Len(p.rows)
                \/ q.pc = "write" /\ ~(p.next < Len(p.rows))
  <2>1. q # Documents!Idle
    BY <1>8 DEF Documents!Idle
  <2>2. CASE q = [p EXCEPT !.next = p.next + 1] /\ p.next < Len(p.rows)
    <3>1. p.next + 1 \in Nat
      BY <1>3
    <3> QED BY <1>1, <1>2, <1>4, <2>1, <2>2, <3>1, RequestFields
  <2>3. CASE q = [p EXCEPT !.pc = "write"] /\ ~(p.next < Len(p.rows))
    BY <1>1, <1>2, <1>4, <2>1, <2>3, RequestFields
  <2> QED BY <1>4, <2>1, <2>2, <2>3
<1>9. ASSUME q.pc # "idle", q.route # "hub_update"
      PROVE  /\ \A i \in Looked(q) : RowSince(q.route, q.rows[i], q.seen)
             /\ q.pc = "check" => q.next \in DOMAIN q.rows
  <2>1. /\ \A i \in Looked(p) : RowSince(p.route, p.rows[i], p.seen)
        /\ p.next \in DOMAIN p.rows
    BY <1>1, <1>8, <1>9 DEF DocumentsInv, ChecksSince
  <2>2. RowSince(p.route, p.rows[p.next], p.seen)
    BY <1>8, <1>9 DEF Documents!Violates, Documents!Found, RowSince, UniqueSince, RefSince
  <2>3. DOMAIN p.rows = 1 .. Len(p.rows) /\ Len(p.rows) \in Nat
    BY <1>3
  <2>4. \A i \in Looked(q) : i \in Looked(p) \/ i = p.next
    <3>1. CASE q.pc = "check"
      BY <1>1, <1>3, <1>8, <1>9, <2>3, <3>1 DEF Looked
    <3>2. CASE q.pc = "write"
      BY <1>1, <1>3, <1>8, <1>9, <2>1, <2>3, <3>2 DEF Looked
    <3> QED BY <1>8, <1>9, <3>1, <3>2
  <2>5. q.pc = "check" => q.next \in DOMAIN q.rows
    BY <1>3, <1>8, <1>9, <2>1, <2>3
  <2> QED BY <1>8, <1>9, <2>1, <2>2, <2>4, <2>5
<1>10. q.pc # "idle" => q.seen <= stamp
  BY <1>1, <1>8 DEF DocumentsInv, StampsPast
<1> QED BY <1>1, <1>5, <1>7, <1>9, <1>10, RequestStep

\* A refused request is idle again.
LEMMA RefuseStep ==
  ASSUME DocumentsInv, NEW w \in Writers, Documents!Refuse(w)
  PROVE  DocumentsInv'
<1>1. /\ writer' \in [Writers -> WriterType] /\ writer'[w] = Documents!Idle
      /\ \A v \in Writers \ {w} : writer'[v] = writer[v]
      /\ UNCHANGED <<docs, parents, gone, stamp>>
  BY DEF Documents!Refuse, DocumentsInv, DocumentsTyped, WriterType
<1>2. writer'[w].pc = "idle"
  BY <1>1 DEF Documents!Idle
<1> QED BY <1>1, <1>2, RequestStep

\* Documents written after the checks of their request have later stamps than
\* anything the checks could have seen.
LEMMA WrittenStep ==
  ASSUME DocumentsInv, NEW w \in Writers, NEW New \in SUBSET DocType,
         docs' \subseteq docs \cup New, stamp' \in Nat, stamp <= stamp', UNCHANGED <<parents, gone>>,
         writer' = [writer EXCEPT ![w] = Documents!Idle],
         \A d \in New : /\ d.at > stamp /\ d.at <= stamp' /\ d.seen <= stamp
                        /\ "unique" \in d.checked => UniqueSince(d.key, d.seen)
                        /\ "ref" \in d.checked => RefSince(d.ref, d.seen)
  PROVE  DocumentsInv'
<1>1. stamp \in Nat /\ docs \subseteq DocType
  BY DEF DocumentsInv, DocumentsTyped
<1>2. /\ writer' \in [Writers -> WriterType] /\ writer'[w].pc = "idle"
      /\ \A v \in Writers \ {w} : writer'[v] = writer[v]
  BY DEF Documents!Idle, DocumentsInv, DocumentsTyped, WriterType
<1>3. \A d \in docs : d.at \in Nat /\ d.seen \in Nat /\ d.seen <= stamp /\ d.at <= stamp
  BY <1>1 DEF DocumentsInv, StampsPast, DocType
<1>4. \A d \in New : d.at \in Nat /\ d.seen \in Nat
  BY DEF DocType
<1>5. DocumentsTyped'
  BY <1>1, <1>2 DEF DocumentsInv, DocumentsTyped
<1>6. \A v \in Writers : writer'[v].pc # "idle" => v # w /\ writer'[v] = writer[v] /\ writer[v] \in RequestType /\ writer[v].seen <= stamp
  BY <1>2, WriterFields DEF DocumentsInv, DocumentsTyped, StampsPast
<1>7. StampsPast'
  <2>1. ASSUME NEW d \in docs' PROVE d.seen <= stamp' /\ d.at <= stamp'
    <3>1. CASE d \in docs
      BY <1>1, <1>3, <3>1
    <3>2. CASE d \in New
      BY <1>1, <1>4, <3>2
    <3> QED BY <3>1, <3>2
  <2>2. ASSUME NEW v \in Writers, writer'[v].pc # "idle" PROVE writer'[v].seen <= stamp'
    <3>1. writer'[v] = writer[v] /\ writer[v].seen \in Nat /\ writer[v].seen <= stamp
      BY <1>6, <2>2, RequestFields
    <3> QED BY <1>1, <3>1
  <2> QED BY <2>1, <2>2 DEF StampsPast
<1>8. \A k, seen : seen \in Nat /\ seen <= stamp /\ UniqueSince(k, seen) => UniqueSince(k, seen)'
  <2> SUFFICES ASSUME NEW k, NEW seen \in Nat, seen <= stamp, UniqueSince(k, seen), k # 0, NEW e \in docs', e.key = k
               PROVE  e.at > seen
    BY DEF UniqueSince
  <2>1. CASE e \in docs
    BY <2>1 DEF UniqueSince
  <2>2. CASE e \in New
    BY <1>1, <1>4, <2>2
  <2> QED BY <2>1, <2>2
<1>9. \A ref, seen : RefSince(ref, seen)' <=> RefSince(ref, seen)
  BY DEF RefSince
<1>10. ChecksSince'
  <2> SUFFICES ASSUME NEW v \in Writers, writer'[v].pc # "idle", writer'[v].route # "hub_update"
               PROVE  /\ \A i \in Looked(writer[v])' : RowSince(writer[v].route, writer[v].rows[i], writer[v].seen)'
                      /\ writer'[v].pc = "check" => writer'[v].next \in DOMAIN writer'[v].rows
    BY DEF ChecksSince
  <2>1. PICK p \in RequestType : writer[v] = p /\ writer'[v] = p
    BY <1>6
  <2>2. /\ \A i \in Looked(p) : RowSince(p.route, p.rows[i], p.seen)
        /\ p.pc = "check" => p.next \in DOMAIN p.rows
    BY <2>1 DEF DocumentsInv, ChecksSince
  <2>3. p.seen \in Nat /\ p.seen <= stamp
    BY <1>6, <2>1, RequestFields
  <2>4. Looked(writer[v])' = Looked(p)
    BY <2>1 DEF Looked
  <2>5. ASSUME NEW i \in Looked(p) PROVE RowSince(writer[v].route, writer[v].rows[i], writer[v].seen)'
    <3>1. UniqueSince(p.rows[i].key, p.seen) /\ (p.route # "hub_insert" => RefSince(p.rows[i].ref, p.seen))
      BY <2>2, <2>5 DEF RowSince
    <3>2. PICK k : k = p.rows[i].key
      OBVIOUS
    <3>3. UniqueSince(k, p.seen)'
      BY <1>8, <2>3, <3>1, <3>2
    <3>4. UniqueSince(writer[v].rows[i].key, writer[v].seen)'
      BY <2>1, <3>2, <3>3 DEF UniqueSince
    <3> QED BY <2>1, <3>1, <3>4 DEF RowSince, UniqueSince, RefSince
  <2> QED BY <2>1, <2>2, <2>4, <2>5
<1>11. Documents!ConflictsAreRaces'
  <2> SUFFICES ASSUME NEW d \in docs'
               PROVE  /\ "unique" \in d.checked => \A e \in docs' : e.key = d.key /\ e.key # 0 /\ e.at < d.at => e.at > d.seen
                      /\ "ref" \in d.checked => RefSince(d.ref, d.seen)
    BY <1>9 DEF Documents!ConflictsAreRaces, RefSince
  <2>1. CASE d \in docs
    <3>1. /\ "unique" \in d.checked => \A e \in docs : e.key = d.key /\ e.key # 0 /\ e.at < d.at => e.at > d.seen
          /\ "ref" \in d.checked => RefSince(d.ref, d.seen)
      BY <2>1 DEF DocumentsInv, Documents!ConflictsAreRaces, RefSince
    <3>2. \A e \in New : ~(e.at < d.at)
      BY <1>1, <1>3, <1>4, <2>1
    <3> QED BY <3>1, <3>2
  <2>2. CASE d \in New
    <3>1. d.seen \in Nat /\ d.seen <= stamp
      BY <1>4, <2>2
    <3>2. "unique" \in d.checked => UniqueSince(d.key, d.seen)'
      BY <1>8, <2>2, <3>1
    <3> QED BY <2>2, <3>2 DEF UniqueSince
  <2> QED BY <2>1, <2>2
<1> QED BY <1>5, <1>7, <1>10, <1>11 DEF DocumentsInv

\* One document of a request that has passed its checks.
LEMMA WrittenFields ==
  ASSUME DocumentsInv, NEW w \in Writers, writer[w].pc = "write", NEW i \in DOMAIN writer[w].rows, NEW at \in Nat
  PROVE  LET d == Documents!Written(writer[w], writer[w].rows[i], at)
         IN  /\ d \in DocType /\ d.at = at /\ d.seen = writer[w].seen /\ d.seen <= stamp
             /\ "unique" \in d.checked => UniqueSince(d.key, d.seen)
             /\ "ref" \in d.checked => RefSince(d.ref, d.seen)
<1> DEFINE p == writer[w]
           d == Documents!Written(p, p.rows[i], at)
<1>1. p \in RequestType /\ p.seen <= stamp
  BY WriterFields DEF DocumentsInv, DocumentsTyped, StampsPast
<1>2. p.rows \in Seq(Documents!Row) /\ p.seen \in Nat
  BY <1>1, RequestFields
<1>3. p.rows[i] \in Documents!Row
  BY <1>2
<1>4. /\ d.key = p.rows[i].key /\ d.ref = p.rows[i].ref /\ d.at = at /\ d.seen = p.seen
      /\ d.checked = CASE p.route = "hub_update" -> {} [] p.route = "hub_insert" -> {"unique"} [] OTHER -> {"unique", "ref"}
      /\ d \in DocType
  BY <1>2, <1>3 DEF Documents!Written, DocType, Documents!Row
<1>5. "unique" \in d.checked => p.route # "hub_update"
  BY <1>4
<1>6. "ref" \in d.checked => p.route \notin {"hub_update", "hub_insert"}
  BY <1>4
<1>7. p.route # "hub_update" => RowSince(p.route, p.rows[i], p.seen)
  BY DEF DocumentsInv, ChecksSince, Looked
<1> QED BY <1>1, <1>4, <1>5, <1>6, <1>7 DEF RowSince

\* A batch is stamped row by row.
LEMMA InsertDocsStep ==
  ASSUME DocumentsInv, NEW w \in Writers, Documents!InsertDocs(w)
  PROVE  DocumentsInv'
<1> DEFINE rows == writer[w].rows
           New == {Documents!Written(writer[w], rows[i], stamp + i) : i \in DOMAIN rows}
<1>1. writer[w].pc = "write" /\ docs' = docs \cup New /\ stamp' = stamp + Len(rows)
      /\ writer' = [writer EXCEPT ![w] = Documents!Idle] /\ UNCHANGED <<parents, gone>>
  BY DEF Documents!InsertDocs
<1>2. rows \in Seq(Documents!Row) /\ stamp \in Nat
  BY <1>1, WriterFields, RequestFields DEF DocumentsInv, DocumentsTyped
<1>3. Len(rows) \in Nat /\ stamp + Len(rows) \in Nat /\ stamp <= stamp + Len(rows)
      /\ \A i \in DOMAIN rows : stamp + i \in Nat /\ stamp + i > stamp /\ stamp + i <= stamp + Len(rows)
  <2>1. Len(rows) \in Nat /\ DOMAIN rows = 1 .. Len(rows)
    BY <1>2
  <2> HIDE DEF rows
  <2> QED BY <1>2, <2>1
<1>4. ASSUME NEW d \in New
      PROVE  /\ d \in DocType /\ d.at > stamp /\ d.at <= stamp' /\ d.seen <= stamp
             /\ "unique" \in d.checked => UniqueSince(d.key, d.seen)
             /\ "ref" \in d.checked => RefSince(d.ref, d.seen)
  <2>1. PICK i \in DOMAIN rows : d = Documents!Written(writer[w], rows[i], stamp + i)
    OBVIOUS
  <2> QED BY <1>1, <1>3, <2>1, WrittenFields
<1> HIDE DEF New
<1>5. New \in SUBSET DocType
  BY <1>4
<1> QED BY <1>1, <1>3, <1>4, <1>5, WrittenStep

\* One document is written over another.
LEMMA UpdateDocsStep ==
  ASSUME DocumentsInv, NEW w \in Writers, Documents!UpdateDocs(w)
  PROVE  DocumentsInv'
<1> DEFINE new == Documents!Written(writer[w], writer[w].rows[1], stamp + 1)
<1>1. writer[w].pc = "write" /\ docs' \subseteq docs \cup {new} /\ stamp' = stamp + 1
      /\ writer' = [writer EXCEPT ![w] = Documents!Idle] /\ UNCHANGED <<parents, gone>>
  BY DEF Documents!UpdateDocs
<1>2. stamp \in Nat /\ stamp + 1 \in Nat /\ stamp <= stamp + 1 /\ stamp + 1 > stamp /\ stamp + 1 <= stamp + 1
  BY DEF DocumentsInv, DocumentsTyped
<1>3. 1 \in DOMAIN writer[w].rows
  <2>1. writer[w].rows \in Seq(Documents!Row) /\ writer[w].rows # << >>
    BY <1>1, WriterFields, RequestFields DEF DocumentsInv, DocumentsTyped
  <2> QED BY <2>1
<1>4. /\ new \in DocType /\ new.at > stamp /\ new.at <= stamp' /\ new.seen <= stamp
      /\ "unique" \in new.checked => UniqueSince(new.key, new.seen)
      /\ "ref" \in new.checked => RefSince(new.ref, new.seen)
  BY <1>1, <1>2, <1>3, WrittenFields
<1> HIDE DEF new
<1>5. {new} \in SUBSET DocType
  BY <1>4
<1> QED BY <1>1, <1>2, <1>4, <1>5, WrittenStep

\* A document that is gone conflicts with nothing.
LEMMA DeleteDocsStep ==
  ASSUME DocumentsInv, Documents!DeleteDocs
  PROVE  DocumentsInv'
<1>1. docs' \subseteq docs /\ UNCHANGED <<parents, gone, stamp, writer>>
  BY DEF Documents!DeleteDocs
<1>2. DocumentsTyped' /\ StampsPast' /\ Documents!ConflictsAreRaces'
  BY <1>1 DEF DocumentsInv, DocumentsTyped, StampsPast, Documents!ConflictsAreRaces
<1>3. ChecksSince'
  <2> SUFFICES ASSUME NEW v \in Writers, writer[v].pc # "idle", writer[v].route # "hub_update"
               PROVE  /\ \A i \in Looked(writer[v]) : RowSince(writer[v].route, writer[v].rows[i], writer[v].seen)'
                      /\ writer[v].pc = "check" => writer[v].next \in DOMAIN writer[v].rows
    BY <1>1 DEF ChecksSince, Looked
  <2> QED BY <1>1 DEF DocumentsInv, ChecksSince, RowSince, UniqueSince, RefSince
<1> QED BY <1>2, <1>3 DEF DocumentsInv

\* A referenced row is deleted after everything that has looked at it.
LEMMA DeleteParentStep ==
  ASSUME DocumentsInv, NEW p \in Values, Documents!DeleteParent(p)
  PROVE  DocumentsInv'
<1>1. parents' = parents \ {p} /\ gone' = [gone EXCEPT ![p] = stamp + 1] /\ stamp' = stamp + 1 /\ UNCHANGED <<docs, writer>>
  BY DEF Documents!DeleteParent
<1>2. stamp \in Nat /\ gone \in [Values -> Nat]
  BY DEF DocumentsInv, DocumentsTyped
<1>3. \A ref, seen : seen \in Nat /\ seen <= stamp /\ RefSince(ref, seen) => RefSince(ref, seen)'
  BY <1>1, <1>2 DEF RefSince
<1>4. DocumentsTyped'
  BY <1>1, <1>2 DEF DocumentsInv, DocumentsTyped
<1>5. \A d \in docs : d.seen \in Nat /\ d.at \in Nat /\ d.seen <= stamp /\ d.at <= stamp
  BY DEF DocumentsInv, DocumentsTyped, StampsPast, DocType
<1>6. \A v \in Writers : writer[v].pc # "idle" => writer[v].seen \in Nat /\ writer[v].seen <= stamp
  BY WriterFields, RequestFields DEF DocumentsInv, DocumentsTyped, StampsPast
<1>7. \A n \in Nat : n <= stamp => n <= stamp + 1
  BY <1>2
<1>8. StampsPast'
  BY <1>1, <1>5, <1>6, <1>7 DEF StampsPast
<1>9. Documents!ConflictsAreRaces'
  <2> SUFFICES ASSUME NEW d \in docs
               PROVE  /\ "unique" \in d.checked => \A e \in docs : e.key = d.key /\ e.key # 0 /\ e.at < d.at => e.at > d.seen
                      /\ "ref" \in d.checked => RefSince(d.ref, d.seen)'
    BY <1>1 DEF Documents!ConflictsAreRaces, RefSince
  <2> QED BY <1>3, <1>5 DEF DocumentsInv, Documents!ConflictsAreRaces, RefSince
<1>10. ChecksSince'
  <2> SUFFICES ASSUME NEW v \in Writers, writer[v].pc # "idle", writer[v].route # "hub_update"
               PROVE  /\ \A i \in Looked(writer[v]) : RowSince(writer[v].route, writer[v].rows[i], writer[v].seen)'
                      /\ writer[v].pc = "check" => writer[v].next \in DOMAIN writer[v].rows
    BY <1>1 DEF ChecksSince, Looked
  <2>1. PICK q : q = writer[v]
    OBVIOUS
  <2>2. \A i \in Looked(q) : RowSince(q.route, q.rows[i], q.seen)
    BY <2>1 DEF DocumentsInv, ChecksSince
  <2>3. \A i \in Looked(q) : q.route # "hub_insert" => RefSince(q.rows[i].ref, q.seen)'
    BY <1>3, <1>6, <2>1, <2>2 DEF RowSince
  <2>4. \A i \in Looked(q) : UniqueSince(q.rows[i].key, q.seen)'
    BY <1>1, <2>2 DEF RowSince, UniqueSince
  <2>5. writer'[v] = q
    BY <1>1, <2>1
  <2> QED BY <2>1, <2>3, <2>4, <2>5 DEF DocumentsInv, ChecksSince, RowSince, UniqueSince, RefSince
<1> QED BY <1>4, <1>8, <1>9, <1>10 DEF DocumentsInv

\* A duplicate or a dangling reference exists only where the conflicting write came
\* after the document's own check had begun, or the road taken does not check.
THEOREM ConflictsAreOnlyRaces == Spec => []ConflictsAreRaces
<1> DEFINE I == service = "documents" => DocumentsInv
<1>1. Init => I
  <2> SUFFICES ASSUME Init PROVE DocumentsInv
    OBVIOUS
  <2>1. docs = {} /\ stamp = 0 /\ gone \in [Values -> Nat]
    BY DEF Init, Documents!Init
  <2>2. writer \in [Writers -> WriterType] /\ \A w \in Writers : writer[w].pc = "idle"
    BY DEF Init, Documents!Init, WriterType, Documents!Idle
  <2> QED BY <2>1, <2>2 DEF DocumentsInv, DocumentsTyped, StampsPast, ChecksSince, Documents!ConflictsAreRaces
<1>2. I /\ [Next]_vars => I'
  <2> SUFFICES ASSUME DocumentsInv, service = "documents", [Next]_vars PROVE DocumentsInv'
    BY Frame
  <2>1. [Documents!Next]_documentsVars
    BY Frame
  <2>2. CASE UNCHANGED documentsVars
    BY <2>2 DEF documentsVars, DocumentsInv, DocumentsTyped, StampsPast, ChecksSince, Looked, RowSince, UniqueSince, RefSince,
       Documents!ConflictsAreRaces
  <2>3. CASE Documents!Next
    BY <2>3, DeleteDocsStep, DeleteParentStep, StartStepDocuments, CheckRowStep, RefuseStep, InsertDocsStep, UpdateDocsStep
       DEF Documents!Next
  <2> QED BY <2>1, <2>2, <2>3
<1>3. I => ConflictsAreRaces
  BY DEF DocumentsInv, ConflictsAreRaces
<1> QED BY <1>1, <1>2, <1>3, PTL DEF Spec

-----------------------------------------------------------------------------
(* Applying manifests                                                        *)

RunningType == [pc : {"persist", "commit", "dispatch"}, manifest : SUBSET Manifest!Resources, plan : SUBSET Manifest!Resources]
ManifestTyped == apply \in [Applies -> {Manifest!NoApply} \cup RunningType]

Planned(p) == p.pc \in {"persist", "commit"}
Dispatching(p) == p.pc = "dispatch"

\* A plan is made of the manifest, and a collection it leaves out is in the catalog,
\* unless a table of the same name was looked up.
PlansCover == \A a \in Applies : Planned(apply[a]) =>
    /\ apply[a].plan \subseteq apply[a].manifest
    /\ (apply[a].manifest \cap Collections) \ (catalog \cup excused) \subseteq apply[a].plan

\* Policies are stored before the commit.
PoliciesFirst == \A a \in Applies : apply[a].pc = "commit" => apply[a].manifest \subseteq protected

\* A collection that is planned again although it is there by now, or is filled before
\* it is created, is excused.
LateOnesExcused ==
    /\ filled \subseteq catalog \cup excused
    /\ \A a \in Applies :
         /\ Planned(apply[a]) => apply[a].plan \cap Collections \cap catalog \subseteq excused
         /\ Dispatching(apply[a]) => apply[a].plan \subseteq Collections /\ apply[a].plan \cap filled \subseteq excused

ManifestInv == ManifestTyped /\ PlansCover /\ PoliciesFirst /\ LateOnesExcused
               /\ Manifest!CollectionsIntact /\ Manifest!NewTablesAreProtected

\* What an apply carries.
LEMMA ApplyFields ==
  \A p \in {Manifest!NoApply} \cup RunningType :
    /\ Manifest!NoApply.pc = "idle"
    /\ p.pc \in {"idle", "persist", "commit", "dispatch"}
    /\ p.pc = "idle" <=> p = Manifest!NoApply
    /\ p.pc # "idle" => p.manifest \subseteq Manifest!Resources /\ p.plan \subseteq Manifest!Resources
BY DEF RunningType, Manifest!NoApply

\* The applies that rest.
OtherApplies(a) == \A b \in Applies \ {a} : apply'[b] = apply[b]

\* A plan is what is missing now.
LEMMA PlanStep ==
  ASSUME ManifestInv, NEW a \in Applies, NEW manifest \in SUBSET Manifest!Resources, NEW force,
         NEW found, Manifest!Plan(a, manifest, force, found)
  PROVE  ManifestInv'
<1> DEFINE plan == Manifest!Missing(manifest, found)
           misled == {c \in manifest \cap Collections : (c \in found) # (c \in catalog)}
           p == [pc |-> "persist", manifest |-> manifest, plan |-> plan]
<1>1. plan \subseteq manifest /\ (manifest \cap Collections) \ (catalog \cup misled) \subseteq plan
      /\ plan \cap Collections \cap catalog \subseteq misled
  BY ManifestAssumption DEF Manifest!Missing
<1>2. p \in RunningType /\ p.pc = "persist" /\ p.manifest = manifest /\ p.plan = plan
  BY <1>1 DEF RunningType
<1>3. apply' = [apply EXCEPT ![a] = p] /\ apply[a] = Manifest!NoApply /\ excused' = excused \cup misled
      /\ UNCHANGED <<tables, catalog, protected, remote, filled, lost>>
  BY DEF Manifest!Plan
<1> HIDE DEF p, plan, misled
<1>4. apply' \in [Applies -> {Manifest!NoApply} \cup RunningType] /\ apply'[a] = p /\ OtherApplies(a)
  BY <1>2, <1>3 DEF ManifestInv, ManifestTyped, OtherApplies
<1>5. apply[a].pc = "idle"
  BY <1>3, ApplyFields
<1>6. PlansCover' /\ PoliciesFirst' /\ LateOnesExcused'
  BY <1>1, <1>2, <1>3, <1>4 DEF ManifestInv, PlansCover, PoliciesFirst, LateOnesExcused, Planned, Dispatching, OtherApplies
<1>7. Manifest!CollectionsIntact' /\ Manifest!NewTablesAreProtected'
  BY <1>3, <1>4, <1>5 DEF ManifestInv, Manifest!CollectionsIntact, Manifest!NewTablesAreProtected, Manifest!Pending, OtherApplies
<1> QED BY <1>4, <1>6, <1>7 DEF ManifestInv, ManifestTyped

\* The policies of the manifest are stored.
LEMMA PersistStep ==
  ASSUME ManifestInv, NEW a \in Applies, Manifest!PersistPolicies(a)
  PROVE  ManifestInv'
<1>1. /\ apply[a].pc = "persist" /\ protected' = protected \cup apply[a].manifest
      /\ UNCHANGED <<tables, catalog, remote, filled, excused, lost>>
  BY DEF Manifest!PersistPolicies
<1>2. apply[a] \in RunningType
  BY <1>1, ApplyFields DEF ManifestInv, ManifestTyped
<1>3. /\ apply' \in [Applies -> {Manifest!NoApply} \cup RunningType] /\ apply'[a].pc = "commit"
      /\ apply'[a].manifest = apply[a].manifest /\ apply'[a].plan = apply[a].plan /\ OtherApplies(a)
  BY <1>2 DEF Manifest!PersistPolicies, ManifestInv, ManifestTyped, RunningType, OtherApplies
<1>4. PlansCover' /\ LateOnesExcused'
  BY <1>1, <1>3 DEF ManifestInv, PlansCover, LateOnesExcused, Planned, Dispatching, OtherApplies
<1>5. PoliciesFirst' /\ Manifest!NewTablesAreProtected'
  BY <1>1, <1>3 DEF ManifestInv, PoliciesFirst, Manifest!NewTablesAreProtected, OtherApplies
<1>6. Manifest!CollectionsIntact'
  BY <1>1, <1>3 DEF ManifestInv, Manifest!CollectionsIntact, Manifest!Pending, OtherApplies
<1> QED BY <1>3, <1>4, <1>5, <1>6 DEF ManifestInv, ManifestTyped

\* What the manifest declares is there, or in the catalog and about to be.
LEMMA CommitStep ==
  ASSUME ManifestInv, NEW a \in Applies, Manifest!Commit(a)
  PROVE  ManifestInv'
<1> DEFINE manifest == apply[a].manifest
           plan == apply[a].plan
           raced == {c \in plan \cap Collections : \E b \in Manifest!Others(a) : c \in apply[b].plan}
<1>1. /\ apply[a].pc = "commit" /\ UNCHANGED <<protected, remote, filled, lost>>
      /\ tables' = tables \cup (plan \cap HubTables) /\ catalog' = catalog \cup (manifest \cap Collections)
      /\ excused' = excused \cup raced
  BY DEF Manifest!Commit
<1>2. apply[a] \in RunningType
  BY <1>1, ApplyFields DEF ManifestInv, ManifestTyped
<1>3. /\ apply' \in [Applies -> {Manifest!NoApply} \cup RunningType] /\ apply'[a].pc = "dispatch"
      /\ apply'[a].plan = plan \cap Collections /\ OtherApplies(a)
  BY <1>2 DEF Manifest!Commit, ManifestInv, ManifestTyped, RunningType, OtherApplies
<1>4. plan \subseteq manifest /\ (manifest \cap Collections) \ (catalog \cup excused) \subseteq plan
      /\ manifest \subseteq protected
      /\ plan \cap Collections \cap catalog \subseteq excused
  BY <1>1 DEF ManifestInv, PlansCover, PoliciesFirst, LateOnesExcused, Planned
<1>5. \A b \in Applies \ {a} : Planned(apply[b]) => b \in Manifest!Others(a)
  BY ApplyFields DEF Manifest!Others, Planned, ManifestInv, ManifestTyped
<1> HIDE DEF manifest, plan
<1>6. \A c \in catalog' : c \in catalog \/ c \in plan \cap Collections \/ c \in excused
  BY <1>1, <1>4
<1>7. PlansCover'
  BY <1>1, <1>3 DEF ManifestInv, PlansCover, Planned, OtherApplies
<1>8. PoliciesFirst' /\ Manifest!NewTablesAreProtected'
  BY <1>1, <1>3, <1>4 DEF ManifestInv, PoliciesFirst, Manifest!NewTablesAreProtected, OtherApplies
<1>9. LateOnesExcused'
  <2>1. filled' \subseteq catalog' \cup excused'
    BY <1>1 DEF ManifestInv, LateOnesExcused
  <2>2. ASSUME NEW b \in Applies \ {a}, Planned(apply[b]), NEW c \in apply[b].plan \cap Collections, c \in catalog'
        PROVE  c \in excused'
    <3>1. CASE c \in catalog
      BY <1>1, <2>2, <3>1 DEF ManifestInv, LateOnesExcused
    <3>2. CASE c \in plan \cap Collections
      BY <1>1, <1>5, <2>2, <3>2
    <3> QED BY <1>1, <1>6, <2>2, <3>1, <3>2
  <2>3. plan \cap Collections \cap filled \subseteq excused
    BY <1>4 DEF ManifestInv, LateOnesExcused
  <2>4. \A b \in Applies \ {a} : Dispatching(apply[b]) => apply[b].plan \subseteq Collections /\ apply[b].plan \cap filled \subseteq excused'
    BY <1>1 DEF ManifestInv, LateOnesExcused
  <2> HIDE DEF raced
  <2> QED BY <1>1, <1>3, <2>1, <2>2, <2>3, <2>4 DEF LateOnesExcused, Planned, Dispatching, OtherApplies
<1>10. Manifest!CollectionsIntact'
  <2>1. lost' \subseteq excused'
    BY <1>1 DEF ManifestInv, Manifest!CollectionsIntact
  <2>2. ASSUME NEW c \in catalog', c \notin remote', c \notin excused' PROVE \E b \in Applies : Manifest!Pending(b, c)'
    <3>1. CASE c \in plan \cap Collections
      BY <1>3, <3>1 DEF Manifest!Pending
    <3>2. CASE c \in catalog
      <4>1. PICK b \in Applies : Manifest!Pending(b, c)
        BY <1>1, <2>2, <3>2 DEF ManifestInv, Manifest!CollectionsIntact
      <4>2. b # a
        BY <1>1, <4>1 DEF Manifest!Pending
      <4> QED BY <1>3, <4>1, <4>2 DEF Manifest!Pending, OtherApplies
    <3> QED BY <1>1, <1>6, <2>2, <3>1, <3>2
  <2> QED BY <2>1, <2>2 DEF Manifest!CollectionsIntact
<1> QED BY <1>3, <1>7, <1>8, <1>9, <1>10 DEF ManifestInv, ManifestTyped

\* A pending collection is created, or its creation fails, perhaps after the drop.
LEMMA DispatchStep ==
  ASSUME ManifestInv, NEW a \in Applies, NEW c \in Collections, Manifest!Dispatch(a, c) \/ Manifest!Degraded(a, c)
  PROVE  ManifestInv'
<1>1. /\ apply[a].pc = "dispatch" /\ c \in apply[a].plan /\ UNCHANGED <<tables, catalog, protected>>
      /\ filled' \subseteq filled /\ lost' \subseteq lost \cup ({c} \cap filled)
      /\ excused \subseteq excused' /\ (c \in remote' \/ c \in excused') /\ remote \ {c} \subseteq remote'
  BY DEF Manifest!Dispatch, Manifest!Degraded, Manifest!Pending
<1>2. apply[a] \in RunningType
  BY <1>1, ApplyFields DEF ManifestInv, ManifestTyped
<1>3. /\ apply' \in [Applies -> {Manifest!NoApply} \cup RunningType] /\ apply'[a].pc = "dispatch"
      /\ apply'[a].plan = apply[a].plan \ {c} /\ OtherApplies(a)
  BY <1>1, <1>2 DEF Manifest!Dispatch, Manifest!Degraded, ManifestInv, ManifestTyped, RunningType, OtherApplies
<1>4. PlansCover' /\ PoliciesFirst' /\ Manifest!NewTablesAreProtected'
  BY <1>1, <1>3 DEF ManifestInv, PlansCover, PoliciesFirst, Manifest!NewTablesAreProtected, Planned, OtherApplies
<1>5. LateOnesExcused'
  BY <1>1, <1>3 DEF ManifestInv, LateOnesExcused, Planned, Dispatching, OtherApplies
<1>6. Manifest!CollectionsIntact'
  <2>1. lost' \subseteq excused'
    <3>1. {c} \cap filled \subseteq excused
      BY <1>1 DEF ManifestInv, LateOnesExcused, Dispatching
    <3> QED BY <1>1, <3>1 DEF ManifestInv, Manifest!CollectionsIntact
  <2>2. ASSUME NEW d \in catalog', d \notin remote', d \notin excused' PROVE \E b \in Applies : Manifest!Pending(b, d)'
    <3>1. d # c /\ d \in catalog /\ d \notin remote /\ d \notin excused
      BY <1>1, <2>2
    <3>2. PICK b \in Applies : Manifest!Pending(b, d)
      BY <3>1 DEF ManifestInv, Manifest!CollectionsIntact
    <3> QED BY <1>1, <1>3, <3>1, <3>2 DEF Manifest!Pending, OtherApplies
  <2> QED BY <2>1, <2>2 DEF Manifest!CollectionsIntact
<1> QED BY <1>3, <1>4, <1>5, <1>6 DEF ManifestInv, ManifestTyped

\* An apply is over; what it still had to create is excused.
LEMMA ApplyEnds ==
  ASSUME ManifestInv, NEW a \in Applies, Manifest!Finish(a) \/ Manifest!Fails(a)
  PROVE  ManifestInv'
<1>1. /\ UNCHANGED <<tables, catalog, protected, remote, filled, lost>> /\ excused \subseteq excused'
      /\ apply[a].pc = "dispatch" => apply[a].plan \subseteq excused'
      /\ apply' = [apply EXCEPT ![a] = Manifest!NoApply]
  BY DEF Manifest!Finish, Manifest!Fails
<1>2. apply' \in [Applies -> {Manifest!NoApply} \cup RunningType] /\ apply'[a].pc = "idle" /\ OtherApplies(a)
  BY <1>1, ApplyFields DEF ManifestInv, ManifestTyped, OtherApplies
<1>3. PlansCover' /\ PoliciesFirst' /\ Manifest!NewTablesAreProtected'
  BY <1>1, <1>2 DEF ManifestInv, PlansCover, PoliciesFirst, Manifest!NewTablesAreProtected, Planned, OtherApplies
<1>4. LateOnesExcused'
  BY <1>1, <1>2 DEF ManifestInv, LateOnesExcused, Planned, Dispatching, OtherApplies
<1>5. Manifest!CollectionsIntact'
  BY <1>1, <1>2 DEF ManifestInv, Manifest!CollectionsIntact, Manifest!Pending, OtherApplies
<1> QED BY <1>2, <1>3, <1>4, <1>5 DEF ManifestInv, ManifestTyped

\* A document that comes before its collection is created is excused.
LEMMA InsertDocumentStep ==
  ASSUME ManifestInv, NEW c \in Collections, Manifest!InsertDocument(c)
  PROVE  ManifestInv'
<1>1. /\ c \in catalog /\ filled' = filled \cup {c} /\ remote' = remote \cup {c} /\ UNCHANGED <<tables, catalog, protected, apply, lost>>
      /\ excused \subseteq excused' /\ ((\E a \in Applies : Manifest!Pending(a, c)) => c \in excused')
  BY DEF Manifest!InsertDocument
<1>2. PlansCover' /\ PoliciesFirst' /\ Manifest!NewTablesAreProtected'
  BY <1>1 DEF ManifestInv, PlansCover, PoliciesFirst, Manifest!NewTablesAreProtected
<1>3. LateOnesExcused'
  BY <1>1 DEF ManifestInv, LateOnesExcused, Dispatching, Manifest!Pending
<1>4. Manifest!CollectionsIntact'
  BY <1>1 DEF ManifestInv, Manifest!CollectionsIntact, Manifest!Pending
<1> QED BY <1>1, <1>2, <1>3, <1>4 DEF ManifestInv, ManifestTyped

\* Applying manifests, however many overlap or fail and whatever tables bear one name,
\* never empties a collection or forgets to create one, save in the excused cases, a
\* lookup by name that found another table among them, and no table is ever open.
THEOREM AppliesAreAlwaysSafe == Spec => []AppliesAreSafe
<1> DEFINE I == service = "manifest" => ManifestInv
<1>1. Init => I
  BY ApplyFields DEF Init, Manifest!Init, ManifestInv, ManifestTyped, PlansCover, PoliciesFirst, LateOnesExcused, Planned,
     Dispatching, Manifest!CollectionsIntact, Manifest!NewTablesAreProtected
<1>2. I /\ [Next]_vars => I'
  <2> SUFFICES ASSUME ManifestInv, service = "manifest", [Next]_vars PROVE ManifestInv'
    BY Frame
  <2>1. [Manifest!Next]_manifestVars
    BY Frame
  <2>2. CASE UNCHANGED manifestVars
    BY <2>2 DEF manifestVars, ManifestInv, ManifestTyped, PlansCover, PoliciesFirst, LateOnesExcused, Planned, Dispatching,
       Manifest!CollectionsIntact, Manifest!NewTablesAreProtected, Manifest!Pending
  <2>3. CASE Manifest!Next
    BY <2>3, InsertDocumentStep, PlanStep, PersistStep, CommitStep, ApplyEnds, DispatchStep DEF Manifest!Next, Manifest!ApplyStep
  <2> QED BY <2>1, <2>2, <2>3
<1>3. I => AppliesAreSafe
  BY DEF ManifestInv, AppliesAreSafe
<1> QED BY <1>1, <1>2, <1>3, PTL DEF Spec

-----------------------------------------------------------------------------
(* Plan limits                                                               *)

Admitted == {c \in Creators : creator[c] = "admitted"}

\* Whoever is admitted counted less than the limit, and those admitted with him may
\* insert before he does.
LimitInv ==
    /\ used \in Nat /\ exempt \in Nat
    /\ creator \in [Creators -> {"idle", "admitted"}]
    /\ PlanLimit = -1 \/ used + Cardinality(Admitted) <= PlanLimit + Cardinality(Creators) - 1

\* The requests that are admitted can be counted.
LEMMA AdmittedCount ==
  /\ IsFiniteSet(Admitted) /\ Cardinality(Admitted) \in Nat
  /\ Cardinality(Admitted) <= Cardinality(Creators) /\ Cardinality(Creators) \in Nat \ {0}
<1>1. Admitted \subseteq Creators
  BY DEF Admitted
<1>2. IsFiniteSet(Admitted) /\ Cardinality(Admitted) <= Cardinality(Creators)
  BY <1>1, LimitAssumption, FS_Subset
<1>3. Cardinality(Creators) \in Nat /\ Cardinality(Admitted) \in Nat /\ Cardinality(Creators) # 0
  BY <1>2, LimitAssumption, FS_CardinalityType, FS_EmptySet
<1> QED BY <1>2, <1>3

\* A plan limit is passed by at most the other requests in flight.
THEOREM OvershootIsBounded == Spec => [](service = "limit" => Limit!OvershootBounded)
<1> DEFINE I == service = "limit" => LimitInv
<1>1. Init => I
  <2> SUFFICES ASSUME Init PROVE LimitInv
    OBVIOUS
  <2>1. used = 0 /\ exempt = 0 /\ creator \in [Creators -> {"idle", "admitted"}] /\ Admitted = {}
    BY DEF Init, Limit!LimitInit, Admitted
  <2>2. Cardinality(Admitted) = 0
    BY <2>1, FS_EmptySet
  <2> QED BY <2>1, <2>2, AdmittedCount, LimitAssumption DEF LimitInv
<1>2. I /\ [Next]_vars => I'
  <2> SUFFICES ASSUME LimitInv, service = "limit", [Next]_vars PROVE LimitInv'
    BY Frame
  <2>1. [Limit!LimitNext]_limitVars
    BY Frame
  <2>2. used \in Nat /\ exempt \in Nat /\ PlanLimit \in Int /\ Cardinality(Admitted) \in Nat /\ Cardinality(Creators) \in Nat
        /\ Cardinality(Admitted)' \in Nat
    <3>1. \A A \in SUBSET Creators : Cardinality(A) \in Nat
      BY LimitAssumption, FS_Subset, FS_CardinalityType
    <3>2. Admitted' \in SUBSET Creators
      BY DEF Admitted
    <3> QED BY <3>1, <3>2, AdmittedCount, LimitAssumption DEF LimitInv
  <2>3. CASE UNCHANGED limitVars
    BY <2>3 DEF limitVars, LimitInv, Admitted
  <2>4. CASE Limit!AdminInsert \/ Limit!Remove
    <3>1. used' \in Nat /\ exempt' \in Nat /\ used' <= used /\ creator' = creator
      BY <2>2, <2>4 DEF Limit!AdminInsert, Limit!Remove
    <3>2. Admitted' = Admitted
      BY <3>1 DEF Admitted
    <3> QED BY <2>2, <3>1, <3>2 DEF LimitInv
  <2>5. ASSUME NEW c \in Creators, Limit!Admit(c) PROVE LimitInv'
    <3>1. Limit!Within(used + exempt) /\ creator' \in [Creators -> {"idle", "admitted"}] /\ UNCHANGED <<used, exempt>>
      BY <2>5 DEF Limit!Admit, Limit!Count, LimitInv
    <3>2. PlanLimit = -1 \/ used <= PlanLimit - 1
      BY <2>2, <3>1 DEF Limit!Within
    <3>3. Admitted' \subseteq Creators
      BY DEF Admitted
    <3>4. Cardinality(Admitted') <= Cardinality(Creators)
      BY <3>3, LimitAssumption, FS_Subset
    <3> QED BY <2>2, <3>1, <3>2, <3>4 DEF LimitInv
  <2>6. ASSUME NEW c \in Creators, Limit!Insert(c) \/ Limit!GiveUp(c) PROVE LimitInv'
    <3>1. c \in Admitted /\ creator' = [creator EXCEPT ![c] = "idle"] /\ UNCHANGED exempt /\ (used' = used + 1 \/ used' = used)
      BY <2>6 DEF Limit!Insert, Limit!GiveUp, Admitted
    <3>2. Admitted' = Admitted \ {c} /\ creator' \in [Creators -> {"idle", "admitted"}]
      BY <3>1 DEF Admitted, LimitInv
    <3>3. Cardinality(Admitted') = Cardinality(Admitted) - 1
      BY <3>1, <3>2, AdmittedCount, FS_RemoveElement
    <3>4. used' \in Nat
      BY <2>2, <3>1
    <3> QED BY <2>2, <3>1, <3>2, <3>3, <3>4 DEF LimitInv
  <2> QED BY <2>1, <2>3, <2>4, <2>5, <2>6 DEF Limit!LimitNext
<1>3. I => (service = "limit" => Limit!OvershootBounded)
  <2> SUFFICES ASSUME LimitInv PROVE Limit!OvershootBounded
    OBVIOUS
  <2>1. used \in Nat /\ Cardinality(Admitted) \in Nat /\ PlanLimit \in Int /\ Cardinality(Creators) \in Nat
        /\ (PlanLimit = -1 \/ used + Cardinality(Admitted) <= PlanLimit + Cardinality(Creators) - 1)
    BY AdmittedCount, LimitAssumption DEF LimitInv
  <2>2. CASE used + Cardinality(Admitted) <= PlanLimit + Cardinality(Creators) - 1
    <3>1. used <= PlanLimit + Cardinality(Creators) - 1
      BY <2>1, <2>2
    <3> QED BY <3>1 DEF Limit!OvershootBounded, Limit!Cardinality, Cardinality
  <2>3. CASE PlanLimit = -1
    BY <2>3 DEF Limit!OvershootBounded
  <2> QED BY <2>1, <2>2, <2>3
<1> QED BY <1>1, <1>2, <1>3, PTL DEF Spec
=============================================================================

--------------------------- MODULE PlatformProofs ----------------------------
(* More proofs about the services: what is cached and for how long, and who   *)
(* is admitted.                                                               *)
EXTENDS ServicesProofs, FiniteSetTheorems, SequenceTheorems, TLAPS

-----------------------------------------------------------------------------
(* Licences and limits                                                       *)

VersionType == [at : Int, v : Nat]
ReaderType == [pc : {"idle", "licence", "limits"}, since : Int, v : Nat]

\* Version v was still current at some time not before t.
CurrentAt(v, t) == v \in 1 .. version /\ replacedAt[v] >= t

SettingsTyped ==
    /\ now \in 1 .. MaxNow /\ version \in 1 .. MaxVersion
    /\ replacedAt \in [1 .. MaxVersion -> Int]
    /\ licence \in VersionType /\ limits \in VersionType
    /\ reader \in [Readers -> ReaderType] /\ served \in [Readers -> VersionType]

\* The current version has not been replaced yet.
NotReplaced == \A v \in version .. MaxVersion : replacedAt[v] = MaxNow + 1

\* How long before an answer was stored or given its version may have been replaced:
\* what a licence is computed from, a licence that is served until it expires, and
\* the same again for the limits computed from it.
LicenceAge == (LicenceTtl - 1) + ComputeTime
LicenceDated == licence.v # 0 => licence.at <= now /\ CurrentAt(licence.v, licence.at - ComputeTime)
LimitsDated == limits.v # 0 => limits.at <= now /\ CurrentAt(limits.v, limits.at - LicenceAge - ComputeTime)
ReaderDated(r) ==
    /\ reader[r].pc # "idle" => reader[r].since <= now /\ now - reader[r].since <= ComputeTime
    /\ reader[r].pc = "licence" => CurrentAt(reader[r].v, reader[r].since)
    /\ reader[r].pc = "limits" => CurrentAt(reader[r].v, reader[r].since - LicenceAge)
ServedDated(r) ==
    IF served[r].v = 0 THEN served[r] = Settings!Empty
    ELSE served[r].at <= now /\ CurrentAt(served[r].v, served[r].at - LicenceAge - ComputeTime - (LimitsTtl - 1))
Ages == /\ LicenceDated /\ LimitsDated
        /\ \A r \in Readers : ReaderDated(r) /\ ServedDated(r)

SettingsInv == SettingsTyped /\ NotReplaced /\ Ages

\* The numbers the ages are made of.
LEMMA AgesAreNumbers == LicenceAge \in Nat /\ ComputeTime \in Nat /\ LimitsTtl - 1 \in Nat /\ LicenceTtl - 1 \in Nat
BY CacheAssumption DEF LicenceAge

\* The times and versions a state holds.
LEMMA SettingsFields ==
  ASSUME SettingsInv
  PROVE  /\ now \in Int /\ licence.at \in Int /\ limits.at \in Int /\ licence.v \in Nat /\ limits.v \in Nat
         /\ \A r \in Readers : /\ reader[r].since \in Int /\ reader[r].v \in Nat
                                /\ reader[r].pc \in {"idle", "licence", "limits"}
                                /\ served[r].at \in Int /\ served[r].v \in Nat
<1>1. \A r \in Readers : reader[r] \in ReaderType /\ served[r] \in VersionType
  BY DEF SettingsInv, SettingsTyped
<1> QED BY <1>1 DEF SettingsInv, SettingsTyped, VersionType, ReaderType

\* What was current stays so: a version is replaced now, which is not earlier.
LEMMA ReplacedNow ==
  ASSUME SettingsInv, NEW next, Settings!Write(next)
  PROVE  SettingsInv'
<1>1. /\ version < MaxVersion /\ version' = version + 1 /\ replacedAt' = [replacedAt EXCEPT ![version] = now]
      /\ UNCHANGED <<now, licence, limits, reader, served>>
  BY DEF Settings!Write
<1>2. ASSUME NEW v, NEW t \in Int, t <= now, CurrentAt(v, t) PROVE CurrentAt(v, t)'
  BY <1>1, <1>2 DEF CurrentAt, SettingsInv, SettingsTyped
<1>4. SettingsTyped'
  BY <1>1, CacheAssumption DEF SettingsInv, SettingsTyped
<1>5. NotReplaced'
  BY <1>1 DEF SettingsInv, SettingsTyped, NotReplaced
<1>6. LicenceDated' /\ LimitsDated'
  BY <1>1, <1>2, AgesAreNumbers, SettingsFields DEF SettingsInv, Ages, LicenceDated, LimitsDated, LicenceAge
<1>7. ASSUME NEW r \in Readers PROVE ReaderDated(r)' /\ ServedDated(r)'
  BY <1>1, <1>2, AgesAreNumbers, SettingsFields DEF SettingsInv, Ages, ReaderDated, ServedDated, LicenceAge, Settings!Empty
<1> QED BY <1>4, <1>5, <1>6, <1>7 DEF SettingsInv, Ages

\* Without a change of the version, what was current at a time was so at any earlier one.
LEMMA StillCurrent ==
  ASSUME SettingsInv, UNCHANGED <<version, replacedAt>>
  PROVE  /\ \A v, t : CurrentAt(v, t)' <=> CurrentAt(v, t)
         /\ \A v : \A t, u \in Int : u <= t /\ CurrentAt(v, t) => CurrentAt(v, u)
<1>1. \A v, t : CurrentAt(v, t)' <=> CurrentAt(v, t)
  BY DEF CurrentAt
<1>2. ASSUME NEW v, NEW t \in Int, NEW u \in Int, u <= t, CurrentAt(v, t) PROVE CurrentAt(v, u)
  <2>1. replacedAt[v] \in Int
    BY <1>2, CacheAssumption DEF SettingsInv, SettingsTyped, CurrentAt
  <2> QED BY <1>2, <2>1 DEF CurrentAt
<1> QED BY <1>1, <1>2

\* Time passes while every request in flight still has some.
LEMMA PassStep == ASSUME SettingsInv, Settings!Pass PROVE SettingsInv'
<1>1. /\ now' = now + 1 /\ now < MaxNow /\ UNCHANGED <<version, replacedAt, licence, limits, reader, served>>
      /\ \A r \in Readers : reader[r] # Settings!IdleReader => now - reader[r].since < ComputeTime
  BY DEF Settings!Pass
<1>2. SettingsTyped' /\ NotReplaced'
  BY <1>1, CacheAssumption DEF SettingsInv, SettingsTyped, NotReplaced
<1>3. \A v, t : CurrentAt(v, t)' <=> CurrentAt(v, t)
  BY <1>1, StillCurrent
<1>4. ASSUME NEW r \in Readers, reader[r].pc # "idle"
      PROVE  reader[r].since <= now + 1 /\ now + 1 - reader[r].since <= ComputeTime
  <2>1. reader[r] # Settings!IdleReader
    BY <1>4 DEF Settings!IdleReader
  <2> QED BY <1>1, <1>4, <2>1, SettingsFields, AgesAreNumbers DEF SettingsInv, Ages, ReaderDated
<1>5. LicenceDated' /\ LimitsDated'
  BY <1>1, <1>3, SettingsFields DEF SettingsInv, Ages, LicenceDated, LimitsDated, LicenceAge
<1>6. ASSUME NEW r \in Readers PROVE ReaderDated(r)' /\ ServedDated(r)'
  BY <1>1, <1>3, <1>4, SettingsFields DEF SettingsInv, Ages, ReaderDated, ServedDated, LicenceAge, Settings!Empty
<1> QED BY <1>2, <1>5, <1>6 DEF SettingsInv, Ages

\* An empty cache says nothing.
LEMMA ClearStep == ASSUME SettingsInv, Settings!ClearLicence \/ Settings!Invalidate PROVE SettingsInv'
<1>1. /\ UNCHANGED <<now, version, replacedAt, reader, served>>
      /\ licence' = licence \/ licence' = Settings!Empty
      /\ limits' = limits \/ limits' = Settings!Empty
  BY DEF Settings!ClearLicence, Settings!Invalidate
<1>2. Settings!Empty \in VersionType /\ Settings!Empty.v = 0
  BY DEF Settings!Empty, VersionType
<1>3. \A v, t : CurrentAt(v, t)' <=> CurrentAt(v, t)
  BY <1>1, StillCurrent
<1>4. LicenceDated' /\ LimitsDated'
  BY <1>1, <1>2, <1>3 DEF SettingsInv, Ages, LicenceDated, LimitsDated, LicenceAge
<1>5. ASSUME NEW r \in Readers PROVE ReaderDated(r)' /\ ServedDated(r)'
  BY <1>1, <1>3 DEF SettingsInv, Ages, ReaderDated, ServedDated, LicenceAge, Settings!Empty
<1> QED BY <1>1, <1>2, <1>4, <1>5 DEF SettingsInv, SettingsTyped, NotReplaced, Ages

\* Limits that have not expired are served.
LEMMA HitStep == ASSUME SettingsInv, NEW r \in Readers, Settings!Hit(r) PROVE SettingsInv'
<1>1. /\ limits.v # 0 /\ now - limits.at < LimitsTtl
      /\ served' = [served EXCEPT ![r] = [at |-> now, v |-> limits.v]]
      /\ UNCHANGED <<now, version, replacedAt, licence, limits, reader>>
  BY DEF Settings!Hit, Settings!Fresh
<1>2. \A v, t : CurrentAt(v, t)' <=> CurrentAt(v, t)
  BY <1>1, StillCurrent
<1>3. CurrentAt(limits.v, now - LicenceAge - ComputeTime - (LimitsTtl - 1))
  <2> DEFINE t == limits.at - LicenceAge - ComputeTime
             u == now - LicenceAge - ComputeTime - (LimitsTtl - 1)
  <2>1. t \in Int /\ u \in Int /\ u <= t
    BY <1>1, AgesAreNumbers, SettingsFields, CacheAssumption
  <2>2. CurrentAt(limits.v, t)
    BY <1>1 DEF SettingsInv, Ages, LimitsDated
  <2> HIDE DEF t, u
  <2>3. CurrentAt(limits.v, u)
    BY <1>1, <2>1, <2>2, StillCurrent
  <2> QED BY <2>3 DEF u
<1>4. /\ served' \in [Readers -> VersionType] /\ served'[r] = [at |-> now, v |-> limits.v]
      /\ \A s \in Readers \ {r} : served'[s] = served[s]
  BY <1>1, SettingsFields DEF SettingsInv, SettingsTyped, VersionType
<1>5. ServedDated(r)'
  <2>1. served'[r].at = now /\ served'[r].v = limits.v /\ now' = now /\ LicenceAge' = LicenceAge
    BY <1>1, <1>4 DEF LicenceAge
  <2> QED BY <1>1, <1>2, <1>3, <2>1, SettingsFields DEF ServedDated
<1>6. ASSUME NEW s \in Readers PROVE ReaderDated(s)' /\ ServedDated(s)'
  BY <1>1, <1>2, <1>4, <1>5 DEF SettingsInv, Ages, ReaderDated, ServedDated, LicenceAge, Settings!Empty
<1>7. LicenceDated' /\ LimitsDated'
  BY <1>1, <1>2 DEF SettingsInv, Ages, LicenceDated, LimitsDated, LicenceAge
<1> QED BY <1>1, <1>4, <1>6, <1>7 DEF SettingsInv, SettingsTyped, NotReplaced, Ages

\* A request that misses starts from a licence that has not expired, or from what the
\* database holds now.
LEMMA MissStep == ASSUME SettingsInv, NEW r \in Readers, Settings!Miss(r) PROVE SettingsInv'
<1>1. /\ reader' = [reader EXCEPT ![r] =
               IF Settings!Fresh(licence, LicenceTtl) THEN [pc |-> "limits", since |-> now, v |-> licence.v]
               ELSE [pc |-> "licence", since |-> now, v |-> version]]
      /\ UNCHANGED <<now, version, replacedAt, licence, limits, served>>
  BY DEF Settings!Miss
<1>2. \A v, t : CurrentAt(v, t)' <=> CurrentAt(v, t)
  BY <1>1, StillCurrent
<1>3. /\ reader' \in [Readers -> ReaderType]
      /\ \A s \in Readers \ {r} : reader'[s] = reader[s]
      /\ IF Settings!Fresh(licence, LicenceTtl) THEN reader'[r] = [pc |-> "limits", since |-> now, v |-> licence.v]
         ELSE reader'[r] = [pc |-> "licence", since |-> now, v |-> version]
  BY <1>1, SettingsFields DEF SettingsInv, SettingsTyped, ReaderType
<1>4. ReaderDated(r)'
  <2>1. CASE Settings!Fresh(licence, LicenceTtl)
    <3> DEFINE t == licence.at - ComputeTime
               u == now - LicenceAge
    <3>1. t \in Int /\ u \in Int /\ u <= t
      BY <2>1, AgesAreNumbers, SettingsFields, CacheAssumption DEF Settings!Fresh, LicenceAge
    <3>2. CurrentAt(licence.v, t)
      BY <2>1 DEF Settings!Fresh, SettingsInv, Ages, LicenceDated
    <3> HIDE DEF t, u
    <3>3. CurrentAt(licence.v, u)
      BY <1>1, <3>1, <3>2, StillCurrent
    <3>4. reader'[r].pc = "limits" /\ reader'[r].since = now /\ reader'[r].v = licence.v /\ LicenceAge' = LicenceAge
      BY <1>3, <2>1 DEF LicenceAge
    <3> QED BY <1>1, <1>2, <3>3, <3>4, SettingsFields, AgesAreNumbers DEF ReaderDated, u
  <2>2. CASE ~Settings!Fresh(licence, LicenceTtl)
    <3>1. reader'[r].pc = "licence" /\ reader'[r].since = now /\ reader'[r].v = version
      BY <1>3, <2>2
    <3>2. CurrentAt(version, now)
      BY CacheAssumption DEF SettingsInv, SettingsTyped, NotReplaced, CurrentAt
    <3> QED BY <1>1, <1>2, <3>1, <3>2, SettingsFields, AgesAreNumbers DEF ReaderDated
  <2> QED BY <2>1, <2>2
<1>5. ASSUME NEW s \in Readers PROVE ReaderDated(s)' /\ ServedDated(s)'
  BY <1>1, <1>2, <1>3, <1>4 DEF SettingsInv, Ages, ReaderDated, ServedDated, LicenceAge, Settings!Empty
<1>6. LicenceDated' /\ LimitsDated'
  BY <1>1, <1>2 DEF SettingsInv, Ages, LicenceDated, LimitsDated, LicenceAge
<1> QED BY <1>1, <1>3, <1>5, <1>6 DEF SettingsInv, SettingsTyped, NotReplaced, Ages

\* A computed licence is as old as its request.
LEMMA StoreLicenceStep == ASSUME SettingsInv, NEW r \in Readers, Settings!StoreLicence(r) PROVE SettingsInv'
<1>1. /\ reader[r].pc = "licence" /\ licence' = [at |-> now, v |-> reader[r].v]
      /\ reader' = [reader EXCEPT ![r].pc = "limits"]
      /\ UNCHANGED <<now, version, replacedAt, limits, served>>
  BY DEF Settings!StoreLicence
<1>2. \A v, t : CurrentAt(v, t)' <=> CurrentAt(v, t)
  BY <1>1, StillCurrent
<1>3. /\ reader' \in [Readers -> ReaderType] /\ licence' \in VersionType
      /\ \A s \in Readers \ {r} : reader'[s] = reader[s]
      /\ reader'[r].pc = "limits" /\ reader'[r].since = reader[r].since /\ reader'[r].v = reader[r].v
  <2>1. reader[r] \in ReaderType /\ now \in Int
    BY DEF SettingsInv, SettingsTyped
  <2> QED BY <1>1, <2>1 DEF SettingsInv, SettingsTyped, ReaderType, VersionType
<1>4. /\ CurrentAt(reader[r].v, reader[r].since) /\ reader[r].since <= now /\ now - reader[r].since <= ComputeTime
  BY <1>1 DEF SettingsInv, Ages, ReaderDated
<1>5. CurrentAt(reader[r].v, reader[r].since - LicenceAge) /\ CurrentAt(reader[r].v, now - ComputeTime)
  <2>1. /\ reader[r].since - LicenceAge \in Int /\ reader[r].since - LicenceAge <= reader[r].since
        /\ now - ComputeTime \in Int /\ now - ComputeTime <= reader[r].since /\ reader[r].since \in Int
    BY <1>4, AgesAreNumbers, SettingsFields
  <2> QED BY <1>1, <1>4, <2>1, StillCurrent
<1>6. ReaderDated(r)'
  <2>1. LicenceAge' = LicenceAge
    BY DEF LicenceAge
  <2> QED BY <1>1, <1>2, <1>3, <1>4, <1>5, <2>1 DEF ReaderDated
<1>7. LicenceDated' /\ LimitsDated'
  <2>1. licence'.at = now /\ licence'.v = reader[r].v
    BY <1>1
  <2> QED BY <1>1, <1>2, <1>5, <2>1, SettingsFields DEF SettingsInv, Ages, LicenceDated, LimitsDated, LicenceAge
<1>8. ASSUME NEW s \in Readers PROVE ReaderDated(s)' /\ ServedDated(s)'
  BY <1>1, <1>2, <1>3, <1>6 DEF SettingsInv, Ages, ReaderDated, ServedDated, LicenceAge, Settings!Empty
<1> QED BY <1>1, <1>3, <1>7, <1>8 DEF SettingsInv, SettingsTyped, NotReplaced, Ages

\* Computed limits are as old as the licence they were computed from, and more.
LEMMA StoreLimitsStep == ASSUME SettingsInv, NEW r \in Readers, Settings!StoreLimits(r) PROVE SettingsInv'
<1>1. /\ reader[r].pc = "limits" /\ limits' = [at |-> now, v |-> reader[r].v]
      /\ served' = [served EXCEPT ![r] = [at |-> now, v |-> reader[r].v]]
      /\ reader' = [reader EXCEPT ![r] = Settings!IdleReader]
      /\ UNCHANGED <<now, version, replacedAt, licence>>
  BY DEF Settings!StoreLimits
<1>2. \A v, t : CurrentAt(v, t)' <=> CurrentAt(v, t)
  BY <1>1, StillCurrent
<1>3. /\ reader' \in [Readers -> ReaderType] /\ limits' \in VersionType /\ served' \in [Readers -> VersionType]
      /\ \A s \in Readers \ {r} : reader'[s] = reader[s] /\ served'[s] = served[s]
      /\ reader'[r].pc = "idle" /\ served'[r].at = now /\ served'[r].v = reader[r].v
  <2>1. reader[r].v \in Nat /\ now \in Int /\ Settings!IdleReader \in ReaderType /\ Settings!IdleReader.pc = "idle"
    BY SettingsFields DEF Settings!IdleReader, ReaderType
  <2> QED BY <1>1, <2>1 DEF SettingsInv, SettingsTyped, VersionType
<1>4. /\ CurrentAt(reader[r].v, reader[r].since - LicenceAge)
      /\ reader[r].since <= now /\ now - reader[r].since <= ComputeTime
  BY <1>1 DEF SettingsInv, Ages, ReaderDated
<1>5. /\ CurrentAt(reader[r].v, now - LicenceAge - ComputeTime)
      /\ CurrentAt(reader[r].v, now - LicenceAge - ComputeTime - (LimitsTtl - 1))
  <2> DEFINE t == reader[r].since - LicenceAge
             u == now - LicenceAge - ComputeTime
             w == now - LicenceAge - ComputeTime - (LimitsTtl - 1)
  <2>1. t \in Int /\ u \in Int /\ w \in Int /\ u <= t /\ w <= t
    BY <1>4, AgesAreNumbers, SettingsFields
  <2> HIDE DEF t, u, w
  <2>2. CurrentAt(reader[r].v, t)
    BY <1>4 DEF t
  <2>3. CurrentAt(reader[r].v, u) /\ CurrentAt(reader[r].v, w)
    BY <1>1, <2>1, <2>2, StillCurrent
  <2> QED BY <2>3 DEF u, w
<1>6. ReaderDated(r)' /\ ServedDated(r)'
  <2>1. LicenceAge' = LicenceAge /\ reader[r].v # 0 /\ now' = now
    BY <1>1, <1>4 DEF LicenceAge, CurrentAt, SettingsInv, SettingsTyped
  <2> QED BY <1>2, <1>3, <1>5, <2>1, SettingsFields DEF ReaderDated, ServedDated
<1>7. LicenceDated' /\ LimitsDated'
  <2>1. limits'.at = now /\ limits'.v = reader[r].v
    BY <1>1
  <2> QED BY <1>1, <1>2, <1>5, <2>1, SettingsFields DEF SettingsInv, Ages, LicenceDated, LimitsDated, LicenceAge
<1>8. ASSUME NEW s \in Readers PROVE ReaderDated(s)' /\ ServedDated(s)'
  BY <1>1, <1>2, <1>3, <1>6 DEF SettingsInv, Ages, ReaderDated, ServedDated, LicenceAge, Settings!Empty
<1> QED BY <1>1, <1>3, <1>7, <1>8 DEF SettingsInv, SettingsTyped, NotReplaced, Ages

\* Replaced limits are enforced for a bounded time.
LEMMA SettingsAreBounded == Spec => [](service = "settings" => Settings!StaleBounded)
<1> DEFINE I == service = "settings" => SettingsInv
<1>1. Init => I
  <2> SUFFICES ASSUME Init PROVE SettingsInv
    OBVIOUS
  <2>1. /\ now = 1 /\ version = 1 /\ replacedAt = [v \in 1 .. MaxVersion |-> MaxNow + 1]
        /\ licence = Settings!Empty /\ limits = Settings!Empty
        /\ reader = [r \in Readers |-> Settings!IdleReader] /\ served = [r \in Readers |-> Settings!Empty]
    BY DEF Init, Settings!Init
  <2>2. Settings!Empty \in VersionType /\ Settings!IdleReader \in ReaderType
        /\ Settings!Empty.v = 0 /\ Settings!IdleReader.pc = "idle"
    BY DEF Settings!Empty, Settings!IdleReader, VersionType, ReaderType
  <2>3. SettingsTyped /\ NotReplaced
    BY <2>1, <2>2, CacheAssumption DEF SettingsTyped, NotReplaced
  <2>4. LicenceDated /\ LimitsDated
    BY <2>1, <2>2 DEF LicenceDated, LimitsDated
  <2>5. \A r \in Readers : ReaderDated(r) /\ ServedDated(r)
    BY <2>1, <2>2 DEF ReaderDated, ServedDated
  <2> QED BY <2>3, <2>4, <2>5 DEF SettingsInv, Ages
<1>2. I /\ [Next]_vars => I'
  <2> SUFFICES ASSUME SettingsInv, service = "settings", [Next]_vars PROVE SettingsInv'
    BY Frame
  <2>1. [Settings!Next]_settingsVars
    BY Frame
  <2>2. CASE UNCHANGED settingsVars
    BY <2>2 DEF settingsVars, SettingsInv, SettingsTyped, NotReplaced, Ages, LicenceDated, LimitsDated, ReaderDated,
       ServedDated, CurrentAt, LicenceAge, Settings!Empty
  <2>3. CASE Settings!Pass
    BY <2>3, PassStep
  <2>4. CASE Settings!ChangeElsewhere \/ Settings!ChangeHere
    BY <2>4, ReplacedNow DEF Settings!ChangeElsewhere, Settings!ChangeHere
  <2>5. CASE Settings!ClearLicence \/ Settings!Invalidate
    BY <2>5, ClearStep
  <2>6. ASSUME NEW r \in Readers, Settings!Hit(r) \/ Settings!Miss(r) \/ Settings!StoreLicence(r) \/ Settings!StoreLimits(r)
        PROVE  SettingsInv'
    BY <2>6, HitStep, MissStep, StoreLicenceStep, StoreLimitsStep
  <2> QED BY <2>1, <2>2, <2>3, <2>4, <2>5, <2>6 DEF Settings!Next
<1>3. I => (service = "settings" => Settings!StaleBounded)
  <2> SUFFICES ASSUME SettingsInv, NEW r \in Readers, served[r] # Settings!Empty
               PROVE  served[r].at - replacedAt[served[r].v] <= (LicenceTtl - 1) + (LimitsTtl - 1) + 2 * ComputeTime
    BY DEF Settings!StaleBounded
  <2>1. CurrentAt(served[r].v, served[r].at - LicenceAge - ComputeTime - (LimitsTtl - 1))
    BY DEF SettingsInv, Ages, ServedDated
  <2>2. replacedAt[served[r].v] \in Int
    BY <2>1, CacheAssumption DEF CurrentAt, SettingsInv, SettingsTyped
  <2> QED BY <2>1, <2>2, SettingsFields, AgesAreNumbers DEF CurrentAt, LicenceAge
<1> QED BY <1>1, <1>2, <1>3, PTL DEF Spec

-----------------------------------------------------------------------------
(* Cached catalog reads                                                      *)

Fates == {"none", "pending", "left", "cleared", "unconnected", "died"}
LookupType == [pc : {"idle", "computed"}, on : Servers, v : Nat]
ChangeType == [pc : {"idle", "committed", "listed"}, on : Servers, v : Nat]
CacheTyped ==
    /\ stock \in 1 .. MaxStock /\ fate \in [1 .. MaxStock -> Fates]
    /\ entry \in [v : Nat, late : BOOLEAN]
    /\ lookup \in [Lookups -> LookupType] /\ change \in [Changes -> ChangeType]

\* What was read or is being cleared is a version that was committed.
LookupPast(l) == lookup[l].pc = "computed" => lookup[l].v \in 1 .. stock
ChangePast(c) == change[c].pc # "idle" => change[c].v \in 1 .. stock
VersionsPast ==
    /\ entry.v <= stock
    /\ \A l \in Lookups : LookupPast(l)
    /\ \A c \in Changes : ChangePast(c)
CacheInv == CacheTyped /\ VersionsPast /\ Cached!StaleIsExcused

\* The parts of a request.
LEMMA CacheFields ==
  ASSUME CacheInv
  PROVE  /\ stock \in Nat /\ stock \in 1 .. MaxStock /\ MaxStock \in Nat /\ entry.v \in Nat /\ entry.v <= stock
         /\ \A l \in Lookups : lookup[l].on \in Servers /\ lookup[l].v \in Nat
         /\ \A c \in Changes : change[c].on \in Servers /\ change[c].v \in Nat /\ ChangePast(c)
<1>1. /\ \A l \in Lookups : lookup[l] \in LookupType
      /\ \A c \in Changes : change[c] \in ChangeType
  BY DEF CacheInv, CacheTyped
<1> QED BY <1>1, CacheAssumption DEF CacheInv, CacheTyped, VersionsPast, LookupType, ChangeType

\* A new version has not cleared the cache, so whatever is cached is excused by it.
LEMMA CommitChange ==
  ASSUME CacheInv, NEW c \in Changes, NEW next \in {"idle", "committed"}, NEW outcome \in {"pending", "left"},
         Cached!Commit(c, next, outcome)
  PROVE  CacheInv'
<1>1. /\ stock < MaxStock /\ stock' = stock + 1
      /\ change' = [change EXCEPT ![c] = [pc |-> next, on |-> change[c].on, v |-> IF next = "idle" THEN 0 ELSE stock + 1]]
      /\ fate' = [fate EXCEPT ![stock + 1] = outcome] /\ UNCHANGED <<entry, connected, lookup>>
  BY DEF Cached!Commit
<1>2. stock + 1 \in 1 .. MaxStock
  BY <1>1, CacheFields
<1>3. /\ change' \in [Changes -> ChangeType] /\ fate' \in [1 .. MaxStock -> Fates]
      /\ change'[c] = [pc |-> next, on |-> change[c].on, v |-> IF next = "idle" THEN 0 ELSE stock + 1]
      /\ \A d \in Changes \ {c} : change'[d] = change[d]
  BY <1>1, <1>2, CacheFields DEF CacheInv, CacheTyped, ChangeType, Fates
<1>4. ASSUME NEW d \in Changes PROVE ChangePast(d)'
  BY <1>1, <1>3, CacheFields DEF CacheInv, VersionsPast, ChangePast
<1>5. ASSUME NEW l \in Lookups PROVE LookupPast(l)'
  BY <1>1, CacheFields DEF CacheInv, VersionsPast, LookupPast
<1>6. Cached!StaleIsExcused'
  <2>1. fate'[stock'] # "cleared" /\ stock' \in entry.v + 1 .. stock'
    BY <1>1, <1>2, CacheFields DEF CacheInv, CacheTyped
  <2> QED BY <1>1, <2>1 DEF Cached!StaleIsExcused
<1> QED BY <1>1, <1>2, <1>3, <1>4, <1>5, <1>6, CacheFields DEF CacheInv, CacheTyped, VersionsPast

\* A read takes what the catalog holds.
LEMMA MissCacheStep == ASSUME CacheInv, NEW l \in Lookups, Cached!Miss(l) PROVE CacheInv'
<1>1. /\ lookup' = [lookup EXCEPT ![l] = [pc |-> "computed", on |-> lookup[l].on, v |-> stock]]
      /\ UNCHANGED <<stock, fate, entry, connected, change>>
  BY DEF Cached!Miss
<1>2. /\ lookup' \in [Lookups -> LookupType] /\ lookup'[l].v = stock
      /\ \A m \in Lookups \ {l} : lookup'[m] = lookup[m]
  BY <1>1, CacheFields DEF CacheInv, CacheTyped, LookupType
<1>3. \A m \in Lookups : LookupPast(m)'
  BY <1>1, <1>2, CacheFields DEF CacheInv, VersionsPast, LookupPast
<1> QED BY <1>1, <1>2, <1>3 DEF CacheInv, CacheTyped, VersionsPast, ChangePast, Cached!StaleIsExcused

\* What a read stores overlapped the changes that have cleared the cache since.
LEMMA CacheSetStep == ASSUME CacheInv, NEW l \in Lookups, Cached!CacheSet(l) PROVE CacheInv'
<1>1. /\ lookup[l].pc = "computed" /\ lookup' = [lookup EXCEPT ![l] = Cached!Idle(lookup[l].on)]
      /\ UNCHANGED <<stock, fate, connected, change>>
      /\ entry' = entry \/ entry' = [v |-> lookup[l].v, late |-> Cached!Cleared(lookup[l].v) # {}]
  BY DEF Cached!CacheSet
<1>2. /\ lookup' \in [Lookups -> LookupType] /\ lookup'[l].pc = "idle"
      /\ \A m \in Lookups \ {l} : lookup'[m] = lookup[m]
  BY <1>1, CacheFields DEF CacheInv, CacheTyped, LookupType, Cached!Idle
<1>3. \A m \in Lookups : LookupPast(m)'
  BY <1>1, <1>2, CacheFields DEF CacheInv, VersionsPast, LookupPast
<1>4. CASE entry' = entry
  BY <1>1, <1>2, <1>3, <1>4 DEF CacheInv, CacheTyped, VersionsPast, ChangePast, Cached!StaleIsExcused
<1>5. CASE entry' = [v |-> lookup[l].v, late |-> Cached!Cleared(lookup[l].v) # {}]
  <2>1. lookup[l].v \in 1 .. stock
    BY <1>1 DEF CacheInv, VersionsPast, LookupPast
  <2>2. entry' \in [v : Nat, late : BOOLEAN] /\ entry'.v = lookup[l].v /\ entry'.v <= stock
        /\ (entry'.late <=> Cached!Cleared(lookup[l].v) # {})
    <3> DEFINE crossing == Cached!Cleared(lookup[l].v) # {}
    <3>1. crossing \in BOOLEAN /\ entry' = [v |-> lookup[l].v, late |-> crossing]
      BY <1>5
    <3>2. lookup[l].v \in Nat /\ lookup[l].v <= stock
      BY <2>1, CacheFields
    <3> HIDE DEF crossing
    <3>3. entry' \in [v : Nat, late : BOOLEAN] /\ entry'.v = lookup[l].v /\ (entry'.late <=> crossing)
      BY <3>1, <3>2
    <3> QED BY <3>2, <3>3 DEF crossing
  <2>3. Cached!StaleIsExcused'
    <3>1. SUFFICES ASSUME lookup[l].v \in 1 .. stock - 1, Cached!Cleared(lookup[l].v) = {}
          PROVE \E v \in lookup[l].v + 1 .. stock : fate[v] # "cleared"
      BY <1>1, <2>2 DEF Cached!StaleIsExcused
    <3>2. stock \in lookup[l].v + 1 .. stock
      BY <3>1, CacheFields
    <3> QED BY <3>1, <3>2 DEF Cached!Cleared
  <2> QED BY <1>1, <1>2, <1>3, <2>2, <2>3 DEF CacheInv, CacheTyped, VersionsPast, ChangePast
<1> QED BY <1>1, <1>4, <1>5

\* A change is through with the cache: it is empty then, or was left alone.
LEMMA ClearCacheStep ==
  ASSUME CacheInv, NEW c \in Changes, NEW value \in {"cleared", "unconnected", "died"}, Cached!Clear(c, value),
         change[c].pc # "idle", UNCHANGED <<stock, lookup>>,
         entry' = Cached!Absent \/ (entry' = entry /\ (value # "cleared" \/ entry = Cached!Absent))
  PROVE  CacheInv'
<1>1. /\ change' = [change EXCEPT ![c] = Cached!Idle(change[c].on)] /\ fate' = [fate EXCEPT ![change[c].v] = value]
      /\ change[c].v \in 1 .. stock
  BY CacheFields DEF Cached!Clear, ChangePast
<1>2. /\ change' \in [Changes -> ChangeType] /\ change'[c].pc = "idle"
      /\ \A d \in Changes \ {c} : change'[d] = change[d]
  BY <1>1, CacheFields DEF CacheInv, CacheTyped, ChangeType, Cached!Idle
<1>3. \A d \in Changes : ChangePast(d)'
  BY <1>1, <1>2, CacheFields DEF CacheInv, VersionsPast, ChangePast
<1>4. /\ fate' \in [1 .. MaxStock -> Fates]
      /\ \A v \in 1 .. stock : fate'[v] = IF v = change[c].v THEN value ELSE fate[v]
  BY <1>1, CacheFields DEF CacheInv, CacheTyped, Fates
<1>5. Cached!Absent \in [v : Nat, late : BOOLEAN] /\ Cached!Absent.v = 0
  BY DEF Cached!Absent
<1>6. Cached!StaleIsExcused'
  <2>1. CASE entry' = Cached!Absent
    BY <1>5, <2>1, CacheFields DEF Cached!StaleIsExcused
  <2>2. CASE entry' = entry /\ value # "cleared"
    BY <1>4, <2>2, CacheFields DEF CacheInv, Cached!StaleIsExcused
  <2> QED BY <2>1, <2>2
<1> QED BY <1>2, <1>3, <1>4, <1>5, <1>6, CacheFields DEF CacheInv, CacheTyped, VersionsPast, LookupPast

\* Cached catalog reads are stale only for the reasons named.
LEMMA CachedReadsAreExcused == Spec => [](service = "cache" => Cached!StaleIsExcused)
<1> DEFINE I == service = "cache" => CacheInv
<1>1. Init => I
  <2> SUFFICES ASSUME Init PROVE CacheInv
    OBVIOUS
  <2>1. /\ stock = 1 /\ fate = [v \in 1 .. MaxStock |-> "none"] /\ entry = [v |-> 0, late |-> FALSE]
        /\ lookup \in [Lookups -> {Cached!Idle(p) : p \in Servers}]
        /\ change \in [Changes -> {Cached!Idle(p) : p \in Servers}]
    BY DEF Init, Cached!Init, Cached!Absent
  <2>2. \A p \in Servers : Cached!Idle(p) \in LookupType /\ Cached!Idle(p) \in ChangeType /\ Cached!Idle(p).pc = "idle"
    BY DEF Cached!Idle, LookupType, ChangeType
  <2>3. /\ lookup \in [Lookups -> LookupType] /\ \A l \in Lookups : lookup[l].pc = "idle"
        /\ change \in [Changes -> ChangeType] /\ \A c \in Changes : change[c].pc = "idle"
    BY <2>1, <2>2
  <2> QED BY <2>1, <2>3, CacheAssumption
          DEF CacheInv, CacheTyped, Fates, VersionsPast, LookupPast, ChangePast, Cached!StaleIsExcused
<1>2. I /\ [Next]_vars => I'
  <2> SUFFICES ASSUME CacheInv, service = "cache", [Next]_vars PROVE CacheInv'
    BY Frame
  <2>1. [Cached!Next]_cacheVars
    BY Frame
  <2>2. CASE UNCHANGED <<stock, fate, entry, lookup, change>>
    BY <2>2 DEF CacheInv, CacheTyped, VersionsPast, LookupPast, ChangePast, Cached!StaleIsExcused
  <2>3. CASE Cached!Expire
    <3>1. entry' = [v |-> 0, late |-> FALSE] /\ UNCHANGED <<stock, fate, lookup, change>>
      BY <2>3 DEF Cached!Expire, Cached!Absent
    <3> QED BY <3>1, CacheFields DEF CacheInv, CacheTyped, VersionsPast, LookupPast, ChangePast, Cached!StaleIsExcused
  <2>4. ASSUME NEW p \in Servers, Cached!Disconnect(p) PROVE CacheInv'
    BY <2>2, <2>4 DEF Cached!Disconnect
  <2>5. ASSUME NEW l \in Lookups, Cached!Hit(l) \/ Cached!Miss(l) \/ Cached!CacheSet(l) PROVE CacheInv'
    BY <2>2, <2>5, MissCacheStep, CacheSetStep DEF Cached!Hit, Cached!vars
  <2>6. ASSUME NEW c \in Changes,
               \/ Cached!CrawlTenant(c) \/ Cached!ApplyMetadata(c) \/ Cached!ChangeConnection(c)
               \/ Cached!RemoveConnection(c) \/ Cached!FinishCopyJob(c)
               \/ Cached!RollbackMetadata(c) \/ Cached!MigrateMetadata(c) \/ Cached!ToggleDownstream(c)
        PROVE  CacheInv'
    BY <2>6, CommitChange DEF Cached!CrawlTenant, Cached!ApplyMetadata, Cached!ChangeConnection, Cached!RemoveConnection,
       Cached!FinishCopyJob, Cached!RollbackMetadata, Cached!MigrateMetadata, Cached!ToggleDownstream
  <2>7. ASSUME NEW c \in Changes, Cached!ListKeys(c) PROVE CacheInv'
    <3>1. /\ change[c].pc = "committed" /\ UNCHANGED <<stock, entry, connected, lookup>>
          /\ \/ Cached!Clear(c, "unconnected")
             \/ entry = Cached!Absent /\ Cached!Clear(c, "cleared")
             \/ change' = [change EXCEPT ![c] = [change[c] EXCEPT !.pc = "listed"]] /\ UNCHANGED fate
      BY <2>7 DEF Cached!ListKeys
    <3>2. CASE Cached!Clear(c, "unconnected") \/ (entry = Cached!Absent /\ Cached!Clear(c, "cleared"))
      BY <3>1, <3>2, ClearCacheStep
    <3>3. CASE change' = [change EXCEPT ![c] = [change[c] EXCEPT !.pc = "listed"]] /\ UNCHANGED fate
      <4>1. /\ change' \in [Changes -> ChangeType] /\ change'[c].v = change[c].v
            /\ \A d \in Changes \ {c} : change'[d] = change[d]
        BY <3>3 DEF CacheInv, CacheTyped, ChangeType
      <4>2. \A d \in Changes : ChangePast(d)'
        BY <3>1, <4>1, CacheFields DEF CacheInv, VersionsPast, ChangePast
      <4> QED BY <3>1, <3>3, <4>1, <4>2 DEF CacheInv, CacheTyped, VersionsPast, LookupPast, Cached!StaleIsExcused
    <3> QED BY <3>1, <3>2, <3>3
  <2>8. ASSUME NEW c \in Changes, Cached!DeleteKeys(c) PROVE CacheInv'
    <3>1. /\ change[c].pc = "listed" /\ UNCHANGED <<stock, connected, lookup>>
          /\ \/ entry' = Cached!Absent /\ Cached!Clear(c, "cleared")
             \/ entry' = entry /\ Cached!Clear(c, "unconnected")
      BY <2>8 DEF Cached!DeleteKeys
    <3> QED BY <3>1, ClearCacheStep
  <2>9. ASSUME NEW c \in Changes, Cached!Die(c) PROVE CacheInv'
    BY <2>9, ClearCacheStep DEF Cached!Die
  <2> QED BY <2>1, <2>2, <2>3, <2>4, <2>5, <2>6, <2>7, <2>8, <2>9 DEF Cached!Next, cacheVars
<1>3. I => (service = "cache" => Cached!StaleIsExcused)
  BY DEF CacheInv
<1> QED BY <1>1, <1>2, <1>3, PTL DEF Spec

-----------------------------------------------------------------------------
(* The licence key and the portal                                            *)

Statuses == {"valid", "invalid", "grace_period"}
LicenceTyped ==
    /\ day \in Nat /\ heard \in 0 .. day
    /\ key \in Daemons!Keys \cup {"none"} /\ check \in Daemons!Keys \cup {"none"}
    /\ daemon \in [status : Statuses, last : {Daemons!Never} \cup 0 .. day]
    /\ stored \in Statuses \cup {"none"}
    /\ checked \in BOOLEAN /\ forgot \in BOOLEAN /\ crossed \in BOOLEAN

\* A process that has not restarted since it last heard of the portal counts from that
\* day, any other from an earlier one.
CountsFromHeard ==
    /\ Daemons!BaseDay(daemon.last) <= heard
    /\ ~ forgot => Daemons!BaseDay(daemon.last) = heard

\* What a stored status says of the installed key, once it is of this key.
RevokedFor == stored = "invalid" /\ ~ crossed /\ ~ forgot /\ Daemons!Callback(key) /\ Daemons!VerifyLicense(key) =>
                  key \in rejected \/ day - heard > GraceDays
GoodFor == stored \in {"valid", "grace_period"} /\ ~ crossed /\ checked /\ Daemons!Callback(key) /\ Daemons!VerifyLicense(key) =>
               /\ day - heard <= GraceDays
               /\ key \in rejected => stored = "grace_period"
LicenceInv == LicenceTyped /\ CountsFromHeard /\ RevokedFor /\ GoodFor

\* The two branches of a check that need no answer of the portal: the key is good by
\* its signature alone, or it is not good.
LEMMA StartCheckStep ==
  ASSUME LicenceInv, NEW written \in BOOLEAN, Daemons!StartCheck(written)
  PROVE  LicenceInv'
<1>1. UNCHANGED <<day, key, rejected>> /\ ~ checked
  BY DEF Daemons!StartCheck
<1>2. CASE Daemons!VerifyLicense(key) /\ Daemons!Callback(key)
  <2>1. check' = key /\ UNCHANGED <<daemon, stored, checked, heard, forgot, crossed>>
    BY <1>2 DEF Daemons!StartCheck
  <2> QED BY <1>1, <2>1 DEF LicenceInv, LicenceTyped, CountsFromHeard, RevokedFor, GoodFor, Daemons!VerifyLicense
<1>3. CASE ~ (Daemons!VerifyLicense(key) /\ Daemons!Callback(key))
  <2>1. /\ checked' = TRUE /\ crossed' = ~ written /\ UNCHANGED check
        /\ \/ daemon' = [status |-> "valid", last |-> day] /\ heard' = day /\ forgot' = FALSE
           \/ daemon' \in {[status |-> t, last |-> daemon.last] : t \in Statuses} /\ UNCHANGED <<heard, forgot>>
        /\ stored' = IF written THEN daemon'.status ELSE stored
        /\ daemon'.status \in Statuses
    BY <1>3 DEF Daemons!StartCheck, Daemons!SetState, Statuses
  <2>2. daemon.last \in {Daemons!Never} \cup 0 .. day /\ day \in Nat
    BY DEF LicenceInv, LicenceTyped
  <2>3. LicenceTyped'
    <3>1. daemon' \in [status : Statuses, last : {Daemons!Never} \cup 0 .. day] /\ heard' \in 0 .. day
      BY <2>1, <2>2 DEF LicenceInv, LicenceTyped, Statuses
    <3>2. checked' \in BOOLEAN /\ crossed' \in BOOLEAN /\ forgot' \in BOOLEAN
      BY <2>1 DEF LicenceInv, LicenceTyped
    <3>3. stored' \in Statuses \cup {"none"}
      BY <2>1 DEF LicenceInv, LicenceTyped
    <3> QED BY <1>1, <2>1, <3>1, <3>2, <3>3 DEF LicenceInv, LicenceTyped
  <2>4. CountsFromHeard'
    BY <1>1, <2>1, <2>2 DEF LicenceInv, CountsFromHeard, Daemons!BaseDay, Daemons!Never
  <2> QED BY <1>1, <1>3, <2>3, <2>4 DEF LicenceInv, RevokedFor, GoodFor, Daemons!VerifyLicense
<1> QED BY <1>2, <1>3

\* The portal confirms or rejects the key, or nothing that counts is heard of it.
LEMMA AnswerStep ==
  ASSUME LicenceInv, NEW outcome \in {"confirmed", "rejected", "unreachable"}, NEW written \in BOOLEAN,
         Daemons!Answer(outcome, written)
  PROVE  LicenceInv'
<1> DEFINE silent == day - Daemons!BaseDay(daemon.last)
<1>1. /\ UNCHANGED <<day, key>> /\ check' = "none" /\ checked' = TRUE
      /\ crossed' = (~ written \/ check # key)
      /\ forgot' = (forgot /\ outcome # "confirmed")
      /\ heard' = IF outcome = "confirmed" THEN day ELSE heard
      /\ stored' = IF written THEN daemon'.status ELSE stored
  BY DEF Daemons!Answer, Daemons!SetState
<1>2. /\ outcome = "confirmed" =>
            daemon' = [status |-> "valid", last |-> day] /\ rejected' = rejected \ {check}
      /\ outcome = "rejected" =>
            daemon' = [status |-> "invalid", last |-> daemon.last] /\ rejected' = rejected \cup {check}
      /\ outcome = "unreachable" /\ silent > GraceDays =>
            daemon' = [status |-> "invalid", last |-> daemon.last] /\ rejected' = rejected
      /\ outcome = "unreachable" /\ ~ (silent > GraceDays) =>
            daemon' = [status |-> "grace_period", last |-> daemon.last] /\ rejected' = rejected
  BY DEF Daemons!Answer, Daemons!SetState
<1>3. daemon.last \in {Daemons!Never} \cup 0 .. day /\ day \in Nat /\ heard \in 0 .. day /\ silent \in Int
      /\ GraceDays \in Nat
  BY LicenceAssumption DEF LicenceInv, LicenceTyped, Daemons!BaseDay, Daemons!Never, Daemons!IssuedAt
<1>4. LicenceTyped'
  BY <1>1, <1>2, <1>3 DEF LicenceInv, LicenceTyped, Statuses
<1>5. CountsFromHeard'
  <2>1. CASE outcome = "confirmed"
    <3>1. Daemons!BaseDay(daemon'.last) = day /\ heard' = day
      BY <1>1, <1>2, <1>3, <2>1 DEF Daemons!BaseDay, Daemons!Never
    <3> QED BY <1>3, <3>1 DEF CountsFromHeard, Daemons!BaseDay
  <2>2. CASE outcome # "confirmed"
    <3>1. daemon'.last = daemon.last /\ heard' = heard /\ (forgot' <=> forgot)
      <4>1. forgot \in BOOLEAN /\ heard' = heard /\ forgot' = forgot
        BY <1>1, <2>2 DEF LicenceInv, LicenceTyped
      <4>2. daemon'.last = daemon.last
        BY <1>2, <2>2
      <4> QED BY <4>1, <4>2
    <3> QED BY <3>1 DEF LicenceInv, CountsFromHeard, Daemons!BaseDay
  <2> QED BY <2>1, <2>2
<1>6. RevokedFor'
  <2>1. SUFFICES ASSUME stored' = "invalid", ~ crossed', ~ forgot'
        PROVE key \in rejected' \/ day - heard' > GraceDays
    BY <1>1 DEF RevokedFor
  <2>2. written /\ check = key /\ daemon'.status = "invalid"
    BY <1>1, <2>1
  <2>3. CASE outcome = "rejected"
    BY <1>2, <2>2, <2>3
  <2>4. CASE outcome # "rejected"
    <3>1. outcome = "unreachable" /\ silent > GraceDays
      BY <1>2, <2>2, <2>4
    <3>2. Daemons!BaseDay(daemon.last) = heard /\ heard' = heard
      BY <1>1, <2>1, <3>1 DEF LicenceInv, CountsFromHeard
    <3> QED BY <3>1, <3>2
  <2> QED BY <2>3, <2>4
<1>7. GoodFor'
  <2>1. SUFFICES ASSUME stored' \in {"valid", "grace_period"}, ~ crossed'
        PROVE day - heard' <= GraceDays /\ (key \in rejected' => stored' = "grace_period")
    BY <1>1 DEF GoodFor
  <2>2. written /\ check = key /\ daemon'.status = stored'
    BY <1>1, <2>1
  <2>3. CASE outcome = "confirmed"
    BY <1>1, <1>2, <1>3, <2>2, <2>3
  <2>4. CASE outcome # "confirmed"
    <3>1. outcome = "unreachable" /\ ~ (silent > GraceDays) /\ stored' = "grace_period" /\ heard' = heard
      BY <1>1, <1>2, <2>1, <2>2, <2>4
    <3>2. Daemons!BaseDay(daemon.last) <= heard /\ Daemons!BaseDay(daemon.last) \in Int
      BY <1>3 DEF LicenceInv, CountsFromHeard, Daemons!BaseDay, Daemons!Never, Daemons!IssuedAt
    <3> QED BY <1>3, <3>1, <3>2
  <2> QED BY <2>3, <2>4
<1> QED BY <1>4, <1>5, <1>6, <1>7 DEF LicenceInv

\* What administrators do to the key, a restart, and the next day.
LEMMA KeyStep ==
  ASSUME LicenceInv,
         \/ \E k \in Daemons!Keys, deleted \in BOOLEAN : Daemons!Install(k, deleted)
         \/ Daemons!Remove \/ Daemons!Restart \/ Daemons!NextDay
  PROVE  LicenceInv'
<1>1. ASSUME NEW k \in Daemons!Keys, NEW deleted \in BOOLEAN, Daemons!Install(k, deleted) PROVE LicenceInv'
  <2>1. /\ key' = k /\ crossed' = ~ deleted /\ stored' = IF deleted THEN "none" ELSE stored
        /\ UNCHANGED <<day, daemon, check, checked, rejected, heard, forgot>>
    BY <1>1 DEF Daemons!Install
  <2> QED BY <2>1 DEF LicenceInv, LicenceTyped, CountsFromHeard, RevokedFor, GoodFor, Daemons!BaseDay
<1>2. CASE Daemons!Remove
  <2>1. key' = "none" /\ stored' = "none" /\ crossed' = FALSE /\ UNCHANGED <<day, daemon, check, checked, rejected, heard, forgot>>
    BY <1>2 DEF Daemons!Remove
  <2> QED BY <2>1 DEF LicenceInv, LicenceTyped, CountsFromHeard, RevokedFor, GoodFor, Daemons!BaseDay
<1>3. CASE Daemons!Restart
  <2>1. /\ daemon' = [status |-> "valid", last |-> Daemons!Never] /\ check' = "none" /\ checked' = FALSE /\ forgot' = TRUE
        /\ UNCHANGED <<day, key, stored, rejected, heard, crossed>>
    BY <1>3 DEF Daemons!Restart
  <2>2. LicenceTyped'
    BY <2>1 DEF LicenceInv, LicenceTyped, Statuses
  <2>3. CountsFromHeard'
    BY <2>1 DEF LicenceInv, LicenceTyped, CountsFromHeard, Daemons!BaseDay, Daemons!IssuedAt
  <2> QED BY <2>1, <2>2, <2>3 DEF LicenceInv, RevokedFor, GoodFor
<1>4. CASE Daemons!NextDay
  <2>1. day' = day + 1 /\ checked' = FALSE /\ UNCHANGED <<key, daemon, stored, check, rejected, heard, forgot, crossed>>
    BY <1>4 DEF Daemons!NextDay
  <2>2. Daemons!ExpiresAt(key) \in Int /\ Daemons!ExpiresAt(key)' = Daemons!ExpiresAt(key) /\ day \in Nat /\ heard \in Nat
    BY <2>1, LicenceAssumption DEF Daemons!ExpiresAt, LicenceInv, LicenceTyped
  <2>3. Daemons!VerifyLicense(key)' => Daemons!VerifyLicense(key)
    BY <2>1, <2>2 DEF Daemons!VerifyLicense
  <2>4. LicenceTyped'
    <3>1. daemon \in [status : Statuses, last : {Daemons!Never} \cup 0 .. day + 1] /\ heard \in 0 .. day + 1 /\ day + 1 \in Nat
      <4>1. daemon.last \in {Daemons!Never} \cup 0 .. day + 1
        BY <2>2 DEF LicenceInv, LicenceTyped
      <4> QED BY <2>2, <4>1 DEF LicenceInv, LicenceTyped
    <3> QED BY <2>1, <3>1 DEF LicenceInv, LicenceTyped
  <2>5. CountsFromHeard'
    BY <2>1 DEF LicenceInv, CountsFromHeard, Daemons!BaseDay
  <2>6. RevokedFor'
    <3>1. day - heard > GraceDays => day + 1 - heard > GraceDays
      BY <2>2, LicenceAssumption
    <3>2. Daemons!Callback(key)' <=> Daemons!Callback(key)
      BY <2>1 DEF Daemons!Callback
    <3> SUFFICES ASSUME stored = "invalid", ~ crossed, ~ forgot, Daemons!Callback(key), Daemons!VerifyLicense(key)'
                 PROVE  key \in rejected \/ day + 1 - heard > GraceDays
      BY <2>1, <3>2 DEF RevokedFor, LicenceInv, LicenceTyped
    <3>3. key \in rejected \/ day - heard > GraceDays
      BY <2>3 DEF LicenceInv, RevokedFor
    <3> QED BY <3>1, <3>3
  <2>7. GoodFor'
    BY <2>1 DEF GoodFor
  <2> QED BY <2>4, <2>5, <2>6, <2>7 DEF LicenceInv
<1> QED BY <1>1, <1>2, <1>3, <1>4

\* A licence is revoked, and good, only as the portal said or was silent.
LEMMA LicencesFollowThePortal == Spec => [](service = "daemons" => Daemons!LicenceFollowsPortal)
<1> DEFINE I == service = "daemons" => LicenceInv
<1>1. Init => I
  <2> SUFFICES ASSUME Init PROVE LicenceInv
    OBVIOUS
  <2>1. /\ day = 0 /\ key = "none" /\ daemon = [status |-> "valid", last |-> Daemons!Never] /\ stored = "none"
        /\ check = "none" /\ checked = FALSE /\ heard = 0 /\ forgot = FALSE /\ crossed = FALSE
    BY DEF Init, Daemons!Init, Daemons!IssuedAt
  <2>2. LicenceTyped
    <3>1. daemon \in [status : Statuses, last : {Daemons!Never} \cup 0 .. day]
      BY <2>1 DEF Statuses
    <3>2. checked \in BOOLEAN /\ forgot \in BOOLEAN /\ crossed \in BOOLEAN
      BY <2>1
    <3>3. heard \in 0 .. day /\ day \in Nat
      BY <2>1
    <3> QED BY <2>1, <3>1, <3>2, <3>3 DEF LicenceTyped
  <2>3. CountsFromHeard
    BY <2>1 DEF CountsFromHeard, Daemons!BaseDay, Daemons!IssuedAt
  <2> QED BY <2>1, <2>2, <2>3 DEF LicenceInv, RevokedFor, GoodFor
<1>2. I /\ [Next]_vars => I'
  <2> SUFFICES ASSUME LicenceInv, service = "daemons", [Next]_vars PROVE LicenceInv'
    BY Frame
  <2>1. [Daemons!Next]_daemonsVars
    BY Frame
  <2>2. CASE UNCHANGED <<day, key, daemon, stored, check, checked, rejected, heard, forgot, crossed>>
    BY <2>2 DEF LicenceInv, LicenceTyped, CountsFromHeard, RevokedFor, GoodFor, Daemons!VerifyLicense
  <2>3. CASE Daemons!LicenceSteps
    BY <2>3, StartCheckStep, AnswerStep, KeyStep DEF Daemons!LicenceSteps
  <2>4. CASE Daemons!CleanupSteps
    <3>1. UNCHANGED Daemons!licenceVars
      BY <2>4 DEF Daemons!CleanupSteps, Daemons!RunCleanupChecks, Daemons!CleanupUserData, Daemons!RecordCleanup,
                  Daemons!StartCleanupScheduler, Daemons!NextHour
    <3> QED BY <2>2, <3>1 DEF Daemons!licenceVars
  <2> QED BY <2>1, <2>2, <2>3, <2>4 DEF Daemons!Next, daemonsVars
<1>3. I => (service = "daemons" => Daemons!LicenceFollowsPortal)
  <2> SUFFICES ASSUME LicenceInv PROVE Daemons!RevokedHasReason /\ Daemons!ValidIsConfirmed
    BY DEF Daemons!LicenceFollowsPortal
  <2>1. key \in Daemons!Keys \cup {"none"} /\ stored \in Statuses \cup {"none"}
    BY DEF LicenceInv, LicenceTyped
  <2>2. Daemons!Evaluate(key, stored) = "revoked" =>
            stored = "invalid" /\ Daemons!Callback(key) /\ Daemons!VerifyLicense(key)
    BY <2>1 DEF Daemons!Evaluate
  <2>3. Daemons!Evaluate(key, stored) = "valid" /\ Daemons!Callback(key) /\ stored # "none" =>
            stored \in {"valid", "grace_period"} /\ Daemons!VerifyLicense(key)
    BY <2>1 DEF Daemons!Evaluate, Statuses
  <2> QED BY <2>2, <2>3 DEF LicenceInv, RevokedFor, GoodFor, Daemons!RevokedHasReason, Daemons!ValidIsConfirmed
<1> QED BY <1>1, <1>2, <1>3, PTL DEF Spec

\* What is cached is stale for a bounded time or for the reasons named, and a licence is
\* granted and revoked as the portal said.
THEOREM StalenessIsBounded == Spec => []StaleBounded
<1>1. (service = "settings" => Settings!StaleBounded) /\ (service = "cache" => Cached!StaleIsExcused)
      /\ (service = "daemons" => Daemons!LicenceFollowsPortal) => StaleBounded
  BY DEF StaleBounded
<1> QED BY <1>1, SettingsAreBounded, CachedReadsAreExcused, LicencesFollowThePortal, PTL

-----------------------------------------------------------------------------
(* Data cleanup                                                              *)

CleanerType == [pc : {"idle", "purge", "record"}, ran : BOOLEAN]

\* A purge at this hour is one the plan asks for.
Scheduled(h) == frequency # "none" /\ Daemons!LocalHour(h) = Daemons!TargetHour /\ (frequency = "weekly" => Daemons!Sunday(h))

\* Without overlapping checks one backend is at it: it is due while it has not purged,
\* has purged while it has not recorded it, and what was purged and recorded is of today.
Alone ==
    /\ \A p, q \in Processes : cleaner[p].pc # "idle" /\ cleaner[q].pc # "idle" => p = q
    /\ \A p \in Processes :
          /\ cleaner[p].pc = "purge" => purges = {} /\ Daemons!Due(hour, last)
          /\ cleaner[p].pc = "record" => \E x : purges = {x}
    /\ (\A p \in Processes : cleaner[p].pc = "idle") =>
          \/ purges = {}
          \/ (\E x : purges = {x}) /\ last # Daemons!Never /\ Daemons!LocalDate(last) = Daemons!LocalDate(hour)

CleanupInv ==
    /\ hour \in Nat /\ overlapped \in BOOLEAN
    /\ cleaner \in [Processes -> CleanerType]
    /\ \A x \in purges : Scheduled(x[1])
    /\ \A p \in Processes : cleaner[p].pc = "purge" => Scheduled(hour)
    /\ ~ overlapped => Alone

\* A check finds the workspace due, or has nothing to do.
LEMMA CheckDueStep ==
  ASSUME CleanupInv, NEW p \in Processes, Daemons!RunCleanupChecks(p)
  PROVE  CleanupInv'
<1>1. /\ cleaner[p] = Daemons!Idle /\ UNCHANGED <<hour, frequency, last, purges>>
      /\ cleaner' = [cleaner EXCEPT ![p] = [pc |-> IF Daemons!Due(hour, last) THEN "purge" ELSE "idle", ran |-> TRUE]]
      /\ overlapped' = (overlapped \/ \E q \in Processes : cleaner[q].pc # "idle")
  BY DEF Daemons!RunCleanupChecks
<1>2. /\ cleaner' \in [Processes -> CleanerType] /\ cleaner[p].pc = "idle"
      /\ cleaner'[p].pc = (IF Daemons!Due(hour, last) THEN "purge" ELSE "idle")
      /\ \A q \in Processes \ {p} : cleaner'[q] = cleaner[q]
  BY <1>1 DEF CleanupInv, CleanerType, Daemons!Idle
<1>3. Daemons!Due(hour, last) => Scheduled(hour)
  BY DEF Daemons!Due, Scheduled
<1>4. \A h : Scheduled(h)' <=> Scheduled(h)
  BY <1>1 DEF Scheduled, Daemons!LocalHour, Daemons!TargetHour, Daemons!Sunday, Daemons!LocalDate
<1>5. overlapped' \in BOOLEAN
  BY <1>1
<1>6. ~ overlapped' => Alone'
  <2>1. SUFFICES ASSUME ~ overlapped, \A q \in Processes : cleaner[q].pc = "idle" PROVE Alone'
    BY <1>1 DEF CleanupInv
  <2>2. \A q \in Processes \ {p} : cleaner'[q].pc = "idle"
    BY <1>2, <2>1
  <2>3. \/ purges = {}
        \/ (\E x : purges = {x}) /\ last # Daemons!Never /\ Daemons!LocalDate(last) = Daemons!LocalDate(hour)
    BY <2>1 DEF CleanupInv, Alone
  <2>4. Daemons!Due(hour, last) => last = Daemons!Never \/ Daemons!LocalDate(last) # Daemons!LocalDate(hour)
    BY DEF Daemons!Due
  <2>5. /\ Daemons!Due(hour, last)' <=> Daemons!Due(hour, last)
        /\ (last # Daemons!Never /\ Daemons!LocalDate(last) = Daemons!LocalDate(hour))'
              <=> last # Daemons!Never /\ Daemons!LocalDate(last) = Daemons!LocalDate(hour)
    BY <1>1 DEF Daemons!Due, Daemons!Never, Daemons!LocalDate, Daemons!LocalHour, Daemons!TargetHour, Daemons!Sunday
  <2> QED BY <1>1, <1>2, <2>2, <2>3, <2>4, <2>5 DEF Alone
<1> QED BY <1>1, <1>2, <1>3, <1>4, <1>5, <1>6 DEF CleanupInv

\* A due workspace is purged.
LEMMA PurgeDataStep ==
  ASSUME CleanupInv, NEW p \in Processes, Daemons!CleanupUserData(p)
  PROVE  CleanupInv'
<1>1. /\ cleaner[p].pc = "purge" /\ UNCHANGED <<hour, frequency, last, overlapped>>
      /\ purges' = purges \cup {<<hour, p>>} /\ cleaner' = [cleaner EXCEPT ![p] = [cleaner[p] EXCEPT !.pc = "record"]]
  BY DEF Daemons!CleanupUserData
<1>2. /\ cleaner' \in [Processes -> CleanerType] /\ cleaner'[p].pc = "record"
      /\ \A q \in Processes \ {p} : cleaner'[q] = cleaner[q]
  BY <1>1 DEF CleanupInv, CleanerType
<1>3. \A h : Scheduled(h)' <=> Scheduled(h)
  BY <1>1 DEF Scheduled, Daemons!LocalHour, Daemons!TargetHour, Daemons!Sunday, Daemons!LocalDate
<1>4. Scheduled(hour) /\ \A x \in purges' : Scheduled(x[1])
  BY <1>1 DEF CleanupInv
<1>5. ~ overlapped => Alone'
  <2>1. SUFFICES ASSUME ~ overlapped PROVE Alone'
    OBVIOUS
  <2>2. purges' = {<<hour, p>>} /\ \A q \in Processes \ {p} : cleaner[q].pc = "idle"
    BY <1>1, <2>1 DEF CleanupInv, Alone
  <2>3. (\A q \in Processes : cleaner[q].pc # "idle" <=> q = p)' /\ (cleaner[p].pc = "record")'
    BY <1>2, <2>2
  <2>4. (\E x : purges = {x})'
    BY <2>2
  <2> QED BY <2>3, <2>4 DEF Alone
<1> QED BY <1>1, <1>2, <1>3, <1>4, <1>5 DEF CleanupInv

\* The purge is recorded, which makes it the last one.
LEMMA RecordStep ==
  ASSUME CleanupInv, NEW p \in Processes, Daemons!RecordCleanup(p)
  PROVE  CleanupInv'
<1>1. /\ cleaner[p].pc = "record" /\ UNCHANGED <<hour, frequency, purges, overlapped>> /\ last' = hour
      /\ cleaner' = [cleaner EXCEPT ![p] = [cleaner[p] EXCEPT !.pc = "idle"]]
  BY DEF Daemons!RecordCleanup
<1>2. /\ cleaner' \in [Processes -> CleanerType] /\ cleaner'[p].pc = "idle"
      /\ \A q \in Processes \ {p} : cleaner'[q] = cleaner[q]
  BY <1>1 DEF CleanupInv, CleanerType
<1>3. \A h : Scheduled(h)' <=> Scheduled(h)
  BY <1>1 DEF Scheduled, Daemons!LocalHour, Daemons!TargetHour, Daemons!Sunday, Daemons!LocalDate
<1>4. ~ overlapped => Alone'
  <2>1. SUFFICES ASSUME ~ overlapped PROVE Alone'
    OBVIOUS
  <2>2. (\E x : purges' = {x}) /\ \A q \in Processes : cleaner'[q].pc = "idle"
    BY <1>1, <1>2, <2>1 DEF CleanupInv, Alone
  <2>3. (last # Daemons!Never /\ Daemons!LocalDate(last) = Daemons!LocalDate(hour))'
    BY <1>1 DEF CleanupInv, Daemons!Never, Daemons!LocalDate
  <2>4. (\A q \in Processes : cleaner[q].pc = "idle")'
    BY <2>2
  <2>5. (\E x : purges = {x})'
    BY <2>2
  <2> QED BY <2>3, <2>4, <2>5 DEF Alone
<1> QED BY <1>1, <1>2, <1>3, <1>4 DEF CleanupInv

\* A backend starts anew: a purge it had not recorded may be repeated.
LEMMA StartSchedulerStep ==
  ASSUME CleanupInv, NEW p \in Processes, Daemons!StartCleanupScheduler(p)
  PROVE  CleanupInv'
<1>1. /\ UNCHANGED <<hour, frequency, last, purges>> /\ cleaner' = [cleaner EXCEPT ![p] = Daemons!Idle]
      /\ overlapped' = (overlapped \/ cleaner[p].pc = "record")
  BY DEF Daemons!StartCleanupScheduler
<1>2. /\ cleaner' \in [Processes -> CleanerType] /\ cleaner'[p].pc = "idle" /\ overlapped' \in BOOLEAN
      /\ \A q \in Processes \ {p} : cleaner'[q] = cleaner[q]
  BY <1>1 DEF CleanupInv, CleanerType, Daemons!Idle
<1>3. \A h : Scheduled(h)' <=> Scheduled(h)
  BY <1>1 DEF Scheduled, Daemons!LocalHour, Daemons!TargetHour, Daemons!Sunday, Daemons!LocalDate
<1>4. ~ overlapped' => Alone'
  <2>1. SUFFICES ASSUME ~ overlapped, cleaner[p].pc # "record" PROVE Alone'
    BY <1>1
  <2>2. /\ Daemons!Due(hour, last)' <=> Daemons!Due(hour, last)
        /\ (last # Daemons!Never /\ Daemons!LocalDate(last) = Daemons!LocalDate(hour))'
              <=> last # Daemons!Never /\ Daemons!LocalDate(last) = Daemons!LocalDate(hour)
    BY <1>1 DEF Daemons!Due, Daemons!Never, Daemons!LocalDate, Daemons!LocalHour, Daemons!TargetHour, Daemons!Sunday
  <2>3. Alone /\ cleaner[p].pc \in {"idle", "purge"}
    BY <2>1 DEF CleanupInv, CleanerType
  <2>4. CASE cleaner[p].pc = "idle"
    <3>1. \A q \in Processes : cleaner'[q].pc = cleaner[q].pc
      BY <1>2, <2>4
    <3> QED BY <1>1, <2>2, <2>3, <3>1 DEF Alone
  <2>5. CASE cleaner[p].pc = "purge"
    <3>1. purges' = {} /\ \A q \in Processes : cleaner'[q].pc = "idle"
      BY <1>1, <1>2, <2>3, <2>5 DEF Alone
    <3> QED BY <3>1 DEF Alone
  <2> QED BY <2>3, <2>4, <2>5
<1> QED BY <1>1, <1>2, <1>3, <1>4 DEF CleanupInv

\* The next hour: what was purged counts until the day ends.
LEMMA NextHourStep ==
  ASSUME CleanupInv, Daemons!NextHour
  PROVE  CleanupInv'
<1>1. /\ \A p \in Processes : cleaner[p].pc = "idle"
      /\ hour' = hour + 1 /\ cleaner' = [p \in Processes |-> Daemons!Idle] /\ UNCHANGED <<frequency, last, overlapped>>
      /\ purges' = IF Daemons!LocalDate(hour + 1) = Daemons!LocalDate(hour) THEN purges ELSE {}
  BY DEF Daemons!NextHour
<1>2. cleaner' \in [Processes -> CleanerType] /\ \A p \in Processes : cleaner'[p].pc = "idle"
  BY <1>1 DEF CleanerType, Daemons!Idle
<1>3. \A h : Scheduled(h)' <=> Scheduled(h)
  BY <1>1 DEF Scheduled, Daemons!LocalHour, Daemons!TargetHour, Daemons!Sunday, Daemons!LocalDate
<1>4. ~ overlapped => Alone'
  <2>1. SUFFICES ASSUME ~ overlapped, purges' # {} PROVE Alone'
    BY <1>2 DEF Alone
  <2>2. /\ purges' = purges /\ Daemons!LocalDate(hour + 1) = Daemons!LocalDate(hour)
        /\ (\E x : purges = {x}) /\ last # Daemons!Never /\ Daemons!LocalDate(last) = Daemons!LocalDate(hour)
    BY <1>1, <2>1 DEF CleanupInv, Alone
  <2>3. (last # Daemons!Never /\ Daemons!LocalDate(last) = Daemons!LocalDate(hour))'
    BY <1>1, <2>2 DEF Daemons!Never, Daemons!LocalDate
  <2> QED BY <1>2, <2>2, <2>3 DEF Alone
<1> QED BY <1>1, <1>2, <1>3, <1>4 DEF CleanupInv

\* A workspace is purged at its plan's hour and once a day, unless checks overlapped or a
\* purge was not recorded.
LEMMA PurgesAreDaily == Spec => [](service = "daemons" => Daemons!PurgedOnceADay)
<1> DEFINE I == service = "daemons" => CleanupInv
<1>1. Init => I
  <2> SUFFICES ASSUME Init PROVE CleanupInv
    OBVIOUS
  <2>1. hour = 0 /\ cleaner = [p \in Processes |-> Daemons!Idle] /\ purges = {} /\ overlapped = FALSE
    BY DEF Init, Daemons!Init
  <2>2. Daemons!Idle \in CleanerType /\ Daemons!Idle.pc = "idle"
    BY DEF Daemons!Idle, CleanerType
  <2> QED BY <2>1, <2>2 DEF CleanupInv, Alone
<1>2. I /\ [Next]_vars => I'
  <2> SUFFICES ASSUME CleanupInv, service = "daemons", [Next]_vars PROVE CleanupInv'
    BY Frame
  <2>1. [Daemons!Next]_daemonsVars
    BY Frame
  <2>2. CASE UNCHANGED <<hour, frequency, last, cleaner, purges, overlapped>>
    BY <2>2 DEF CleanupInv, Alone, Scheduled, Daemons!Due, Daemons!LocalDate, Daemons!LocalHour, Daemons!Sunday,
       Daemons!TargetHour, Daemons!Never
  <2>3. CASE Daemons!CleanupSteps
    BY <2>3, CheckDueStep, PurgeDataStep, RecordStep, StartSchedulerStep, NextHourStep DEF Daemons!CleanupSteps
  <2>4. CASE Daemons!LicenceSteps
    <3>1. UNCHANGED Daemons!cleanupVars
      BY <2>4 DEF Daemons!LicenceSteps, Daemons!StartCheck, Daemons!Answer, Daemons!Install, Daemons!Remove, Daemons!Restart,
                  Daemons!NextDay
    <3> QED BY <2>2, <3>1 DEF Daemons!cleanupVars
  <2> QED BY <2>1, <2>2, <2>3, <2>4 DEF Daemons!Next, daemonsVars
<1>3. I => (service = "daemons" => Daemons!PurgedOnceADay)
  <2> SUFFICES ASSUME CleanupInv, ~ overlapped PROVE Daemons!Cardinality(purges) <= 1
    BY DEF Daemons!PurgedOnceADay, CleanupInv, Scheduled
  <2>1. purges = {} \/ \E x : purges = {x}
    BY DEF CleanupInv, Alone, CleanerType
  <2>2. CASE purges = {}
    BY <2>2, FS_EmptySet DEF Daemons!Cardinality, Cardinality
  <2>3. CASE \E x : purges = {x}
    <3>1. PICK x : purges = {x}
      BY <2>3
    <3>2. Cardinality(purges) = 1
      BY <3>1, FS_Singleton
    <3> QED BY <3>2 DEF Daemons!Cardinality, Cardinality
  <2> QED BY <2>1, <2>2, <2>3
<1> QED BY <1>1, <1>2, <1>3, PTL DEF Spec

-----------------------------------------------------------------------------
(* Request rates                                                             *)

CounterType == [slot : Int, count : Nat]
GrantType == [pod : Pods, tick : Nat, count : [DOMAIN Windows -> Nat]]

\* The slot of window w that tick t belongs to.
SlotOf(t, w) == t \div w

\* What a process allowed is behind its live counter: in an earlier slot, or in the same
\* one with a lower number.
Behind(g, w) ==
    /\ g.tick <= clock /\ g.count[w] \in 1 .. Windows[w]
    /\ SlotOf(g.tick, w) <= store[g.pod][w].slot
    /\ SlotOf(g.tick, w) = store[g.pod][w].slot => g.count[w] <= store[g.pod][w].count

\* A counter of a slot is given to one request.
Numbered(g, h, w) == g.pod = h.pod /\ SlotOf(g.tick, w) = SlotOf(h.tick, w) /\ g.count[w] = h.count[w] => g = h

RateInv ==
    /\ clock \in Nat /\ granted \subseteq GrantType
    /\ store \in [Pods -> [DOMAIN Windows -> CounterType]]
    /\ \A p \in Pods, w \in DOMAIN Windows : store[p][w].slot <= SlotOf(clock, w)
    /\ \A w \in DOMAIN Windows : \A g \in granted : Behind(g, w)
    /\ \A w \in DOMAIN Windows : \A g, h \in granted : Numbered(g, h, w)

\* A slot is where a multiple of the window's length and less than one more is, and time
\* moves through the slots in order.
LEMMA SlotIs ==
  ASSUME NEW w \in Nat \ {0}, NEW t \in Nat
  PROVE  /\ SlotOf(t, w) \in Nat /\ w * SlotOf(t, w) <= t /\ t < w * SlotOf(t, w) + w
         /\ \A k \in Nat : w * k <= t /\ t < w * k + w => SlotOf(t, w) = k
         /\ \A u \in Nat : t <= u => SlotOf(t, w) <= SlotOf(u, w)
<1>1. SlotOf(t, w) \in Nat /\ w * SlotOf(t, w) <= t /\ t < w * SlotOf(t, w) + w
  BY DEF SlotOf
<1>2. \A u \in Nat : SlotOf(u, w) \in Nat /\ w * SlotOf(u, w) <= u /\ u < w * SlotOf(u, w) + w
  BY DEF SlotOf
<1>3. ASSUME NEW a \in Nat, NEW b \in Nat, a < b PROVE w * a + w <= w * b
  <2>1. PICK d \in Nat : b = a + 1 + d
    <3>1. b - a - 1 \in Nat /\ b = a + 1 + (b - a - 1)
      BY <1>3
    <3> QED BY <3>1
  <2>2. w * b = w * a + w + w * d /\ w * d \in Nat
    BY <2>1
  <2> QED BY <2>2
<1>4. ASSUME NEW k \in Nat, w * k <= t, t < w * k + w PROVE SlotOf(t, w) = k
  <2>1. w * k \in Nat /\ w * SlotOf(t, w) \in Nat
    BY <1>1
  <2>2. ~ k < SlotOf(t, w)
    BY <1>1, <1>3, <1>4, <2>1
  <2>3. ~ SlotOf(t, w) < k
    BY <1>1, <1>3, <1>4, <2>1
  <2> QED BY <1>1, <2>2, <2>3
<1>5. ASSUME NEW u \in Nat, t <= u PROVE SlotOf(t, w) <= SlotOf(u, w)
  <2>1. w * SlotOf(u, w) \in Nat /\ w * SlotOf(t, w) \in Nat
    BY <1>1, <1>2
  <2>2. ~ SlotOf(u, w) < SlotOf(t, w)
    <3>1. SlotOf(u, w) < SlotOf(t, w) => w * SlotOf(u, w) + w <= w * SlotOf(t, w)
      BY <1>1, <1>2, <1>3
    <3>2. w * SlotOf(t, w) <= t /\ u < w * SlotOf(u, w) + w
      BY <1>1, <1>2
    <3> QED BY <1>5, <2>1, <3>1, <3>2
  <2> QED BY <1>1, <1>2, <2>2
<1> QED BY <1>1, <1>4, <1>5

\* A request counts the windows in turn and is allowed when none is exceeded.
LEMMA RateRequestStep ==
  ASSUME RateInv, NEW p \in Pods, Limit!Request(p)
  PROVE  RateInv'
<1> DEFINE W == DOMAIN Windows
           new(w) == Limit!Increment(store[p][w], w)
           refused == {w \in W : Limit!Exceeds(new(w), w)}
           grant == [pod |-> p, tick |-> clock, count |-> [w \in W |-> new(w).count]]
<1>1. /\ clock' = clock
      /\ \E reached \in SUBSET W :
            /\ store' = [store EXCEPT ![p] = [w \in W |-> IF w \in reached THEN new(w) ELSE store[p][w]]]
            /\ refused = {} => reached = W
      /\ granted' = IF refused # {} THEN granted ELSE granted \cup {grant}
  BY DEF Limit!Request, Limit!Lengths
<1>2. \A w \in W : /\ SlotOf(clock, w) \in Nat /\ Windows[w] \in Nat
                   /\ store[p][w] \in CounterType /\ store[p][w].slot <= SlotOf(clock, w)
                   /\ new(w) \in CounterType /\ new(w).slot = SlotOf(clock, w) /\ new(w).count >= 1
                   /\ store[p][w].slot = SlotOf(clock, w) => new(w).count = store[p][w].count + 1
  BY RateAssumption, SlotIs DEF RateInv, CounterType, Limit!Increment, Limit!Slot, SlotOf
<1>3. /\ store' \in [Pods -> [W -> CounterType]]
      /\ \A q \in Pods \ {p} : store'[q] = store[q]
      /\ \A w \in W : store'[p][w] \in {new(w), store[p][w]} /\ (refused = {} => store'[p][w] = new(w))
  BY <1>1, <1>2 DEF RateInv
<1>4. \A q \in Pods, w \in W : store'[q][w].slot <= SlotOf(clock, w)
  BY <1>2, <1>3 DEF RateInv
<1>5. PICK r : r = grant
  OBVIOUS
<1>9. r \in GrantType /\ r.pod = p /\ r.tick = clock /\ \A w \in W : r.count[w] = new(w).count
  BY <1>2, <1>5 DEF GrantType, CounterType, RateInv
<1>6. ASSUME NEW g \in granted, NEW w \in W
      PROVE  /\ Behind(g, w)'
             /\ g.pod = p /\ SlotOf(g.tick, w) = SlotOf(clock, w) => g.count[w] < new(w).count
  <2>1. /\ g.pod \in Pods /\ g.tick \in Nat /\ g.count[w] \in Nat /\ Behind(g, w)
        /\ SlotOf(g.tick, w) \in Nat /\ store[g.pod][w] \in CounterType
    <3>1. g \in GrantType /\ Behind(g, w) /\ store \in [Pods -> [W -> CounterType]]
      BY DEF RateInv
    <3>2. g.pod \in Pods /\ g.tick \in Nat /\ g.count[w] \in Nat
      BY <3>1 DEF GrantType
    <3>3. SlotOf(g.tick, w) \in Nat
      BY RateAssumption, SlotIs, <3>2
    <3>4. store[g.pod][w] \in CounterType
      BY <3>1, <3>2
    <3> QED BY <3>1, <3>2, <3>3, <3>4
  <2>2. CASE g.pod # p
    BY <1>1, <1>3, <2>1, <2>2 DEF Behind, SlotOf
  <2>3. CASE g.pod = p
    <3>1. SlotOf(g.tick, w) <= SlotOf(clock, w) /\ (SlotOf(g.tick, w) = SlotOf(clock, w) => g.count[w] < new(w).count)
      BY <1>2, <2>1, <2>3 DEF Behind, CounterType
    <3>2. store'[p][w] = new(w) \/ store'[p][w] = store[p][w]
      BY <1>3
    <3> QED BY <1>1, <1>2, <2>1, <2>3, <3>1, <3>2 DEF Behind, SlotOf, CounterType
  <2> QED BY <2>2, <2>3
<1>7. CASE refused # {}
  <2>1. granted' = granted
    BY <1>1, <1>7
  <2>2. \A w \in W : \A g, h \in granted : Numbered(g, h, w)'
    BY DEF RateInv, Numbered, SlotOf
  <2>3. \A w \in W : \A g \in granted : Behind(g, w)'
    BY <1>6
  <2> QED BY <1>1, <1>3, <1>4, <2>1, <2>2, <2>3 DEF RateInv, SlotOf
<1>8. CASE refused = {}
  <2>1. granted' = granted \cup {r} /\ \A w \in W : new(w).count \in 1 .. Windows[w]
    BY <1>1, <1>2, <1>5, <1>8 DEF Limit!Exceeds, CounterType
  <2>2. ASSUME NEW w \in W PROVE Behind(r, w)'
    <3>1. r.count[w] = new(w).count /\ r.count[w] \in 1 .. Windows[w] /\ store'[p][w] = new(w) /\ new(w).slot = SlotOf(clock, w)
      BY <1>2, <1>3, <1>8, <1>9, <2>1
    <3>2. clock \in Nat /\ SlotOf(clock, w) \in Nat /\ new(w).count \in Nat
      BY <1>2 DEF RateInv, CounterType
    <3> HIDE DEF new
    <3> QED BY <1>1, <1>9, <3>1, <3>2 DEF Behind, SlotOf
  <2>3. \A w \in W : \A g \in granted : Numbered(g, r, w) /\ Numbered(r, g, w)
    <3> SUFFICES ASSUME NEW w \in W, NEW g \in granted PROVE Numbered(g, r, w) /\ Numbered(r, g, w)
      OBVIOUS
    <3>1. g.count[w] \in Nat /\ new(w).count \in Nat
      BY <1>2 DEF RateInv, GrantType, CounterType
    <3> QED BY <1>9, <1>6, <3>1 DEF Numbered
  <2>4. \A w \in W : \A g, h \in granted' : Numbered(g, h, w)'
    BY <2>1, <2>3 DEF RateInv, Numbered, SlotOf
  <2>5. \A w \in W : \A g \in granted' : Behind(g, w)'
    BY <1>6, <2>1, <2>2
  <2>6. granted' \subseteq GrantType
    BY <1>9, <2>1 DEF RateInv
  <2> QED BY <1>1, <1>3, <1>4, <2>4, <2>5, <2>6 DEF RateInv, SlotOf
<1> QED BY <1>7, <1>8

\* Time passes: counters of earlier slots are left behind.
LEMMA RatePassStep ==
  ASSUME RateInv, Limit!Pass
  PROVE  RateInv'
<1>1. clock' = clock + 1 /\ store' = store /\ granted' = granted
  BY DEF Limit!Pass
<1>2. ASSUME NEW w \in DOMAIN Windows
      PROVE  SlotOf(clock, w) \in Nat /\ SlotOf(clock + 1, w) \in Nat /\ SlotOf(clock, w) <= SlotOf(clock + 1, w)
  <2>1. w \in Nat \ {0} /\ clock \in Nat /\ clock + 1 \in Nat /\ clock <= clock + 1
    BY RateAssumption DEF RateInv
  <2> QED BY <2>1, SlotIs
<1>3. \A p \in Pods, w \in DOMAIN Windows : store[p][w].slot <= SlotOf(clock + 1, w)
  BY <1>2 DEF RateInv, CounterType
<1>4. \A w \in DOMAIN Windows : \A g \in granted : Behind(g, w)'
  BY <1>1 DEF RateInv, Behind, SlotOf, GrantType
<1> QED BY <1>1, <1>3, <1>4 DEF RateInv, Numbered, SlotOf

\* A process allows at most the limit in one slot of a window.
LEMMA SlotBounded ==
  ASSUME RateInv, NEW w \in DOMAIN Windows, NEW k \in Nat
  PROVE  LET A == {g \in granted : SlotOf(g.tick, w) = k}
         IN  IsFiniteSet(A) /\ Cardinality(A) <= Windows[w] * Cardinality(Pods)
<1> DEFINE A == {g \in granted : SlotOf(g.tick, w) = k}
           B == Pods \X (1 .. Windows[w])
           f == [g \in A |-> <<g.pod, g.count[w]>>]
<1>1. Windows[w] \in Nat /\ IsFiniteSet(Pods)
  BY RateAssumption
<1>2. IsFiniteSet(1 .. Windows[w]) /\ Cardinality(1 .. Windows[w]) = Windows[w]
  BY <1>1, FS_Interval
<1>3. IsFiniteSet(B) /\ Cardinality(B) = Cardinality(Pods) * Windows[w] /\ Cardinality(Pods) \in Nat
  BY <1>1, <1>2, FS_Product, FS_CardinalityType
<1>4. f \in Injection(A, B)
  <2>1. \A g \in A : g.pod \in Pods /\ g.count[w] \in 1 .. Windows[w]
    BY DEF RateInv, Behind, GrantType
  <2>2. \A g, h \in A : f[g] = f[h] => g = h
    BY DEF RateInv, Numbered
  <2> QED BY <2>1, <2>2 DEF Injection, IsInjective
<1>5. IsFiniteSet(A) /\ Cardinality(A) <= Cardinality(B)
  BY <1>3, <1>4, FS_Injection
<1> QED BY <1>1, <1>3, <1>5

\* The ticks of a window of time lie in one slot if it begins with it, else in two.
LEMMA WindowSlots ==
  ASSUME NEW w \in Nat \ {0}, NEW s \in Nat, NEW t \in s .. s + w - 1
  PROVE  /\ SlotOf(t, w) \in {SlotOf(s, w), SlotOf(s, w) + 1}
         /\ s % w = 0 => SlotOf(t, w) = SlotOf(s, w)
<1> DEFINE k == SlotOf(s, w)
<1>1. t \in Nat /\ k \in Nat /\ w * k <= s /\ s < w * k + w /\ w * k \in Nat
  BY SlotIs
<1>2. w * (k + 1) = w * k + w
  BY <1>1
<1>3. t < w * k + w => SlotOf(t, w) = k
  BY <1>1, SlotIs
<1>4. w * k + w <= t => SlotOf(t, w) = k + 1
  BY <1>1, <1>2, SlotIs
<1>5. s % w = 0 => s = w * k
  BY DEF SlotOf
<1> QED BY <1>1, <1>3, <1>4, <1>5

\* Request rates are bounded, at a window's boundary twice.
LEMMA RatesAreBounded == Spec => [](service = "rate" => Limit!RateBounded)
<1> DEFINE I == service = "rate" => RateInv
<1>1. Init => I
  <2> SUFFICES ASSUME Init PROVE RateInv
    OBVIOUS
  <2>1. clock = 0 /\ store = [p \in Pods |-> [w \in DOMAIN Windows |-> Limit!NoCounter]] /\ granted = {}
    BY DEF Init, Limit!RateInit, Limit!Lengths
  <2>2. Limit!NoCounter \in CounterType /\ Limit!NoCounter.slot = -1
    BY DEF Limit!NoCounter, CounterType
  <2>3. \A w \in DOMAIN Windows : SlotOf(0, w) \in Nat
    BY RateAssumption, SlotIs
  <2> QED BY <2>1, <2>2, <2>3 DEF RateInv, SlotOf
<1>2. I /\ [Next]_vars => I'
  <2> SUFFICES ASSUME RateInv, service = "rate", [Next]_vars PROVE RateInv'
    BY Frame
  <2>1. [Limit!RateNext]_rateVars
    BY Frame
  <2>2. CASE UNCHANGED rateVars
    BY <2>2 DEF rateVars, RateInv, Behind, Numbered, SlotOf
  <2>3. CASE Limit!RateNext
    <3>1. Limit!Pass \/ \E p \in Pods : Limit!Request(p)
      BY <2>3 DEF Limit!RateNext
    <3> QED BY <3>1, RatePassStep, RateRequestStep
  <2> QED BY <2>1, <2>2, <2>3
<1>3. I => (service = "rate" => Limit!RateBounded)
  <2> SUFFICES ASSUME RateInv, NEW w \in DOMAIN Windows, NEW s \in 0 .. MaxTick
               PROVE  LET A == {g \in granted : g.tick \in s .. s + w - 1}
                      IN  /\ Cardinality(A) <= 2 * Windows[w] * Cardinality(Pods)
                          /\ s % w = 0 => Cardinality(A) <= Windows[w] * Cardinality(Pods)
    BY DEF Limit!RateBounded, Limit!Allowed, Limit!Lengths, Limit!Cardinality, Cardinality
  <2> DEFINE A == {g \in granted : g.tick \in s .. s + w - 1}
             k == SlotOf(s, w)
             InSlot(n) == {g \in granted : SlotOf(g.tick, w) = n}
             most == Windows[w] * Cardinality(Pods)
  <2>1. w \in Nat \ {0} /\ s \in Nat /\ k \in Nat /\ most \in Nat /\ 2 * Windows[w] * Cardinality(Pods) = most + most
    <3>1. Windows[w] \in Nat /\ Cardinality(Pods) \in Nat
      BY RateAssumption, FS_CardinalityType
    <3>2. w \in Nat \ {0} /\ s \in Nat
      BY RateAssumption
    <3>3. k \in Nat
      BY <3>2, SlotIs
    <3> HIDE DEF k
    <3> QED BY <3>1, <3>2, <3>3
  <2>2. IsFiniteSet(InSlot(k)) /\ Cardinality(InSlot(k)) <= most /\ IsFiniteSet(InSlot(k + 1)) /\ Cardinality(InSlot(k + 1)) <= most
    BY <2>1, SlotBounded
  <2>3. A \subseteq InSlot(k) \cup InSlot(k + 1) /\ (s % w = 0 => A \subseteq InSlot(k))
    BY <2>1, WindowSlots
  <2>4. Cardinality(InSlot(k) \cup InSlot(k + 1)) <= most + most /\ IsFiniteSet(InSlot(k) \cup InSlot(k + 1))
    <3>1. IsFiniteSet(InSlot(k) \cap InSlot(k + 1))
      BY <2>2, FS_Subset
    <3>2. /\ Cardinality(InSlot(k)) \in Nat /\ Cardinality(InSlot(k + 1)) \in Nat
          /\ Cardinality(InSlot(k) \cap InSlot(k + 1)) \in Nat
      BY <2>2, <3>1, FS_CardinalityType
    <3>3. /\ IsFiniteSet(InSlot(k) \cup InSlot(k + 1))
          /\ Cardinality(InSlot(k) \cup InSlot(k + 1)) =
               Cardinality(InSlot(k)) + Cardinality(InSlot(k + 1)) - Cardinality(InSlot(k) \cap InSlot(k + 1))
      BY <2>2, FS_Union
    <3> HIDE DEF InSlot, k, most
    <3> QED BY <2>1, <2>2, <3>2, <3>3
  <2>5. Cardinality(A) <= most + most /\ (s % w = 0 => Cardinality(A) <= most)
    <3>1. Cardinality(A) <= Cardinality(InSlot(k) \cup InSlot(k + 1)) /\ (s % w = 0 => Cardinality(A) <= Cardinality(InSlot(k)))
      BY <2>2, <2>3, <2>4, FS_Subset
    <3>2. IsFiniteSet(A)
      BY <2>3, <2>4, FS_Subset
    <3> QED BY <2>1, <2>2, <2>4, <3>1, <3>2, FS_CardinalityType
  <2> QED BY <2>1, <2>5
<1> QED BY <1>1, <1>2, <1>3, PTL DEF Spec

-----------------------------------------------------------------------------
(* Plans                                                                     *)

PlanTitles == PlanNames \cup {"trial", "pro"}
RowType == [name : PlanTitles, default : BOOLEAN, offered : BOOLEAN, trial : BOOLEAN]
NumberType == 1 .. MaxPlans
CreateType == [kind : {"create"}, pc : {"locked"}, row : Catalogue!Bodies, rows : SUBSET NumberType, after : SUBSET Handlers]
UpdateType == [kind : {"update"}, pc : {"checked", "locked"}, id : NumberType, patch : Catalogue!Patches,
               rows : SUBSET NumberType, after : SUBSET Handlers]
DeleteType == [kind : {"delete"}, pc : {"read", "unused"}, id : NumberType, name : PlanTitles]
SelectType == [kind : {"select"}, pc : {"read", "fits"}, name : PlanTitles, trial : BOOLEAN, admin : BOOLEAN]
AssignType == [kind : {"assign"}, name : PlanTitles]
SubscribeType == [kind : {"subscribe"}, id : NumberType]
HandlerType == CreateType \cup UpdateType \cup DeleteType \cup SelectType \cup AssignType \cup SubscribeType

Row(i) == plans[i] \notin {Catalogue!NoPlan, Catalogue!Gone}
Defaults == {i \in NumberType : Row(i) /\ plans[i].default}
Called(name) == \E i \in NumberType : Row(i) /\ plans[i].name = name
Overlap(a, b, kinds, others) == a # b /\ handler[a].kind \in kinds /\ handler[b].kind \in others

\* The overlaps that have happened excuse what they may break.
Orderly == ~ Catalogue!Met(Catalogue!CatalogueOverlaps \cup {{"older"}})
Steady == ~ Catalogue!Met(Catalogue!DeleteOverlaps \cup {{"rename"}, {"older"}})
Single == ~ Catalogue!Met(Catalogue!ChoiceOverlaps)

PlansTyped ==
    /\ plans \in [NumberType -> {Catalogue!NoPlan, Catalogue!Gone} \cup RowType]
    /\ handler \in [Handlers -> {Catalogue!Idle} \cup HandlerType]
    /\ space \in [plan : PlanTitles \cup {"none"}, trialUsed : BOOLEAN] /\ trials \in Nat

\* As long as none of them has happened, such requests do not overlap.
Apart ==
    \A a, b \in Handlers :
        /\ Orderly => /\ ~ Overlap(a, b, {"create", "update"}, {"create", "update"})
                      /\ ~ Overlap(a, b, {"update"}, {"delete"})
        /\ Steady => ~ Overlap(a, b, {"delete"}, {"select", "assign"})
        /\ Single => ~ Overlap(a, b, {"select"}, {"select", "assign"})

\* A request that makes a default takes it from all that have it; one that deletes does
\* not delete the default.
KeepsDefault(h) ==
    /\ h.kind = "create" => /\ h.row.default => h.row.offered /\ Defaults \subseteq h.rows
                            /\ ~ h.row.default => h.rows = {}
    /\ h.kind = "update" =>
          /\ Row(h.id) /\ Catalogue!ValidDefault(Catalogue!Patched(h.patch, plans[h.id]))
          /\ h.pc = "locked" => /\ "default" \in DOMAIN h.patch => Defaults \subseteq h.rows
                                /\ "default" \notin DOMAIN h.patch => h.rows = {h.id}
    /\ h.kind = "delete" => plans[h.id] # Catalogue!NoPlan /\ h.id \notin Defaults

\* A plan that is about to be taken is there, one about to be deleted is not the taken one.
KeepsPlan(h) ==
    /\ h.kind \in {"select", "assign"} => Called(h.name)
    /\ h.kind = "delete" => /\ plans[h.id] # Catalogue!NoPlan
                            /\ Row(h.id) => plans[h.id].name = h.name
                            /\ h.pc = "unused" => space.plan # h.name

KeepsTrial(h) == h.kind = "select" /\ h.pc = "fits" => ~ Catalogue!TrialRefused(h)

DefaultInv == Orderly => /\ \E i \in NumberType : plans[i].offered /\ Defaults = {i}
                         /\ \A a \in Handlers : KeepsDefault(handler[a])
KeptInv == Steady => /\ space.plan = "none" \/ Called(space.plan)
                     /\ \A a \in Handlers : KeepsPlan(handler[a])
TrialInv == Single => /\ trials <= 1 /\ (trials = 1 => space.trialUsed)
                      /\ \A a \in Handlers : KeepsTrial(handler[a])

PlansBase == PlansTyped /\ Apart
PlansInv == PlansBase /\ DefaultInv /\ KeptInv /\ TrialInv

\* A row, given some columns, is a row with these columns.
LEMMA PatchedRow ==
  ASSUME NEW patch \in Catalogue!Patches, NEW r \in RowType
  PROVE  /\ Catalogue!Patched(patch, r) \in RowType
         /\ Catalogue!Patched(patch, r).default <=> "default" \in DOMAIN patch \/ r.default
         /\ "name" \notin DOMAIN patch => Catalogue!Patched(patch, r).name = r.name
<1>1. CASE patch = [default |-> TRUE]
  BY <1>1 DEF Catalogue!Patched, RowType
<1>2. ASSUME NEW o \in BOOLEAN, patch = [offered |-> o] PROVE Catalogue!Patched(patch, r) = [r EXCEPT !.offered = o]
  BY <1>2 DEF Catalogue!Patched, RowType
<1>4. ASSUME NEW o \in BOOLEAN, patch = [offered |-> o]
      PROVE  DOMAIN patch = {"offered"} /\ [r EXCEPT !.offered = o] \in RowType
  BY <1>4 DEF RowType
<1>3. CASE \E n \in PlanNames : patch = [name |-> n]
  BY <1>3 DEF Catalogue!Patched, RowType, PlanTitles
<1> QED BY <1>1, <1>2, <1>3, <1>4 DEF Catalogue!Patches, RowType

\* A request in flight is of its kind.
LEMMA HandlerFields ==
  ASSUME NEW h \in {Catalogue!Idle} \cup HandlerType
  PROVE  /\ h.kind = "idle" <=> h = Catalogue!Idle
         /\ h.kind = "create" <=> h \in CreateType
         /\ h.kind = "update" <=> h \in UpdateType
         /\ h.kind = "delete" <=> h \in DeleteType
         /\ h.kind = "select" <=> h \in SelectType
         /\ h.kind = "assign" <=> h \in AssignType
         /\ h.kind = "subscribe" <=> h \in SubscribeType
BY DEF HandlerType, Catalogue!Idle, CreateType, UpdateType, DeleteType, SelectType, AssignType, SubscribeType

\* A request that begins has noted whom it meets.
LEMMA BeginPlan ==
  ASSUME PlansBase, NEW a \in Handlers, NEW r \in HandlerType, Catalogue!Begin(a, r)
  PROVE  /\ handler[a] = Catalogue!Idle /\ handler'[a] = r /\ \A b \in Handlers \ {a} : handler'[b] = handler[b]
         /\ handler' \in [Handlers -> {Catalogue!Idle} \cup HandlerType]
         /\ (Orderly' => Orderly) /\ (Steady' => Steady) /\ (Single' => Single)
         /\ Apart'
<1>1. /\ handler[a] = Catalogue!Idle /\ handler' = [handler EXCEPT ![a] = r]
      /\ met' = met \cup ({{r.kind, handler[b].kind} : b \in Catalogue!Others(a)} \cap Catalogue!Delicate)
  BY DEF Catalogue!Begin
<1>2. /\ handler'[a] = r /\ \A b \in Handlers \ {a} : handler'[b] = handler[b]
      /\ handler' \in [Handlers -> {Catalogue!Idle} \cup HandlerType]
  BY <1>1 DEF PlansBase, PlansTyped
<1>3. met \subseteq met'
  BY <1>1
<1>4. (Orderly' => Orderly) /\ (Steady' => Steady) /\ (Single' => Single)
  BY <1>3 DEF Orderly, Steady, Single, Catalogue!Met, Catalogue!CatalogueOverlaps, Catalogue!DeleteOverlaps, Catalogue!ChoiceOverlaps
<1>5. ASSUME NEW b \in Handlers \ {a}, handler[b].kind # "idle", {r.kind, handler[b].kind} \in Catalogue!Delicate
      PROVE  {r.kind, handler[b].kind} \in met'
  BY <1>1, <1>5 DEF Catalogue!Others, Catalogue!Idle
<1>6. ASSUME NEW b \in Handlers \ {a}
      PROVE  /\ Orderly' => /\ ~ (r.kind \in {"create", "update"} /\ handler[b].kind \in {"create", "update"})
                            /\ ~ (r.kind = "update" /\ handler[b].kind = "delete")
                            /\ ~ (r.kind = "delete" /\ handler[b].kind = "update")
             /\ Steady' => /\ ~ (r.kind = "delete" /\ handler[b].kind \in {"select", "assign"})
                           /\ ~ (r.kind \in {"select", "assign"} /\ handler[b].kind = "delete")
             /\ Single' => /\ ~ (r.kind = "select" /\ handler[b].kind \in {"select", "assign"})
                           /\ ~ (r.kind \in {"select", "assign"} /\ handler[b].kind = "select")
  <2> DEFINE pair == {r.kind, handler[b].kind}
  <2>1. pair \in Catalogue!CatalogueOverlaps /\ handler[b].kind # "idle" => ~ Orderly'
    BY <1>5 DEF Orderly, Catalogue!Met, Catalogue!Delicate
  <2>2. pair \in Catalogue!DeleteOverlaps /\ handler[b].kind # "idle" => ~ Steady'
    BY <1>5 DEF Steady, Catalogue!Met, Catalogue!Delicate
  <2>3. pair \in Catalogue!ChoiceOverlaps /\ handler[b].kind # "idle" => ~ Single'
    BY <1>5 DEF Single, Catalogue!Met, Catalogue!Delicate
  <2>4. \/ r.kind \in {"create", "update"} /\ handler[b].kind \in {"create", "update"}
        \/ r.kind = "update" /\ handler[b].kind = "delete"
        \/ r.kind = "delete" /\ handler[b].kind = "update"
        => pair \in Catalogue!CatalogueOverlaps
    BY DEF Catalogue!CatalogueOverlaps
  <2>5. \/ r.kind = "delete" /\ handler[b].kind \in {"select", "assign"}
        \/ r.kind \in {"select", "assign"} /\ handler[b].kind = "delete"
        => pair \in Catalogue!DeleteOverlaps
    BY DEF Catalogue!DeleteOverlaps
  <2>6. \/ r.kind = "select" /\ handler[b].kind \in {"select", "assign"}
        \/ r.kind \in {"select", "assign"} /\ handler[b].kind = "select"
        => pair \in Catalogue!ChoiceOverlaps
    BY DEF Catalogue!ChoiceOverlaps
  <2> HIDE DEF pair
  <2> QED BY <2>1, <2>2, <2>3, <2>4, <2>5, <2>6
<1>7. Apart'
  <2> SUFFICES ASSUME NEW b \in Handlers, NEW c \in Handlers
               PROVE  /\ Orderly' => /\ ~ Overlap(b, c, {"create", "update"}, {"create", "update"})'
                                     /\ ~ Overlap(b, c, {"update"}, {"delete"})'
                      /\ Steady' => ~ Overlap(b, c, {"delete"}, {"select", "assign"})'
                      /\ Single' => ~ Overlap(b, c, {"select"}, {"select", "assign"})'
    BY DEF Apart
  <2>1. CASE b # a /\ c # a
    BY <1>2, <1>4, <2>1 DEF PlansBase, Apart, Overlap
  <2>2. CASE b = a /\ c # a
    BY <1>2, <1>6, <2>2 DEF Overlap
  <2>3. CASE b # a /\ c = a
    BY <1>2, <1>6, <2>3 DEF Overlap
  <2>4. CASE b = c
    BY <2>4 DEF Overlap
  <2> QED BY <2>1, <2>2, <2>3, <2>4
<1> QED BY <1>1, <1>2, <1>4, <1>7

\* What a request is about does not change when another one ends.
Retained(b) ==
    /\ handler'[b].kind = handler[b].kind
    /\ handler[b].kind = "create" => handler'[b].row = handler[b].row /\ handler'[b].rows = handler[b].rows
    /\ handler[b].kind = "update" => /\ handler'[b].id = handler[b].id /\ handler'[b].patch = handler[b].patch
                                     /\ handler'[b].rows = handler[b].rows /\ handler'[b].pc = handler[b].pc
    /\ handler[b].kind \notin {"create", "update"} => handler'[b] = handler[b]

Excusing == (Orderly' => Orderly) /\ (Steady' => Steady) /\ (Single' => Single)

\* Excuses are not forgotten.
LEMMA ExcusesStay ==
  ASSUME met \subseteq met' PROVE Excusing
BY DEF Excusing, Orderly, Steady, Single, Catalogue!Met, Catalogue!CatalogueOverlaps, Catalogue!DeleteOverlaps, Catalogue!ChoiceOverlaps

\* A request that ends leaves the others as they are.
LEMMA ReleasePlan ==
  ASSUME PlansBase, NEW a \in Handlers, Catalogue!Release(a), met \subseteq met'
  PROVE  /\ handler'[a] = Catalogue!Idle /\ \A b \in Handlers \ {a} : Retained(b)
         /\ handler' \in [Handlers -> {Catalogue!Idle} \cup HandlerType]
         /\ Excusing /\ Apart'
<1>1. handler' = [b \in Handlers |-> IF b = a THEN Catalogue!Idle
                                     ELSE IF handler[b].kind \in {"create", "update"}
                                     THEN [handler[b] EXCEPT !.after = handler[b].after \ {a}] ELSE handler[b]]
  BY DEF Catalogue!Release
<1>2. handler'[a] = Catalogue!Idle /\ Catalogue!Idle.kind = "idle"
  BY <1>1 DEF Catalogue!Idle
<1>3. ASSUME NEW b \in Handlers \ {a} PROVE Retained(b) /\ handler'[b] \in {Catalogue!Idle} \cup HandlerType
  <2>1. handler[b] \in {Catalogue!Idle} \cup HandlerType
    BY DEF PlansBase, PlansTyped
  <2>2. CASE handler[b].kind = "create"
    <3>1. handler[b] \in CreateType /\ handler'[b] = [handler[b] EXCEPT !.after = handler[b].after \ {a}]
      BY <1>1, <2>1, <2>2, HandlerFields
    <3>2. handler'[b] \in CreateType
      BY <3>1 DEF CreateType
    <3> QED BY <2>2, <3>1, <3>2 DEF Retained, CreateType, HandlerType
  <2>3. CASE handler[b].kind = "update"
    <3>1. handler[b] \in UpdateType /\ handler'[b] = [handler[b] EXCEPT !.after = handler[b].after \ {a}]
      BY <1>1, <2>1, <2>3, HandlerFields
    <3>2. handler'[b] \in UpdateType
      BY <3>1 DEF UpdateType
    <3> QED BY <2>3, <3>1, <3>2 DEF Retained, UpdateType, HandlerType
  <2>4. CASE handler[b].kind \notin {"create", "update"}
    BY <1>1, <2>1, <2>4 DEF Retained
  <2> QED BY <2>2, <2>3, <2>4
<1>4. handler' \in [Handlers -> {Catalogue!Idle} \cup HandlerType]
  BY <1>1, <1>2, <1>3
<1>5. \A b \in Handlers : handler'[b].kind \in {"idle", handler[b].kind}
  BY <1>2, <1>3 DEF Retained
<1>6. Apart'
  BY <1>5, ExcusesStay DEF Excusing, PlansBase, Apart, Overlap
<1> QED BY <1>2, <1>3, <1>4, <1>6, ExcusesStay

\* A request that goes on leaves the others as they are.
LEMMA GotoPlan ==
  ASSUME PlansBase, NEW a \in Handlers, NEW r \in HandlerType, handler' = [handler EXCEPT ![a] = r], r.kind = handler[a].kind, met' = met
  PROVE  /\ handler'[a] = r /\ \A b \in Handlers \ {a} : Retained(b)
         /\ handler' \in [Handlers -> {Catalogue!Idle} \cup HandlerType]
         /\ Excusing /\ Apart'
<1>1. handler'[a] = r /\ (\A b \in Handlers \ {a} : handler'[b] = handler[b])
      /\ handler' \in [Handlers -> {Catalogue!Idle} \cup HandlerType]
  BY DEF PlansBase, PlansTyped
<1>2. \A b \in Handlers : handler'[b].kind = handler[b].kind
  BY <1>1
<1>3. Apart'
  BY <1>2, ExcusesStay DEF Excusing, PlansBase, Apart, Overlap
<1> QED BY <1>1, <1>3, ExcusesStay DEF Retained

\* Plans that do not change are promised the same way by requests that do not.
LEMMA DefaultRests ==
  ASSUME PlansBase, DefaultInv, NEW a \in Handlers, plans' = plans, Excusing, \A b \in Handlers \ {a} : Retained(b),
         Orderly' => KeepsDefault(handler[a])'
  PROVE  DefaultInv'
<1>1. \A b \in Handlers \ {a} : KeepsDefault(handler[b]) => KeepsDefault(handler[b])'
  BY DEF KeepsDefault, Retained, Defaults, Row, Catalogue!Gone, Catalogue!NoPlan, Catalogue!ValidDefault, Catalogue!Patched
<1>2. Defaults' = Defaults
  BY DEF Defaults, Row, Catalogue!Gone, Catalogue!NoPlan
<1> QED BY <1>1, <1>2 DEF DefaultInv, Excusing

LEMMA KeptRests ==
  ASSUME PlansBase, KeptInv, NEW a \in Handlers, plans' = plans, space' = space, Excusing, \A b \in Handlers \ {a} : Retained(b),
         Steady' => KeepsPlan(handler[a])'
  PROVE  KeptInv'
<1>1. \A b \in Handlers \ {a} : KeepsPlan(handler[b]) => KeepsPlan(handler[b])'
  BY DEF KeepsPlan, Retained, Called, Row, Catalogue!Gone, Catalogue!NoPlan
<1>2. space.plan = "none" \/ Called(space.plan) => (space.plan = "none" \/ Called(space.plan))'
  BY DEF Called, Row, Catalogue!Gone, Catalogue!NoPlan
<1> QED BY <1>1, <1>2 DEF KeptInv, Excusing

LEMMA TrialRests ==
  ASSUME PlansBase, TrialInv, NEW a \in Handlers, space' = space, trials' = trials, Excusing, \A b \in Handlers \ {a} : Retained(b),
         Single' => KeepsTrial(handler[a])'
  PROVE  TrialInv'
<1>1. \A b \in Handlers \ {a} : KeepsTrial(handler[b]) => KeepsTrial(handler[b])'
  BY DEF KeepsTrial, Retained, Catalogue!TrialRefused
<1> QED BY <1>1 DEF TrialInv, Excusing

\* Nothing is promised for a request that is over.
LEMMA IdleKeeps ==
  ASSUME NEW a \in Handlers, handler'[a] = Catalogue!Idle
  PROVE  KeepsDefault(handler[a])' /\ KeepsPlan(handler[a])' /\ KeepsTrial(handler[a])'
BY DEF Catalogue!Idle, KeepsDefault, KeepsPlan, KeepsTrial

\* A request that ends without having changed anything.
LEMMA EndPlan ==
  ASSUME PlansInv, NEW a \in Handlers, Catalogue!End(a), plans' = plans, space' = space, trials' = trials
  PROVE  PlansInv'
<1>1. Catalogue!Release(a) /\ met' = met
  BY DEF Catalogue!End
<1>2. /\ handler'[a] = Catalogue!Idle /\ (\A b \in Handlers \ {a} : Retained(b)) /\ Excusing /\ Apart'
      /\ handler' \in [Handlers -> {Catalogue!Idle} \cup HandlerType]
  BY <1>1, ReleasePlan DEF PlansInv
<1>3. DefaultInv' /\ KeptInv' /\ TrialInv'
  BY <1>2, IdleKeeps, DefaultRests, KeptRests, TrialRests DEF PlansInv
<1>4. PlansTyped'
  BY <1>2 DEF PlansTyped, PlansInv, PlansBase, Catalogue!Gone, Catalogue!NoPlan
<1> QED BY <1>2, <1>3, <1>4 DEF PlansInv, PlansBase

\* A request that begins or goes on and keeps what it must.
LEMMA GoOnStep ==
  ASSUME PlansInv, NEW a \in Handlers, plans' = plans, space' = space, trials' = trials,
         handler' \in [Handlers -> {Catalogue!Idle} \cup HandlerType], \A b \in Handlers \ {a} : Retained(b), Excusing, Apart',
         Orderly => KeepsDefault(handler[a])', Steady => KeepsPlan(handler[a])', Single => KeepsTrial(handler[a])'
  PROVE  PlansInv'
<1>1. DefaultInv' /\ KeptInv' /\ TrialInv'
  BY DefaultRests, KeptRests, TrialRests DEF PlansInv, Excusing
<1>2. PlansTyped'
  BY DEF PlansTyped, PlansInv, PlansBase, Catalogue!Gone, Catalogue!NoPlan
<1> QED BY <1>1, <1>2 DEF PlansInv, PlansBase

\* What is in the catalogue.
LEMMA ExistingRows ==
  ASSUME PlansTyped
  PROVE  /\ Catalogue!Existing = {i \in NumberType : Row(i)} /\ Defaults \subseteq Catalogue!Existing
         /\ \A i \in Catalogue!Existing : i \in NumberType /\ plans[i] \in RowType /\ Row(i)
         /\ \A n : Called(n) <=> Catalogue!Named(n) # {}
         /\ \A i \in Catalogue!Unused : i \in NumberType /\ ~ Row(i) /\ plans[i] = Catalogue!NoPlan
BY DEF PlansTyped, NumberType, Row, Defaults, Called, Catalogue!Existing, Catalogue!Plans, Catalogue!Named, Catalogue!Unused

\* A request begins.
LEMMA BeginRequestStep ==
  ASSUME PlansInv, NEW a \in Handlers, Catalogue!BeginRequest(a)
  PROVE  PlansInv'
<1> DEFINE E == Catalogue!Existing
<1>1. /\ plans' = plans /\ space' = space /\ trials' = trials
      /\ \E r \in HandlerType :
            /\ Catalogue!Begin(a, r)
            /\ KeepsDefault(r) /\ KeepsPlan(r) /\ KeepsTrial(r)
  <2> SUFFICES \E r \in HandlerType : /\ plans' = plans /\ space' = space /\ trials' = trials /\ Catalogue!Begin(a, r)
                                      /\ KeepsDefault(r) /\ KeepsPlan(r) /\ KeepsTrial(r)
    OBVIOUS
  <2>1. CASE \E body \in Catalogue!Bodies : Catalogue!BeginCreate(a, body)
    <3>1. PICK body \in Catalogue!Bodies : Catalogue!BeginCreate(a, body)
      BY <2>1
    <3> DEFINE rows == IF body.default THEN E ELSE {}
               r == [kind |-> "create", pc |-> "locked", row |-> body, rows |-> rows, after |-> Catalogue!Blockers(a, rows)]
    <3>2. Catalogue!Begin(a, r) /\ Catalogue!ValidDefault(body) /\ plans' = plans /\ space' = space /\ trials' = trials
      BY <3>1 DEF Catalogue!BeginCreate
    <3>3. r \in CreateType
      BY ExistingRows DEF PlansInv, PlansBase, CreateType, Catalogue!Blockers, Catalogue!Others
    <3>4. KeepsDefault(r) /\ KeepsPlan(r) /\ KeepsTrial(r)
      BY <3>2, ExistingRows DEF PlansInv, PlansBase, KeepsDefault, KeepsPlan, KeepsTrial, Catalogue!ValidDefault
    <3> QED BY <3>2, <3>3, <3>4 DEF HandlerType
  <2>2. CASE \E i \in E : Catalogue!BeginDelete(a, i)
    <3>1. PICK i \in E : Catalogue!BeginDelete(a, i)
      BY <2>2
    <3> DEFINE r == [kind |-> "delete", pc |-> "read", id |-> i, name |-> plans[i].name]
    <3>2. Catalogue!Begin(a, r) /\ ~ plans[i].default /\ plans' = plans /\ space' = space /\ trials' = trials
      BY <3>1 DEF Catalogue!BeginDelete
    <3>3. r \in DeleteType
      BY ExistingRows DEF PlansInv, PlansBase, DeleteType, RowType
    <3>4. KeepsDefault(r) /\ KeepsPlan(r) /\ KeepsTrial(r)
      BY <3>2, ExistingRows DEF PlansInv, PlansBase, KeepsDefault, KeepsPlan, KeepsTrial, Row, Defaults
    <3> QED BY <3>2, <3>3, <3>4 DEF HandlerType
  <2>3. CASE \E i \in E : Catalogue!BeginAssign(a, i)
    <3>1. PICK i \in E : Catalogue!BeginAssign(a, i)
      BY <2>3
    <3> DEFINE r == [kind |-> "assign", name |-> plans[i].name]
    <3>2. Catalogue!Begin(a, r) /\ plans' = plans /\ space' = space /\ trials' = trials
      BY <3>1 DEF Catalogue!BeginAssign
    <3>3. r \in AssignType
      BY ExistingRows DEF PlansInv, PlansBase, AssignType, RowType
    <3>4. KeepsDefault(r) /\ KeepsPlan(r) /\ KeepsTrial(r)
      BY ExistingRows DEF PlansInv, PlansBase, KeepsDefault, KeepsPlan, KeepsTrial, Called
    <3> QED BY <3>2, <3>3, <3>4 DEF HandlerType
  <2>4. CASE \E i \in E : Catalogue!BeginSubscribe(a, i)
    <3>1. PICK i \in E : Catalogue!BeginSubscribe(a, i)
      BY <2>4
    <3> DEFINE r == [kind |-> "subscribe", id |-> i]
    <3>2. Catalogue!Begin(a, r) /\ plans' = plans /\ space' = space /\ trials' = trials
      BY <3>1 DEF Catalogue!BeginSubscribe
    <3>3. r \in SubscribeType
      BY ExistingRows DEF PlansInv, PlansBase, SubscribeType
    <3>4. KeepsDefault(r) /\ KeepsPlan(r) /\ KeepsTrial(r)
      BY DEF KeepsDefault, KeepsPlan, KeepsTrial
    <3> QED BY <3>2, <3>3, <3>4 DEF HandlerType
  <2>5. CASE \E i \in E, p \in Catalogue!Patches : Catalogue!BeginUpdate(a, i, p)
    <3>1. PICK i \in E, p \in Catalogue!Patches : Catalogue!BeginUpdate(a, i, p)
      BY <2>5
    <3> DEFINE r == [kind |-> "update", pc |-> "checked", id |-> i, patch |-> p, rows |-> {}, after |-> {}]
    <3>2. /\ Catalogue!Begin(a, r) /\ plans' = plans /\ space' = space /\ trials' = trials
          /\ Catalogue!ValidDefault(Catalogue!Patched(p, plans[i]))
      BY <3>1 DEF Catalogue!BeginUpdate
    <3>3. r \in UpdateType
      BY ExistingRows DEF PlansInv, PlansBase, UpdateType
    <3>4. KeepsDefault(r) /\ KeepsPlan(r) /\ KeepsTrial(r)
      BY <3>2, ExistingRows DEF PlansInv, PlansBase, KeepsDefault, KeepsPlan, KeepsTrial
    <3> QED BY <3>2, <3>3, <3>4 DEF HandlerType
  <2>6. CASE \E i \in E, by \in BOOLEAN : Catalogue!BeginSelect(a, i, by)
    <3>1. PICK i \in E, by \in BOOLEAN : Catalogue!BeginSelect(a, i, by)
      BY <2>6
    <3> DEFINE r == [kind |-> "select", pc |-> "read", name |-> plans[i].name, trial |-> plans[i].trial, admin |-> by]
    <3>2. Catalogue!Begin(a, r) /\ plans' = plans /\ space' = space /\ trials' = trials
      BY <3>1 DEF Catalogue!BeginSelect
    <3>3. r \in SelectType
      BY ExistingRows DEF PlansInv, PlansBase, SelectType, RowType
    <3>4. KeepsDefault(r) /\ KeepsPlan(r) /\ KeepsTrial(r)
      BY ExistingRows DEF PlansInv, PlansBase, KeepsDefault, KeepsPlan, KeepsTrial, Called
    <3> QED BY <3>2, <3>3, <3>4 DEF HandlerType
  <2> HIDE DEF E
  <2> QED BY <2>1, <2>2, <2>3, <2>4, <2>5, <2>6 DEF Catalogue!BeginRequest, E
<1>2. PICK r \in HandlerType : Catalogue!Begin(a, r) /\ KeepsDefault(r) /\ KeepsPlan(r) /\ KeepsTrial(r)
  BY <1>1
<1>3. /\ handler'[a] = r /\ (\A b \in Handlers \ {a} : handler'[b] = handler[b]) /\ Excusing /\ Apart'
      /\ handler' \in [Handlers -> {Catalogue!Idle} \cup HandlerType]
  BY <1>2, BeginPlan DEF PlansInv, Excusing
<1>4. KeepsDefault(handler[a])' /\ KeepsPlan(handler[a])' /\ KeepsTrial(handler[a])'
  BY <1>1, <1>2, <1>3 DEF KeepsDefault, KeepsPlan, KeepsTrial, Defaults, Row, Called, Catalogue!Gone, Catalogue!NoPlan,
     Catalogue!ValidDefault, Catalogue!Patched, Catalogue!TrialRefused
<1>5. \A b \in Handlers \ {a} : Retained(b)
  BY <1>3 DEF Retained
<1> QED BY <1>1, <1>3, <1>4, <1>5, GoOnStep

\* An update starts its transaction and sees the rows it takes the default from.
LEMMA StartUpdateStep ==
  ASSUME PlansInv, NEW a \in Handlers, Catalogue!StartUpdate(a)
  PROVE  PlansInv'
<1> DEFINE h == handler[a]
           rows == {h.id} \cup (IF "default" \in DOMAIN h.patch THEN Catalogue!Existing ELSE {})
           r == [kind |-> "update", pc |-> "locked", id |-> h.id, patch |-> h.patch, rows |-> rows,
                 after |-> Catalogue!Blockers(a, rows)]
<1>1. /\ h.kind = "update" /\ h.pc = "checked" /\ UNCHANGED <<plans, space, subscriber, handled, trials, met>>
      /\ handler' = [handler EXCEPT ![a] = r]
  BY DEF Catalogue!StartUpdate
<1>2. h \in UpdateType /\ Catalogue!Existing \subseteq NumberType
  BY <1>1, HandlerFields, ExistingRows DEF PlansInv, PlansBase, PlansTyped
<1>3. rows \subseteq NumberType
  BY <1>2 DEF UpdateType
<1>4. r \in UpdateType
  BY <1>2, <1>3 DEF UpdateType, Catalogue!Blockers, Catalogue!Others
<1>5. /\ handler'[a] = r /\ (\A b \in Handlers \ {a} : Retained(b)) /\ Excusing /\ Apart'
      /\ handler' \in [Handlers -> {Catalogue!Idle} \cup HandlerType]
  BY <1>1, <1>3, <1>4, GotoPlan DEF PlansInv, HandlerType
<1>6. Orderly => KeepsDefault(handler[a])'
  <2>1. Orderly => KeepsDefault(h)
    BY DEF PlansInv, DefaultInv
  <2>2. Defaults' = Defaults /\ Defaults \subseteq Catalogue!Existing /\ (Row(h.id) => plans'[h.id] \notin {Catalogue!NoPlan, Catalogue!Gone})
    BY <1>1, ExistingRows DEF PlansInv, PlansBase, Defaults, Row, Catalogue!Gone, Catalogue!NoPlan
  <2> QED BY <1>1, <1>3, <1>5, <2>1, <2>2 DEF KeepsDefault, Row, Catalogue!ValidDefault, Catalogue!Patched, Catalogue!Gone, Catalogue!NoPlan
<1>7. KeepsPlan(handler[a])' /\ KeepsTrial(handler[a])'
  BY <1>3, <1>5 DEF KeepsPlan, KeepsTrial
<1> QED BY <1>1, <1>5, <1>6, <1>7, GoOnStep

\* A deletion counts the uses of the plan.
LEMMA CountUsesStep ==
  ASSUME PlansInv, NEW a \in Handlers, Catalogue!CountUses(a)
  PROVE  PlansInv'
<1> DEFINE h == handler[a]
<1>1. /\ h.kind = "delete" /\ h.pc = "read" /\ plans' = plans /\ space' = space /\ trials' = trials
      /\ \/ Catalogue!End(a)
         \/ /\ space.plan # h.name /\ met' = met /\ handler' = [handler EXCEPT ![a].pc = "unused"]
  BY DEF Catalogue!CountUses, Catalogue!Goto
<1>2. CASE Catalogue!End(a)
  BY <1>1, <1>2, EndPlan
<1>3. CASE space.plan # h.name /\ met' = met /\ handler' = [handler EXCEPT ![a].pc = "unused"]
  <2>1. h \in DeleteType
    BY <1>1, HandlerFields DEF PlansInv, PlansBase, PlansTyped
  <2> DEFINE r == [kind |-> "delete", pc |-> "unused", id |-> h.id, name |-> h.name]
  <2>2. r \in HandlerType
    BY <2>1 DEF DeleteType, HandlerType
  <2>8. [h EXCEPT !.pc = "unused"] = r
    BY <1>1, <2>1 DEF DeleteType
  <2>3. /\ handler'[a] = r /\ (\A b \in Handlers \ {a} : Retained(b)) /\ Excusing /\ Apart'
        /\ handler' \in [Handlers -> {Catalogue!Idle} \cup HandlerType]
    BY <1>1, <1>3, <2>2, <2>8, GotoPlan DEF PlansInv
  <2>4. /\ Orderly => KeepsDefault(h)
        /\ Steady => KeepsPlan(h)
    BY DEF PlansInv, DefaultInv, KeptInv
  <2>5. Orderly => KeepsDefault(handler[a])'
    BY <1>1, <2>3, <2>4 DEF KeepsDefault, Defaults, Row, Catalogue!Gone, Catalogue!NoPlan
  <2>6. Steady => KeepsPlan(handler[a])'
    BY <1>1, <1>3, <2>3, <2>4 DEF KeepsPlan, Row, Catalogue!Gone, Catalogue!NoPlan
  <2>7. KeepsTrial(handler[a])'
    BY <2>3 DEF KeepsTrial
  <2> QED BY <1>1, <2>3, <2>5, <2>6, <2>7, GoOnStep
<1> QED BY <1>1, <1>2, <1>3

\* A choice is checked against the trial and the usage.
LEMMA CheckSelectStep ==
  ASSUME PlansInv, NEW a \in Handlers, NEW fits \in BOOLEAN, Catalogue!CheckSelect(a, fits)
  PROVE  PlansInv'
<1> DEFINE h == handler[a]
<1>1. /\ h.kind = "select" /\ h.pc = "read" /\ plans' = plans /\ space' = space /\ trials' = trials
      /\ \/ Catalogue!End(a)
         \/ /\ ~ Catalogue!TrialRefused(h) /\ met' = met /\ handler' = [handler EXCEPT ![a].pc = "fits"]
  BY DEF Catalogue!CheckSelect, Catalogue!Goto
<1>2. CASE Catalogue!End(a)
  BY <1>1, <1>2, EndPlan
<1>3. CASE ~ Catalogue!TrialRefused(h) /\ met' = met /\ handler' = [handler EXCEPT ![a].pc = "fits"]
  <2>1. h \in SelectType
    BY <1>1, HandlerFields DEF PlansInv, PlansBase, PlansTyped
  <2> DEFINE r == [kind |-> "select", pc |-> "fits", name |-> h.name, trial |-> h.trial, admin |-> h.admin]
  <2>2. r \in HandlerType
    BY <2>1 DEF SelectType, HandlerType
  <2>8. [h EXCEPT !.pc = "fits"] = r
    BY <1>1, <2>1 DEF SelectType
  <2>3. /\ handler'[a] = r /\ (\A b \in Handlers \ {a} : Retained(b)) /\ Excusing /\ Apart'
        /\ handler' \in [Handlers -> {Catalogue!Idle} \cup HandlerType]
    BY <1>1, <1>3, <2>2, <2>8, GotoPlan DEF PlansInv
  <2>4. Steady => KeepsPlan(h)
    BY DEF PlansInv, KeptInv
  <2>5. Steady => KeepsPlan(handler[a])'
    BY <1>1, <2>3, <2>4 DEF KeepsPlan, Called, Row, Catalogue!Gone, Catalogue!NoPlan
  <2>6. KeepsTrial(handler[a])'
    BY <1>1, <1>3, <2>3 DEF KeepsTrial, Catalogue!TrialRefused
  <2>7. KeepsDefault(handler[a])'
    BY <2>3 DEF KeepsDefault
  <2> QED BY <1>1, <2>3, <2>5, <2>6, <2>7, GoOnStep
<1> QED BY <1>1, <1>2, <1>3

\* The workspace gets the plan that was chosen or assigned.
LEMMA StorePlanStep ==
  ASSUME PlansInv, NEW a \in Handlers, Catalogue!StoreSelect(a) \/ Catalogue!StoreAssign(a)
  PROVE  PlansInv'
<1> DEFINE h == handler[a]
<1>1. /\ h.kind \in {"select", "assign"} /\ Catalogue!Release(a) /\ met' = met /\ plans' = plans
      /\ space'.plan = h.name
      /\ h.kind = "select" =>
            /\ h.pc = "fits" /\ space' = [plan |-> h.name, trialUsed |-> space.trialUsed \/ h.trial]
            /\ trials' = IF h.trial /\ ~ h.admin /\ space.plan # h.name THEN trials + 1 ELSE trials
      /\ h.kind = "assign" => space' = [space EXCEPT !.plan = h.name] /\ trials' = trials
  BY DEF Catalogue!StoreSelect, Catalogue!StoreAssign, Catalogue!End, PlansInv, PlansBase, PlansTyped
<1>2. /\ handler'[a] = Catalogue!Idle /\ (\A b \in Handlers \ {a} : Retained(b)) /\ Excusing /\ Apart'
      /\ handler' \in [Handlers -> {Catalogue!Idle} \cup HandlerType]
  BY <1>1, ReleasePlan DEF PlansInv
<1>3. /\ h.kind = "select" => h.trial \in BOOLEAN /\ h.admin \in BOOLEAN /\ h.name \in PlanTitles
      /\ h.kind = "assign" => h.name \in PlanTitles
      /\ space \in [plan : PlanTitles \cup {"none"}, trialUsed : BOOLEAN] /\ trials \in Nat
  BY HandlerFields DEF PlansInv, PlansBase, PlansTyped, SelectType, AssignType
<1>4. DefaultInv'
  BY <1>1, <1>2, IdleKeeps, DefaultRests DEF PlansInv
<1>5. KeptInv'
  <2> SUFFICES ASSUME Steady PROVE Called(space.plan)' /\ \A b \in Handlers : KeepsPlan(handler[b])'
    BY <1>2 DEF KeptInv, Excusing
  <2>1. Called(h.name) /\ \A n : Called(n) => Called(n)'
    BY <1>1 DEF PlansInv, KeptInv, KeepsPlan, Called, Row, Catalogue!Gone, Catalogue!NoPlan
  <2>2. ASSUME NEW b \in Handlers \ {a} PROVE KeepsPlan(handler[b])'
    <3>1. handler[b].kind # "delete" /\ KeepsPlan(handler[b])
      BY <1>1 DEF PlansInv, PlansBase, Apart, Overlap, KeptInv
    <3> QED BY <1>2, <2>1, <3>1 DEF KeepsPlan, Retained
  <2> QED BY <1>1, <1>2, <2>1, <2>2, IdleKeeps
<1>6. TrialInv'
  <2> SUFFICES ASSUME Single PROVE trials' <= 1 /\ (trials' = 1 => space'.trialUsed) /\ \A b \in Handlers : KeepsTrial(handler[b])'
    BY <1>2 DEF TrialInv, Excusing
  <2>1. ASSUME NEW b \in Handlers \ {a} PROVE handler'[b].kind # "select"
    BY <1>1, <1>2 DEF PlansInv, PlansBase, Apart, Overlap, Retained
  <2>2. trials <= 1 /\ (trials = 1 => space.trialUsed) /\ KeepsTrial(h)
    BY DEF PlansInv, TrialInv
  <2>3. trials' <= 1 /\ (trials' = 1 => space'.trialUsed)
    BY <1>1, <1>3, <2>2 DEF KeepsTrial, Catalogue!TrialRefused
  <2> QED BY <1>2, <2>1, <2>3, IdleKeeps DEF KeepsTrial
<1>7. PlansTyped'
  BY <1>1, <1>2, <1>3 DEF PlansTyped, PlansInv, PlansBase, Catalogue!Gone, Catalogue!NoPlan
<1> QED BY <1>2, <1>4, <1>5, <1>6, <1>7 DEF PlansInv, PlansBase

\* There is a least unused number.
LEMMA UnusedRow ==
  ASSUME Catalogue!Unused # {}
  PROVE  Catalogue!Min(Catalogue!Unused) \in Catalogue!Unused
<1>1. Catalogue!Unused \subseteq Nat
  BY DEF Catalogue!Unused, Catalogue!Plans
<1>2. \E x \in Catalogue!Unused : \A y \in Catalogue!Unused : x <= y
  BY <1>1, Least
<1> QED BY <1>2 DEF Catalogue!Min

\* A plan is created; a new default takes it from the rows that were seen.
LEMMA CommitCreateStep ==
  ASSUME PlansInv, NEW a \in Handlers, Catalogue!CommitCreate(a)
  PROVE  PlansInv'
<1> DEFINE h == handler[a]
<1>1. PICK n : n = Catalogue!Min(Catalogue!Unused)
  OBVIOUS
<1>2. /\ h.kind = "create" /\ Catalogue!Unused # {} /\ Catalogue!Release(a) /\ met' = met /\ space' = space /\ trials' = trials
      /\ plans' = [i \in NumberType |-> IF i = n THEN h.row
                                        ELSE IF i \in h.rows \cap Catalogue!Existing THEN [plans[i] EXCEPT !.default = FALSE]
                                        ELSE plans[i]]
  BY <1>1 DEF Catalogue!CommitCreate, Catalogue!End, Catalogue!Plans, NumberType
<1>3. n \in NumberType /\ ~ Row(n) /\ plans[n] = Catalogue!NoPlan
  BY <1>1, <1>2, UnusedRow, ExistingRows DEF PlansInv, PlansBase
<1>4. h \in CreateType /\ h.row \in RowType
  BY <1>2, HandlerFields DEF PlansInv, PlansBase, PlansTyped, CreateType, Catalogue!Bodies, RowType, PlanTitles
<1>5. /\ handler'[a] = Catalogue!Idle /\ (\A b \in Handlers \ {a} : Retained(b)) /\ Excusing /\ Apart'
      /\ handler' \in [Handlers -> {Catalogue!Idle} \cup HandlerType]
  BY <1>2, ReleasePlan DEF PlansInv
<1>6. ASSUME NEW i \in NumberType
      PROVE  /\ plans'[i] \in {Catalogue!NoPlan, Catalogue!Gone} \cup RowType
             /\ i = n => plans'[i] = h.row /\ Row(i)'
             /\ i # n => /\ Row(i)' <=> Row(i)
                         /\ ~ Row(i) => plans'[i] = plans[i]
                         /\ Row(i) => /\ plans'[i].name = plans[i].name /\ plans'[i].offered = plans[i].offered
                                      /\ plans'[i].default <=> plans[i].default /\ i \notin h.rows
  <2>1. plans[i] \in {Catalogue!NoPlan, Catalogue!Gone} \cup RowType /\ (i \in Catalogue!Existing <=> Row(i))
    BY ExistingRows DEF PlansInv, PlansBase, PlansTyped
  <2>2. CASE i = n
    BY <1>2, <1>4, <2>2 DEF Row, RowType, Catalogue!NoPlan, Catalogue!Gone
  <2>3. CASE i # n /\ ~ Row(i)
    BY <1>2, <2>1, <2>3 DEF Row, Catalogue!NoPlan, Catalogue!Gone
  <2>4. CASE i # n /\ Row(i) /\ i \in h.rows
    <3>1. plans[i] \in RowType /\ plans'[i] = [plans[i] EXCEPT !.default = FALSE]
      BY <1>2, <2>1, <2>4 DEF Row
    <3> QED BY <2>4, <3>1 DEF Row, RowType, Catalogue!NoPlan, Catalogue!Gone
  <2>5. CASE i # n /\ Row(i) /\ i \notin h.rows
    BY <1>2, <2>1, <2>5 DEF Row, RowType, Catalogue!NoPlan, Catalogue!Gone
  <2> QED BY <2>2, <2>3, <2>4, <2>5
<1>7. DefaultInv'
  <2> SUFFICES ASSUME Orderly
               PROVE  /\ \E i \in NumberType : plans'[i].offered /\ Defaults' = {i}
                      /\ \A b \in Handlers : KeepsDefault(handler[b])'
    BY <1>5 DEF Excusing, DefaultInv
  <2>1. PICK d \in NumberType : plans[d].offered /\ Defaults = {d}
    BY DEF PlansInv, DefaultInv
  <2>2. /\ h.row.default => h.row.offered /\ d \in h.rows
        /\ ~ h.row.default => h.rows = {}
    BY <1>2, <2>1 DEF PlansInv, DefaultInv, KeepsDefault
  <2>3. Row(d) /\ d # n /\ \A i \in NumberType \ {d} : Row(i) => ~ plans[i].default
    BY <1>3, <2>1 DEF Defaults
  <2>4. Defaults' = IF h.row.default THEN {n} ELSE {d}
    BY <1>3, <1>4, <1>6, <2>1, <2>2, <2>3 DEF Defaults, RowType
  <2>5. \E i \in NumberType : plans'[i].offered /\ Defaults' = {i}
    BY <1>3, <1>6, <2>1, <2>2, <2>3, <2>4
  <2>6. ASSUME NEW b \in Handlers \ {a} PROVE KeepsDefault(handler[b])'
    <3>1. handler[b].kind \notin {"create", "update"} /\ KeepsDefault(handler[b])
      BY <1>2 DEF PlansInv, PlansBase, Apart, Overlap, DefaultInv
    <3>2. CASE handler[b].kind = "delete"
      <4>1. handler[b].id \in NumberType /\ handler'[b] = handler[b] /\ plans[handler[b].id] # Catalogue!NoPlan /\ handler[b].id \notin Defaults
        BY <1>5, <3>1, <3>2, HandlerFields DEF Retained, KeepsDefault, PlansInv, PlansBase, PlansTyped, DeleteType
      <4>2. handler[b].id # n /\ handler[b].id # d
        BY <1>3, <2>1, <4>1
      <4>3. plans'[handler[b].id] # Catalogue!NoPlan
        BY <1>6, <4>1, <4>2 DEF Row
      <4> QED BY <2>4, <3>2, <4>1, <4>2, <4>3 DEF KeepsDefault, Catalogue!NoPlan
    <3> QED BY <1>5, <3>1, <3>2 DEF KeepsDefault, Retained
  <2> QED BY <1>5, <2>5, <2>6, IdleKeeps
<1>8. KeptInv'
  <2> SUFFICES ASSUME Steady PROVE (space.plan = "none" \/ Called(space.plan)') /\ \A b \in Handlers : KeepsPlan(handler[b])'
    BY <1>2, <1>5 DEF Excusing, KeptInv
  <2>1. \A m : Called(m) => Called(m)'
    BY <1>3, <1>6 DEF Called
  <2>2. ASSUME NEW b \in Handlers \ {a} PROVE KeepsPlan(handler[b])'
    <3>1. KeepsPlan(handler[b])
      BY DEF PlansInv, KeptInv
    <3>2. CASE handler[b].kind = "delete"
      <4>1. handler[b].id \in NumberType /\ handler'[b] = handler[b] /\ plans[handler[b].id] # Catalogue!NoPlan
        BY <1>5, <3>1, <3>2, HandlerFields DEF Retained, KeepsPlan, PlansInv, PlansBase, PlansTyped, DeleteType
      <4>2. handler[b].id # n
        BY <1>3, <4>1
      <4>3. plans'[handler[b].id] # Catalogue!NoPlan
        BY <1>6, <4>1, <4>2 DEF Row
      <4> QED BY <1>2, <1>6, <3>1, <3>2, <4>1, <4>2, <4>3 DEF KeepsPlan, Catalogue!NoPlan
    <3> QED BY <1>5, <2>1, <3>1, <3>2 DEF KeepsPlan, Retained
  <2>3. space.plan = "none" \/ Called(space.plan)
    BY DEF PlansInv, KeptInv
  <2>4. Called(space.plan) => Called(space.plan)'
    BY <1>2, <1>3, <1>6 DEF Called
  <2> QED BY <1>5, <2>2, <2>3, <2>4, IdleKeeps
<1>9. TrialInv'
  BY <1>2, <1>5, IdleKeeps, TrialRests DEF PlansInv
<1>10. PlansTyped'
  <2>1. plans' \in [NumberType -> {Catalogue!NoPlan, Catalogue!Gone} \cup RowType]
    BY <1>2, <1>6
  <2> QED BY <1>2, <1>5, <2>1 DEF PlansTyped, PlansInv, PlansBase, Catalogue!NoPlan, Catalogue!Gone
<1> QED BY <1>5, <1>7, <1>8, <1>9, <1>10 DEF PlansInv, PlansBase

\* A plan is updated; a new default takes it from the rows that were seen.
LEMMA CommitUpdateStep ==
  ASSUME PlansInv, NEW a \in Handlers, Catalogue!CommitUpdate(a)
  PROVE  PlansInv'
<1> DEFINE h == handler[a]
<1>1. /\ h.kind = "update" /\ h.pc = "locked" /\ Catalogue!Release(a) /\ met \subseteq met' /\ space' = space /\ trials' = trials
      /\ plans' = [i \in NumberType |-> Catalogue!UpdatedRow(h, i)]
      /\ "name" \in DOMAIN h.patch => {"rename"} \in met'
  BY DEF Catalogue!CommitUpdate, Catalogue!Plans, NumberType
<1>2. h \in UpdateType /\ h.patch \in Catalogue!Patches
  BY <1>1, HandlerFields DEF PlansInv, PlansBase, PlansTyped, UpdateType
<1>3. /\ handler'[a] = Catalogue!Idle /\ (\A b \in Handlers \ {a} : Retained(b)) /\ Excusing /\ Apart'
      /\ handler' \in [Handlers -> {Catalogue!Idle} \cup HandlerType]
  BY <1>1, ReleasePlan DEF PlansInv
<1>4. ASSUME NEW i \in NumberType
      PROVE  /\ plans'[i] \in {Catalogue!NoPlan, Catalogue!Gone} \cup RowType
             /\ Row(i)' <=> Row(i)
             /\ ~ Row(i) => plans'[i] = plans[i]
             /\ Row(i) /\ i = h.id => plans'[i] = Catalogue!Patched(h.patch, plans[i])
             /\ Row(i) /\ i # h.id => /\ plans'[i].name = plans[i].name /\ plans'[i].offered = plans[i].offered
                                      /\ plans'[i].default <=> plans[i].default /\ i \notin h.rows
  <2>1. /\ plans[i] \in {Catalogue!NoPlan, Catalogue!Gone} \cup RowType /\ (i \in Catalogue!Existing <=> Row(i))
        /\ plans'[i] = Catalogue!UpdatedRow(h, i) /\ (Row(i) => plans[i] \in RowType)
    BY <1>1, ExistingRows DEF PlansInv, PlansBase, PlansTyped, Row
  <2>2. CASE ~ Row(i)
    BY <2>1, <2>2 DEF Row, Catalogue!UpdatedRow, Catalogue!NoPlan, Catalogue!Gone
  <2>3. CASE Row(i) /\ i = h.id
    <3>1. plans'[i] = Catalogue!Patched(h.patch, plans[i]) /\ plans'[i] \in RowType
      BY <1>2, <2>1, <2>3, PatchedRow DEF Catalogue!UpdatedRow
    <3> QED BY <2>3, <3>1 DEF Row, RowType, Catalogue!NoPlan, Catalogue!Gone
  <2>4. CASE Row(i) /\ i # h.id /\ i \in h.rows
    <3>1. plans[i] \in RowType /\ plans'[i] = [plans[i] EXCEPT !.default = FALSE]
      BY <2>1, <2>4 DEF Catalogue!UpdatedRow
    <3> QED BY <2>4, <3>1 DEF Row, RowType, Catalogue!NoPlan, Catalogue!Gone
  <2>5. CASE Row(i) /\ i # h.id /\ i \notin h.rows
    <3>1. plans[i] \in RowType /\ plans'[i] = plans[i]
      BY <2>1, <2>5 DEF Catalogue!UpdatedRow
    <3> QED BY <2>5, <3>1 DEF Row, RowType, Catalogue!NoPlan, Catalogue!Gone
  <2> QED BY <2>2, <2>3, <2>4, <2>5
<1>5. DefaultInv'
  <2> SUFFICES ASSUME Orderly
               PROVE  /\ \E i \in NumberType : plans'[i].offered /\ Defaults' = {i}
                      /\ \A b \in Handlers : KeepsDefault(handler[b])'
    BY <1>3 DEF Excusing, DefaultInv
  <2>1. PICK d \in NumberType : plans[d].offered /\ Defaults = {d}
    BY DEF PlansInv, DefaultInv
  <2>2. /\ Row(h.id) /\ Catalogue!ValidDefault(Catalogue!Patched(h.patch, plans[h.id])) /\ h.id \in NumberType
        /\ "default" \in DOMAIN h.patch => d \in h.rows
        /\ "default" \notin DOMAIN h.patch => h.rows = {h.id}
    BY <1>1, <1>2, <2>1 DEF PlansInv, DefaultInv, KeepsDefault, UpdateType
  <2>3. Row(d) /\ plans[d].default /\ \A i \in NumberType \ {d} : Row(i) => ~ plans[i].default
    BY <2>1 DEF Defaults
  <2>4. /\ plans'[h.id] = Catalogue!Patched(h.patch, plans[h.id])
        /\ plans'[h.id].default <=> "default" \in DOMAIN h.patch \/ h.id = d
        /\ plans'[h.id].default => plans'[h.id].offered
    <3>1. plans[h.id] \in RowType
      BY <2>2 DEF PlansInv, PlansBase, PlansTyped, Row
    <3> QED BY <1>2, <1>4, <2>2, <2>3, <3>1, PatchedRow DEF Catalogue!ValidDefault
  <2>5. Defaults' = IF "default" \in DOMAIN h.patch THEN {h.id} ELSE {d}
    BY <1>4, <2>2, <2>3, <2>4 DEF Defaults
  <2>6. \E i \in NumberType : plans'[i].offered /\ Defaults' = {i}
    BY <1>4, <2>1, <2>2, <2>3, <2>4, <2>5
  <2>7. ASSUME NEW b \in Handlers \ {a} PROVE KeepsDefault(handler[b])'
    <3>1. handler[b].kind \notin {"create", "update", "delete"}
      BY <1>1 DEF PlansInv, PlansBase, Apart, Overlap
    <3> QED BY <1>3, <3>1 DEF KeepsDefault, Retained
  <2> QED BY <1>3, <2>6, <2>7, IdleKeeps
<1>6. KeptInv'
  <2> SUFFICES ASSUME Steady' PROVE (space.plan = "none" \/ Called(space.plan)') /\ \A b \in Handlers : KeepsPlan(handler[b])'
    BY <1>1 DEF KeptInv
  <2>1. Steady /\ "name" \notin DOMAIN h.patch
    BY <1>1, <1>3 DEF Excusing, Steady, Catalogue!Met
  <2>2. ASSUME NEW i \in NumberType, Row(i) PROVE Row(i)' /\ plans'[i].name = plans[i].name
    <3>1. plans[i] \in RowType
      BY <2>2 DEF PlansInv, PlansBase, PlansTyped, Row
    <3> QED BY <1>2, <1>4, <2>1, <2>2, <3>1, PatchedRow
  <2>3. \A m : Called(m) => Called(m)'
    BY <2>2 DEF Called
  <2>4. ASSUME NEW b \in Handlers \ {a} PROVE KeepsPlan(handler[b])'
    <3>1. KeepsPlan(handler[b])
      BY <2>1 DEF PlansInv, KeptInv
    <3>2. CASE handler[b].kind = "delete"
      <4>1. handler[b].id \in NumberType /\ handler'[b] = handler[b] /\ plans[handler[b].id] # Catalogue!NoPlan
        BY <1>3, <3>1, <3>2, HandlerFields DEF Retained, KeepsPlan, PlansInv, PlansBase, PlansTyped, DeleteType
      <4>2. plans'[handler[b].id] # Catalogue!NoPlan /\ (Row(handler[b].id)' => Row(handler[b].id))
        BY <1>4, <4>1 DEF Row, Catalogue!NoPlan, Catalogue!Gone
      <4> QED BY <1>1, <2>2, <3>1, <3>2, <4>1, <4>2 DEF KeepsPlan, Row, Catalogue!NoPlan, Catalogue!Gone
    <3> QED BY <1>3, <2>3, <3>1, <3>2 DEF KeepsPlan, Retained
  <2>5. space.plan = "none" \/ Called(space.plan)
    BY <2>1 DEF PlansInv, KeptInv
  <2>6. Called(space.plan) => Called(space.plan)'
    BY <1>1, <2>2 DEF Called
  <2> QED BY <1>3, <2>4, <2>5, <2>6, IdleKeeps
<1>7. TrialInv'
  BY <1>1, <1>3, IdleKeeps, TrialRests DEF PlansInv
<1>8. PlansTyped'
  <2>1. plans' \in [NumberType -> {Catalogue!NoPlan, Catalogue!Gone} \cup RowType]
    BY <1>1, <1>4
  <2> QED BY <1>1, <1>3, <2>1 DEF PlansTyped, PlansInv, PlansBase, Catalogue!NoPlan, Catalogue!Gone
<1> QED BY <1>3, <1>5, <1>6, <1>7, <1>8 DEF PlansInv, PlansBase

\* A plan is deleted that is not the default, and, if nobody took it meanwhile, not used.
LEMMA DeletePlanStep ==
  ASSUME PlansInv, NEW a \in Handlers, Catalogue!DeletePlan(a)
  PROVE  PlansInv'
<1> DEFINE h == handler[a]
<1>1. /\ h.kind = "delete" /\ h.pc = "unused" /\ Catalogue!Release(a) /\ met' = met /\ space' = space /\ trials' = trials
      /\ plans' = [plans EXCEPT ![h.id] = Catalogue!Gone]
  BY DEF Catalogue!DeletePlan, Catalogue!End
<1>2. PICK n \in NumberType : n = h.id
  BY <1>1, HandlerFields DEF PlansInv, PlansBase, PlansTyped, DeleteType
<1>3. /\ handler'[a] = Catalogue!Idle /\ (\A b \in Handlers \ {a} : Retained(b)) /\ Excusing /\ Apart'
      /\ handler' \in [Handlers -> {Catalogue!Idle} \cup HandlerType]
  BY <1>1, ReleasePlan DEF PlansInv
<1>4. /\ plans' \in [NumberType -> {Catalogue!NoPlan, Catalogue!Gone} \cup RowType]
      /\ plans'[n] = Catalogue!Gone /\ ~ Row(n)'
      /\ \A i \in NumberType \ {n} : plans'[i] = plans[i] /\ (Row(i)' <=> Row(i))
  <2>1. /\ plans' \in [NumberType -> {Catalogue!NoPlan, Catalogue!Gone} \cup RowType]
        /\ plans'[n] = Catalogue!Gone /\ \A i \in NumberType \ {n} : plans'[i] = plans[i]
    BY <1>1, <1>2 DEF PlansInv, PlansBase, PlansTyped
  <2>2. ~ Row(n)' /\ \A i \in NumberType \ {n} : Row(i)' <=> Row(i)
    BY <2>1 DEF Row, Catalogue!NoPlan, Catalogue!Gone
  <2> QED BY <2>1, <2>2
<1>5. DefaultInv'
  <2> SUFFICES ASSUME Orderly
               PROVE  /\ \E i \in NumberType : plans'[i].offered /\ Defaults' = {i}
                      /\ \A b \in Handlers : KeepsDefault(handler[b])'
    BY <1>3 DEF Excusing, DefaultInv
  <2>1. PICK d \in NumberType : plans[d].offered /\ Defaults = {d}
    BY DEF PlansInv, DefaultInv
  <2>2. d # n
    BY <1>1, <1>2, <2>1 DEF PlansInv, DefaultInv, KeepsDefault
  <2>3. Defaults' = Defaults
    <3>1. \A i \in NumberType \ {n} : (Row(i) /\ plans[i].default)' <=> (Row(i) /\ plans[i].default)
      BY <1>4
    <3>2. n \notin Defaults' /\ n \notin Defaults
      BY <1>4, <2>1, <2>2 DEF Defaults
    <3> QED BY <3>1, <3>2 DEF Defaults
  <2>4. ASSUME NEW b \in Handlers \ {a} PROVE KeepsDefault(handler[b])'
    <3>1. handler[b].kind # "update" /\ KeepsDefault(handler[b])
      BY <1>1 DEF PlansInv, PlansBase, Apart, Overlap, DefaultInv
    <3>2. CASE handler[b].kind = "delete"
      <4>1. handler[b].id \in NumberType /\ handler'[b] = handler[b] /\ plans[handler[b].id] # Catalogue!NoPlan
        BY <1>3, <3>1, <3>2, HandlerFields DEF Retained, KeepsDefault, PlansInv, PlansBase, PlansTyped, DeleteType
      <4>2. plans'[handler[b].id] # Catalogue!NoPlan
        BY <1>4, <4>1 DEF Catalogue!NoPlan, Catalogue!Gone
      <4> QED BY <2>3, <3>1, <3>2, <4>1, <4>2 DEF KeepsDefault, Catalogue!NoPlan
    <3> QED BY <1>3, <2>3, <3>1, <3>2 DEF KeepsDefault, Retained
  <2> QED BY <1>3, <1>4, <2>1, <2>2, <2>3, <2>4, IdleKeeps
<1>6. KeptInv'
  <2> SUFFICES ASSUME Steady PROVE (space.plan = "none" \/ Called(space.plan)') /\ \A b \in Handlers : KeepsPlan(handler[b])'
    BY <1>1, <1>3 DEF Excusing, KeptInv
  <2>1. (Row(n) => plans[n].name # space.plan) /\ (space.plan = "none" \/ Called(space.plan))
    BY <1>1, <1>2 DEF PlansInv, KeptInv, KeepsPlan
  <2>2. Called(space.plan) => Called(space.plan)'
    BY <1>1, <1>4, <2>1 DEF Called
  <2>3. ASSUME NEW b \in Handlers \ {a} PROVE KeepsPlan(handler[b])'
    <3>1. handler[b].kind \notin {"select", "assign"} /\ KeepsPlan(handler[b])
      BY <1>1 DEF PlansInv, PlansBase, Apart, Overlap, KeptInv
    <3>2. CASE handler[b].kind = "delete"
      <4>1. handler[b].id \in NumberType /\ handler'[b] = handler[b] /\ plans[handler[b].id] # Catalogue!NoPlan
        BY <1>3, <3>1, <3>2, HandlerFields DEF Retained, KeepsPlan, PlansInv, PlansBase, PlansTyped, DeleteType
      <4>2. plans'[handler[b].id] # Catalogue!NoPlan
        BY <1>4, <4>1 DEF Catalogue!NoPlan, Catalogue!Gone
      <4>3. handler[b].id # n => plans'[handler[b].id] = plans[handler[b].id] /\ (Row(handler[b].id)' <=> Row(handler[b].id))
        BY <1>4, <4>1 DEF Row, Catalogue!NoPlan, Catalogue!Gone
      <4>4. handler[b].id = n => ~ Row(handler[b].id)'
        BY <1>4, <4>1
      <4> QED BY <1>1, <3>1, <3>2, <4>1, <4>2, <4>3, <4>4 DEF KeepsPlan, Catalogue!NoPlan
    <3> QED BY <1>3, <3>1, <3>2 DEF KeepsPlan, Retained
  <2> QED BY <1>3, <2>1, <2>2, <2>3, IdleKeeps
<1>7. TrialInv'
  BY <1>1, <1>3, IdleKeeps, TrialRests DEF PlansInv
<1>8. PlansTyped'
  BY <1>1, <1>3, <1>4 DEF PlansTyped, PlansInv, PlansBase, Catalogue!NoPlan, Catalogue!Gone
<1> QED BY <1>3, <1>5, <1>6, <1>7, <1>8 DEF PlansInv, PlansBase

\* The older API changes the catalogue as it likes, which excuses what follows.
LEMMA OlderStep ==
  ASSUME PlansInv, Catalogue!OlderRequest
  PROVE  PlansInv'
<1>1. UNCHANGED <<space, handler, trials>> /\ met' = met \cup {{"older"}}
  BY DEF Catalogue!OlderRequest, Catalogue!OlderCreate, Catalogue!OlderUpdate, Catalogue!OlderDelete, Catalogue!Irregular
<1>2. ~ Orderly' /\ ~ Steady' /\ (Single' => Single)
  BY <1>1 DEF Orderly, Steady, Single, Catalogue!Met, Catalogue!ChoiceOverlaps
<1>3. plans' \in [NumberType -> {Catalogue!NoPlan, Catalogue!Gone} \cup RowType]
  <2>1. plans \in [NumberType -> {Catalogue!NoPlan, Catalogue!Gone} \cup RowType]
    BY DEF PlansInv, PlansBase, PlansTyped
  <2>2. ASSUME NEW i \in Catalogue!Plans, NEW body \in Catalogue!Bodies, Catalogue!OlderCreate(i, body)
        PROVE  plans' \in [NumberType -> {Catalogue!NoPlan, Catalogue!Gone} \cup RowType]
    <3>1. body \in RowType
      BY DEF Catalogue!Bodies, RowType, PlanTitles
    <3> QED BY <2>1, <2>2, <3>1 DEF Catalogue!OlderCreate
  <2>3. ASSUME NEW i \in Catalogue!Plans, NEW p \in Catalogue!Patches, Catalogue!OlderUpdate(i, p)
        PROVE  plans' \in [NumberType -> {Catalogue!NoPlan, Catalogue!Gone} \cup RowType]
    <3>1. i \in Catalogue!Existing /\ plans' = [plans EXCEPT ![i] = Catalogue!Patched(p, plans[i])]
      BY <2>3 DEF Catalogue!OlderUpdate
    <3>2. Catalogue!Patched(p, plans[i]) \in RowType
      BY <3>1, ExistingRows, PatchedRow DEF PlansInv, PlansBase
    <3> QED BY <2>1, <3>1, <3>2
  <2>4. ASSUME NEW i \in Catalogue!Plans, Catalogue!OlderDelete(i)
        PROVE  plans' \in [NumberType -> {Catalogue!NoPlan, Catalogue!Gone} \cup RowType]
    BY <2>1, <2>4 DEF Catalogue!OlderDelete
  <2> QED BY <2>2, <2>3, <2>4 DEF Catalogue!OlderRequest
<1>4. PlansTyped'
  BY <1>1, <1>3 DEF PlansTyped, PlansInv, PlansBase, Catalogue!NoPlan, Catalogue!Gone
<1>5. Apart' /\ TrialInv'
  BY <1>1, <1>2 DEF PlansInv, PlansBase, Apart, Overlap, TrialInv, KeepsTrial, Catalogue!TrialRefused
<1> QED BY <1>2, <1>4, <1>5 DEF PlansInv, PlansBase, DefaultInv, KeptInv

\* The catalogue keeps one default, workspaces their plans, and trials are taken once.
LEMMA PlansAreKept == Spec => [](service = "plans" => Catalogue!PlansHold)
<1> DEFINE I == service = "plans" => PlansInv
<1>1. Init => I
  <2> SUFFICES ASSUME Init PROVE PlansInv
    OBVIOUS
  <2>1. /\ handler = [a \in Handlers |-> Catalogue!Idle] /\ trials = 0 /\ space = [plan |-> "none", trialUsed |-> FALSE]
        /\ \E second \in {Catalogue!NoPlan, Catalogue!Second} :
              plans = [i \in NumberType |-> IF i = 1 THEN Catalogue!Seeded ELSE IF i = 2 THEN second ELSE Catalogue!NoPlan]
    BY DEF Init, Catalogue!Init, Catalogue!Plans, NumberType
  <2>2. PICK second \in {Catalogue!NoPlan, Catalogue!Second} :
              plans = [i \in NumberType |-> IF i = 1 THEN Catalogue!Seeded ELSE IF i = 2 THEN second ELSE Catalogue!NoPlan]
    BY <2>1
  <2>3. Catalogue!Seeded \in RowType /\ second \in {Catalogue!NoPlan, Catalogue!Gone} \cup RowType
    <3>1. Catalogue!Seeded \in RowType
      BY DEF Catalogue!Seeded, RowType, PlanTitles, Catalogue!Builtin
    <3>2. Catalogue!Second \in RowType
      BY DEF Catalogue!Second, RowType, PlanTitles
    <3> QED BY <3>1, <3>2
  <2>4. \A a \in Handlers : handler[a] = Catalogue!Idle /\ handler[a].kind = "idle"
    BY <2>1 DEF Catalogue!Idle
  <2>5. PlansTyped
    BY <2>1, <2>2, <2>3 DEF PlansTyped
  <2>6. Apart
    BY <2>4 DEF Apart, Overlap
  <2>7. Defaults = {1} /\ plans[1].offered /\ 1 \in NumberType
    <3>1. 1 \in NumberType
      BY PlanAssumption DEF NumberType
    <3>2. Row(1) /\ plans[1].default /\ plans[1].offered
      BY <2>2, <3>1 DEF Row, Catalogue!Seeded, Catalogue!NoPlan, Catalogue!Gone
    <3>3. \A i \in NumberType \ {1} : Row(i) => ~ plans[i].default
      BY <2>2 DEF Row, Catalogue!Second, Catalogue!NoPlan
    <3> QED BY <3>1, <3>2, <3>3 DEF Defaults
  <2>8. DefaultInv
    BY <2>4, <2>7 DEF DefaultInv, KeepsDefault
  <2>9. KeptInv /\ TrialInv
    BY <2>1, <2>4 DEF KeptInv, TrialInv, KeepsPlan, KeepsTrial
  <2> QED BY <2>5, <2>6, <2>8, <2>9 DEF PlansInv, PlansBase
<1>2. I /\ [Next]_vars => I'
  <2> SUFFICES ASSUME PlansInv, service = "plans", [Next]_vars PROVE PlansInv'
    BY Frame
  <2>1. [Catalogue!Next]_plansVars
    BY Frame
  <2>2. CASE UNCHANGED plansVars
    <3>1. /\ PlansTyped' /\ Apart' /\ Excusing
          /\ plans' = plans /\ space' = space /\ handler' = handler /\ trials' = trials /\ met' = met
      BY <2>2 DEF plansVars, PlansInv, PlansBase, PlansTyped, Apart, Overlap, Excusing, Orderly, Steady, Single, Catalogue!Met,
         Catalogue!CatalogueOverlaps, Catalogue!DeleteOverlaps, Catalogue!ChoiceOverlaps, Catalogue!NoPlan, Catalogue!Gone,
         HandlerType, CreateType, UpdateType, Catalogue!Idle, Catalogue!Bodies, Catalogue!Patches
    <3>2. DefaultInv'
      BY <3>1 DEF Excusing, PlansInv, DefaultInv, KeepsDefault, Defaults, Row, Catalogue!NoPlan, Catalogue!Gone, Catalogue!ValidDefault,
         Catalogue!Patched
    <3>3. KeptInv'
      BY <3>1 DEF Excusing, PlansInv, KeptInv, KeepsPlan, Called, Row, Catalogue!NoPlan, Catalogue!Gone
    <3>4. TrialInv'
      BY <3>1 DEF Excusing, PlansInv, TrialInv, KeepsTrial, Catalogue!TrialRefused
    <3> QED BY <3>1, <3>2, <3>3, <3>4 DEF PlansInv, PlansBase
  <2>3. ASSUME NEW a \in Handlers,
               \/ Catalogue!BeginRequest(a) \/ Catalogue!CommitCreate(a) \/ Catalogue!StartUpdate(a) \/ Catalogue!CommitUpdate(a)
               \/ Catalogue!CountUses(a) \/ Catalogue!DeletePlan(a) \/ \E fits \in BOOLEAN : Catalogue!CheckSelect(a, fits)
               \/ Catalogue!StoreSelect(a) \/ Catalogue!StoreAssign(a)
        PROVE  PlansInv'
    BY <2>3, BeginRequestStep, CommitCreateStep, StartUpdateStep, CommitUpdateStep, CountUsesStep, DeletePlanStep, CheckSelectStep,
       StorePlanStep
  <2>4. ASSUME NEW a \in Handlers, Catalogue!RollBack(a) \/ Catalogue!StoreSubscribe(a) PROVE PlansInv'
    <3>1. Catalogue!End(a) /\ plans' = plans /\ space' = space /\ trials' = trials
      BY <2>4 DEF Catalogue!RollBack, Catalogue!StoreSubscribe
    <3> QED BY <3>1, EndPlan
  <2>5. CASE Catalogue!Next
    <3>1. \/ Catalogue!OlderRequest
          \/ \E a \in Handlers :
                \/ \/ Catalogue!BeginRequest(a) \/ Catalogue!CommitCreate(a) \/ Catalogue!StartUpdate(a) \/ Catalogue!CommitUpdate(a)
                   \/ Catalogue!CountUses(a) \/ Catalogue!DeletePlan(a) \/ \E fits \in BOOLEAN : Catalogue!CheckSelect(a, fits)
                   \/ Catalogue!StoreSelect(a) \/ Catalogue!StoreAssign(a)
                \/ Catalogue!RollBack(a) \/ Catalogue!StoreSubscribe(a)
      BY <2>5 DEF Catalogue!Next
    <3> QED BY <2>3, <2>4, <3>1, OlderStep
  <2> QED BY <2>1, <2>2, <2>5
<1>3. I => (service = "plans" => Catalogue!PlansHold)
  <2> SUFFICES ASSUME PlansInv PROVE Catalogue!PlansHold
    OBVIOUS
  <2>1. PlansTyped
    BY DEF PlansInv, PlansBase
  <2>2. Catalogue!DefaultIsClear
    <3>1. SUFFICES ASSUME Orderly
                   PROVE  \E i \in Catalogue!Existing : plans[i].offered /\ {j \in Catalogue!Existing : plans[j].default} = {i}
      BY DEF Catalogue!DefaultIsClear, Orderly
    <3>2. {j \in Catalogue!Existing : plans[j].default} = Defaults
      BY <2>1, ExistingRows DEF Defaults
    <3> QED BY <2>1, <3>1, <3>2, ExistingRows DEF PlansInv, DefaultInv
  <2>3. Catalogue!PlanIsKept
    <3>1. SUFFICES ASSUME Steady, space.plan # "none" PROVE \E i \in Catalogue!PlanRow : plans[i].name = space.plan
      BY DEF Catalogue!PlanIsKept, Steady
    <3>2. Catalogue!Named(space.plan) # {}
      BY <2>1, <3>1, ExistingRows DEF PlansInv, KeptInv
    <3> QED BY <3>2 DEF Catalogue!PlanRow, Catalogue!Named
  <2>4. Catalogue!TrialOnce
    BY DEF Catalogue!TrialOnce, PlansInv, TrialInv, Single
  <2> QED BY <2>2, <2>3, <2>4 DEF Catalogue!PlansHold
<1> QED BY <1>1, <1>2, <1>3, PTL DEF Spec

\* Who is admitted is within the limits, save for the overlaps that are named.
THEOREM AdmissionIsBounded == Spec => []AdmissionBounded
<1>1. (service = "limit" => Limit!OvershootBounded) /\ (service = "rate" => Limit!RateBounded)
      /\ (service = "plans" => Catalogue!PlansHold) /\ (service = "daemons" => Daemons!PurgedOnceADay) => AdmissionBounded
  BY DEF AdmissionBounded
<1> QED BY <1>1, OvershootIsBounded, RatesAreBounded, PlansAreKept, PurgesAreDaily, PTL
=============================================================================

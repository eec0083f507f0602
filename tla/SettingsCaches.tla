--------------------------- MODULE SettingsCaches ----------------------------
(* What a process believes about its licence and limits: LicenseManager and   *)
(* LimitsResolver each cache for a fixed time, the second on top of the       *)
(* first; an administrator's change clears the caches of its own process      *)
(* only.  A version stands for everything the two read (licence key, plan,    *)
(* system settings, overrides).                                               *)
EXTENDS Integers, FiniteSetsExt

CONSTANTS Readers,       \* requests of one process
          LicenceTtl,    \* ticks a licence state is served (TTL_MS)
          LimitsTtl,     \* ticks effective limits are served (TTL_MS)
          ComputeTime,   \* bound: ticks a request spends computing
          MaxNow,        \* bound: the clock
          MaxVersion     \* bound: changes

VARIABLES now, version,   \* the clock, and what the database holds
          replacedAt,     \* when each version stopped being current
          admin,          \* a change made through this process, to its last step
          licence,        \* [at, v], v = 0 when empty
          limits,
          reader,         \* per request: [pc, since, v]
          served          \* per request: the answer, and when it was given

vars == <<now, version, replacedAt, admin, licence, limits, reader, served>>

Empty == [at |-> 0, v |-> 0]
IdleReader == [pc |-> "idle", since |-> 0, v |-> 0]

Init == /\ now = 1 /\ version = 1 /\ replacedAt = [v \in 1 .. MaxVersion |-> MaxNow + 1] /\ admin = "idle"
        /\ licence = Empty /\ limits = Empty
        /\ reader = [r \in Readers |-> IdleReader] /\ served = [r \in Readers |-> Empty]

\* Every request in flight finishes in time.
Pass == /\ now < MaxNow /\ now' = now + 1
        /\ \A r \in Readers : reader[r] # IdleReader => now - reader[r].since < ComputeTime
        /\ UNCHANGED <<version, replacedAt, admin, licence, limits, reader, served>>

----------------------------------------------------------------------------
(* Changes: install() and remove(), system and plan updates                  *)

Write(next) == /\ version < MaxVersion /\ version' = version + 1
               /\ replacedAt' = [replacedAt EXCEPT ![version] = now] /\ admin' = next
               /\ UNCHANGED <<now, licence, limits, reader, served>>

\* Another process, or PUT /system/settings in this one: it clears the cache of
\* the system settings only, which lives shorter than a licence state and is read
\* where that is read, so it adds nothing to what the licence's cache may add.
ChangeElsewhere == Write(admin)

\* The licence is installed or removed through this process.
ChangeHere == admin = "idle" /\ Write("written")

ClearLicence == /\ admin = "written" /\ licence' = Empty /\ admin' = "cleared"
                /\ UNCHANGED <<now, version, replacedAt, limits, reader, served>>
Invalidate == /\ admin = "cleared" /\ limits' = Empty /\ admin' = "idle"
              /\ UNCHANGED <<now, version, replacedAt, licence, reader, served>>

----------------------------------------------------------------------------
(* Requests: forTenant() over current()                                      *)

Fresh(entry, ttl) == entry.v # 0 /\ now - entry.at < ttl

Hit(r) ==
    /\ reader[r] = IdleReader /\ Fresh(limits, LimitsTtl)
    /\ served' = [served EXCEPT ![r] = [at |-> now, v |-> limits.v]]
    /\ UNCHANGED <<now, version, replacedAt, admin, licence, limits, reader>>

Miss(r) ==
    /\ reader[r] = IdleReader /\ ~Fresh(limits, LimitsTtl)
    /\ reader' = [reader EXCEPT ![r] =
            IF Fresh(licence, LicenceTtl) THEN [pc |-> "limits", since |-> now, v |-> licence.v]
            ELSE [pc |-> "licence", since |-> now, v |-> version]]
    /\ UNCHANGED <<now, version, replacedAt, admin, licence, limits, served>>

StoreLicence(r) ==
    /\ reader[r].pc = "licence" /\ licence' = [at |-> now, v |-> reader[r].v]
    /\ reader' = [reader EXCEPT ![r].pc = "limits"]
    /\ UNCHANGED <<now, version, replacedAt, admin, limits, served>>

StoreLimits(r) ==
    /\ reader[r].pc = "limits" /\ limits' = [at |-> now, v |-> reader[r].v]
    /\ served' = [served EXCEPT ![r] = [at |-> now, v |-> reader[r].v]]
    /\ reader' = [reader EXCEPT ![r] = IdleReader]
    /\ UNCHANGED <<now, version, replacedAt, admin, licence>>

Next == \/ Pass \/ ChangeElsewhere \/ ChangeHere \/ ClearLicence \/ Invalidate
        \/ \E r \in Readers : Hit(r) \/ Miss(r) \/ StoreLicence(r) \/ StoreLimits(r)

Spec == Init /\ [][Next]_vars

----------------------------------------------------------------------------
(* Properties                                                                *)

\* However requests, expiry and invalidation interleave, limits that were
\* replaced are enforced for at most both lifetimes and both computations
\* longer (a result computed before an invalidation is stored after it).
StaleBounded ==
    \A r \in Readers : served[r] # Empty =>
        served[r].at - replacedAt[served[r].v] <= (LicenceTtl - 1) + (LimitsTtl - 1) + 2 * ComputeTime
=============================================================================

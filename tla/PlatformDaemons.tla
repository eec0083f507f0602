--------------------------- MODULE PlatformDaemons ---------------------------
(* Two timers of the backend: the daily check of the licence key with the     *)
(* licensing portal (LicenseValidationService) beside what administrators do  *)
(* to the key (LicenseManager), and the hourly check whether a workspace is   *)
(* due for its plan's data cleanup (CleanupService).                          *)
EXTENDS Integers, FiniteSets

CONSTANTS GraceDays,     \* days a key lives without the portal (60)
          MaxDay,        \* bound: the clock of the licence, in days
          Processes,     \* backends, each with its own cleanup timer
          DayHours, WeekDays,
          MaxHour        \* bound: the clock of the cleanup, in hours

VARIABLES
    timer,        \* which of the two is under study
    day, key,     \* the installed key, or "none"
    daemon,       \* in memory: [status, last], last = Never when no check succeeded
    stored,       \* the row license_validation: a status, or "none"
    check,        \* the check in flight: the key it is about, or "none"
    checked,      \* the check of this day is done
    rejected,     \* history: keys the portal refused since their last success
    heard,        \* history: the day the portal or the signature alone last said yes
    forgot,       \* history: the process restarted since
    crossed,      \* history: the stored status is of another key or of an earlier check
    hour, frequency,
    last,         \* last_cleanup_at
    cleaner,
    purges,       \* history: today's purges
    overlapped    \* history: checks overlapped, or a purge was not recorded

licenceVars == <<day, key, daemon, stored, check, checked, rejected, heard, forgot, crossed>>
cleanupVars == <<hour, frequency, last, cleaner, purges, overlapped>>
vars == <<timer, licenceVars, cleanupVars>>

Never == -1

----------------------------------------------------------------------------
(* Licence keys                                                              *)

\* What is signed into a key. "a" and "b" are checked with the portal, "offline" is
\* not; "elsewhere" is bound to another installation; "forged" has no valid signature.
Keys == {"a", "b", "offline", "elsewhere", "forged"}
IssuedAt == 0
ExpiresAt(k) == IF k = "b" THEN MaxDay - 1 ELSE MaxDay + 1
Callback(k) == k \in {"a", "b", "elsewhere"}

VerifyLicense(k) == k # "forged" /\ day <= ExpiresAt(k)

\* evaluate: only "valid" grants anything.
Evaluate(k, validation) ==
    IF k = "none" THEN "none"
    ELSE IF ~ VerifyLicense(k) THEN IF day > ExpiresAt(k) THEN "expired" ELSE "invalid"
    ELSE IF k = "elsewhere" THEN "wrong_instance"
    ELSE IF validation = "invalid" /\ Callback(k) THEN "revoked"
    ELSE "valid"

\* A status reaches memory always and the database usually.
SetState(status, success, written) ==
    /\ daemon' = [status |-> status, last |-> success]
    /\ stored' = IF written THEN status ELSE stored
    /\ checked' = TRUE

\* validate: without a key, without a valid one or without a portal there is
\* nothing to wait for.
StartCheck(written) ==
    /\ ~ checked /\ check = "none"
    /\ IF VerifyLicense(key) /\ Callback(key)
       THEN check' = key /\ UNCHANGED <<daemon, stored, checked, heard, forgot, crossed>>
       ELSE /\ IF key # "none" /\ VerifyLicense(key)
               THEN SetState("valid", day, written) /\ heard' = day /\ forgot' = FALSE
               ELSE /\ SetState(IF key = "none" THEN "valid" ELSE "invalid", daemon.last, written)
                    /\ UNCHANGED <<heard, forgot>>
            /\ crossed' = ~ written
            /\ UNCHANGED check
    /\ UNCHANGED <<timer, day, key, rejected, cleanupVars>>

\* A defect: the days are counted from the issue of the key.
BaseDayIssued(l) == IssuedAt

\* The days without the portal are counted from the last success the process knows of.
BaseDay(l) == IF l = Never THEN IssuedAt ELSE l

\* The portal confirms or rejects the key; an unsigned, foreign, stale or missing
\* answer starts or prolongs the grace period.
Answer(outcome, written) ==
    LET silent == day - BaseDay(daemon.last)
    IN  /\ check # "none"
        /\ SetState(IF outcome = "confirmed" THEN "valid"
                    ELSE IF outcome = "rejected" \/ silent > GraceDays THEN "invalid"
                    ELSE "grace_period",
                    IF outcome = "confirmed" THEN day ELSE daemon.last, written)
        /\ rejected' = IF outcome = "confirmed" THEN rejected \ {check}
                       ELSE IF outcome = "rejected" THEN rejected \cup {check} ELSE rejected
        /\ heard' = IF outcome = "confirmed" THEN day ELSE heard
        /\ forgot' = (forgot /\ outcome # "confirmed")
        /\ crossed' = (~ written \/ check # key)
        /\ check' = "none"
        /\ UNCHANGED <<timer, day, key, cleanupVars>>

\* Verified before it is stored; what the daemon found out about the old key goes,
\* unless that statement fails.
Install(k, deleted) ==
    /\ VerifyLicense(k) /\ k # "elsewhere"
    /\ key' = k /\ stored' = IF deleted THEN "none" ELSE stored
    /\ crossed' = ~ deleted
    /\ UNCHANGED <<timer, day, daemon, check, checked, rejected, heard, forgot, cleanupVars>>
Remove ==
    /\ key # "none" /\ key' = "none" /\ stored' = "none"
    /\ crossed' = FALSE
    /\ UNCHANGED <<timer, day, daemon, check, checked, rejected, heard, forgot, cleanupVars>>

\* The process starts again: its memory is gone, and it checks at once.
Restart ==
    /\ daemon' = [status |-> "valid", last |-> Never]
    /\ check' = "none" /\ checked' = FALSE /\ forgot' = TRUE
    /\ UNCHANGED <<timer, day, key, stored, rejected, heard, crossed, cleanupVars>>

\* The timer of the next day; a check takes at most ten seconds.
NextDay ==
    /\ checked /\ day < MaxDay
    /\ day' = day + 1 /\ checked' = FALSE
    /\ UNCHANGED <<timer, key, daemon, stored, check, rejected, heard, forgot, crossed, cleanupVars>>

\* A key is revoked only if the portal rejected it or was silent for too long.  (A
\* process that started since counts from the day the key was issued; a check that
\* overlaps a change of the key, or whose status is not stored, is believed of the
\* wrong key until the next one.)
RevokedHasReason ==
    Evaluate(key, stored) = "revoked" /\ ~ crossed /\ ~ forgot =>
        key \in rejected \/ day - heard > GraceDays

\* Once checked, a key of the portal's is good only while the portal was heard of in
\* the last days and has not rejected it.  (A rejected key is good again from the
\* first check that does not reach the portal.)
ValidIsConfirmed ==
    Evaluate(key, stored) = "valid" /\ Callback(key) /\ stored # "none" /\ checked /\ ~ crossed =>
        /\ day - heard <= GraceDays
        /\ key \in rejected => stored = "grace_period"

LicenceSteps ==
    \/ \E written \in BOOLEAN : StartCheck(written)
    \/ \E outcome \in {"confirmed", "rejected", "unreachable"}, written \in BOOLEAN : Answer(outcome, written)
    \/ \E k \in Keys, deleted \in BOOLEAN : Install(k, deleted)
    \/ Remove
    \/ Restart
    \/ NextDay

----------------------------------------------------------------------------
(* Data cleanup, in the hours of the user's time zone                        *)

Frequencies == {"none", "daily", "weekly", "monthly"}
TargetHour == 1
LocalHour(h) == h % DayHours
LocalDate(h) == h \div DayHours
Sunday(h) == LocalDate(h) % WeekDays = 0

\* Weekly plans are cleaned on Sundays, all others every day.
Due(h, recorded) ==
    /\ frequency # "none"
    /\ LocalHour(h) = TargetHour
    /\ frequency = "weekly" => Sunday(h)
    /\ recorded = Never \/ LocalDate(recorded) # LocalDate(h)

Idle == [pc |-> "idle", ran |-> FALSE]

\* The subscription is read; the purge itself is in TenantNamespaces.
RunCleanupChecks(p) ==
    /\ cleaner[p] = Idle
    /\ cleaner' = [cleaner EXCEPT ![p] = [pc |-> IF Due(hour, last) THEN "purge" ELSE "idle", ran |-> TRUE]]
    /\ overlapped' = (overlapped \/ \E q \in Processes : cleaner[q].pc # "idle")
    /\ UNCHANGED <<timer, hour, frequency, last, purges, licenceVars>>

\* Errors are logged: the purge counts as done.
CleanupUserData(p) ==
    /\ cleaner[p].pc = "purge"
    /\ purges' = purges \cup {<<hour, p>>}
    /\ cleaner' = [cleaner EXCEPT ![p].pc = "record"]
    /\ UNCHANGED <<timer, hour, frequency, last, overlapped, licenceVars>>
RecordCleanup(p) ==
    /\ cleaner[p].pc = "record"
    /\ last' = hour
    /\ cleaner' = [cleaner EXCEPT ![p].pc = "idle"]
    /\ UNCHANGED <<timer, hour, frequency, purges, overlapped, licenceVars>>

\* A backend starts: it checks at once, also if it died between purge and record.
StartCleanupScheduler(p) ==
    /\ cleaner[p] # Idle
    /\ cleaner' = [cleaner EXCEPT ![p] = Idle]
    /\ overlapped' = (overlapped \/ cleaner[p].pc = "record")
    /\ UNCHANGED <<timer, hour, frequency, last, purges, licenceVars>>

\* The timers fire about once an hour; one that drifts over the hour skips it.
NextHour ==
    /\ hour < MaxHour /\ \A p \in Processes : cleaner[p].pc = "idle"
    /\ hour' = hour + 1
    /\ cleaner' = [p \in Processes |-> Idle]
    /\ purges' = IF LocalDate(hour + 1) = LocalDate(hour) THEN purges ELSE {}
    /\ UNCHANGED <<timer, frequency, last, overlapped, licenceVars>>

\* A workspace is purged at its plan's hour, at most once in a local day, unless two
\* backends checked at the same time or one died before recording the purge.
PurgedOnceADay ==
    /\ \A x \in purges : frequency # "none" /\ LocalHour(x[1]) = TargetHour /\ (frequency = "weekly" => Sunday(x[1]))
    /\ ~ overlapped => Cardinality(purges) <= 1

CleanupSteps ==
    \/ \E p \in Processes :
          RunCleanupChecks(p) \/ CleanupUserData(p) \/ RecordCleanup(p) \/ StartCleanupScheduler(p)
    \/ NextHour

----------------------------------------------------------------------------
Init ==
    /\ timer \in {"licence", "cleanup"}
    /\ day = 0 /\ key = "none" /\ daemon = [status |-> "valid", last |-> Never] /\ stored = "none"
    /\ check = "none" /\ checked = FALSE /\ rejected = {} /\ heard = IssuedAt /\ forgot = FALSE /\ crossed = FALSE
    /\ hour = 0 /\ last = Never /\ cleaner = [p \in Processes |-> Idle] /\ purges = {} /\ overlapped = FALSE
    /\ frequency \in IF timer = "cleanup" THEN Frequencies ELSE {"none"}
Next == (timer = "licence" /\ LicenceSteps) \/ (timer = "cleanup" /\ CleanupSteps)
Spec == Init /\ [][Next]_vars

LicenceFollowsPortal == RevokedHasReason /\ ValidIsConfirmed
=============================================================================

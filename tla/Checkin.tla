-------------------------------- MODULE Checkin --------------------------------
(***************************************************************************)
(* The daily check-in of one user (model/checkin.go, controller/checkin.go *)
(* and the card of the profile page, checkin-calendar-card.tsx).  The user *)
(* has several cards open; each waits for one request at a time.  On MySQL *)
(* and PostgreSQL the record and the award are one transaction; on SQLite  *)
(* they are two statements, with a compensating delete when the second     *)
(* fails and nothing when the process dies in between.                     *)
(***************************************************************************)
EXTENDS Integers

CONSTANTS
    Cards,      \* open profile pages of the user
    UsingSQLite,
    MaxDay,     \* bound of the calendar
    MaxFaults   \* bound on failing statements and crashes

VARIABLES
    day,        \* the server's date
    records,    \* checkin_date of the rows of checkins
    request,    \* the request of each card: its handler and the date it took
    checked,    \* cards whose last status said checked_in_today
    faults,
    awards,     \* history: how often the award of a day reached users.quota
    told,       \* history: days for which a card was told of success
    broken      \* history: days whose record outlived a crash or failed rollback

vars == <<day, records, request, checked, faults, awards, told, broken>>
Days == 1..MaxDay
Idle == [stage |-> "idle"]

(* The button is disabled while a request runs and when the last status    *)
(* said that the user has checked in.                                      *)
Click(k) ==
    /\ request[k] = Idle /\ k \notin checked
    /\ request' = [request EXCEPT ![k] = [stage |-> "sent"]]
    /\ UNCHANGED <<day, records, checked, faults, awards, told, broken>>

(* The status of the card is fetched (on load and after a success).        *)
Status(k) ==
    /\ checked' = IF day \in records THEN checked \cup {k} ELSE checked \ {k}
    /\ UNCHANGED <<day, records, request, faults, awards, told, broken>>

(* The unique index (user_id, checkin_date) admits the row.                *)
Create(d) == d \notin records

(* HasCheckedInToday, then the date of the record is taken: two readings   *)
(* of the clock.                                                           *)
UserCheckin(k) ==
    /\ request[k].stage = "sent"
    /\ request' = [request EXCEPT ![k] =
           IF day \in records THEN Idle ELSE [stage |-> "checked"]]
    /\ UNCHANGED <<day, records, checked, faults, awards, told, broken>>

TakeDate(k) ==
    /\ request[k].stage = "checked"
    /\ request' = [request EXCEPT ![k] = [stage |-> "create", date |-> day]]
    /\ UNCHANGED <<day, records, checked, faults, awards, told, broken>>

Refused(k) ==
    /\ request[k].stage = "create" /\ ~Create(request[k].date)
    /\ request' = [request EXCEPT ![k] = Idle]
    /\ UNCHANGED <<day, records, checked, faults, awards, told, broken>>

(* A success is shown and the status fetched again.                        *)
Succeed(k, d) ==
    /\ request' = [request EXCEPT ![k] = Idle]
    /\ told' = told \cup {d}
    /\ checked' = IF day \in records \cup {d} THEN checked \cup {k}
                  ELSE checked \ {k}

userCheckinWithTransaction(k) ==
    /\ ~UsingSQLite
    /\ request[k].stage = "create" /\ Create(request[k].date)
    /\ LET d == request[k].date
       IN  /\ records' = records \cup {d}
           /\ awards' = [awards EXCEPT ![d] = @ + 1]
           /\ Succeed(k, d)
    /\ UNCHANGED <<day, faults, broken>>

(* The query, the insert or, in the transaction, the update fails: nothing *)
(* is kept.                                                                *)
StatementFails(k) ==
    /\ request[k].stage \in {"sent", "create"} /\ faults < MaxFaults
    /\ faults' = faults + 1
    /\ request' = [request EXCEPT ![k] = Idle]
    /\ UNCHANGED <<day, records, checked, awards, told, broken>>

CreateRecord(k) ==
    /\ UsingSQLite
    /\ request[k].stage = "create" /\ Create(request[k].date)
    /\ records' = records \cup {request[k].date}
    /\ request' = [request EXCEPT ![k].stage = "award"]
    /\ UNCHANGED <<day, checked, faults, awards, told, broken>>

Award(k) ==
    /\ request[k].stage = "award"
    /\ awards' = [awards EXCEPT ![request[k].date] = @ + 1]
    /\ Succeed(k, request[k].date)
    /\ UNCHANGED <<day, records, faults, broken>>

(* The award fails and the record is deleted; the delete's own failure is  *)
(* not looked at.                                                          *)
AwardFails(k) ==
    /\ request[k].stage = "award" /\ faults < MaxFaults
    /\ faults' = faults + 1
    /\ \E deleted \in BOOLEAN :
          /\ records' = IF deleted THEN records \ {request[k].date} ELSE records
          /\ broken' = IF deleted THEN broken ELSE broken \cup {request[k].date}
    /\ request' = [request EXCEPT ![k] = Idle]
    /\ UNCHANGED <<day, checked, awards, told>>

(* The server dies; every handler is gone, the database stays.             *)
Crash ==
    /\ faults < MaxFaults
    /\ faults' = faults + 1
    /\ broken' = broken \cup
           {d \in Days : \E k \in Cards :
               request[k].stage = "award" /\ request[k].date = d}
    /\ request' = [k \in Cards |-> Idle]
    /\ UNCHANGED <<day, records, checked, awards, told>>

Midnight ==
    /\ day < MaxDay
    /\ day' = day + 1
    /\ UNCHANGED <<records, request, checked, faults, awards, told, broken>>

Init ==
    /\ day = 1 /\ records = {} /\ request = [k \in Cards |-> Idle]
    /\ checked = {} /\ faults = 0 /\ awards = [d \in Days |-> 0]
    /\ told = {} /\ broken = {}

Next ==
    \/ Crash \/ Midnight
    \/ \E k \in Cards :
          \/ Click(k) \/ Status(k) \/ UserCheckin(k) \/ TakeDate(k) \/ Refused(k)
          \/ userCheckinWithTransaction(k) \/ StatementFails(k)
          \/ CreateRecord(k) \/ Award(k) \/ AwardFails(k)

Spec == Init /\ [][Next]_vars

AwardPending(d) == \E k \in Cards : request[k] = [stage |-> "award", date |-> d]

(* However the requests of one user interleave, and whatever fails or      *)
(* crashes, the award of a day is paid once at most, and a day the user    *)
(* was told of was paid.                                                   *)
AwardedOncePerDay ==
    \A d \in Days : awards[d] <= 1 /\ (d \in told => awards[d] = 1)

(* A day is recorded exactly when its award was paid, except while a       *)
(* handler is between the two and, on SQLite, for a day on which the       *)
(* process died there or the compensating delete failed too: that day's    *)
(* award is lost.                                                          *)
RecordMeansAward ==
    \A d \in Days : \/ d \in records <=> awards[d] = 1
                    \/ AwardPending(d) /\ d \in records /\ awards[d] = 0
                    \/ UsingSQLite /\ d \in broken /\ d \in records /\ awards[d] = 0
================================================================================

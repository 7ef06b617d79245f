---------------------------- MODULE NoticeBoard ----------------------------
(* The in-app notices of modules/notifications, modules/scheduler and the     *)
(* provider portal: the morning pass that reminds a provider of a period it   *)
(* has not filed (dailyComplianceReminders), the alerts an officer generates  *)
(* about cases and providers (NotificationsService.generate), and the two     *)
(* feeds in which a notice is read.  Every notice is one row of one table;    *)
(* who sees it follows from targetProviderId, targetRole and targetUserId.    *)
(*                                                                            *)
(* A pass and a generation are sequences of calls to the database: files,     *)
(* decisions and readers act between them, and a restart ends them anywhere.  *)
EXTENDS Naturals, FiniteSets, Sequences, SequencesExt

CONSTANTS
    Providers,      \* institutions obliged to report
    Staff,          \* officers reading the staff feed
    Cases,          \* underdeclaration cases
    HighValue,      \* the cases with an estimated tax of ten million or more
    YearDays,       \* days in a calendar year
    PeriodsPerYear, \* 4 for a QUARTERLY provider, 12 for a MONTHLY, 1 for an ANNUAL
    DueDays,        \* reportingDueDays of the statutory configuration
    Horizon,        \* days ahead an OBJECTION_DEADLINE alert looks
    MaxDay,         \* the last day explored
    MaxNotices      \* rows explored

None == "none"

NoticeAssumption ==
    /\ IsFiniteSet(Providers) /\ IsFiniteSet(Cases) /\ HighValue \subseteq Cases
    /\ Staff # {} /\ None \notin Providers \cup Staff
    /\ {YearDays, PeriodsPerYear} \subseteq Nat \ {0}
    /\ {DueDays, Horizon, MaxDay, MaxNotices} \subseteq Nat

VARIABLES
    today,      \* the day it is
    filed,      \* filed[p]: the periods p has a submission for that was not rejected
    cases,      \* cases[c]: status, and the two deadlines of section 41 (0: unset)
    notices,    \* the notification rows, in order of creation
    pass,       \* the morning pass: idle, the report it still works through, or done
    generating  \* an officer's generation: idle or the alerts it still works through

vars == <<today, filed, cases, notices, pass, generating>>

YearOf(d) == d \div YearDays
Periods == [year : 0..YearOf(MaxDay), n : 1..PeriodsPerYear]

(* expectedPeriods: a period ends with its share of the year, and is due a    *)
(* number of days after that, which for the last one is in the next year.     *)
Due(period) ==
    period.year * YearDays + (period.n * YearDays) \div PeriodsPerYear - 1 + DueDays

Missing(p, period, d) == period \notin filed[p] /\ Due(period) < d

(* forYear: the rows of one reporting year.                                   *)
ForYear(year, d) ==
    {x \in Providers \X Periods : x[2].year = year /\ Missing(x[1], x[2], d)}

----------------------------------------------------------------------------
(* Rows.  A provider's notice carries targetProviderId and nothing else.      *)

ProviderNotice(type, p, entity) ==
    [type |-> type, entity |-> entity, about |-> type, provider |-> p,
     user |-> None, read |-> FALSE]

StaffNotice(type, entity, about, user) ==
    [type |-> type, entity |-> entity, about |-> about, provider |-> None,
     user |-> user, read |-> FALSE]

NoProviderGate(s, n) == n.user \in {None, s}   \* a mutant

(* staffVisibility: nothing addressed to a provider; broadcast or one's own.  *)
StaffSees(s, n) == n.provider = None /\ n.user \in {None, s}

(* listNotifications and markNotificationRead of the portal.                  *)
ProviderSees(p, n) == n.provider = p

(* The reminder's de-duplication: any row for that provider and period, read  *)
(* or not.  (OneOfUnread, OneForAll: mutants.)                                *)
OneOfUnread(p, period) ==
    \E i \in DOMAIN notices : /\ notices[i].type = "SUBMISSION_OVERDUE"
                              /\ notices[i].provider = p
                              /\ notices[i].entity = period
                              /\ ~notices[i].read

OneForAll(p, period) ==
    \E i \in DOMAIN notices : /\ notices[i].type = "SUBMISSION_OVERDUE"
                              /\ notices[i].entity = period

AlreadyReminded(p, period) ==
    \E i \in DOMAIN notices : /\ notices[i].type = "SUBMISSION_OVERDUE"
                              /\ notices[i].provider = p
                              /\ notices[i].entity = period

(* createIfAbsent: an unread row of that type for that entity.                *)
StandsUnread(alert) ==
    \E i \in DOMAIN notices : /\ notices[i].type = alert.type
                              /\ notices[i].entity = alert.entity
                              /\ ~notices[i].read

Post(n) == notices' = Append(notices, n)
Room == Len(notices) < MaxNotices

----------------------------------------------------------------------------
(* The three lists of a generation, each read when its turn comes.            *)

HighValueAlerts ==
    {StaffNotice("HIGH_VALUE_FLAG", c, "tax", None) :
        c \in {k \in HighValue : cases[k].status = "OPEN"}}

(* generateObjectionDeadlines: the first of the two deadlines in the window.  *)
NearDeadline(c) ==
    LET near(at) == at # 0 /\ today <= at /\ at <= today + Horizon
    IN  CASE near(cases[c].objectionDueAt) -> "objection"
          [] near(cases[c].authorityResponseDueAt) -> "authority_response"
          [] OTHER -> None

DeadlineAlerts ==
    {StaffNotice("OBJECTION_DEADLINE", c, NearDeadline(c), None) :
        c \in {k \in Cases : /\ cases[k].status \in {"NOTICE_ISSUED", "OBJECTION"}
                             /\ NearDeadline(k) # None}}

(* generateMissedSubmissions: providers with nothing at all for the year.     *)
MissedAlerts(year) ==
    {StaffNotice("MISSED_SUBMISSION", p, "year", None) :
        p \in {q \in Providers : \A period \in filed[q] : period.year # year}}

Alerts(phase, year) ==
    SetToSeq(CASE phase = 1 -> HighValueAlerts
               [] phase = 2 -> DeadlineAlerts
               [] OTHER -> MissedAlerts(year))

Idle == [pc |-> "idle", todo |-> <<>>, since |-> 0]
IdleGeneration == [pc |-> "idle", todo |-> <<>>, since |-> 0, phase |-> 0, year |-> 0]

Init ==
    /\ today = 0
    /\ filed = [p \in Providers |-> {}]
    /\ cases = [c \in Cases |-> [status |-> "OPEN", objectionDueAt |-> 0,
                                 authorityResponseDueAt |-> 0]]
    /\ notices = <<>>
    /\ pass = Idle
    /\ generating = IdleGeneration

(* dailyComplianceReminders starts with the report of the calendar year it is,*)
(* and keeps the periods due more than a day ago.                             *)
CurrentTaxYear == YearOf(today)

PassStart ==
    /\ pass.pc \in {"idle", "done"} /\ pass.since < today
    /\ pass' = [pc |-> "check", since |-> today,
                todo |-> SetToSeq({row \in ForYear(CurrentTaxYear, today) :
                                      today - Due(row[2]) > 1})]
    /\ UNCHANGED <<today, filed, cases, notices, generating>>

PassCheck ==
    /\ pass.pc = "check" /\ pass.todo # <<>>
    /\ LET row == Head(pass.todo) IN
       pass' = IF AlreadyReminded(row[1], row[2])
               THEN [pass EXCEPT !.todo = Tail(@)] ELSE [pass EXCEPT !.pc = "create"]
    /\ UNCHANGED <<today, filed, cases, notices, generating>>

PassCreate ==
    /\ pass.pc = "create" /\ Room
    /\ LET row == Head(pass.todo) IN
       Post(ProviderNotice("SUBMISSION_OVERDUE", row[1], row[2]))
    /\ pass' = [pass EXCEPT !.pc = "check", !.todo = Tail(@)]
    /\ UNCHANGED <<today, filed, cases, generating>>

PassEnd ==
    /\ pass.pc = "check" /\ pass.todo = <<>>
    /\ pass' = [pass EXCEPT !.pc = "done"]
    /\ UNCHANGED <<today, filed, cases, notices, generating>>

(* POST /notifications/generate, for a year the officer names.                *)
GenerateStart(year) ==
    /\ generating.pc \in {"idle", "done"}
    /\ generating' = [pc |-> "check", since |-> today, todo |-> Alerts(1, year),
                      phase |-> 1, year |-> year]
    /\ UNCHANGED <<today, filed, cases, notices, pass>>

GenerateCheck ==
    /\ generating.pc = "check" /\ generating.todo # <<>>
    /\ generating' = IF StandsUnread(Head(generating.todo))
                     THEN [generating EXCEPT !.todo = Tail(@)]
                     ELSE [generating EXCEPT !.pc = "create"]
    /\ UNCHANGED <<today, filed, cases, notices, pass>>

GenerateCreate ==
    /\ generating.pc = "create" /\ Room
    /\ Post(Head(generating.todo))
    /\ generating' = [generating EXCEPT !.pc = "check", !.todo = Tail(@)]
    /\ UNCHANGED <<today, filed, cases, pass>>

GenerateTurn ==
    /\ generating.pc = "check" /\ generating.todo = <<>>
    /\ generating' = IF generating.phase = 3 THEN [generating EXCEPT !.pc = "done"]
                     ELSE [generating EXCEPT !.phase = @ + 1,
                              !.todo = Alerts(generating.phase + 1, generating.year)]
    /\ UNCHANGED <<today, filed, cases, notices, pass>>

(* The server restarts: what was running is gone, its rows stay.              *)
Restart ==
    /\ \/ pass.pc \in {"check", "create"}
       \/ generating.pc \in {"check", "create"}
    /\ pass' = IF pass.pc = "done" THEN pass ELSE [Idle EXCEPT !.since = pass.since]
    /\ generating' = IF generating.pc = "done" THEN generating ELSE IdleGeneration
    /\ UNCHANGED <<today, filed, cases, notices>>

----------------------------------------------------------------------------
(* Readers and the rest of the system.                                        *)

MarkRead(i) ==
    /\ i \in DOMAIN notices /\ ~notices[i].read
    /\ \/ \E s \in Staff : StaffSees(s, notices[i])
       \/ \E p \in Providers : ProviderSees(p, notices[i])
    /\ notices' = [notices EXCEPT ![i].read = TRUE]
    /\ UNCHANGED <<today, filed, cases, pass, generating>>

File(p, period) ==
    /\ period \notin filed[p] /\ today >= Due(period) - DueDays
    /\ filed' = [filed EXCEPT ![p] = @ \cup {period}]
    /\ UNCHANGED <<today, cases, notices, pass, generating>>

(* A demand notice sets the taxpayer's deadline, an objection the authority's;*)
(* a decision ends both (CaseLifecycle has the whole of it).                  *)
IssueNotice(c) ==
    /\ cases[c].status = "OPEN" /\ today > 0
    /\ cases' = [cases EXCEPT ![c].status = "NOTICE_ISSUED",
                              ![c].objectionDueAt = today + Horizon]
    /\ UNCHANGED <<today, filed, notices, pass, generating>>

Object(c) ==
    /\ cases[c].status = "NOTICE_ISSUED"
    /\ cases' = [cases EXCEPT ![c].status = "OBJECTION",
                              ![c].authorityResponseDueAt = today + Horizon]
    /\ UNCHANGED <<today, filed, notices, pass, generating>>

Decide(c) ==
    /\ cases[c].status = "OBJECTION"
    /\ cases' = [cases EXCEPT ![c].status = "ASSESSED"]
    /\ UNCHANGED <<today, filed, notices, pass, generating>>

(* grantResubmit and the scan's CASE_ASSIGNED post without looking first.     *)
GrantResubmit(p, period) ==
    /\ Room /\ period \in filed[p]
    /\ Post(ProviderNotice("RESUBMIT_PERMISSION", p, period))
    /\ UNCHANGED <<today, filed, cases, pass, generating>>

CaseAssigned(c, s) ==
    /\ Room /\ cases[c].status = "OPEN"
    /\ Post(StaffNotice("CASE_ASSIGNED", c, "CASE_ASSIGNED", s))
    /\ UNCHANGED <<today, filed, cases, pass, generating>>

Sleep ==
    /\ today < MaxDay /\ today' = today + 1
    /\ UNCHANGED <<filed, cases, notices, pass, generating>>

Reminders ==
    \/ PassStart \/ PassCheck \/ PassCreate \/ PassEnd \/ Restart \/ Sleep
    \/ \E p \in Providers, period \in Periods : File(p, period) \/ GrantResubmit(p, period)
    \/ \E i \in 1..MaxNotices : MarkRead(i)

Alerting ==
    \/ \E year \in 0..YearOf(MaxDay) : GenerateStart(year)
    \/ GenerateCheck \/ GenerateCreate \/ GenerateTurn \/ Restart \/ Sleep
    \/ \E p \in Providers, period \in Periods : File(p, period)
    \/ \E c \in Cases : IssueNotice(c) \/ Object(c) \/ Decide(c)
    \/ \E c \in Cases, s \in Staff : CaseAssigned(c, s)
    \/ \E i \in 1..MaxNotices : MarkRead(i)

Next == Reminders \/ Alerting
Spec == Init /\ [][Next]_vars

----------------------------------------------------------------------------
NoticeTypes == {"SUBMISSION_OVERDUE", "RESUBMIT_PERMISSION", "OBJECTION_DEADLINE",
                "MISSED_SUBMISSION", "HIGH_VALUE_FLAG", "CASE_ASSIGNED"}

Row == [type : NoticeTypes, entity : Cases \cup Providers \cup Periods,
        about : NoticeTypes \cup {"tax", "objection", "authority_response", "year"},
        provider : Providers \cup {None}, user : Staff \cup {None}, read : BOOLEAN]

TypeOK ==
    /\ today \in 0..MaxDay
    /\ filed \in [Providers -> SUBSET Periods]
    /\ cases \in [Cases -> [status : {"OPEN", "NOTICE_ISSUED", "OBJECTION", "ASSESSED"},
                           objectionDueAt : Nat, authorityResponseDueAt : Nat]]
    /\ notices \in Seq(Row)
    /\ pass \in [pc : {"idle", "check", "create", "done"}, todo : Seq(Providers \X Periods),
                 since : 0..MaxDay]
    /\ generating \in [pc : {"idle", "check", "create", "done"}, todo : Seq(Row),
                       since : 0..MaxDay, phase : 0..3, year : 0..YearOf(MaxDay)]

(* Read or not, filed since or not, and whatever a restart cut short, no      *)
(* institution is told twice that the same period is overdue ("De-duped so a  *)
(* provider is reminded once per missed period"); and of the alerts officers  *)
(* generate, a second about the same matter waits until the first is read.    *)
NothingTwice ==
    \A i, j \in DOMAIN notices :
        notices[i].type = notices[j].type =>
        CASE notices[i].type = "SUBMISSION_OVERDUE" ->
                (notices[i].provider = notices[j].provider /\ notices[i].entity = notices[j].entity)
                => i = j
          [] notices[i].type \in {"OBJECTION_DEADLINE", "MISSED_SUBMISSION", "HIGH_VALUE_FLAG"} ->
                (~notices[i].read /\ ~notices[j].read /\ notices[i].entity = notices[j].entity)
                => i = j
          [] OTHER -> TRUE

(* A notice has one audience, which can read it: it is in the feed of one     *)
(* institution, or in the feeds of officers, and never in both.               *)
OneAudience ==
    \A i \in DOMAIN notices :
        LET officers == {s \in Staff : StaffSees(s, notices[i])}
            institutions == {p \in Providers : ProviderSees(p, notices[i])}
        IN  \/ officers = {} /\ Cardinality(institutions) = 1
            \/ officers # {} /\ institutions = {}

Told(p, period) ==
    \E i \in DOMAIN notices : /\ notices[i].type = "SUBMISSION_OVERDUE"
                              /\ notices[i].entity = period /\ ProviderSees(p, notices[i])

(* When a morning's pass is over, every institution that by then had missed a *)
(* period of the running year for more than a day has been told so, whatever  *)
(* was filed, read or cut short on earlier days.                              *)
PassReachesAll ==
    pass.pc = "done" =>
        \A p \in Providers, period \in Periods :
            /\ period.year = YearOf(pass.since) /\ pass.since - Due(period) > 1
            => period \in filed[p] \/ Told(p, period)

----------------------------------------------------------------------------
(* What the comments say and the code does not do.                            *)

(* "Remind providers who are past a reporting deadline by 24h+ and still      *)
(* haven't filed": but the last period of a year falls due in the next one,   *)
(* when the pass no longer asks for it.                                       *)
EveryDefaulterIsReminded ==
    pass.pc = "done" =>
        \A p \in Providers, period \in Periods :
            pass.since - Due(period) > 1 => period \in filed[p] \/ Told(p, period)

(* "cases whose section 41 objection/authority deadlines are near": an unread *)
(* alert about the first deadline keeps the one about the second away.        *)
NearDeadlineIsNamed ==
    generating.pc = "done" /\ generating.since = today =>
        \A c \in Cases :
            LET row == cases[c] IN
            /\ row.status = "OBJECTION" /\ row.objectionDueAt < today
            /\ row.authorityResponseDueAt >= today
            => \E i \in DOMAIN notices : notices[i].about = "authority_response"
                                         /\ notices[i].entity = c

----------------------------------------------------------------------------
(* What every step keeps.                                                     *)

(* Between its look and its row nobody is told what the pass or a generation  *)
(* is about to tell.                                                          *)
GeneratedTypes == {"OBJECTION_DEADLINE", "MISSED_SUBMISSION", "HIGH_VALUE_FLAG"}
NotToldYet ==
    /\ pass.pc = "create" =>
          pass.todo # <<>> /\ ~AlreadyReminded(Head(pass.todo)[1], Head(pass.todo)[2])
    /\ generating.pc = "create" => generating.todo # <<>> /\ ~StandsUnread(Head(generating.todo))
    /\ \A i \in DOMAIN generating.todo :
          LET alert == generating.todo[i]
          IN alert.type \in GeneratedTypes /\ alert.provider = None

(* A notice is an institution's or the officers'.                             *)
Addressed == \A i \in DOMAIN notices : notices[i].provider # None => notices[i].user = None

(* Whom the pass has not reached it still has before it.                      *)
ReachedOrToDo ==
    pass.pc # "idle" =>
        \A p \in Providers, period \in Periods :
            period.year = YearOf(pass.since) /\ pass.since - Due(period) > 1 =>
                \/ period \in filed[p] \/ Told(p, period)
                \/ pass.pc # "done" /\ \E i \in DOMAIN pass.todo : pass.todo[i] = <<p, period>>

BoardHolds == TypeOK /\ NothingTwice /\ NotToldYet /\ Addressed /\ ReachedOrToDo
============================================================================

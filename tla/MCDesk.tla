-------------------------------- MODULE MCDesk --------------------------------
(* What officers and their machines decide about others: the penalties of a    *)
(* provider, the versions of the statutory configuration, the triage of cases, *)
(* the drafts of Iris, declarations and payments, and the notices that follow. *)
(* An instance explores ONE part; the parts share the slots.                   *)
EXTENDS Integers, Sequences, FiniteSets, TLC
CONSTANTS
    Hands,        \* requests under way at the same time
    Clerks, MaxInFlight, Month, Figures, MaxTime, MaxFilings,   \* of the penalties,
    Fields, Values, Default, MaxVersion,                        \* the configuration,
    Cases, Evidence, LlmEnabled, Limit, MaxRows,                \* the triage
    Staff, Case, MaxDrafts, MaxDone,                            \* the drafts,
    Taxpayers, Batches, Largest, Amounts, Employers, Earning, Official, MaxPayments, \* what is known
    Institutions, Readers, Matters, Flagged, YearDays, PeriodsPerYear, DueDays,      \* of others,
    Horizon, MaxDay, MaxNotices,                                                     \* and notices
    Filing, AlertDays, MaxAlerts    \* bounds of the alerts: who files, days and rows
MCSymmetry == Permutations(Hands)

VARIABLES
    focus,        \* the part explored
    s1, s2, s3, s4, s5, s6, s7, s8, s9, s10, s11, s12,
    overlapped    \* requests were in flight together (see each part)

slots == <<s1, s2, s3, s4, s5, s6, s7, s8, s9, s10, s11, s12>>
last5 == <<s8, s9, s10, s11, s12>>

(* Penalties: a month of two units; three configurations: higher fines, then a *)
(* later due date with a later commencement.  overlapped: a request was in     *)
(* flight together with another one, with a change of the configuration or     *)
(* with the settlement of the penalty; a third request, a second change of the *)
(* configuration and the last unit of time come only where not.                *)
MCFigures == <<[due |-> 1, first |-> 10, per |-> 5, from |-> 0],
               [due |-> 1, first |-> 20, per |-> 8, from |-> 1],
               [due |-> 2, first |-> 20, per |-> 8, from |-> 3]>>
Penalty == INSTANCE ProviderPenalty WITH
    Requests <- Clerks,
    now <- s1, version <- s2, returns <- s3, row <- s4, letters <- s5, job <- s6

InFlight == {r \in Clerks : Penalty!Active(r)}
Arrived  == {r \in Clerks : s6[r].pc # "idle"}
Settled  == s4.status \in {"WAIVED", "PAID"}
PenaltyNext ==
    /\ Penalty!Next
    /\ overlapped' = \/ overlapped
                     \/ Cardinality(InFlight') > 1
                     \/ InFlight # {} /\ (s2' # s2 \/ Settled' # Settled)
    /\ overlapped' => Cardinality(Arrived') <= 2 /\ s1' <= 4 /\ s2' <= 2
    /\ \A r \in Arrived' : 1..r \subseteq Arrived'
    /\ UNCHANGED <<s7, last5>>

----------------------------------------------------------------------------
(* Configuration: two fields of two values each, two updates under way.        *)
MCDefault == [f \in Fields |-> 0]
Statutory == INSTANCE StatutoryConfig WITH
    Slots <- Hands,
    table <- s1, active <- s2, job <- s3

StatutoryNext ==
    /\ Statutory!Next
    /\ overlapped' = (overlapped \/ Cardinality({s \in Hands : s3'[s].pc # "idle"}) > 1)
    /\ UNCHANGED <<s4, s5, s6, s7, last5>>

----------------------------------------------------------------------------
(* Triage: one case that every action suits, two requests; past a race nothing *)
(* is explored.                                                                *)
MCEvidence == [c \in Cases |-> [providers |-> 2, nin |-> TRUE, confidence |-> 80, gap |-> 50]]
Triage == INSTANCE TriageDesk WITH
    Slots <- Hands,
    status <- s1, recs <- s2, job <- s3, moves <- s4, raced <- s5

TriageNext ==
    /\ s5 = [recs |-> {}, cases |-> {}]
    /\ Triage!Next
    /\ UNCHANGED <<s6, s7, last5, overlapped>>

----------------------------------------------------------------------------
(* Drafts: two officers and two drafts; past a spoilt draft nothing is         *)
(* explored.                                                                   *)
Drafts == INSTANCE IrisDraft WITH
    Slots <- Hands,
    role <- s1, stage <- s2, drafts <- s3, exports <- s4, job <- s5, acts <- s6, spoilt <- s7

DraftsNext == s7 = {} /\ Drafts!Next /\ UNCHANGED <<last5, overlapped>>

----------------------------------------------------------------------------
(* Declarations and payments: two employers; files of two good rows, of an     *)
(* amount too large for the column, and of rows that are unknown, of two       *)
(* taxpayers or unsound.  Payments and registrations stop at an overlap.       *)
Row(n, r, ok, a) == [nin |-> n, rc |-> r, sound |-> ok, amount |-> a]
MCBatches ==
    { <<Row("a", "none", TRUE, 1), Row("a", "none", TRUE, 2)>>,
      <<Row("b", "none", TRUE, 1), Row("none", "a", TRUE, 3)>>,
      <<Row("unknown", "none", TRUE, 1), Row("a", "b", TRUE, 1), Row("a", "none", FALSE, 1)>> }
Tax == INSTANCE TaxDesk WITH
    Officers <- Hands,
    declared <- s1, page <- s2, job <- s3, payments <- s4, push <- s5, paye <- s6, reg <- s7,
    changed <- s8, stale <- s9, latest <- s10, byHand <- s11, filed <- s12

TaxNext ==
    \/ focus = "imports" /\ Tax!Imports
    \/ focus = "payments" /\ ~overlapped /\ Tax!Payments
    \/ focus = "registrations" /\ ~overlapped /\ Tax!Registrations

----------------------------------------------------------------------------
(* Notices: the reminders of two half-yearly institutions over a short year,   *)
(* and the alerts about one case of a large amount.                            *)
Notices == INSTANCE NoticeBoard WITH
    Providers <- Institutions, Staff <- Readers, Cases <- Matters, HighValue <- Flagged,
    today <- s1, filed <- s2, cases <- s3, notices <- s4, pass <- s5, generating <- s6

RemindersNext == Notices!Reminders /\ UNCHANGED <<s7, last5, overlapped>>
AlertsNext ==
    /\ Notices!Alerting
    /\ s1' <= AlertDays /\ Len(s4') <= MaxAlerts /\ \A p \in Institutions \ Filing : s2'[p] = {}
    /\ UNCHANGED <<s7, last5, overlapped>>

----------------------------------------------------------------------------
TaxParts == {"imports", "payments", "registrations"}
Blank5   == s8 = 0 /\ s9 = 0 /\ s10 = 0 /\ s11 = 0 /\ s12 = 0
MCInit ==
    /\ overlapped = FALSE
    /\ \/ focus = "penalty" /\ Penalty!Init /\ s7 = 0 /\ Blank5
       \/ focus = "statutory" /\ Statutory!Init /\ s4 = 0 /\ s5 = 0 /\ s6 = 0 /\ s7 = 0 /\ Blank5
       \/ focus = "triage" /\ Triage!Init /\ s6 = 0 /\ s7 = 0 /\ Blank5
       \/ focus = "drafts" /\ Drafts!Init /\ Blank5
       \/ focus \in TaxParts /\ Tax!Init
       \/ focus \in {"reminders", "alerts"} /\ Notices!Init /\ s7 = 0 /\ Blank5

MCNext ==
    /\ focus' = focus
    /\ \/ focus = "penalty" /\ PenaltyNext
       \/ focus = "statutory" /\ StatutoryNext
       \/ focus = "triage" /\ TriageNext
       \/ focus = "drafts" /\ DraftsNext
       \/ TaxNext
       \/ focus = "reminders" /\ RemindersNext
       \/ focus = "alerts" /\ AlertsNext

MCSpec == MCInit /\ [][MCNext]_<<focus, slots, overlapped>>

ASSUME DeskAssumption ==
    /\ IsFiniteSet(Hands) /\ {MaxRows, MaxDrafts} \subseteq Nat
    /\ Penalty!PenaltyAssumption /\ Statutory!StatutoryAssumption
    /\ Tax!TaxAssumption /\ Notices!NoticeAssumption

----------------------------------------------------------------------------
(* The type invariants of the parts.                                           *)
TypesOK ==
    CASE focus = "penalty" -> Penalty!TypeOK
      [] focus = "statutory" -> Statutory!TypeOK
      [] focus = "triage" -> Triage!TypeOK
      [] focus = "drafts" -> Drafts!TypeOK
      [] focus \in TaxParts -> Tax!TypeOK
      [] focus \in {"reminders", "alerts"} -> Notices!TypeOK

\* The active configuration is the latest version filed.  Only providers in
\* default are penalised and every letter cites the record; as long as nothing
\* overlapped, the record accounts for its amount.  (A configuration filed
\* between the two reads of issuePenalty stamps figures the amount was not
\* computed with, provider-compliance.service.ts 231.)
ObligationsStand ==
    CASE focus = "penalty" -> /\ Penalty!OnlyDefaultersPenalised
                              /\ Penalty!LettersCiteTheRecord
                              /\ overlapped \/ Penalty!AmountMatchesFigures
      [] focus = "statutory" -> Statutory!ActiveIsLatest
      [] OTHER -> TRUE

\* What was decided is not undone.  A version of the configuration is never
\* rewritten, and as long as nothing overlapped a new one differs from the active
\* one in the field of its patch only (update reads the active version at
\* statutory.service.ts 99, outside its transaction).  As long as nothing
\* overlapped, a penalty waived or paid is left alone, and months and fines only
\* accrue (the upsert and the NOTIFIED update are by id, from a status read
\* before).  A recommendation an officer applied or skipped stays so and moves its
\* case no more.
NothingIsUndone ==
    [][CASE focus = "statutory" -> /\ Statutory!KeepsHistory
                                   /\ overlapped' \/ Statutory!OnlyPatchedChanges
         [] focus = "penalty" -> overlapped' \/ (Penalty!SettledStays /\ Penalty!DefaultOnlyAccrues)
         [] focus = "triage" -> Triage!DecisionKept
         [] OTHER -> TRUE]_<<focus, slots, overlapped>>

\* What a machine proposes is answered once: a case carries one recommendation, it
\* moves the case once and fits the status it was made for; a draft is acted on
\* once at most.
ProposalsAnsweredOnce ==
    CASE focus = "triage" -> Triage!OneAnswerPerCase /\ Triage!FitsWhatWasSeen
      [] focus = "drafts" -> Drafts!ActedOnOnce
      [] OTHER -> TRUE

\* An import commits what its preview said, a taxpayer has paid what was pushed
\* last, and no employer is registered twice with the Tax app.
TaxRecordsAreFaithful ==
    focus \in TaxParts => Tax!CommitAsPreviewed /\ Tax!PaidAsPushed /\ Tax!FiledOnce

\* No notice is given twice, each has one audience that can read it, and a morning
\* pass that is over has reached every defaulter of its year.
NoticesReach ==
    focus \in {"reminders", "alerts"} =>
        Notices!NothingTwice /\ Notices!OneAudience /\ Notices!PassReachesAll
============================================================================

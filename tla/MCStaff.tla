-------------------------------- MODULE MCStaff --------------------------------
(* Who gets in, and to what: the credentials of an account, the second factor, *)
(* the idle session, the grants to see records, the elevations to see personal *)
(* data, the conversation with Iris and the aptitude test.  An instance        *)
(* explores ONE part; the parts share now, job and overlapped of               *)
(* AccountCredentials.                                                         *)
EXTENDS AccountCredentials, Sequences, FiniteSets, TLC
CONSTANTS
    p1, p2,                                                    \* requests, or tabs
    AdminStaff, SuperAdmins, RedeemWindow, SessionHours, GrantTime,      \* the grants,
    MaxGrants, MaxAssignments, MaxTokens,
    Officers, Approvers, OfficerSupers, RevealWindow, MaxRows,           \* elevations,
    CodesPer, StepUpTtl, Ceiling, FactorTime, MaxMade,                   \* second factor,
    IdleMs, WarningMs, Throttle, IdleTime,                               \* idle session,
    Names, Recognised, MaxIterations, MaxTurns,                          \* conversation
    Questions, Topic, Quota, Fields, Duration, Revised, ExamTime         \* and the test
MCSymmetry == Permutations(Slots)

VARIABLES
    focus,        \* the part explored
    s1, s2, s3, s4, s5, s6, s7

own   == <<kind, user, links, tokens, passwords>>
slots == <<s1, s2, s3, s4, s5, s6, s7>>
all   == <<focus, vars, slots>>

(* Grants: an admin and a super admin, a window of one unit and a session of   *)
(* two; two rows and a second request only until two requests have overlapped. *)
Grant == INSTANCE AccessGrant WITH
    Staff <- AdminStaff, Supers <- SuperAdmins, Window <- RedeemWindow,
    Session <- SessionHours, MaxTime <- GrantTime,
    grants <- s1, assignments <- s2, minted <- s3

Used == {s \in Slots : job[s] # Grant!IdleJob}
GrantNext ==
    /\ Grant!Next
    /\ overlapped' = (overlapped \/ \E s, t \in Slots :
                         s # t /\ ~Grant!Free(s)' /\ ~Grant!Free(t)')
    /\ overlapped' => Len(s1') <= 1 /\ Len(s2') <= 1
    /\ ~overlapped' => Cardinality(Used') <= 1
    /\ UNCHANGED <<own, s4, s5, s6, s7>>

----------------------------------------------------------------------------
(* Elevations: an officer, two approvers and a super admin; past a collision   *)
(* nothing is explored.                                                        *)
Elevation == INSTANCE AccessElevation WITH
    Staff <- Officers, Supers <- OfficerSupers, Window <- RevealWindow, elevations <- s1

ElevationNext == ~overlapped /\ Elevation!Next /\ UNCHANGED <<own, s2, s3, s4, s5, s6, s7>>

----------------------------------------------------------------------------
(* Second factor: two recovery codes a set, three sets or secrets; past an     *)
(* overlap nothing is explored.                                                *)
Factor == INSTANCE SecondFactor WITH
    IdleTtl <- StepUpTtl, MaxTime <- FactorTime,
    mfa <- s1, secret <- s2, codes <- s3, made <- s4, spent <- s5, session <- s6, authorised <- s7

FactorNext == ~overlapped /\ Factor!Next /\ UNCHANGED own

----------------------------------------------------------------------------
(* Idle session: two tabs of one browser.                                      *)
Tabs == INSTANCE IdleSession WITH
    Tabs <- Slots, MaxTime <- IdleTime,
    token <- s1, last <- s2, tab <- s3, asleep <- s4, touch <- s5, woken <- s6

IdleNext == Tabs!Next /\ UNCHANGED <<own, job, overlapped, s7>>

----------------------------------------------------------------------------
(* Iris: one name, three rounds of tools, two turns; past a turn that is torn  *)
(* nothing is explored.                                                        *)
Chat == INSTANCE IrisChat WITH
    history <- s1, turns <- s2, sent <- s3, cut <- overlapped

ChatNext == ~overlapped /\ Chat!Next /\ UNCHANGED <<own, now, s4, s5, s6, s7>>

----------------------------------------------------------------------------
(* Aptitude test: two questions, one of them revised meanwhile, and one field; *)
(* past a collision or a request lost nothing is explored.                     *)
MCTopic == [q \in {"q1", "q2"} |-> "TAX"]
MCQuota == [t \in {"TAX"} |-> 2]
Exam == INSTANCE AssessmentAttempt WITH
    MaxTime <- ExamTime,
    bank <- s1, attempt <- s2, page <- s3, entered <- s4, lost <- s5

ExamNext == ~overlapped /\ ~s5 /\ Exam!Next /\ UNCHANGED <<own, s6, s7>>

----------------------------------------------------------------------------
ASSUME GrantConstants     == Grant!AccessAssumption
ASSUME ElevationConstants == Elevation!ElevationAssumption
ASSUME FactorConstants    == Factor!FactorAssumption
ASSUME TabsConstants      == Tabs!IdleAssumption
ASSUME ChatConstants      == Chat!ChatAssumption
ASSUME ExamConstants      == Exam!ExamAssumption

Blank == kind = "STAFF" /\ user = 0 /\ links = <<>> /\ tokens = {} /\ passwords = 0
MCInit ==
    \/ /\ focus = "credentials" /\ Init
       /\ s1 = 0 /\ s2 = 0 /\ s3 = 0 /\ s4 = 0 /\ s5 = 0 /\ s6 = 0 /\ s7 = 0
    \/ /\ focus = "grants" /\ Grant!Init /\ Blank /\ overlapped = FALSE
       /\ s4 = 0 /\ s5 = 0 /\ s6 = 0 /\ s7 = 0
    \/ /\ focus = "elevations" /\ Elevation!Init /\ Blank
       /\ s2 = 0 /\ s3 = 0 /\ s4 = 0 /\ s5 = 0 /\ s6 = 0 /\ s7 = 0
    \/ focus = "factor" /\ Factor!Init /\ Blank
    \/ focus = "idle" /\ Tabs!Init /\ Blank /\ overlapped = FALSE /\ job = 0 /\ s7 = 0
    \/ /\ focus = "chat" /\ Chat!Init /\ Blank /\ now = 0
       /\ s4 = 0 /\ s5 = 0 /\ s6 = 0 /\ s7 = 0
    \/ focus = "exam" /\ Exam!Init /\ Blank /\ s6 = 0 /\ s7 = 0

MCNext ==
    /\ focus' = focus
    /\ \/ focus = "credentials" /\ Next /\ UNCHANGED slots
       \/ focus = "grants" /\ GrantNext
       \/ focus = "elevations" /\ ElevationNext
       \/ focus = "factor" /\ FactorNext
       \/ focus = "idle" /\ IdleNext
       \/ focus = "chat" /\ ChatNext
       \/ focus = "exam" /\ ExamNext

MCSpec == MCInit /\ [][MCNext]_all

----------------------------------------------------------------------------
(* The type invariants of the parts.                                           *)
TypesOK ==
    CASE focus = "credentials" -> TypeOK
      [] focus = "grants" -> Grant!TypeOK
      [] focus = "elevations" -> Elevation!TypeOK
      [] focus = "factor" -> Factor!TypeOK
      [] focus = "idle" -> Tabs!TypeOK
      [] focus = "chat" -> Chat!TypeOK
      [] focus = "exam" -> Exam!TypeOK

\* As long as no two requests have overlapped, an officer has one usable grant
\* (two overlapping requests both find none at access-grant-token.service.ts 78);
\* an officer who is shown a value in the clear was let through by another one.
ShownByRight ==
    CASE focus = "grants" -> overlapped \/ Grant!OneGrantPerOfficer
      [] focus = "elevations" -> Elevation!ShownByAnother
      [] OTHER -> TRUE

\* As long as no two requests have overlapped, the second factor is whole; a
\* step-up session ends however often it is renewed; and no tab finds the session
\* of an active user past the limit.  What is exchanged in a sitting is kept and
\* told as it should be: a tool's results stand by the message that asked for
\* them and no name is told to the model; the attempt of a candidate holds what
\* was entered and is marked for what it holds.
SessionsAreWhole ==
    CASE focus = "factor" -> Factor!FactorIsWhole /\ Factor!SessionEnds
      [] focus = "idle" -> Tabs!NoEarlySignOut
      [] focus = "chat" -> Chat!HistoryPairsUpUnlessCut /\ Chat!NamesToldAreHidden
      [] focus = "exam" -> Exam!AnswersAreKept
      [] OTHER -> TRUE

\* Whoever is shown a record holds a grant a super admin approved and nobody
\* revoked, no longer ago than the window and one session.  As long as no two
\* requests have overlapped, a session's end never moves (two redemptions both
\* read the grant APPROVED), a revoke cuts access (two assignments both create a
\* row, access-assignment.service.ts 98), and the decision on an elevation stands.
\* What is over does not start again: a link that set a password, a session left
\* alone past its limit (but for a tab that woke with no event to tell it), a
\* sitting of the test.
AccessIsAsDecided ==
    [][CASE focus = "grants" -> /\ Grant!ShownHasGrant
                                /\ overlapped' \/ (Grant!SessionEndIsFixed /\ Grant!RevokeCutsAccess)
         [] focus = "elevations" -> overlapped' \/ Elevation!DecisionStands
         [] focus = "credentials" -> overlapped' \/ \A s \in Slots : LinkSpent(s)
         [] focus = "idle" -> Tabs!PastLimitUnlessWoken
         [] focus = "exam" -> Exam!SittingKept
         [] OTHER -> TRUE]_all
================================================================================

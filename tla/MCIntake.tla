------------------------------ MODULE MCIntake ------------------------------
(* How returns come in: the multipart upload, the filing pipeline, the TINs of *)
(* the taxpayers it meets and the upload assistant.  An instance explores ONE  *)
(* of the four parts; the parts share the variables that are not those of      *)
(* MultipartUpload, under neutral names (job and crashes among them).          *)
EXTENDS MultipartUpload, TLC
CONSTANTS
    Filers, Returns, Periods, Accounts, NoAccount, Batch,       \* of the filings,
    MaxServed, MaxGrants, MaxFailures, Explored,
    Taxpayers, Issued, Callers, MaxEdits,                       \* the TINs
    Headers, Rank, Kind, Fields, Wants, Required, Guess,        \* and the assistant
    Slots, Ttl, MaxTime, MaxDrafts, MaxChanges

VARIABLES
    focus,          \* the part explored
    s1, s2, s3, s4, s5,
    overlapped,     \* two requests have ever been in flight together
    spent           \* tin: an edit took a TIN away; assistant: a call was cut short

slots == <<vars, s1, s2, s3, s4, s5, overlapped, spent>>

----------------------------------------------------------------------------
(* Filing: two accounts of one closed quarter, one of them in both files, so   *)
(* that a repeat, a partial acceptance and a two-batch file all occur; rows    *)
(* without an account number are never repeats; q2 lets a return carry rows of *)
(* another period.                                                             *)
File(channel, period, shape, rows) ==
    [channel |-> channel, period |-> period, shape |-> shape, rows |-> rows]
MCReturns ==
    { File("provider", "q1", "valid", << <<"q1", "a1">>, <<"q1", "a2">> >>),
      File("provider", "q1", "invalid", << <<"q1", "a1">>, <<"q1", "a1">> >>),
      File("provider", "q1", "unreadable", <<>>),
      File("json", "q1", "valid", << <<"q1", "a1">> >>),
      File("staff", "q2", "valid", << <<"q1", NoAccount>>, <<"q1", "a2">>, <<"q2", "a2">> >>) }

Filing == INSTANCE SubmissionFiling WITH
    Files <- Returns, MaxInFlight <- MaxServed,
    job <- job, sub <- s1, stored <- s2, grants <- s3, failures <- s4, crashes <- crashes

ASSUME FilingConstants == Filing!FilingAssumption

(* A third request arrives only where none have overlapped; permissions are    *)
(* granted for q1, the only period a provider files for here.                  *)
InOrder(arrived) == \A i \in arrived : 1..i \subseteq arrived
FilersArrived == {f \in Filers : job[f].pc # "idle"}
FilingNext ==
    /\ Filing!Next
    /\ overlapped' = (overlapped \/ Cardinality({f \in Filers : Filing!Active(f)'}) > 1)
    /\ overlapped' => Cardinality(FilersArrived') <= 2
    /\ InOrder(FilersArrived')
    /\ \A i \in DOMAIN s3' : s3'[i].period \in Explored
    /\ UNCHANGED <<status, part, fed, s5, spent>>

----------------------------------------------------------------------------
(* Multipart: a two-part file, six requests one after the other, or five of    *)
(* which three are in flight together.                                         *)
RequestsArrived == {r \in Requests : job[r].pc # "idle"}
MultipartNext ==
    /\ Next
    /\ overlapped' = (overlapped \/ Cardinality({r \in Requests : Active(r)'}) > 1)
    /\ overlapped' => Cardinality(RequestsArrived') <= 4
    /\ InOrder(RequestsArrived')
    /\ UNCHANGED <<s1, s2, s3, s4, s5, spent>>

----------------------------------------------------------------------------
(* TINs: two taxpayers, two TINs from elsewhere.                               *)
Tins == INSTANCE TaxpayerTin WITH
    Requests <- Callers, MaxInFlight <- MaxServed,
    tin <- s1, job <- job, edits <- s2

ASSUME TinConstants == Tins!TinAssumption

TinsInFlight == {r \in Callers : Tins!Active(r)}
TinsNext ==
    /\ Tins!Next
    /\ overlapped' = \/ overlapped
                     \/ Cardinality(TinsInFlight') > 1
                     \/ s2' # s2 /\ TinsInFlight # {}
    /\ spent' = (spent \/ \E t \in Taxpayers : s1[t] # Tins!NoTin /\ s1'[t] = Tins!NoTin)
    /\ InOrder({r \in Callers : job'[r].pc # "idle"})
    /\ UNCHANGED <<status, part, fed, crashes, s3, s4, s5>>

----------------------------------------------------------------------------
(* The assistant: two columns that may feed the one field, two drafts; past an *)
(* overlap or a call cut short nothing is explored.                            *)
MCRank  == [h \in Headers |-> IF h = "h1" THEN 1 ELSE 2]
MCKind  == [h \in Headers |-> "amount"]
MCWants == [f \in Fields |-> "amount"]
MCGuess == [h \in Headers |-> IF h = "h1" THEN "inflow" ELSE "ignored"]
Assistant == INSTANCE UploadAssistant WITH
    MaxEdits <- MaxChanges,
    clock <- s1, page <- s2, drafts <- s3, calls <- job, filings <- s4,
    overlapped <- overlapped, cut <- spent

ASSUME AssistantConstants == Assistant!AssistantAssumption

AssistantNext ==
    /\ ~overlapped /\ ~spent
    /\ Assistant!Next
    /\ UNCHANGED <<status, part, fed, crashes, s5>>

----------------------------------------------------------------------------
MCInit ==
    /\ overlapped = FALSE /\ spent = FALSE
    /\ \/ focus = "filing" /\ Filing!Init /\ status = 0 /\ part = 0 /\ fed = {} /\ s5 = 0
       \/ focus = "multipart" /\ Init /\ s1 = 0 /\ s2 = 0 /\ s3 = 0 /\ s4 = 0 /\ s5 = 0
       \/ /\ focus = "tin" /\ Tins!Init
          /\ status = 0 /\ part = 0 /\ fed = {} /\ crashes = 0 /\ s3 = 0 /\ s4 = 0 /\ s5 = 0
       \/ /\ focus = "assistant" /\ Assistant!Init
          /\ status = 0 /\ part = 0 /\ fed = {} /\ crashes = 0 /\ s5 = 0

MCNext ==
    /\ focus' = focus
    /\ \/ focus = "filing" /\ FilingNext
       \/ focus = "multipart" /\ MultipartNext
       \/ focus = "tin" /\ TinsNext
       \/ focus = "assistant" /\ AssistantNext

MCSpec ==
    /\ MCInit /\ [][MCNext]_<<focus, slots>>
    /\ \A f \in Filers : WF_<<job, s1, s2, s3, s4, crashes>>(focus = "filing" /\ Filing!Step(f))

----------------------------------------------------------------------------
(* The type invariants of the four parts.                                      *)
TypesOK ==
    CASE focus = "filing" -> Filing!TypeOK
      [] focus = "multipart" -> TypeOK
      [] focus = "tin" -> Tins!TypeOK
      [] focus = "assistant" -> Assistant!TypeOK

\* The verdict of a settled submission is what its stored rows say; the assistant
\* files what the last preview was computed from, once per draft.
FilingsAreTrue ==
    CASE focus = "filing" -> Filing!VerdictMatchesRecords
      [] focus = "assistant" -> Assistant!FiledAsPreviewed /\ Assistant!DraftFilesOnce
      [] OTHER -> TRUE

\* A submission that was created is settled, whatever fails and whenever the
\* server restarts in between.
EverySubmissionSettles ==
    \A f \in Filers : (focus = "filing" /\ s1[f].status = "VALIDATING")
                         ~> ((focus = "filing" => Filing!Settled(f)) \/ crashes > 0)

\* As long as no two requests have overlapped (and, of a session, the server has
\* not restarted): a provider files a period once and once more per permission
\* spent, no account is on file twice for a period, a multipart session makes one
\* submission at most, and the number generateTin hands out next is free until a
\* TIN has been taken away.  Where they do overlap, two uploads both pass the gate
\* of submissions.service.ts 131-151, two filings both read the accounts on file
\* before either writes, two completions both read the session OPEN at line 361,
\* and tax-net.service.ts 185 counts behind the numbers handed out.
NothingTwiceUnlessOverlapped ==
    overlapped \/ CASE focus = "filing" -> Filing!OncePerPeriod /\ Filing!NoAccountTwice
                     [] focus = "multipart" -> crashes > 0 \/ OneSubmissionPerSession
                     [] focus = "tin" -> spent \/ Tins!NextRootIsFree
                     [] OTHER -> TRUE

\* As long as no two writers have overlapped, only an edit or import replaces a
\* TIN.  (The update is by id: of two overlapping writers that both saw no TIN,
\* the second replaces the first one's.)
NeverOverwrittenUnlessOverlapped ==
    [][focus = "tin" => overlapped' \/ Tins!NothingOverwritten]_<<focus, slots>>

\* A resubmission the authority permitted replaces the period's rows: none of the
\* rows of the replacement is turned away as already submitted.
ReplacementIsTaken == focus = "filing" => Filing!ReplacementIsTaken
============================================================================

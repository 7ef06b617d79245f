----------------------------- MODULE IrisDraft ------------------------------
(* Drafts: what IRIS proposes and an officer confirms or cancels.              *)
(* draft-proposer.ts, the execute and commit of the three action tools,        *)
(* iris-draft.service.ts, and generate and download of export.service.ts.      *)
(* Every await is a step.                                                      *)
EXTENDS Integers, Sequences, FiniteSets

CONSTANTS
    Staff,      \* officers
    Case,       \* the case that notices are proposed for
    Slots,      \* requests served at the same time
    MaxDrafts,  \* bound on the drafts proposed
    MaxDone     \* bound on the acts done

VARIABLES
    role,     \* role[o] of an officer
    stage,    \* status of the case
    drafts,   \* IrisDraft, by creation
    exports,  \* IrisExport, by creation
    job,      \* per slot: the request
    acts,     \* history: acts[d], how often draft d was acted on
    spoilt    \* history: the drafts decided by two requests at once, or whose
              \* confirmation was cut off
vars == <<role, stage, drafts, exports, job, acts, spoilt>>

Law == INSTANCE CaseLaw WITH Cases <- {Case}, demand <- 0

NoticeRoles == {"SUPER_ADMIN", "ADMIN", "SUPERVISOR"}
RequiredRoles(kind) ==
    CASE kind = "scan"   -> NoticeRoles \cup {"ANALYST"}
      [] kind = "report" -> NoticeRoles \cup {"ANALYST", "AUDIT_OFFICER"}
      [] kind = "notice" -> NoticeRoles
Kinds == {"scan", "report", "notice"}

\* One role that may do all, one that may not notify, one that may only report.
Roles == {"SUPERVISOR", "ANALYST", "AUDIT_OFFICER"}

Draft == [staff : Staff, kind : Kinds, status : {"PENDING", "CONFIRMED", "CANCELLED"}]
IdleJob == [pc |-> "idle"]

TypeOK ==
    /\ role \in [Staff -> Roles]
    /\ stage \in [{Case} -> Law!Status]
    /\ drafts \in Seq(Draft)
    /\ exports \in Seq([staff : Staff, downloaded : BOOLEAN])
    /\ \A s \in Slots : job[s].pc \in {"idle", "commit", "move", "record", "cancel"}
    /\ acts \in [1 .. MaxDrafts -> Nat]
    /\ spoilt \subseteq 1 .. MaxDrafts

Init ==
    /\ role \in [Staff -> {"SUPERVISOR"}]
    /\ stage = [c \in {Case} |-> "UNDER_REVIEW"]
    /\ drafts = <<>>
    /\ exports = <<>>
    /\ job = [s \in Slots |-> IdleJob]
    /\ acts = [d \in 1 .. MaxDrafts |-> 0]
    /\ spoilt = {}

Idle(s) == job[s] = IdleJob
Done(s) == job' = [job EXCEPT ![s] = IdleJob]

\* execute, by way of the executor: the role is checked, a draft is made, and
\* nothing else happens.  A notice is proposed whatever the case's status.
Propose(s) == \E o \in Staff, kind \in Kinds :
    /\ Idle(s)
    /\ Len(drafts) < MaxDrafts
    /\ role[o] \in RequiredRoles(kind)
    /\ drafts' = Append(drafts, [staff |-> o, kind |-> kind, status |-> "PENDING"])
    /\ UNCHANGED <<role, stage, exports, job, acts>>

MayConfirm(o, d) ==
    /\ drafts[d].staff = o
    /\ drafts[d].status = "PENDING"
    /\ role[o] \in RequiredRoles(drafts[d].kind)

\* Mutant: a draft that was decided may be cancelled.
MayCancelDecided(o, d) == drafts[d].staff = o

MayCancel(o, d) == drafts[d].staff = o /\ drafts[d].status = "PENDING"

\* confirm, up to the commit.
ReadToConfirm(s) == \E o \in Staff, d \in DOMAIN drafts :
    /\ Idle(s)
    /\ MayConfirm(o, d)
    /\ job' = [job EXCEPT ![s] = [pc |-> "commit", staff |-> o, id |-> d]]
    /\ UNCHANGED <<role, stage, drafts, exports, acts>>

Acted(d) == acts[d] < MaxDone /\ acts' = [acts EXCEPT ![d] = @ + 1]

\* commit of a scan and of a report: the scan starts, the encrypted file is kept.
CommitScan(s) ==
    /\ job[s].pc = "commit"
    /\ drafts[job[s].id].kind = "scan"
    /\ Acted(job[s].id)
    /\ job' = [job EXCEPT ![s].pc = "record"]
    /\ UNCHANGED <<role, stage, drafts, exports>>

CommitReport(s) ==
    /\ job[s].pc = "commit"
    /\ drafts[job[s].id].kind = "report"
    /\ Acted(job[s].id)
    /\ exports' = Append(exports, [staff |-> job[s].staff, downloaded |-> FALSE])
    /\ job' = [job EXCEPT ![s].pc = "record"]
    /\ UNCHANGED <<role, stage, drafts>>

\* commit of a notice: CasesService.transition reads the case, then writes it.
CheckNotice(s) ==
    /\ job[s].pc = "commit"
    /\ drafts[job[s].id].kind = "notice"
    /\ IF <<stage[Case], "NOTICE_ISSUED">> \in Law!Transitions
       THEN job' = [job EXCEPT ![s].pc = "move"]
       ELSE Done(s)
    /\ UNCHANGED <<role, stage, drafts, exports, acts>>

CommitNotice(s) ==
    /\ job[s].pc = "move"
    /\ Acted(job[s].id)
    /\ stage' = [stage EXCEPT ![Case] = "NOTICE_ISSUED"]
    /\ job' = [job EXCEPT ![s].pc = "record"]
    /\ UNCHANGED <<role, drafts, exports>>

RecordConfirmed(s) ==
    /\ job[s].pc = "record"
    /\ drafts' = [drafts EXCEPT ![job[s].id].status = "CONFIRMED"]
    /\ Done(s)
    /\ UNCHANGED <<role, stage, exports, acts>>

\* cancel
ReadToCancel(s) == \E o \in Staff, d \in DOMAIN drafts :
    /\ Idle(s)
    /\ MayCancel(o, d)
    /\ job' = [job EXCEPT ![s] = [pc |-> "cancel", staff |-> o, id |-> d]]
    /\ UNCHANGED <<role, stage, drafts, exports, acts>>

Cancel(s) ==
    /\ job[s].pc = "cancel"
    /\ drafts' = [drafts EXCEPT ![job[s].id].status = "CANCELLED"]
    /\ Done(s)
    /\ UNCHANGED <<role, stage, exports, acts>>

\* The commit, the record or the process fails.
Fail(s) ==
    /\ ~ Idle(s)
    /\ Done(s)
    /\ UNCHANGED <<role, stage, drafts, exports, acts>>

\* download: the owner's only, and noted.
Download(s) == \E o \in Staff, e \in DOMAIN exports :
    /\ Idle(s)
    /\ exports[e].staff = o
    /\ exports' = [exports EXCEPT ![e].downloaded = TRUE]
    /\ UNCHANGED <<role, stage, drafts, job, acts>>

\* An administrator changes a role; an officer moves the case by hand.
ChangeRole == \E o \in Staff, r \in Roles :
    /\ role' = [role EXCEPT ![o] = r]
    /\ UNCHANGED <<stage, drafts, exports, job, acts>>

MoveByHand == \E to \in Law!Status :
    /\ <<stage[Case], to>> \in Law!Transitions
    /\ stage' = [stage EXCEPT ![Case] = to]
    /\ UNCHANGED <<role, drafts, exports, job, acts>>

Deciding(j) == IF j.pc \in {"commit", "move", "record", "cancel"} THEN {j.id} ELSE {}
Together == UNION {Deciding(job'[p[1]]) \cap Deciding(job'[p[2]]) :
                     p \in {q \in Slots \X Slots : q[1] # q[2]}}
Next ==
    \/ /\ \/ ChangeRole \/ MoveByHand
          \/ \E s \in Slots :
                \/ Propose(s) \/ ReadToConfirm(s) \/ CommitScan(s) \/ CommitReport(s)
                \/ CheckNotice(s) \/ CommitNotice(s) \/ RecordConfirmed(s)
                \/ ReadToCancel(s) \/ Cancel(s) \/ Download(s)
       /\ spoilt' = spoilt \cup Together
    \/ \E s \in Slots :
          /\ Fail(s)
          /\ spoilt' = spoilt \cup (IF job[s].pc = "record" /\ drafts[job[s].id].kind # "notice"
                                    THEN {job[s].id} ELSE {})

Spec == Init /\ [][Next]_vars

-----------------------------------------------------------------------------
\* A draft is acted on once at most: a confirmed one was, a cancelled one was not,
\* also when the commit fails and the officer tries again, and for a notice also
\* when its confirmation is cut off after the notice was issued, since the case
\* does not take a second one.  Unless two requests decide the draft at once, or
\* the confirmation of a scan or a report is cut off (confirm commits at 42 and
\* writes the status at 44: tried again, the scan starts a second time).
ActedOnOnce == \A d \in DOMAIN drafts : d \notin spoilt =>
    /\ acts[d] <= 1
    /\ drafts[d].status = "CONFIRMED" => acts[d] = 1
    /\ drafts[d].status = "CANCELLED" => acts[d] = 0 \/ drafts[d].kind = "notice"

-----------------------------------------------------------------------------
(* What the property rests on.                                                 *)

Jobs == [pc : {"idle"}]
            \cup [pc : {"commit", "move", "record", "cancel"}, staff : Staff, id : 1 .. Len(drafts)]

\* Two requests that decide a draft have spoilt it.
TogetherNoted == \A q, s \in Slots : q # s => Deciding(job[q]) \cap Deciding(job[s]) \subseteq spoilt

\* A draft that nothing spoilt is pending while it is decided, and not acted on
\* before it is committed; a notice that was acted on has left its case past another.
Single(d) == drafts[d].kind # "notice"
Undone(s) ==
    /\ drafts[job[s].id].status = "PENDING"
    /\ job[s].pc \in {"commit", "cancel"} => (Single(job[s].id) => acts[job[s].id] = 0)
    /\ job[s].pc = "move" => ~ Single(job[s].id) /\ acts[job[s].id] = 0
    /\ job[s].pc = "record" => acts[job[s].id] = 1
Undecided ==
    /\ \A s \in Slots : job[s].pc # "idle" /\ job[s].id \notin spoilt => Undone(s)
    /\ \A d \in DOMAIN drafts \ spoilt : drafts[d].status = "PENDING" /\ Single(d) /\ acts[d] >= 1 =>
          \E s \in Slots : job[s].pc = "record" /\ job[s].id = d
    /\ \A d \in DOMAIN drafts : ~ Single(d) /\ acts[d] >= 1 => stage[Case] \notin {"OPEN", "UNDER_REVIEW"}
    /\ \A d \in 1 .. MaxDrafts \ DOMAIN drafts : acts[d] = 0

IInv ==
    /\ TypeOK /\ job \in [Slots -> Jobs] /\ Len(drafts) <= MaxDrafts
    /\ spoilt \subseteq 1 .. Len(drafts)
    /\ TogetherNoted /\ Undecided /\ ActedOnOnce
=============================================================================

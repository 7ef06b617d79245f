-------------------------- MODULE UploadAssistant --------------------------
(* The upload assistant: an institution's page (UploadAssistant.tsx) and the  *)
(* drafts of modules/iris-upload.  A file with untidy headings is analysed    *)
(* into a draft with a column mapping (a model proposes it, the rules fill    *)
(* what it leaves); the mapping is edited on the page and re-checked; an      *)
(* approval applies the mapping the DRAFT holds to the file and files the     *)
(* result through the ordinary upload.                                        *)
(*                                                                            *)
(* A file is the kind of value each of its columns holds, a mapping the field *)
(* each column feeds.  Every call is the requests to the database it makes,   *)
(* one after the other; two calls may be under way (the page disables only    *)
(* the button of the last one it started).                                    *)
EXTENDS Naturals, FiniteSets, Sequences

CONSTANTS
    Headers,    \* the columns of the file, in a fixed order given by Rank
    Rank,       \* Rank[h]: the place of column h
    Kind,       \* Kind[h]: what its values look like
    Fields,     \* the canonical columns of the institution's schema
    Wants,      \* Wants[f]: the kind of value field f accepts
    Required,   \* the fields that must be filled
    Guess,      \* Guess[h]: the field the alias table gives column h, or Ignored
    Slots,      \* calls under way at once
    Ttl,        \* the life of a draft
    MaxTime, MaxDrafts, MaxEdits   \* bounds of the exploration

Ignored == "ignored"

\* What the constants must be; the instances checked assume it.
AssistantAssumption ==
    /\ Guess \in [Headers -> Fields \cup {Ignored}]
    /\ {Ttl, MaxTime, MaxDrafts} \subseteq Nat

VARIABLES
    clock,
    page,       \* what the page shows: mapping (as edited), previewed (as checked),
                \* the draft it is about, the call its spinner is on, edits made
    drafts,     \* the ImportDraft rows
    calls,      \* the calls under way
    filings,    \* the submissions the assistant filed, and what the page then showed
    overlapped, \* an approval ran beside a re-check, a cancel or another approval
    cut         \* a call ended between what it stored and what it says of it

vars == <<clock, page, drafts, calls, filings, overlapped, cut>>

Mappings == [Headers -> Fields \cup {Ignored}]

(* resolveMapping: the model's proposal where it names a field, the alias     *)
(* table elsewhere.                                                           *)
Resolve(proposal) == [h \in Headers |-> IF proposal[h] \in Fields THEN proposal[h] ELSE Guess[h]]

(* applyMapping: of two columns mapped to one field the first feeds it.       *)
Feeding(mapping, f) ==
    {h \in Headers : /\ mapping[h] = f
                     /\ \A g \in Headers : mapping[g] = f => Rank[h] <= Rank[g]}

(* validateCorrected: every required field is filled, and every filled field  *)
(* holds values it accepts.                                                   *)
Accepted(mapping) ==
    \A f \in Fields :
        /\ f \in Required => Feeding(mapping, f) # {}
        /\ \A h \in Feeding(mapping, f) : Kind[h] = Wants[f]

AnyDraft(d) == TRUE                                             \* a mutant
(* getDraft: of the caller's institution, PENDING and not expired.            *)
Open(d) == d.status = "PENDING" /\ clock <= d.expiresAt

Free == [kind |-> "none", pc |-> "free", draft |-> 0, mapping |-> [h \in Headers |-> Ignored],
         shown |-> [h \in Headers |-> Ignored]]

Blank == [view |-> "pick", mapping |-> [h \in Headers |-> Ignored],
          previewed |-> [h \in Headers |-> Ignored], draft |-> 0, busy |-> "none", edits |-> 0]

Init ==
    /\ clock = 0
    /\ page = Blank
    /\ drafts = <<>>
    /\ calls = [s \in Slots |-> Free]
    /\ filings = <<>>
    /\ overlapped = FALSE
    /\ cut = FALSE

Start(s, kind, mapping, shown) ==
    /\ calls[s].pc = "free"
    /\ calls' = [calls EXCEPT ![s] = [kind |-> kind, pc |-> "sent", draft |-> page.draft,
                                      mapping |-> mapping, shown |-> shown]]

Busy(kinds) == \E s \in Slots : calls[s].kind \in kinds

----------------------------------------------------------------------------
(* The page.                                                                  *)

AnalyzeClick(s) ==
    /\ page.view = "pick" /\ page.busy # "analyze"
    /\ Start(s, "analyze", page.mapping, page.previewed)
    /\ page' = [page EXCEPT !.busy = "analyze"]
    /\ UNCHANGED <<clock, drafts, filings, overlapped, cut>>

SetTarget(h, f) ==
    /\ page.view = "review" /\ page.edits < MaxEdits
    /\ page' = [page EXCEPT !.mapping[h] = f, !.edits = @ + 1]
    /\ UNCHANGED <<clock, drafts, calls, filings, overlapped, cut>>

RecheckClick(s) ==
    /\ page.view = "review" /\ page.busy # "recheck"
    /\ Start(s, "recheck", page.mapping, page.previewed)
    /\ page' = [page EXCEPT !.busy = "recheck"]
    /\ overlapped' = (overlapped \/ Busy({"approve", "recheck"}))
    /\ UNCHANGED <<clock, drafts, filings, cut>>

(* The button is enabled when the last preview had no row to fix.             *)
ApproveClick(s) ==
    /\ page.view = "review" /\ page.busy # "approve" /\ Accepted(page.previewed)
    /\ Start(s, "approve", page.mapping, page.previewed)
    /\ page' = [page EXCEPT !.busy = "approve"]
    /\ overlapped' = (overlapped \/ Busy({"approve", "recheck", "cancel"}))
    /\ UNCHANGED <<clock, drafts, filings, cut>>

(* Start over: the draft is left where it is.                                 *)
Reset ==
    /\ page.view = "review"
    /\ page' = [Blank EXCEPT !.busy = page.busy, !.edits = page.edits]
    /\ UNCHANGED <<clock, drafts, calls, filings, overlapped, cut>>

(* POST import/:id/cancel: in the client's API, on no button of the page.     *)
CancelCall(s) ==
    /\ page.draft # 0
    /\ Start(s, "cancel", page.mapping, page.previewed)
    /\ overlapped' = (overlapped \/ Busy({"approve"}))
    /\ UNCHANGED <<clock, page, drafts, filings, cut>>

----------------------------------------------------------------------------
(* The service.                                                               *)

(* A call is over; its answer, if it has one, is on the page.                 *)
Answer(s, shownNow) ==
    /\ calls' = [calls EXCEPT ![s] = Free]
    /\ page' = [shownNow EXCEPT !.busy = "none"]

(* analyze: a draft with the resolved mapping, then the preview of it.        *)
Analyze(s) ==
    /\ calls[s].kind = "analyze" /\ calls[s].pc = "sent" /\ Len(drafts) < MaxDrafts
    /\ \E proposal \in Mappings :
           /\ drafts' = Append(drafts, [status |-> "PENDING", mapping |-> Resolve(proposal),
                                        expiresAt |-> clock + Ttl, filed |-> 0])
           /\ calls' = [calls EXCEPT ![s].pc = "answer", ![s].draft = Len(drafts) + 1,
                                     ![s].mapping = Resolve(proposal)]
    /\ UNCHANGED <<clock, page, filings, overlapped, cut>>

(* revalidate, approve and cancel begin with getDraft.                        *)
GetDraft(s) ==
    /\ calls[s].kind \in {"recheck", "approve", "cancel"} /\ calls[s].pc = "sent"
    /\ LET d == drafts[calls[s].draft] IN
       IF Open(d)
       THEN /\ calls' = [calls EXCEPT ![s].pc = "read",
                             ![s].mapping = IF calls[s].kind = "approve" THEN d.mapping ELSE @]
            /\ UNCHANGED page
       ELSE Answer(s, page)
    /\ UNCHANGED <<clock, drafts, filings, overlapped, cut>>

KeepMapping(d, mapping) == d                                    \* a mutant
(* revalidate stores the mapping it checked, which approve will apply.        *)
Rechecked(d, mapping) == [d EXCEPT !.mapping = mapping]

Recheck(s) ==
    /\ calls[s].kind = "recheck" /\ calls[s].pc = "read"
    /\ drafts' = [drafts EXCEPT ![calls[s].draft] = Rechecked(@, calls[s].mapping)]
    /\ calls' = [calls EXCEPT ![s].pc = "answer"]
    /\ UNCHANGED <<clock, page, filings, overlapped, cut>>

(* The preview arrives: it is what the page then shows, edits made meanwhile  *)
(* and a page that was started over included.                                 *)
Preview(s) ==
    /\ calls[s].pc = "answer"
    /\ Answer(s, [page EXCEPT !.view = "review", !.mapping = calls[s].mapping,
                              !.previewed = calls[s].mapping, !.draft = calls[s].draft])
    /\ UNCHANGED <<clock, drafts, filings, overlapped, cut>>

Standing == {i \in DOMAIN filings : filings[i].status # "REJECTED"}

(* The upload's own gate: one submission a period that was not rejected.      *)
ApproveGate(s) ==
    /\ calls[s].kind = "approve" /\ calls[s].pc = "read"
    /\ IF Standing = {}
       THEN calls' = [calls EXCEPT ![s].pc = "file"] /\ UNCHANGED page
       ELSE Answer(s, page)
    /\ UNCHANGED <<clock, drafts, filings, overlapped, cut>>

ApproveFile(s) ==
    /\ calls[s].pc = "file"
    /\ filings' = Append(filings, [status |-> "PENDING", draft |-> calls[s].draft,
                                   mapping |-> calls[s].mapping, shown |-> calls[s].shown])
    /\ calls' = [calls EXCEPT ![s].pc = "mark"]
    /\ UNCHANGED <<clock, page, drafts, overlapped, cut>>

ApproveMark(s) ==
    /\ calls[s].pc = "mark"
    /\ drafts' = [drafts EXCEPT ![calls[s].draft].status = "APPROVED",
                                ![calls[s].draft].filed = Len(filings)]
    /\ Answer(s, page)
    /\ UNCHANGED <<clock, filings, overlapped, cut>>

Cancel(s) ==
    /\ calls[s].kind = "cancel" /\ calls[s].pc = "read"
    /\ drafts' = [drafts EXCEPT ![calls[s].draft].status = "CANCELLED"]
    /\ calls' = [calls EXCEPT ![s] = Free]
    /\ UNCHANGED <<clock, page, filings, overlapped, cut>>

(* The ingestion checks every row again, and then more than the preview does  *)
(* (accounts already reported, for one).                                      *)
Ingest(i) ==
    /\ i \in DOMAIN filings /\ filings[i].status = "PENDING"
    /\ \E verdict \in {"VALIDATED", "REJECTED"} :
           /\ verdict = "VALIDATED" => Accepted(filings[i].mapping)
           /\ filings' = [filings EXCEPT ![i].status = verdict]
    /\ UNCHANGED <<clock, page, drafts, calls, overlapped, cut>>

(* A call fails where it stands (a lost connection, a restart, an error).     *)
Fail(s) ==
    /\ calls[s].pc # "free"
    /\ cut' = (cut \/ calls[s].pc \in {"mark", "answer"})
    /\ Answer(s, page)
    /\ UNCHANGED <<clock, drafts, filings, overlapped>>

Tick ==
    /\ clock < MaxTime /\ clock' = clock + 1
    /\ UNCHANGED <<page, drafts, calls, filings, overlapped, cut>>

Next ==
    \/ \E s \in Slots :
           \/ AnalyzeClick(s) \/ RecheckClick(s) \/ ApproveClick(s) \/ CancelCall(s)
           \/ Analyze(s) \/ GetDraft(s) \/ Recheck(s) \/ Preview(s) \/ ApproveGate(s)
           \/ ApproveFile(s) \/ ApproveMark(s) \/ Cancel(s) \/ Fail(s)
    \/ \E h \in Headers, f \in Fields \cup {Ignored} : SetTarget(h, f)
    \/ \E i \in 1..MaxDrafts : Ingest(i)
    \/ Reset \/ Tick

Spec == Init /\ [][Next]_vars

----------------------------------------------------------------------------
TypeOK ==
    /\ clock \in 0..MaxTime
    /\ page.view \in {"pick", "review"} /\ page.mapping \in Mappings
    /\ page.previewed \in Mappings /\ page.draft \in 0..Len(drafts)
    /\ \A d \in DOMAIN drafts : /\ drafts[d].status \in {"PENDING", "APPROVED", "CANCELLED"}
                                /\ drafts[d].mapping \in Mappings
    /\ \A s \in Slots : calls[s].draft \in 0..Len(drafts)
    /\ \A i \in DOMAIN filings : filings[i].mapping \in Mappings

(* What an approval files is what the preview the institution approved was    *)
(* computed from, and a file whose preview had no row to fix: the page, the   *)
(* draft and the pipeline each hold a mapping, and edits, re-checks, starts   *)
(* over and failures come between.  (Approvals beside re-checks are excepted, *)
(* and a re-check whose answer is lost: the page then approves blind.)        *)
FiledAsPreviewed ==
    overlapped \/ cut \/ \A i \in DOMAIN filings : /\ filings[i].mapping = filings[i].shown
                                            /\ Accepted(filings[i].mapping)

(* A draft is filed once: rejected at ingestion, cancelled or expired, it is  *)
(* not filed again.                                                           *)
DraftFilesOnce ==
    overlapped \/ cut \/ \A i, j \in DOMAIN filings : filings[i].draft = filings[j].draft => i = j

----------------------------------------------------------------------------
(* What the properties rest on, for as long as nothing raced and no call was  *)
(* cut short.                                                                 *)

Jobs == [kind : {"none", "analyze", "recheck", "approve", "cancel"},
         pc : {"free", "sent", "read", "answer", "file", "mark"},
         draft : Nat, mapping : Mappings, shown : Mappings]
Pages == [view : {"pick", "review"}, mapping : Mappings, previewed : Mappings, draft : Nat,
          busy : {"none", "analyze", "recheck", "approve"}, edits : Nat]
Rows == [status : {"PENDING", "APPROVED", "CANCELLED"}, mapping : Mappings,
         expiresAt : Nat, filed : Nat]
Filings == [status : {"PENDING", "VALIDATED", "REJECTED"}, draft : Nat,
            mapping : Mappings, shown : Mappings]

Shapes ==
    /\ TypeOK /\ page \in Pages
    /\ calls \in [Slots -> Jobs] /\ drafts \in Seq(Rows) /\ filings \in Seq(Filings)
    /\ \A s \in Slots : /\ (calls[s].kind = "none") = (calls[s].pc = "free")
                        /\ calls[s].pc \in {"file", "mark"} => calls[s].kind = "approve"
                        /\ calls[s].pc = "answer" => calls[s].kind \in {"analyze", "recheck"}
                        /\ calls[s].pc = "read" => calls[s].kind # "analyze"
                        /\ calls[s].kind \in {"recheck", "approve", "cancel"} => calls[s].draft # 0
                        /\ calls[s].pc = "answer" => calls[s].draft # 0
    /\ page.view = "pick" <=> page.draft = 0

\* No two calls that may disturb one another are under way.
Serial ==
    \A s, u \in Slots : s # u /\ calls[s].kind \in {"approve", "recheck"} =>
        calls[u].kind \notin {"approve", "recheck"}
            \cup (IF calls[s].kind = "approve" THEN {"cancel"} ELSE {})

\* A draft whose first preview is on its way is known to nobody else.
FreshIsUnknown ==
    \A s \in Slots : calls[s].kind = "analyze" /\ calls[s].pc = "answer" =>
        /\ calls[s].draft # page.draft
        /\ \A u \in Slots \ {s} : calls[u].draft # calls[s].draft

\* A preview is of the mapping its draft holds, on the page as on its way there.
PreviewIsOfDraft ==
    /\ \A s \in Slots : calls[s].pc = "answer" => drafts[calls[s].draft].mapping = calls[s].mapping
    /\ page.draft # 0 =>
          \/ drafts[page.draft].mapping = page.previewed
          \/ \E s \in Slots : calls[s].kind = "recheck" /\ calls[s].pc = "answer"

\* An approval is of a file the preview found sound, and of a draft not filed before.
ApprovalIsSound ==
    /\ \A s \in Slots : calls[s].kind = "approve" =>
          /\ Accepted(calls[s].shown) /\ drafts[calls[s].draft].mapping = calls[s].shown
          /\ calls[s].pc \in {"read", "file"} =>
                /\ calls[s].mapping = calls[s].shown
                /\ \A i \in DOMAIN filings : filings[i].draft # calls[s].draft
    /\ \A i \in DOMAIN filings :
          /\ filings[i].draft \in DOMAIN drafts
          /\ \/ drafts[filings[i].draft].status # "PENDING"
             \/ \E s \in Slots : calls[s].pc = "mark" /\ calls[s].draft = filings[i].draft

IInv ==
    /\ Shapes
    /\ overlapped \/ cut \/ /\ Serial /\ FreshIsUnknown /\ PreviewIsOfDraft /\ ApprovalIsSound
                            /\ FiledAsPreviewed /\ DraftFilesOnce
============================================================================

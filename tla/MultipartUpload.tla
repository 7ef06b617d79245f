---------------------------- MODULE MultipartUpload ----------------------------
(* One split-upload session (submissions.service.ts uploadPart,                 *)
(* completeMultipart, abortMultipart): the client stores numbered parts, then   *)
(* asks for the file to be assembled, verified and fed to upload().  Requests   *)
(* are handlers; a step is the code between two database awaits.  upload()      *)
(* itself is SubmissionFiling; here it accepts the file or throws.              *)
EXTENDS Naturals, FiniteSets

CONSTANTS
    Requests,     \* the requests that may arrive for the session
    TotalParts,   \* totalParts of the session
    Declared,     \* the payload of each part of the declared file
    Damaged,      \* another payload a client may send for a part
    HasChecksum,  \* whether the session carries an expectedChecksum
    MaxInFlight,  \* requests served at the same time
    MaxCrashes    \* bound on server restarts

Numbers  == 1..TotalParts
Payloads == {Declared, Damaged}
Absent   == "absent"

ASSUME UploadAssumption ==
    /\ TotalParts \in 1..10000
    /\ Absent \notin Payloads /\ Declared # Damaged
    /\ HasChecksum \in BOOLEAN /\ IsFiniteSet(Requests)
    /\ {MaxInFlight, MaxCrashes} \subseteq Nat

VARIABLES
    status,   \* of the SubmissionUpload: OPEN, COMPLETED, ABORTED
    part,     \* the SubmissionUploadPart rows
    fed,      \* the submissions upload() made: <<request, file>>
    job,      \* per request: its kind, where it is, its local variables
    crashes

vars == <<status, part, fed, job, crashes>>

Files == [Numbers -> Payloads]
Stored == [Numbers -> Payloads \cup {Absent}]
Steps == {"store", "collect", "mismatch", "feed", "record", "purge", "mark"}
Jobs  == [pc : Steps \cup {"idle", "refused", "done", "dead"},
          number : Numbers, payload : Payloads, file : Stored]
NoParts == [n \in Numbers |-> Absent]

TypeOK ==
    /\ status \in {"OPEN", "COMPLETED", "ABORTED"}
    /\ part \in Stored
    /\ fed \subseteq Requests \X Files
    /\ job \in [Requests -> Jobs]
    /\ crashes \in Nat

Init ==
    /\ status = "OPEN"
    /\ part = NoParts
    /\ fed = {}
    /\ job = [r \in Requests |-> [pc |-> "idle", number |-> 1,
                                  payload |-> Declared, file |-> NoParts]]
    /\ crashes = 0

Active(r) == job[r].pc \in Steps
Goto(r, pc) == job' = [job EXCEPT ![r].pc = pc]
\* A request arrives: it is the first step of its handler.
Arrives(r) ==
    /\ job[r].pc = "idle"
    /\ Cardinality({x \in Requests : Active(x)}) < MaxInFlight

-----------------------------------------------------------------------------
(* uploadPart                                                                  *)

UploadPart(r, n, payload) ==
    /\ Arrives(r)
    /\ job' = [job EXCEPT ![r].pc = IF status = "OPEN" THEN "store" ELSE "refused",
                          ![r].number = n, ![r].payload = payload]
    /\ UNCHANGED <<status, part, fed, crashes>>

\* The upsert: a retried part overwrites.
StorePart(r) ==
    /\ job[r].pc = "store"
    /\ part' = [part EXCEPT ![job[r].number] = job[r].payload]
    /\ Goto(r, "done")
    /\ UNCHANGED <<status, fed, crashes>>

-----------------------------------------------------------------------------
(* completeMultipart                                                           *)

Complete(r) ==
    /\ Arrives(r)
    /\ Goto(r, IF status = "OPEN" THEN "collect" ELSE "refused")
    /\ UNCHANGED <<status, part, fed, crashes>>

Intact(file) == HasChecksum => file = [n \in Numbers |-> Declared]
Whole(file)  == \A n \in Numbers : file[n] # Absent

\* Mutant: the checksum of the assembled file is not verified.
CollectUnverified(r) ==
    /\ job[r].pc = "collect"
    /\ IF ~Whole(part) THEN Goto(r, "refused")
       ELSE job' = [job EXCEPT ![r].pc = "feed", ![r].file = part]
    /\ UNCHANGED <<status, part, fed, crashes>>

\* The parts are read once; what is assembled, verified and fed is that copy.
Collect(r) ==
    /\ job[r].pc = "collect"
    /\ IF ~Whole(part) THEN Goto(r, "refused")
       ELSE job' = [job EXCEPT ![r].pc = IF Intact(part) THEN "feed" ELSE "mismatch",
                               ![r].file = part]
    /\ UNCHANGED <<status, part, fed, crashes>>

\* A file that is not the declared one aborts the session; its parts stay.
Mismatch(r) ==
    /\ job[r].pc = "mismatch"
    /\ status' = "ABORTED"
    /\ Goto(r, "refused")
    /\ UNCHANGED <<part, fed, crashes>>

\* Mutant: upload() is given the parts as they are by now.
FeedCurrent(r) ==
    /\ job[r].pc = "feed"
    /\ fed' = fed \cup {<<r, part>>}
    /\ Goto(r, "record")
    /\ UNCHANGED <<status, part, crashes>>

\* upload() throws and the session stays OPEN, or it makes a submission.
Feed(r) ==
    /\ job[r].pc = "feed"
    /\ \/ Goto(r, "refused") /\ UNCHANGED fed
       \/ Goto(r, "record") /\ fed' = fed \cup {<<r, job[r].file>>}
    /\ UNCHANGED <<status, part, crashes>>

\* Mutant: the session is left OPEN.
RecordNothing(r) ==
    /\ job[r].pc = "record"
    /\ Goto(r, "purge")
    /\ UNCHANGED <<status, part, fed, crashes>>

Record(r) ==
    /\ job[r].pc = "record"
    /\ status' = "COMPLETED"
    /\ Goto(r, "purge")
    /\ UNCHANGED <<part, fed, crashes>>

Purge(r) ==
    /\ job[r].pc = "purge"
    /\ part' = NoParts
    /\ Goto(r, "done")
    /\ UNCHANGED <<status, fed, crashes>>

-----------------------------------------------------------------------------
(* abortMultipart: no look at the status.                                      *)

Abort(r) ==
    /\ Arrives(r)
    /\ part' = NoParts
    /\ Goto(r, "mark")
    /\ UNCHANGED <<status, fed, crashes>>

MarkAborted(r) ==
    /\ job[r].pc = "mark"
    /\ status' = "ABORTED"
    /\ Goto(r, "done")
    /\ UNCHANGED <<part, fed, crashes>>

-----------------------------------------------------------------------------

\* A restart ends every handler where it is.
Crash ==
    /\ crashes < MaxCrashes
    /\ \E r \in Requests : Active(r)
    /\ job' = [r \in Requests |-> IF Active(r) THEN [job[r] EXCEPT !.pc = "dead"]
                                              ELSE job[r]]
    /\ crashes' = crashes + 1
    /\ UNCHANGED <<status, part, fed>>

Next ==
    \/ \E r \in Requests :
         \/ \E n \in Numbers, payload \in Payloads : UploadPart(r, n, payload)
         \/ StorePart(r)
         \/ Complete(r) \/ Collect(r) \/ Mismatch(r) \/ Feed(r) \/ Record(r) \/ Purge(r)
         \/ Abort(r) \/ MarkAborted(r)
    \/ Crash

Spec == Init /\ [][Next]_vars

-----------------------------------------------------------------------------
(* Properties.                                                                 *)

\* Whatever parts arrive, are retried, are purged or are aborted while a session
\* is being completed, what becomes a submission is a whole file, and with an
\* expectedChecksum it is the declared one.
FedFileIsIntact == \A f \in fed : Whole(f[2]) /\ Intact(f[2])

\* A session makes at most one submission, however often the client asks for its
\* completion (completeMultipart refuses a session that is not OPEN).
OneSubmissionPerSession == Cardinality(fed) <= 1

-----------------------------------------------------------------------------
(* What the properties rest on.                                                *)

\* A handler past the verification holds a whole file with the right checksum.
CopyIsVerified ==
    \A r \in Requests : job[r].pc = "feed" => Whole(job[r].file) /\ Intact(job[r].file)

IInv == TypeOK /\ CopyIsVerified /\ FedFileIsIntact

\* What holds besides for as long as no two requests are served together and the
\* server stays up: whoever may still feed is the first, and who has fed records it.
Calm ==
    /\ \A q, r \in Requests : Active(q) /\ Active(r) => q = r
    /\ \A f, g \in fed : f = g
    /\ \A r \in Requests : job[r].pc \in {"collect", "feed"} => fed = {}
    /\ fed # {} /\ status = "OPEN" => \E r \in Requests : job[r].pc = "record"
=============================================================================

----------------------------- MODULE IntakeProofs -----------------------------
(* What becomes of the returns that come in, for any number of requests, rows,  *)
(* parts, taxpayers, columns and drafts: the properties of the components are   *)
(* not inductive, and each rests on the invariant its component states.         *)
EXTENDS MCIntake, FiniteSetTheorems, SequenceTheorems, WellFoundedInduction, TLAPS

\* What is not more than one is one, and the other way round.
LEMMA AtMostOne ==
    ASSUME NEW S, IsFiniteSet(S), NEW A \in SUBSET S, ~(Cardinality(A) > 1), NEW q \in A, NEW r \in A
    PROVE  q = r
  <1> SUFFICES ASSUME q # r PROVE FALSE OBVIOUS
  <1>1. IsFiniteSet(A) BY FS_Subset
  <1>2. Cardinality({q}) = 1 /\ IsFiniteSet({q}) BY FS_Singleton
  <1>3. Cardinality({q} \cup {r}) = 2
    <2>1. r \notin {q} OBVIOUS
    <2>2. Cardinality({q} \cup {r}) = Cardinality({q}) + 1 BY <1>2, <2>1, FS_AddElement
    <2> QED BY <1>2, <2>2
  <1>4. Cardinality({q} \cup {r}) <= Cardinality(A) /\ Cardinality(A) \in Nat
    BY <1>1, FS_Subset, FS_CardinalityType
  <1> QED BY <1>3, <1>4

LEMMA OneAtMost ==
    ASSUME NEW A, \A q, r \in A : q = r
    PROVE  Cardinality(A) <= 1
  <1>1. CASE A = {} BY <1>1, FS_EmptySet
  <1>2. CASE A # {}
    <2>1. PICK q \in A : TRUE BY <1>2
    <2>2. A = {q} BY <2>1
    <2> QED BY <2>2, FS_Singleton
  <1> QED BY <1>1, <1>2

-----------------------------------------------------------------------------
(* Multipart: TypeOK and FedFileIsIntact are not inductive; a handler about to  *)
(* feed must be known to hold a verified copy, which is what CopyIsVerified     *)
(* adds.                                                                        *)

\* A stored file without an absent part is one of Files.
LEMMA WholeIsFile ==
    ASSUME NEW file \in Stored, Whole(file)
    PROVE  file \in Files
  <1>1. \A n \in Numbers : file[n] \in Payloads
    BY DEF Stored, Whole
  <1> QED BY <1>1 DEF Stored, Files

\* Moving a request on changes its pc and nothing else of it.
LEMMA GotoJob ==
    ASSUME TypeOK, NEW r \in Requests,
           NEW pc \in Steps \cup {"idle", "refused", "done", "dead"}, Goto(r, pc)
    PROVE  /\ job' \in [Requests -> Jobs]
           /\ job'[r].pc = pc /\ job'[r].file = job[r].file
           /\ \A x \in Requests \ {r} : job'[x] = job[x]
  <1>1. job \in [Requests -> Jobs] BY DEF TypeOK
  <1>2. [job[r] EXCEPT !.pc = pc] \in Jobs BY <1>1 DEF Jobs
  <1> QED BY <1>1, <1>2 DEF Goto, Jobs

\* Init establishes the invariant.
LEMMA InitIInv == Init => IInv
  <1> SUFFICES ASSUME Init PROVE IInv OBVIOUS
  <1>1. 1 \in Numbers BY UploadAssumption DEF Numbers
  <1>2. NoParts \in Stored BY DEF NoParts, Stored
  <1>3. job \in [Requests -> Jobs]
    BY <1>1, <1>2 DEF Init, Jobs, Payloads
  <1>4. TypeOK BY <1>2, <1>3 DEF Init, TypeOK
  <1>5. CopyIsVerified BY DEF Init, CopyIsVerified
  <1>6. FedFileIsIntact BY DEF Init, FedFileIsIntact
  <1> QED BY <1>4, <1>5, <1>6 DEF IInv

\* Every step keeps it.
LEMMA NextIInv == IInv /\ [Next]_vars => IInv'
  <1> SUFFICES ASSUME IInv, [Next]_vars PROVE IInv' OBVIOUS
  <1> USE DEF IInv
  <1>t. job \in [Requests -> Jobs] /\ part \in Stored /\ crashes \in Nat
    BY DEF TypeOK
  <1>1. ASSUME NEW r \in Requests, NEW n \in Numbers, NEW payload \in Payloads,
               UploadPart(r, n, payload)
        PROVE  IInv'
    <2> DEFINE to == IF status = "OPEN" THEN "store" ELSE "refused"
    <2>1. to \in Steps \cup {"refused"} /\ to # "feed" BY DEF Steps
    <2>2. job' = [job EXCEPT ![r] = [job[r] EXCEPT !.pc = to, !.number = n,
                                                   !.payload = payload]]
      BY <1>1, <1>t DEF UploadPart, Jobs
    <2>3. [job[r] EXCEPT !.pc = to, !.number = n, !.payload = payload] \in Jobs
      BY <1>t, <2>1 DEF Jobs
    <2>4. job' \in [Requests -> Jobs] /\ job'[r].pc = to
          /\ \A x \in Requests \ {r} : job'[x] = job[x]
      <3> HIDE DEF to
      <3> QED BY <1>t, <2>2, <2>3 DEF Jobs
    <2> HIDE DEF to
    <2>5. TypeOK' BY <1>1, <2>4 DEF UploadPart, TypeOK
    <2>6. CopyIsVerified' BY <2>1, <2>4 DEF CopyIsVerified
    <2>7. FedFileIsIntact' BY <1>1 DEF UploadPart, FedFileIsIntact
    <2> QED BY <2>5, <2>6, <2>7
  <1>2. ASSUME NEW r \in Requests, StorePart(r) PROVE IInv'
    <2>1. Goto(r, "done") /\ UNCHANGED <<status, fed, crashes>>
      BY <1>2 DEF StorePart
    <2>2. job[r].payload \in Payloads BY <1>t DEF Jobs
    <2>3. part' \in Stored BY <1>2, <1>t, <2>2 DEF StorePart, Stored
    <2>4. TypeOK' BY <2>1, <2>3, GotoJob DEF TypeOK
    <2>5. CopyIsVerified' BY <2>1, GotoJob DEF CopyIsVerified
    <2>6. FedFileIsIntact' BY <2>1 DEF FedFileIsIntact
    <2> QED BY <2>4, <2>5, <2>6
  <1>3. ASSUME NEW r \in Requests, Complete(r) PROVE IInv'
    <2> DEFINE to == IF status = "OPEN" THEN "collect" ELSE "refused"
    <2>1. to \in Steps \cup {"refused"} /\ to # "feed" BY DEF Steps
    <2>2. Goto(r, to) /\ UNCHANGED <<status, part, fed, crashes>>
      BY <1>3 DEF Complete
    <2> HIDE DEF to
    <2>3. TypeOK' BY <2>1, <2>2, GotoJob DEF TypeOK
    <2>4. CopyIsVerified' BY <2>1, <2>2, GotoJob DEF CopyIsVerified
    <2>5. FedFileIsIntact' BY <2>2 DEF FedFileIsIntact
    <2> QED BY <2>3, <2>4, <2>5
  <1>4. ASSUME NEW r \in Requests, Collect(r) PROVE IInv'
    <2>1. UNCHANGED <<status, part, fed, crashes>> BY <1>4 DEF Collect
    <2>2. FedFileIsIntact' BY <2>1 DEF FedFileIsIntact
    <2>3. CASE ~Whole(part)
      <3>1. Goto(r, "refused") BY <1>4, <2>3 DEF Collect
      <3>2. TypeOK' BY <2>1, <3>1, GotoJob DEF TypeOK
      <3>3. CopyIsVerified' BY <3>1, GotoJob DEF CopyIsVerified
      <3> QED BY <2>2, <3>2, <3>3
    <2>4. CASE Whole(part)
      <3> DEFINE to == IF Intact(part) THEN "feed" ELSE "mismatch"
      <3>1. job' = [job EXCEPT ![r] = [job[r] EXCEPT !.pc = to, !.file = part]]
        BY <1>4, <1>t, <2>4 DEF Collect, Jobs
      <3>2. to \in Steps BY DEF Steps
      <3>3. [job[r] EXCEPT !.pc = to, !.file = part] \in Jobs
        BY <1>t, <3>2 DEF Jobs
      <3>4. to = "feed" => Intact(part) OBVIOUS
      <3> HIDE DEF to
      <3>5. job' \in [Requests -> Jobs] /\ job'[r].pc = to /\ job'[r].file = part
            /\ \A x \in Requests \ {r} : job'[x] = job[x]
        BY <1>t, <3>1, <3>3 DEF Jobs
      <3>6. TypeOK' BY <2>1, <3>5 DEF TypeOK
      <3>7. CopyIsVerified' BY <2>4, <3>4, <3>5 DEF CopyIsVerified
      <3> QED BY <2>2, <3>6, <3>7
    <2> QED BY <2>3, <2>4
  <1>5. ASSUME NEW r \in Requests, Mismatch(r) PROVE IInv'
    <2>1. Goto(r, "refused") /\ status' = "ABORTED" /\ UNCHANGED <<part, fed, crashes>>
      BY <1>5 DEF Mismatch
    <2>2. TypeOK' BY <2>1, GotoJob DEF TypeOK
    <2>3. CopyIsVerified' BY <2>1, GotoJob DEF CopyIsVerified
    <2>4. FedFileIsIntact' BY <2>1 DEF FedFileIsIntact
    <2> QED BY <2>2, <2>3, <2>4
  <1>6. ASSUME NEW r \in Requests, Feed(r) PROVE IInv'
    <2>1. UNCHANGED <<status, part, crashes>> BY <1>6 DEF Feed
    <2>2. CASE Goto(r, "refused") /\ UNCHANGED fed
      <3>1. TypeOK' BY <2>1, <2>2, GotoJob DEF TypeOK
      <3>2. CopyIsVerified' BY <2>2, GotoJob DEF CopyIsVerified
      <3>3. FedFileIsIntact' BY <2>2 DEF FedFileIsIntact
      <3> QED BY <3>1, <3>2, <3>3
    <2>3. CASE Goto(r, "record") /\ fed' = fed \cup {<<r, job[r].file>>}
      <3>1. job[r].pc = "feed" BY <1>6 DEF Feed
      <3>2. Whole(job[r].file) /\ Intact(job[r].file) BY <3>1 DEF CopyIsVerified
      <3>3. job[r].file \in Stored BY <1>t DEF Jobs
      <3>4. job[r].file \in Files BY <3>2, <3>3, WholeIsFile
      <3>5. "record" \in Steps BY DEF Steps
      <3>6. TypeOK' BY <2>1, <2>3, <3>4, <3>5, GotoJob DEF TypeOK
      <3>7. CopyIsVerified' BY <2>3, <3>5, GotoJob DEF CopyIsVerified
      <3>8. FedFileIsIntact' BY <2>3, <3>2 DEF FedFileIsIntact
      <3> QED BY <3>6, <3>7, <3>8
    <2> QED BY <1>6, <2>2, <2>3 DEF Feed
  <1>7. ASSUME NEW r \in Requests, Record(r) PROVE IInv'
    <2>1. Goto(r, "purge") /\ status' = "COMPLETED" /\ UNCHANGED <<part, fed, crashes>>
      BY <1>7 DEF Record
    <2>2. "purge" \in Steps BY DEF Steps
    <2>3. TypeOK' BY <2>1, <2>2, GotoJob DEF TypeOK
    <2>4. CopyIsVerified' BY <2>1, <2>2, GotoJob DEF CopyIsVerified
    <2>5. FedFileIsIntact' BY <2>1 DEF FedFileIsIntact
    <2> QED BY <2>3, <2>4, <2>5
  <1>8. ASSUME NEW r \in Requests, Purge(r) PROVE IInv'
    <2>1. Goto(r, "done") /\ part' = NoParts /\ UNCHANGED <<status, fed, crashes>>
      BY <1>8 DEF Purge
    <2>2. TypeOK' BY <2>1, GotoJob DEF TypeOK, NoParts, Stored
    <2>3. CopyIsVerified' BY <2>1, GotoJob DEF CopyIsVerified
    <2>4. FedFileIsIntact' BY <2>1 DEF FedFileIsIntact
    <2> QED BY <2>2, <2>3, <2>4
  <1>9. ASSUME NEW r \in Requests, Abort(r) PROVE IInv'
    <2>1. Goto(r, "mark") /\ part' = NoParts /\ UNCHANGED <<status, fed, crashes>>
      BY <1>9 DEF Abort
    <2>2. "mark" \in Steps BY DEF Steps
    <2>3. TypeOK' BY <2>1, <2>2, GotoJob DEF TypeOK, NoParts, Stored
    <2>4. CopyIsVerified' BY <2>1, <2>2, GotoJob DEF CopyIsVerified
    <2>5. FedFileIsIntact' BY <2>1 DEF FedFileIsIntact
    <2> QED BY <2>3, <2>4, <2>5
  <1>10. ASSUME NEW r \in Requests, MarkAborted(r) PROVE IInv'
    <2>1. Goto(r, "done") /\ status' = "ABORTED" /\ UNCHANGED <<part, fed, crashes>>
      BY <1>10 DEF MarkAborted
    <2>2. TypeOK' BY <2>1, GotoJob DEF TypeOK
    <2>3. CopyIsVerified' BY <2>1, GotoJob DEF CopyIsVerified
    <2>4. FedFileIsIntact' BY <2>1 DEF FedFileIsIntact
    <2> QED BY <2>2, <2>3, <2>4
  <1>11. ASSUME Crash PROVE IInv'
    <2>1. \A r \in Requests : job'[r] = job[r] \/ job'[r] = [job[r] EXCEPT !.pc = "dead"]
      BY <1>11 DEF Crash
    <2>2. \A r \in Requests : [job[r] EXCEPT !.pc = "dead"] \in Jobs
      BY <1>t DEF Jobs
    <2>3. DOMAIN job' = Requests /\ job' = [r \in Requests |-> job'[r]]
      BY <1>11 DEF Crash
    <2>4. job' \in [Requests -> Jobs] BY <1>t, <2>1, <2>2, <2>3
    <2>5. crashes' \in Nat /\ UNCHANGED <<status, part, fed>>
      BY <1>11, <1>t DEF Crash
    <2>6. TypeOK' BY <2>4, <2>5 DEF TypeOK
    <2>7. \A r \in Requests : job'[r].pc = "feed" => job'[r] = job[r]
      BY <1>t, <2>1 DEF Jobs
    <2>8. CopyIsVerified' BY <2>7 DEF CopyIsVerified
    <2>9. FedFileIsIntact' BY <2>5 DEF FedFileIsIntact
    <2> QED BY <2>6, <2>8, <2>9
  <1>12. CASE UNCHANGED vars
    BY <1>12 DEF vars, TypeOK, CopyIsVerified, FedFileIsIntact
  <1> QED
    BY <1>1, <1>2, <1>3, <1>4, <1>5, <1>6, <1>7, <1>8, <1>9, <1>10, <1>11, <1>12
    DEF Next

-----------------------------------------------------------------------------

\* The variables keep their types: in particular every file that became a
\* submission of a session has all its parts.
THEOREM UploadTypeCorrect == Spec => []TypeOK
  <1>1. IInv => TypeOK BY DEF IInv
  <1> QED BY InitIInv, NextIInv, <1>1, PTL DEF Spec

\* However many requests store, retry, complete and abort at once, and whenever
\* the server restarts, only a whole file with the declared checksum is fed.
THEOREM OnlyIntactFilesAreFed == Spec => []FedFileIsIntact
  <1>1. IInv => FedFileIsIntact BY DEF IInv
  <1> QED BY InitIInv, NextIInv, <1>1, PTL DEF Spec

\* A session begins with nothing under way and nothing fed.
LEMMA InitCalm == Init => Calm
  BY DEF Init, Calm, Active, Steps

\* As long as requests come one at a time and the server stays up, who completes a
\* session finds that nothing was fed, or leaves it alone.
LEMMA NextCalm ==
    ASSUME IInv, Calm, Next, crashes' = 0, \A q, r \in Requests : Active(q)' /\ Active(r)' => q = r
    PROVE  Calm'
  <1>t. job \in [Requests -> Jobs] /\ crashes \in Nat BY DEF IInv, TypeOK
  <1>c. /\ \A q, r \in Requests : Active(q) /\ Active(r) => q = r
        /\ \A f, g \in fed : f = g
        /\ \A r \in Requests : job[r].pc \in {"collect", "feed"} => fed = {}
        /\ fed # {} /\ status = "OPEN" => \E r \in Requests : job[r].pc = "record"
    BY DEF Calm
  \* A request that feeds nothing, and neither records nor is about to feed.
  <1>0. ASSUME NEW r \in Requests, fed' = fed, \A x \in Requests \ {r} : job'[x] = job[x],
               job[r].pc = "record" => status' # "OPEN",
               job'[r].pc \in {"collect", "feed"} => fed = {},
               status' = "OPEN" => status = "OPEN"
        PROVE  Calm'
    <2>1. \A x \in Requests : job'[x].pc \in {"collect", "feed"} => fed' = {} BY <1>0, <1>c
    <2>2. fed' # {} /\ status' = "OPEN" => \E x \in Requests : job'[x].pc = "record"
      BY <1>0, <1>c
    <2> QED BY <1>0, <1>c, <2>1, <2>2 DEF Calm
  <1>1. ASSUME NEW r \in Requests, NEW n \in Numbers, NEW payload \in Payloads,
               UploadPart(r, n, payload)
        PROVE  Calm'
    <2>1. fed' = fed /\ status' = status /\ job[r].pc = "idle" BY <1>1 DEF UploadPart, Arrives
    <2>2. \A x \in Requests \ {r} : job'[x] = job[x] BY <1>1, <1>t DEF UploadPart
    <2>3. job'[r].pc \notin {"collect", "feed"} BY <1>1, <1>t DEF UploadPart, Jobs
    <2> QED BY <1>0, <2>1, <2>2, <2>3
  <1>2. ASSUME NEW r \in Requests, Complete(r) PROVE Calm'
    <2> DEFINE to == IF status = "OPEN" THEN "collect" ELSE "refused"
    <2>1. to \in Steps \cup {"refused"} /\ to # "feed" /\ (to = "collect" => status = "OPEN")
      BY DEF Steps
    <2>2. Goto(r, to) /\ fed' = fed /\ status' = status /\ job[r].pc = "idle"
      BY <1>2 DEF Complete, Arrives
    <2> HIDE DEF to
    <2>3. job'[r].pc = to /\ \A x \in Requests \ {r} : job'[x] = job[x]
      BY <2>1, <2>2, GotoJob DEF IInv
    <2>4. ASSUME to = "collect" PROVE fed = {}
      <3> SUFFICES ASSUME fed # {} PROVE FALSE OBVIOUS
      <3>1. PICK q \in Requests : job[q].pc = "record" BY <1>c, <2>1, <2>4
      <3>2. q # r BY <2>2, <3>1
      <3>3. Active(q)' /\ Active(r)' BY <2>3, <2>4, <3>1, <3>2 DEF Active, Steps
      <3> QED BY <3>2, <3>3
    <2> QED BY <1>0, <2>1, <2>2, <2>3, <2>4
  <1>3. ASSUME NEW r \in Requests, Collect(r) PROVE Calm'
    <2>1. fed' = fed /\ status' = status /\ job[r].pc = "collect" BY <1>3 DEF Collect
    <2>2. \A x \in Requests \ {r} : job'[x] = job[x] BY <1>3, <1>t DEF Collect, Goto
    <2> QED BY <1>0, <1>c, <2>1, <2>2
  <1>4. ASSUME NEW r \in Requests, Feed(r) PROVE Calm'
    <2>1. status' = status /\ job[r].pc = "feed" /\ fed = {} BY <1>4, <1>c DEF Feed
    <2>2. CASE Goto(r, "refused") /\ UNCHANGED fed
      BY <1>0, <2>1, <2>2, GotoJob DEF IInv
    <2>3. CASE Goto(r, "record") /\ fed' = fed \cup {<<r, job[r].file>>}
      <3>1. job'[r].pc = "record" /\ \A x \in Requests \ {r} : job'[x] = job[x]
        BY <2>3, GotoJob DEF IInv, Steps
      <3>2. \A x \in Requests : job'[x].pc \notin {"collect", "feed"}
        BY <1>c, <2>1, <3>1 DEF Active, Steps
      <3> QED BY <1>4, <2>1, <2>3, <3>1, <3>2 DEF Calm
    <2> QED BY <1>4, <2>2, <2>3 DEF Feed
  <1>5. ASSUME NEW r \in Requests,
               \/ StorePart(r) \/ Mismatch(r) \/ Record(r) \/ Purge(r) \/ Abort(r) \/ MarkAborted(r)
        PROVE  Calm'
    <2>1. PICK to \in {"done", "refused", "purge", "mark"} : Goto(r, to)
      BY <1>5 DEF StorePart, Mismatch, Record, Purge, Abort, MarkAborted
    <2>2. job'[r].pc = to /\ \A x \in Requests \ {r} : job'[x] = job[x]
      BY <2>1, GotoJob DEF IInv, Steps
    <2>3. fed' = fed /\ (status' = status \/ status' # "OPEN") /\ (job[r].pc = "record" => status' # "OPEN")
      BY <1>5 DEF StorePart, Mismatch, Record, Purge, Abort, MarkAborted, Arrives
    <2> QED BY <1>0, <2>1, <2>2, <2>3
  <1>6. ~Crash BY <1>t DEF Crash
  <1> QED BY <1>1, <1>2, <1>3, <1>4, <1>5, <1>6 DEF Next

-----------------------------------------------------------------------------
(* TINs.                                                                       *)

\* What the component says of sets is what the library proves of them.
LEMMA TinSets ==
    \A S : /\ Tins!IsFiniteSet(S) = IsFiniteSet(S)
           /\ Tins!Cardinality(S) = Cardinality(S)
  <1>1. \A S : Tins!IsFiniteSet(S) = IsFiniteSet(S)
    BY DEF IsFiniteSet, Tins!IsFiniteSet
  <1>2. \A S : Tins!Cardinality(S) = Cardinality(S)
    BY DEF Cardinality, Tins!Cardinality
  <1> QED BY <1>1, <1>2

\* The taxpayers who have a TIN.
Registered == {t \in Taxpayers : s1[t] # Tins!NoTin}

LEMMA RootBounds ==
    /\ Registered \subseteq Taxpayers /\ IsFiniteSet(Registered)
    /\ Cardinality(Registered) \in Nat
    /\ Tins!NextRoot = 1 + Cardinality(Registered)
    /\ Cardinality(Taxpayers) \in Nat /\ Cardinality(Registered) <= Cardinality(Taxpayers)
  <1>1. IsFiniteSet(Taxpayers) BY TinConstants, TinSets DEF Tins!TinAssumption
  <1>2. Registered \subseteq Taxpayers BY DEF Registered
  <1>3. Tins!NextRoot = 1 + Cardinality(Registered) BY TinSets DEF Tins!NextRoot, Registered
  <1> QED BY <1>1, <1>2, <1>3, FS_Subset, FS_CardinalityType

LEMMA TinConstant ==
    /\ Taxpayers # {} /\ Issued \subseteq Nat
    /\ \A n \in Issued : n > Cardinality(Taxpayers) + 1
    /\ Tins!NoTin = 0
  <1>1. Taxpayers # {} /\ IsFiniteSet(Taxpayers) /\ Issued \subseteq {n \in Nat : n > 2 * Cardinality(Taxpayers)}
    BY TinConstants, TinSets DEF Tins!TinAssumption
  <1>2. Cardinality(Taxpayers) \in Nat /\ Cardinality(Taxpayers) # 0
    BY <1>1, FS_CardinalityType, FS_EmptySet
  <1> QED BY <1>1, <1>2 DEF Tins!NoTin

LEMMA TinsInit ==
    ASSUME Tins!Init PROVE Tins!TypeOK /\ Tins!Calm /\ Tins!RootsAreCounted
  <1>1. (CHOOSE t \in Taxpayers : TRUE) \in Taxpayers BY TinConstant
  <1>2. Tins!TypeOK BY <1>1, TinConstant DEF Tins!Init, Tins!TypeOK, Tins!Jobs
  <1>3. Tins!Calm BY DEF Tins!Init, Tins!Calm, Tins!Active, Tins!Steps
  <1>4. Tins!RootsAreCounted
    BY TinConstant, RootBounds DEF Tins!Init, Tins!RootsAreCounted
  <1> QED BY <1>2, <1>3, <1>4

\* What a step does to the job of one request, and to the register.
LEMMA TinsStep ==
    ASSUME Tins!TypeOK, Tins!Next
    PROVE  /\ Tins!TypeOK'
           /\ \/ /\ s1' = s1 /\ s2' = s2
                 /\ \E r \in Callers :
                      /\ \A x \in Callers \ {r} : job'[x] = job[x]
                      /\ \/ /\ job[r].pc = "idle" /\ s1[job'[r].taxpayer] = Tins!NoTin
                            /\ job'[r].pc \in {"generate", "clash"}
                            /\ job'[r].pc = "clash" => job'[r].tin \in Issued
                         \/ /\ job[r].pc = "generate" /\ job'[r].pc = "clash"
                            /\ job'[r].taxpayer = job[r].taxpayer /\ job'[r].tin = Tins!NextRoot
                         \/ /\ job[r].pc = "clash" /\ job'[r].pc \in {"done", "write"}
                            /\ job'[r].taxpayer = job[r].taxpayer /\ job'[r].tin = job[r].tin
              \/ /\ s2' = s2
                 /\ \E r \in Callers :
                      /\ \A x \in Callers \ {r} : job'[x] = job[x]
                      /\ job[r].pc = "write" /\ job'[r].pc = "done"
                      /\ s1' = s1 \/ s1' = [s1 EXCEPT ![job[r].taxpayer] = job[r].tin]
              \/ /\ job' = job /\ s2' = s2 + 1
                 /\ \E t \in Taxpayers, n \in Issued \cup {Tins!NoTin} : s1' = [s1 EXCEPT ![t] = n]
  <1>t. s1 \in [Taxpayers -> Nat] /\ job \in [Callers -> Tins!Jobs] /\ s2 \in Nat
    BY DEF Tins!TypeOK
  <1>1. ASSUME NEW r \in Callers, NEW t \in Taxpayers, NEW n \in Issued \cup {Tins!NoTin},
               Tins!Register(r, t, n) \/ (n \in Issued /\ Tins!Enrich(r, t, n))
        PROVE  /\ Tins!TypeOK' /\ s1' = s1 /\ s2' = s2
               /\ \A x \in Callers \ {r} : job'[x] = job[x]
               /\ job[r].pc = "idle" /\ s1[job'[r].taxpayer] = Tins!NoTin
               /\ job'[r].pc \in {"generate", "clash"}
               /\ job'[r].pc = "clash" => job'[r].tin \in Issued
    <2>1. PICK j : /\ job' = [job EXCEPT ![r] = j] /\ j.taxpayer = t /\ j \in Tins!Jobs
                   /\ j.pc \in {"generate", "clash"} /\ (j.pc = "clash" => j.tin \in Issued)
      <3> DEFINE j1 == [pc |-> IF n = Tins!NoTin THEN "generate" ELSE "clash", taxpayer |-> t, tin |-> n]
                 j2 == [pc |-> "clash", taxpayer |-> t, tin |-> n]
      <3>1. n \in Nat /\ (n # Tins!NoTin => n \in Issued) BY TinConstant
      <3>2. /\ j1 \in Tins!Jobs /\ j1.taxpayer = t /\ j1.pc \in {"generate", "clash"}
            /\ j1.pc = "clash" => j1.tin \in Issued
            /\ j2 \in Tins!Jobs /\ j2.taxpayer = t /\ j2.pc = "clash" /\ j2.tin = n
        BY <3>1 DEF Tins!Jobs, Tins!Steps
      <3>3. CASE Tins!Register(r, t, n)
        <4>1. job' = [job EXCEPT ![r] = j1] BY <3>3 DEF Tins!Register
        <4> HIDE DEF j1, j2
        <4> QED BY <3>2, <4>1
      <3>4. CASE n \in Issued /\ Tins!Enrich(r, t, n)
        <4>1. job' = [job EXCEPT ![r] = j2] BY <3>4 DEF Tins!Enrich
        <4> HIDE DEF j1, j2
        <4> QED BY <3>2, <3>4, <4>1
      <3> QED BY <1>1, <3>3, <3>4
    <2>2. s1' = s1 /\ s2' = s2 /\ job[r].pc = "idle" /\ s1[t] = Tins!NoTin
      BY <1>1 DEF Tins!Register, Tins!Enrich, Tins!Arrives
    <2>3. job'[r] = j /\ job' \in [Callers -> Tins!Jobs] /\ \A x \in Callers \ {r} : job'[x] = job[x]
      BY <1>t, <2>1
    <2>4. Tins!TypeOK' BY <1>t, <2>2, <2>3 DEF Tins!TypeOK
    <2> QED BY <2>1, <2>2, <2>3, <2>4
  <1>2. ASSUME NEW r \in Callers, Tins!Generate(r)
        PROVE  /\ Tins!TypeOK' /\ s1' = s1 /\ s2' = s2
               /\ \A x \in Callers \ {r} : job'[x] = job[x]
               /\ job[r].pc = "generate" /\ job'[r].pc = "clash"
               /\ job'[r].taxpayer = job[r].taxpayer /\ job'[r].tin = Tins!NextRoot
    <2> DEFINE j == [job[r] EXCEPT !.pc = "clash", !.tin = Tins!NextRoot]
    <2>1. Tins!NextRoot \in Nat BY RootBounds
    <2>2. /\ j \in Tins!Jobs /\ j.pc = "clash" /\ j.taxpayer = job[r].taxpayer /\ j.tin = Tins!NextRoot
      BY <1>t, <2>1 DEF Tins!Jobs, Tins!Steps
    <2>3. job' = [job EXCEPT ![r] = j] BY <1>2, <1>t DEF Tins!Generate
    <2> HIDE DEF j
    <2>4. s1' = s1 /\ s2' = s2 /\ job[r].pc = "generate" BY <1>2 DEF Tins!Generate
    <2>5. job'[r] = j /\ job' \in [Callers -> Tins!Jobs] /\ \A x \in Callers \ {r} : job'[x] = job[x]
      BY <1>t, <2>2, <2>3
    <2>6. Tins!TypeOK' BY <1>t, <2>4, <2>5 DEF Tins!TypeOK
    <2> QED BY <2>2, <2>4, <2>5, <2>6
  <1>3. ASSUME NEW r \in Callers, NEW pc \in {"done", "write"}, Tins!Goto(r, pc)
        PROVE  /\ job' \in [Callers -> Tins!Jobs] /\ job'[r].pc = pc
               /\ job'[r].taxpayer = job[r].taxpayer /\ job'[r].tin = job[r].tin
               /\ \A x \in Callers \ {r} : job'[x] = job[x]
    <2> DEFINE j == [job[r] EXCEPT !.pc = pc]
    <2>1. j \in Tins!Jobs /\ j.pc = pc /\ j.taxpayer = job[r].taxpayer /\ j.tin = job[r].tin
      BY <1>t DEF Tins!Jobs, Tins!Steps
    <2>2. job' = [job EXCEPT ![r] = j] BY <1>3, <1>t DEF Tins!Goto
    <2> HIDE DEF j
    <2> QED BY <1>t, <2>1, <2>2
  <1>4. ASSUME NEW r \in Callers, Tins!CheckClash(r)
        PROVE  /\ Tins!TypeOK' /\ s1' = s1 /\ s2' = s2
               /\ \A x \in Callers \ {r} : job'[x] = job[x]
               /\ job[r].pc = "clash" /\ job'[r].pc \in {"done", "write"}
               /\ job'[r].taxpayer = job[r].taxpayer /\ job'[r].tin = job[r].tin
    <2>1. \E pc \in {"done", "write"} : Tins!Goto(r, pc) BY <1>4 DEF Tins!CheckClash
    <2>2. s1' = s1 /\ s2' = s2 /\ job[r].pc = "clash" BY <1>4 DEF Tins!CheckClash
    <2>3. Tins!TypeOK' BY <1>t, <1>3, <2>1, <2>2 DEF Tins!TypeOK
    <2> QED BY <1>3, <2>1, <2>2, <2>3
  <1>5. ASSUME NEW r \in Callers, Tins!Write(r)
        PROVE  /\ Tins!TypeOK' /\ s2' = s2
               /\ \A x \in Callers \ {r} : job'[x] = job[x]
               /\ job[r].pc = "write" /\ job'[r].pc = "done"
               /\ s1' = s1 \/ s1' = [s1 EXCEPT ![job[r].taxpayer] = job[r].tin]
    <2>1. Tins!Goto(r, "done") /\ s2' = s2 /\ job[r].pc = "write" BY <1>5 DEF Tins!Write
    <2>2. s1' = s1 \/ s1' = [s1 EXCEPT ![job[r].taxpayer] = job[r].tin] BY <1>5 DEF Tins!Write
    <2>3. job[r].taxpayer \in Taxpayers /\ job[r].tin \in Nat BY <1>t DEF Tins!Jobs
    <2>4. s1' \in [Taxpayers -> Nat] BY <1>t, <2>2, <2>3
    <2>5. Tins!TypeOK' BY <1>t, <1>3, <2>1, <2>4 DEF Tins!TypeOK
    <2> QED BY <1>3, <2>1, <2>2, <2>5
  <1>6. ASSUME NEW t \in Taxpayers, NEW n \in Issued \cup {Tins!NoTin}, Tins!Edit(t, n)
        PROVE  Tins!TypeOK' /\ job' = job /\ s2' = s2 + 1 /\ s1' = [s1 EXCEPT ![t] = n]
    <2>1. n \in Nat BY TinConstant
    <2> QED BY <1>6, <1>t, <2>1 DEF Tins!Edit, Tins!TypeOK
  <1>7. \/ \E r \in Callers, t \in Taxpayers, n \in Issued \cup {Tins!NoTin} :
              Tins!Register(r, t, n) \/ (n \in Issued /\ Tins!Enrich(r, t, n))
        \/ \E r \in Callers : Tins!Generate(r)
        \/ \E r \in Callers : Tins!CheckClash(r)
        \/ \E r \in Callers : Tins!Write(r)
        \/ \E t \in Taxpayers, n \in Issued \cup {Tins!NoTin} : Tins!Edit(t, n)
    BY DEF Tins!Next
  <1>8. CASE \E r \in Callers, t \in Taxpayers, n \in Issued \cup {Tins!NoTin} :
              Tins!Register(r, t, n) \/ (n \in Issued /\ Tins!Enrich(r, t, n))
    BY <1>1, <1>8
  <1>9. CASE \E r \in Callers : Tins!Generate(r) BY <1>2, <1>9
  <1>10. CASE \E r \in Callers : Tins!CheckClash(r) BY <1>4, <1>10
  <1>11. CASE \E r \in Callers : Tins!Write(r) BY <1>5, <1>11
  <1>12. CASE \E t \in Taxpayers, n \in Issued \cup {Tins!NoTin} : Tins!Edit(t, n) BY <1>6, <1>12
  <1> QED BY <1>7, <1>8, <1>9, <1>10, <1>11, <1>12

\* Alone, a request finds the taxpayer it was made for as it was.
LEMMA TinsCalm ==
    ASSUME Tins!TypeOK, Tins!Calm, Tins!Next,
           \A q, r \in Callers : Tins!Active(q)' /\ Tins!Active(r)' => q = r,
           s2' # s2 => \A r \in Callers : ~Tins!Active(r)
    PROVE  Tins!Calm' /\ Tins!NothingOverwritten
  <1>t. s1 \in [Taxpayers -> Nat] /\ job \in [Callers -> Tins!Jobs] /\ s2 \in Nat
    BY DEF Tins!TypeOK
  <1>j. \A r \in Callers : job[r].taxpayer \in Taxpayers /\ job[r].tin \in Nat
    BY <1>t DEF Tins!Jobs
  <1>c. /\ \A q, r \in Callers : Tins!Active(q) /\ Tins!Active(r) => q = r
        /\ \A r \in Callers : Tins!Active(r) => s1[job[r].taxpayer] = Tins!NoTin
    BY DEF Tins!Calm
  <1>1. ASSUME s1' = s1, s2' = s2, NEW r \in Callers, \A x \in Callers \ {r} : job'[x] = job[x],
               Tins!Active(r)' => s1[job'[r].taxpayer] = Tins!NoTin
        PROVE  Tins!Calm' /\ Tins!NothingOverwritten
    <2>1. \A x \in Callers \ {r} : Tins!Active(x)' = Tins!Active(x) BY <1>1 DEF Tins!Active
    <2>2. \A x \in Callers : Tins!Active(x)' => s1'[job'[x].taxpayer] = Tins!NoTin
      BY <1>1, <1>c, <2>1
    <2> QED BY <1>1, <2>2 DEF Tins!Calm, Tins!NothingOverwritten
  <1>2. ASSUME NEW r \in Callers, \A x \in Callers \ {r} : job'[x] = job[x], s2' = s2,
               job[r].pc = "write", job'[r].pc = "done",
               s1' = s1 \/ s1' = [s1 EXCEPT ![job[r].taxpayer] = job[r].tin]
        PROVE  Tins!Calm' /\ Tins!NothingOverwritten
    <2>1. Tins!Active(r) BY <1>2 DEF Tins!Active, Tins!Steps
    <2>2. \A x \in Callers : ~Tins!Active(x)'
      <3>1. ~Tins!Active(r)' BY <1>2 DEF Tins!Active, Tins!Steps
      <3>2. \A x \in Callers \ {r} : ~Tins!Active(x)' BY <1>2, <1>c, <2>1 DEF Tins!Active
      <3> QED BY <3>1, <3>2
    <2>3. \A t \in Taxpayers : s1[t] # Tins!NoTin => s1'[t] = s1[t]
      BY <1>2, <1>c, <1>t, <1>j, <2>1
    <2> QED BY <2>2, <2>3 DEF Tins!Calm, Tins!NothingOverwritten
  <1>3. ASSUME job' = job, s2' = s2 + 1 PROVE Tins!Calm' /\ Tins!NothingOverwritten
    <2>1. s2' # s2 BY <1>3, <1>t
    <2>2. \A x \in Callers : ~Tins!Active(x)' BY <1>3, <2>1 DEF Tins!Active
    <2> QED BY <2>1, <2>2 DEF Tins!Calm, Tins!NothingOverwritten
  <1>4. ASSUME NEW r \in Callers, job[r].pc \in {"generate", "clash"}, job'[r].taxpayer = job[r].taxpayer
        PROVE  s1[job'[r].taxpayer] = Tins!NoTin
    <2>1. Tins!Active(r) BY <1>4 DEF Tins!Active, Tins!Steps
    <2> QED BY <1>4, <1>c, <2>1
  <1> QED BY <1>1, <1>2, <1>3, <1>4, TinsStep

\* The register grows by one TIN at most, and shrinks only when one is taken away.
LEMMA RegisterGrows ==
    ASSUME Tins!TypeOK, NEW t \in Taxpayers, NEW n \in Nat, s1' = [s1 EXCEPT ![t] = n],
           s1[t] # Tins!NoTin => n # Tins!NoTin
    PROVE  /\ Tins!NextRoot \in Nat /\ Tins!NextRoot' \in Nat
           /\ Tins!NextRoot' = Tins!NextRoot + (IF s1[t] = Tins!NoTin /\ n # Tins!NoTin THEN 1 ELSE 0)
  <1>t. s1 \in [Taxpayers -> Nat] BY DEF Tins!TypeOK
  <1>1. Registered' = {x \in Taxpayers : s1'[x] # Tins!NoTin} BY DEF Registered
  <1>2. Tins!NextRoot' = 1 + Cardinality(Registered') BY TinSets, <1>1 DEF Tins!NextRoot
  <1>3. CASE s1[t] = Tins!NoTin /\ n # Tins!NoTin
    <2>1. Registered' = Registered \cup {t} /\ t \notin Registered
      BY <1>1, <1>3, <1>t DEF Registered
    <2>2. Cardinality(Registered \cup {t}) = Cardinality(Registered) + 1
      BY <2>1, RootBounds, FS_AddElement
    <2> QED BY <1>2, <1>3, <2>1, <2>2, RootBounds
  <1>4. CASE ~(s1[t] = Tins!NoTin /\ n # Tins!NoTin)
    <2>1. Registered' = Registered BY <1>1, <1>4, <1>t DEF Registered
    <2> QED BY <1>2, <1>4, <2>1, RootBounds
  <1> QED BY <1>3, <1>4

LEMMA TinsRoots ==
    ASSUME Tins!TypeOK, Tins!Calm, Tins!RootsAreCounted, Tins!Next,
           s2' # s2 => \A r \in Callers : ~Tins!Active(r),
           \A t \in Taxpayers : s1[t] # Tins!NoTin => s1'[t] # Tins!NoTin
    PROVE  Tins!RootsAreCounted'
  <1>t. s1 \in [Taxpayers -> Nat] /\ job \in [Callers -> Tins!Jobs] /\ s2 \in Nat
    BY DEF Tins!TypeOK
  <1>j. \A r \in Callers : job[r].taxpayer \in Taxpayers /\ job[r].tin \in Nat
    BY <1>t DEF Tins!Jobs
  <1>n. Tins!NextRoot \in Nat /\ Tins!NextRoot > 0 BY RootBounds
  <1>r. /\ \A t \in Taxpayers : s1[t] \in Issued \/ s1[t] < Tins!NextRoot
        /\ \A r \in Callers : job[r].pc \in {"clash", "write"} => job[r].tin \in Issued \cup {Tins!NextRoot}
    BY DEF Tins!RootsAreCounted
  <1>1. ASSUME s1' = s1, NEW r \in Callers, \A x \in Callers \ {r} : job'[x] = job[x],
               job'[r].pc \in {"clash", "write"} => job'[r].tin \in Issued \cup {Tins!NextRoot}
        PROVE  Tins!RootsAreCounted'
    <2>1. Tins!NextRoot' = Tins!NextRoot BY <1>1 DEF Tins!NextRoot
    <2>2. \A x \in Callers : job'[x].pc \in {"clash", "write"} => job'[x].tin \in Issued \cup {Tins!NextRoot}
      BY <1>1, <1>r
    <2> QED BY <1>1, <1>r, <2>1, <2>2 DEF Tins!RootsAreCounted
  <1>2. ASSUME NEW t \in Taxpayers, NEW n \in Issued \cup {Tins!NoTin, Tins!NextRoot},
               s1' = [s1 EXCEPT ![t] = n],
               \A x \in Callers : job'[x].pc \notin {"clash", "write"},
               n = Tins!NextRoot => s1[t] = Tins!NoTin
        PROVE  Tins!RootsAreCounted'
    <2>1. n \in Nat BY TinConstant, <1>n
    <2>2. s1'[t] = n /\ \A x \in Taxpayers \ {t} : s1'[x] = s1[x] BY <1>2, <1>t
    <2>3. s1[t] # Tins!NoTin => n # Tins!NoTin BY <2>2
    <2>4. /\ Tins!NextRoot' \in Nat
          /\ Tins!NextRoot' = Tins!NextRoot + (IF s1[t] = Tins!NoTin /\ n # Tins!NoTin THEN 1 ELSE 0)
      BY <1>2, <2>1, <2>3, RegisterGrows
    <2>5. Tins!NextRoot' >= Tins!NextRoot /\ (n = Tins!NextRoot => Tins!NextRoot' > Tins!NextRoot)
      BY <1>2, <1>n, <2>4, TinConstant
    <2>6. \A x \in Taxpayers : s1'[x] \in Issued \/ s1'[x] < Tins!NextRoot'
      <3>1. n \in Issued \/ n < Tins!NextRoot' BY <1>n, <2>4, <2>5, TinConstant
      <3>2. \A x \in Taxpayers \ {t} : s1'[x] \in Issued \/ s1'[x] < Tins!NextRoot'
        BY <1>n, <1>r, <1>t, <2>2, <2>4, <2>5
      <3> QED BY <2>2, <3>1, <3>2
    <2> QED BY <1>2, <2>6 DEF Tins!RootsAreCounted
  <1>3. ASSUME NEW r \in Callers, \A x \in Callers \ {r} : job'[x] = job[x],
               job[r].pc = "write", job'[r].pc = "done",
               s1' = s1 \/ s1' = [s1 EXCEPT ![job[r].taxpayer] = job[r].tin]
        PROVE  Tins!RootsAreCounted'
    <2>1. Tins!Active(r) BY <1>3 DEF Tins!Active, Tins!Steps
    <2>2. \A x \in Callers : job'[x].pc \notin {"clash", "write"}
      BY <1>3, <2>1 DEF Tins!Calm, Tins!Active, Tins!Steps
    <2>3. s1[job[r].taxpayer] = Tins!NoTin BY <2>1 DEF Tins!Calm
    <2>4. CASE s1' = s1 BY <1>1, <1>3, <2>2, <2>4
    <2>5. CASE s1' = [s1 EXCEPT ![job[r].taxpayer] = job[r].tin]
      BY <1>2, <1>3, <1>j, <1>r, <2>2, <2>3, <2>5
    <2> QED BY <1>3, <2>4, <2>5
  <1>4. ASSUME job' = job, s2' = s2 + 1, NEW t \in Taxpayers, NEW n \in Issued \cup {Tins!NoTin},
               s1' = [s1 EXCEPT ![t] = n]
        PROVE  Tins!RootsAreCounted'
    <2>1. s2' # s2 BY <1>4, <1>t
    <2>2. \A x \in Callers : job'[x].pc \notin {"clash", "write"}
      BY <1>4, <2>1 DEF Tins!Active, Tins!Steps
    <2>3. n # Tins!NextRoot
      BY RootBounds, TinConstant
    <2> QED BY <1>2, <1>4, <2>2, <2>3
  <1>5. ASSUME NEW r \in Callers, job[r].pc = "clash", job'[r].tin = job[r].tin
        PROVE  job'[r].tin \in Issued \cup {Tins!NextRoot}
    BY <1>5, <1>r
  <1> QED BY <1>1, <1>3, <1>4, <1>5, TinsStep

LEMMA TinsFollow ==
    ASSUME Tins!TypeOK, Tins!RootsAreCounted PROVE Tins!NextRootIsFree
  <1>1. \A n \in Issued : n > Tins!NextRoot BY RootBounds, TinConstant
  <1>2. s1 \in [Taxpayers -> Nat] BY DEF Tins!TypeOK
  <1> QED BY <1>1, <1>2, RootBounds, TinConstant DEF Tins!RootsAreCounted, Tins!NextRootIsFree

-----------------------------------------------------------------------------
(* Filings.                                                                    *)

LEMMA FilingSets ==
    \A S : /\ Filing!IsFiniteSet(S) = IsFiniteSet(S)
           /\ Filing!Cardinality(S) = Cardinality(S)
  <1>1. \A S : Filing!IsFiniteSet(S) = IsFiniteSet(S)
    BY DEF IsFiniteSet, Filing!IsFiniteSet
  <1>2. \A S : Filing!Cardinality(S) = Cardinality(S)
    BY DEF Cardinality, Filing!Cardinality
  <1> QED BY <1>1, <1>2

\* The largest of some of the first numbers is one of them.
LEMMA MaxIsOne ==
    ASSUME NEW n \in Nat, NEW S \in SUBSET (1..n), S # {}
    PROVE  Filing!Max(S) \in S
  <1> DEFINE T == {k \in Nat : n - k \in S}
  <1>1. \A x \in S : x \in Nat /\ x <= n /\ n - x \in Nat /\ n - (n - x) = x OBVIOUS
  <1>2. T \in SUBSET Nat /\ T # {} BY <1>1
  <1>3. PICK m \in T : \A k \in T : <<k, m>> \notin OpToRel(<, Nat)
    <2> HIDE DEF T
    <2> QED BY <1>2, NatLessThanWellFounded, WFMin, Zenon
  <1>4. \A k \in T : ~(k < m) BY <1>2, <1>3 DEF OpToRel
  <1>5. \E x \in S : \A y \in S : x >= y
    <2>1. n - m \in S /\ m \in Nat BY <1>3
    <2>2. ASSUME NEW y \in S PROVE n - m >= y
      <3>1. n - y \in T /\ n - y \in Nat /\ y \in Nat BY <1>1
      <3>2. ~(n - y < m) BY <1>4, <3>1
      <3> QED BY <2>1, <3>1, <3>2
    <2> QED BY <2>1, <2>2
  <1> QED BY <1>5 DEF Filing!Max

\* What the code says of a file it takes.
LEMMA FileFacts ==
    ASSUME NEW file \in Returns
    PROVE  /\ file.channel \in Filing!Channels /\ file.period \in Periods
           /\ file.shape \in Filing!Shapes
           /\ file.rows \in Seq(Filing!Keys) /\ Len(file.rows) \in Nat
           /\ \A i \in 1..Len(file.rows) : file.rows[i] \in Filing!Keys
           /\ file.shape = "valid" => 1 <= Len(file.rows)
  <1>1. file \in [channel : Filing!Channels, period : Periods, shape : Filing!Shapes, rows : Seq(Filing!Keys)]
        /\ (file.shape = "valid" => file.rows # <<>>)
    BY FilingConstants DEF Filing!FilingAssumption
  <1>2. file.rows \in Seq(Filing!Keys) BY <1>1
  <1>3. Len(file.rows) \in Nat /\ (file.rows # <<>> => Len(file.rows) # 0)
        /\ \A i \in 1..Len(file.rows) : file.rows[i] \in Filing!Keys
    BY <1>2, EmptySeq, ElementOfSeq, LenProperties
  <1> QED BY <1>1, <1>2, <1>3

\* The part of the verdict property that is about one request.
VerdictOf(f) ==
    Filing!Settled(f) /\ ~s1[f].fatal =>
        /\ Filing!Cardinality(Filing!RowsOf(f)) = s1[f].accepted
        /\ s1[f].status = "ACCEPTED" =>
              Filing!Cardinality(Filing!RowsOf(f)) = Len(job[f].file.rows)
        /\ s1[f].status = "REJECTED" => Filing!RowsOf(f) = {}

\* The invariant, one request at a time.
LEMMA FilingByRequest ==
    Filing!IInv <=> /\ Filing!TypeOK
                    /\ \A f \in Filers : Filing!Placed(f) /\ Filing!Counted(f) /\ VerdictOf(f)
  BY DEF Filing!IInv, Filing!VerdictMatchesRecords, VerdictOf

LEMMA FilingTypes ==
    ASSUME Filing!TypeOK
    PROVE  /\ job \in [Filers -> Filing!Jobs] /\ s1 \in [Filers -> Filing!Submissions]
           /\ \A f \in Filers :
                /\ job[f] \in Filing!Jobs /\ s1[f] \in Filing!Submissions
                /\ job[f].file \in Returns /\ job[f].grant \in Nat /\ job[f].next \in Nat
                /\ job[f].rejected \in Nat /\ job[f].batch \subseteq Nat
                /\ job[f].seen \subseteq Filing!Keys
           /\ s2 \subseteq Filers \X Nat
           /\ s3 \in Seq([period : Periods, consumed : BOOLEAN])
           /\ s4 \in Nat /\ crashes \in Nat
  <1>1. /\ job \in [Filers -> Filing!Jobs] /\ s1 \in [Filers -> Filing!Submissions]
        /\ s2 \subseteq Filers \X Nat /\ s3 \in Seq([period : Periods, consumed : BOOLEAN])
        /\ s4 \in Nat /\ crashes \in Nat
    BY DEF Filing!TypeOK
  <1>2. \A j \in Filing!Jobs : /\ j.file \in Returns /\ j.grant \in Nat /\ j.next \in Nat
                               /\ j.rejected \in Nat /\ j.batch \subseteq Nat /\ j.seen \subseteq Filing!Keys
    BY DEF Filing!Jobs
  <1> QED BY <1>1, <1>2

\* A step of one request leaves the others where they are.
LEMMA FilingTouch ==
    ASSUME Filing!IInv, NEW f \in Filers, NEW j \in Filing!Jobs, NEW w \in Filing!Submissions,
           NEW B \in SUBSET Nat,
           job' = [job EXCEPT ![f] = j], s1' = [s1 EXCEPT ![f] = w],
           s2' = s2 \cup ({f} \X B),
           s3' \in Seq([period : Periods, consumed : BOOLEAN]), DOMAIN s3 \subseteq DOMAIN s3',
           s4' \in Nat, crashes' \in Nat,
           Filing!Placed(f)', Filing!Counted(f)', VerdictOf(f)'
    PROVE  Filing!IInv'
  <1>t. job \in [Filers -> Filing!Jobs] /\ s1 \in [Filers -> Filing!Submissions] /\ s2 \subseteq Filers \X Nat
    BY FilingTypes DEF Filing!IInv
  <1>1. Filing!TypeOK' BY <1>t DEF Filing!TypeOK
  <1>2. ASSUME NEW g \in Filers \ {f}
        PROVE  Filing!Placed(g)' /\ Filing!Counted(g)' /\ VerdictOf(g)'
    <2>1. job'[g] = job[g] /\ s1'[g] = s1[g] BY <1>t
    <2>2. Filing!RowsOf(g)' = Filing!RowsOf(g) BY DEF Filing!RowsOf
    <2>3. Filing!Taken(g)' = Filing!Taken(g) BY <2>1, <2>2 DEF Filing!Taken
    <2>4. Filing!Placed(g) /\ Filing!Counted(g) /\ VerdictOf(g) BY FilingByRequest
    <2>5. Filing!Settled(g)' = Filing!Settled(g) /\ Filing!Filed(g)' = Filing!Filed(g)
      BY <2>1 DEF Filing!Settled, Filing!Filed
    <2>6. Filing!Placed(g)' BY <2>1, <2>4, <2>5 DEF Filing!Placed
    <2>7. Filing!Counted(g)' BY <2>1, <2>3, <2>4 DEF Filing!Counted
    <2>8. VerdictOf(g)' BY <2>1, <2>2, <2>4, <2>5 DEF VerdictOf
    <2> QED BY <2>6, <2>7, <2>8
  <1>3. \A g \in Filers : Filing!Placed(g)' /\ Filing!Counted(g)' /\ VerdictOf(g)' BY <1>2
  <1>4. Filing!VerdictMatchesRecords' BY <1>3 DEF Filing!VerdictMatchesRecords, VerdictOf
  <1> QED BY <1>1, <1>3, <1>4 DEF Filing!IInv

\* A step that neither takes, stores nor drops a row keeps the count of them.
LEMMA FilingMoves ==
    ASSUME Filing!IInv, NEW f \in Filers, NEW j \in Filing!Jobs, NEW w \in Filing!Submissions,
           job' = [job EXCEPT ![f] = j], s1' = [s1 EXCEPT ![f] = w], s2' = s2,
           s3' \in Seq([period : Periods, consumed : BOOLEAN]), DOMAIN s3 \subseteq DOMAIN s3',
           s4' \in Nat, crashes' \in Nat,
           j.file = job[f].file, j.next = job[f].next, j.rejected = job[f].rejected,
           j.batch = job[f].batch,
           Filing!Placed(f)', VerdictOf(f)'
    PROVE  Filing!IInv'
  <1>t. job \in [Filers -> Filing!Jobs] BY FilingTypes DEF Filing!IInv
  <1>1. job'[f] = j BY <1>t
  <1>2. Filing!Taken(f)' = Filing!Taken(f) BY <1>1 DEF Filing!Taken, Filing!RowsOf
  <1>3. Filing!Counted(f) BY DEF Filing!IInv
  <1>4. Filing!Counted(f)' BY <1>1, <1>2, <1>3 DEF Filing!Counted
  <1>5. PICK B \in SUBSET Nat : s2' = s2 \cup ({f} \X B)
    <2>1. s2' = s2 \cup ({f} \X {}) OBVIOUS
    <2> QED BY <2>1
  <1> QED BY <1>4, <1>5, FilingTouch

\* Such a step, and the submission stays as it is too.
LEMMA FilingGoes ==
    ASSUME Filing!IInv, NEW f \in Filers, NEW j \in Filing!Jobs,
           job' = [job EXCEPT ![f] = j], s1' = s1, s2' = s2,
           s3' \in Seq([period : Periods, consumed : BOOLEAN]), DOMAIN s3 \subseteq DOMAIN s3',
           s4' \in Nat, crashes' \in Nat,
           j.file = job[f].file, j.next = job[f].next, j.rejected = job[f].rejected,
           j.batch = job[f].batch,
           Filing!Placed(f)'
    PROVE  Filing!IInv'
  <1>t. job \in [Filers -> Filing!Jobs] /\ s1 \in [Filers -> Filing!Submissions]
        /\ s1[f] \in Filing!Submissions
    BY FilingTypes DEF Filing!IInv
  <1>1. s1' = [s1 EXCEPT ![f] = s1[f]] BY <1>t
  <1>2. VerdictOf(f) BY FilingByRequest
  <1>3. VerdictOf(f)'
    <2>1. job'[f] = j BY <1>t
    <2>2. Filing!RowsOf(f)' = Filing!RowsOf(f) BY DEF Filing!RowsOf
    <2> QED BY <1>2, <2>1, <2>2 DEF VerdictOf, Filing!Settled
  <1> QED BY <1>1, <1>3, <1>t, FilingMoves

\* Where the handler goes next is all that changes of it.
LEMMA FilingGoto ==
    ASSUME Filing!TypeOK, NEW f \in Filers,
           NEW pc \in Filing!Steps \cup Filing!Ends, Filing!Goto(f, pc)
    PROVE  \E j \in Filing!Jobs :
              /\ job' = [job EXCEPT ![f] = j] /\ job'[f] = j /\ j.pc = pc
              /\ j.file = job[f].file /\ j.next = job[f].next /\ j.rejected = job[f].rejected
              /\ j.batch = job[f].batch /\ j.grant = job[f].grant /\ j.seen = job[f].seen
  <1>t. job \in [Filers -> Filing!Jobs] /\ job[f] \in Filing!Jobs BY FilingTypes
  <1> DEFINE j == [job[f] EXCEPT !.pc = pc]
  <1>1. job' = [job EXCEPT ![f] = j] BY <1>t DEF Filing!Goto
  <1>2. /\ j \in Filing!Jobs /\ j.pc = pc
        /\ j.file = job[f].file /\ j.next = job[f].next /\ j.rejected = job[f].rejected
        /\ j.batch = job[f].batch /\ j.grant = job[f].grant /\ j.seen = job[f].seen
    BY <1>t DEF Filing!Jobs
  <1> HIDE DEF j
  <1> QED BY <1>1, <1>2, <1>t

\* A step of the handler that only moves it on.
LEMMA FilingPasses ==
    ASSUME Filing!IInv, NEW f \in Filers, NEW pc \in Filing!Steps \cup Filing!Ends, Filing!Goto(f, pc),
           s1' = s1, s2' = s2, s3' = s3, s4' \in Nat, crashes' = crashes,
           \/ /\ job[f].pc \in {"prior", "grant", "consume", "create"}
              /\ pc = "refused" \/ <<job[f].pc, pc>> \in {<<"prior", "grant">>, <<"prior", "create">>}
           \/ job[f].pc = "check" /\ (pc = "fail" \/ (pc = "load" /\ job[f].file.shape = "valid"))
           \/ job[f].pc \in {"load", "flush", "close"} /\ pc = "fail"
    PROVE  Filing!IInv'
  <1>1. PICK j \in Filing!Jobs :
              /\ job' = [job EXCEPT ![f] = j] /\ job'[f] = j /\ j.pc = pc
              /\ j.file = job[f].file /\ j.next = job[f].next /\ j.rejected = job[f].rejected
              /\ j.batch = job[f].batch
    BY FilingGoto DEF Filing!IInv
  <1>2. Filing!Placed(f) BY DEF Filing!IInv
  <1>3. Filing!Placed(f)'
    BY <1>1, <1>2 DEF Filing!Placed, Filing!Settled, Filing!Filed
  <1>4. s3 \in Seq([period : Periods, consumed : BOOLEAN]) /\ crashes \in Nat
    BY FilingTypes DEF Filing!IInv
  <1> QED BY <1>1, <1>3, <1>4, FilingGoes

LEMMA FilingReceives ==
    ASSUME Filing!IInv, NEW f \in Filers, NEW file \in Returns, Filing!Receive(f, file)
    PROVE  Filing!IInv'
  <1> DEFINE to == IF file.channel = "provider" THEN "prior" ELSE "create"
             j == Filing!NewJob(file, to)
  <1>t. Filing!TypeOK /\ Filing!Placed(f) /\ Filing!Counted(f) BY DEF Filing!IInv
  <1>1. job' = [job EXCEPT ![f] = j] /\ job[f].pc = "idle" BY DEF Filing!Receive
  <1>2. s1' = s1 /\ s2' = s2 /\ s3' = s3 /\ s4' = s4 /\ crashes' = crashes BY DEF Filing!Receive
  <1>3. /\ j \in Filing!Jobs /\ j.pc \in {"prior", "create"} /\ j.file = file /\ j.next = 1
        /\ j.rejected = 0 /\ j.batch = {} /\ (j.pc = "prior" => file.channel = "provider")
    BY DEF Filing!NewJob, Filing!Jobs, Filing!Steps
  <1> HIDE DEF j, to
  <1>4. /\ job \in [Filers -> Filing!Jobs] /\ s1 \in [Filers -> Filing!Submissions] /\ s1[f] \in Filing!Submissions
        /\ s3 \in Seq([period : Periods, consumed : BOOLEAN]) /\ s4 \in Nat /\ crashes \in Nat
    BY <1>t, FilingTypes
  <1>5. job'[f] = j BY <1>1, <1>4
  <1>6. Filing!RowsOf(f) = {}
    <2>1. job[f].next = 1 BY <1>1, <1>t DEF Filing!Placed
    <2>2. Filing!Taken(f) = {}
      <3> SUFFICES ASSUME NEW r \in Filing!Taken(f) PROVE FALSE OBVIOUS
      <3>1. r[2] \in 1..Len(job[f].file.rows) /\ r[2] < 1 BY <1>t, <2>1 DEF Filing!Counted
      <3>2. Len(job[f].file.rows) \in Nat BY <1>t, FilingTypes, FileFacts
      <3> QED BY <3>1, <3>2
    <2> QED BY <2>2 DEF Filing!Taken
  <1>7. Filing!Taken(f)' = {} BY <1>2, <1>3, <1>5, <1>6 DEF Filing!Taken, Filing!RowsOf
  <1>8. Filing!Counted(f)'
    <2>1. IsFiniteSet({}) /\ Cardinality({}) = 0 BY FS_EmptySet
    <2>2. Len(file.rows) \in Nat BY FileFacts
    <2> QED BY <1>3, <1>5, <1>7, <2>1, <2>2, FilingSets DEF Filing!Counted
  <1>9. s1[f].status = "NONE" BY <1>1, <1>t DEF Filing!Placed
  <1>10. Filing!Placed(f)'
    BY <1>2, <1>3, <1>5, <1>9 DEF Filing!Placed, Filing!Settled, Filing!Filed
  <1>11. VerdictOf(f)' BY <1>2, <1>9 DEF VerdictOf, Filing!Settled
  <1>12. s1' = [s1 EXCEPT ![f] = s1[f]] BY <1>2, <1>4
  <1>13. PICK B \in SUBSET Nat : s2' = s2 \cup ({f} \X B)
    <2>1. s2' = s2 \cup ({f} \X {}) BY <1>2
    <2> QED BY <2>1
  <1> QED BY <1>1, <1>2, <1>3, <1>4, <1>8, <1>10, <1>11, <1>12, <1>13, FilingTouch

LEMMA FilingReads ==
    ASSUME Filing!IInv, NEW f \in Filers,
           Filing!ReadPrior(f) \/ Filing!ReadGrant(f) \/ Filing!PreValidate(f) \/ Filing!StoreFails(f)
    PROVE  Filing!IInv'
  <1>t. /\ Filing!TypeOK /\ Filing!Placed(f)
        /\ s1 \in [Filers -> Filing!Submissions] /\ s1[f] \in Filing!Submissions
        /\ s3 \in Seq([period : Periods, consumed : BOOLEAN]) /\ s4 \in Nat /\ crashes \in Nat
    BY FilingTypes DEF Filing!IInv
  <1>1. CASE Filing!ReadPrior(f)
    <2>1. PICK pc \in {"grant", "create"} : Filing!Goto(f, pc) BY <1>1 DEF Filing!ReadPrior
    <2>2. pc \in Filing!Steps BY DEF Filing!Steps
    <2> QED BY <1>1, <1>t, <2>1, <2>2, FilingPasses DEF Filing!ReadPrior
  <1>2. CASE Filing!ReadGrant(f)
    <2> DEFINE open == Filing!OpenGrants(job[f].file.period)
    <2>1. CASE open = {}
      <3>1. Filing!Goto(f, "refused") /\ "refused" \in Filing!Ends
        BY <1>2, <2>1 DEF Filing!ReadGrant, Filing!Ends
      <3> QED BY <1>2, <1>t, <3>1, FilingPasses DEF Filing!ReadGrant
    <2>2. CASE open # {}
      <3>1. open \subseteq 1..Len(s3) /\ Len(s3) \in Nat
        BY <1>t, LenProperties DEF Filing!OpenGrants
      <3>2. Filing!Max(open) \in 1..Len(s3) /\ DOMAIN s3 = 1..Len(s3)
        BY <1>t, <2>2, <3>1, MaxIsOne, LenProperties
      <3> DEFINE m == Filing!Max(open)
                 j == [job[f] EXCEPT !.pc = "consume", !.grant = m]
      <3>3. job' = [job EXCEPT ![f] = j]
        BY <1>2, <1>t, <2>2, FilingTypes DEF Filing!ReadGrant
      <3>m. m \in Nat /\ m \in DOMAIN s3 BY <3>1, <3>2
      <3>j. job[f] \in Filing!Jobs BY <1>t, FilingTypes
      <3> HIDE DEF m, open
      <3>4. /\ j \in Filing!Jobs /\ j.pc = "consume" /\ j.grant = m
            /\ j.file = job[f].file /\ j.next = job[f].next /\ j.rejected = job[f].rejected
            /\ j.batch = job[f].batch
        BY <3>j, <3>m DEF Filing!Jobs, Filing!Steps
      <3> HIDE DEF j
      <3>5. job'[f] = j BY <1>t, <3>3, FilingTypes
      <3>6. job[f].pc = "grant" /\ s1' = s1 /\ s2' = s2 /\ s3' = s3 /\ s4' = s4 /\ crashes' = crashes
        BY <1>2 DEF Filing!ReadGrant
      <3>7. Filing!Placed(f)'
        BY <1>t, <3>m, <3>4, <3>5, <3>6 DEF Filing!Placed, Filing!Settled, Filing!Filed
      <3> QED BY <1>t, <3>3, <3>4, <3>6, <3>7, FilingGoes
    <2> QED BY <2>1, <2>2
  <1>3. CASE Filing!PreValidate(f)
    <2>1. job[f].pc = "check" /\ s2' = s2 /\ s3' = s3 /\ s4' = s4 /\ crashes' = crashes
      BY <1>3 DEF Filing!PreValidate
    <2>2. CASE s1' = s1 /\ \/ Filing!Goto(f, "fail")
                           \/ job[f].file.shape = "valid" /\ Filing!Goto(f, "load")
      <3>1. "fail" \in Filing!Steps /\ "load" \in Filing!Steps BY DEF Filing!Steps
      <3> QED BY <1>t, <2>1, <2>2, <3>1, FilingPasses
    <2>3. CASE Filing!Goto(f, "done") /\ s1' = [s1 EXCEPT ![f].status = "REJECTED", ![f].resubmitDue = TRUE]
      <3> DEFINE w == [s1[f] EXCEPT !.status = "REJECTED", !.resubmitDue = TRUE]
      <3>1. s1' = [s1 EXCEPT ![f] = w] BY <2>3, <1>t
      <3>2. /\ w \in Filing!Submissions /\ w.status = "REJECTED" /\ w.period = s1[f].period
            /\ w.channel = s1[f].channel /\ w.accepted = s1[f].accepted /\ w.fatal = s1[f].fatal
        BY <1>t DEF Filing!Submissions, Filing!Statuses
      <3> HIDE DEF w
      <3>3. s1'[f] = w BY <1>t, <3>1
      <3>4. PICK j \in Filing!Jobs :
              /\ job' = [job EXCEPT ![f] = j] /\ job'[f] = j /\ j.pc = "done"
              /\ j.file = job[f].file /\ j.next = job[f].next /\ j.rejected = job[f].rejected
              /\ j.batch = job[f].batch
        BY <1>t, <2>3, FilingGoto DEF Filing!Ends
      <3>5. s1[f].status = "VALIDATING" /\ s1[f].accepted = 0 /\ job[f].next = 1 /\ job[f].batch = {}
        BY <1>t, <2>1 DEF Filing!Placed, Filing!Filed, Filing!Settled
      <3>6. Filing!RowsOf(f)' = {}
        <4>1. Filing!Taken(f) = {}
          <5> SUFFICES ASSUME NEW r \in Filing!Taken(f) PROVE FALSE OBVIOUS
          <5>1. r[2] \in 1..Len(job[f].file.rows) /\ r[2] < 1 BY <3>5 DEF Filing!IInv, Filing!Counted
          <5>2. Len(job[f].file.rows) \in Nat BY <1>t, FilingTypes, FileFacts
          <5> QED BY <5>1, <5>2
        <4> QED BY <2>1, <4>1 DEF Filing!Taken, Filing!RowsOf
      <3>7. VerdictOf(f)'
        <4>1. Filing!Cardinality(Filing!RowsOf(f)') = 0 BY <3>6, FilingSets, FS_EmptySet
        <4>2. s1'[f].accepted = 0 /\ s1'[f].status = "REJECTED" BY <3>2, <3>3, <3>5
        <4> QED BY <3>6, <4>1, <4>2 DEF VerdictOf
      <3>8. Filing!Placed(f)'
        BY <1>t, <2>1, <3>2, <3>3, <3>4, <3>5 DEF Filing!Placed, Filing!Settled, Filing!Filed
      <3> QED BY <1>t, <2>1, <3>1, <3>2, <3>4, <3>7, <3>8, FilingMoves
    <2> QED BY <1>3, <2>2, <2>3 DEF Filing!PreValidate
  <1>4. CASE Filing!StoreFails(f)
    <2>1. /\ s1' = s1 /\ s2' = s2 /\ s3' = s3 /\ s4' \in Nat /\ crashes' = crashes
          /\ \/ job[f].pc \in {"prior", "grant", "consume", "create"} /\ Filing!Goto(f, "refused")
             \/ job[f].pc \in {"load", "flush", "close"} /\ Filing!Goto(f, "fail")
      BY <1>4, <1>t DEF Filing!StoreFails
    <2>2. "fail" \in Filing!Steps /\ "refused" \in Filing!Ends BY DEF Filing!Steps, Filing!Ends
    <2> QED BY <2>1, <2>2, FilingPasses
  <1> QED BY <1>1, <1>2, <1>3, <1>4

LEMMA FilingGrants ==
    ASSUME Filing!IInv, NEW p \in Periods, Filing!GrantResubmit(p) PROVE Filing!IInv'
  <1>t. /\ Filing!TypeOK /\ s1 \in [Filers -> Filing!Submissions]
        /\ s3 \in Seq([period : Periods, consumed : BOOLEAN]) /\ s4 \in Nat /\ crashes \in Nat
    BY FilingTypes DEF Filing!IInv
  <1>1. job' = job /\ s1' = s1 /\ s2' = s2 /\ s4' = s4 /\ crashes' = crashes
        /\ s3' = Append(s3, [period |-> p, consumed |-> FALSE])
    BY DEF Filing!GrantResubmit
  <1>2. s3' \in Seq([period : Periods, consumed : BOOLEAN]) /\ DOMAIN s3 \subseteq DOMAIN s3'
    <2> DEFINE G == [period : Periods, consumed : BOOLEAN]
               g == [period |-> p, consumed |-> FALSE]
    <2>1. g \in G /\ s3 \in Seq(G) /\ s3' = Append(s3, g) BY <1>t, <1>1
    <2> HIDE DEF G, g
    <2>2. s3' \in Seq(G) /\ Len(s3') = Len(s3) + 1 /\ Len(s3) \in Nat
      BY <2>1, AppendProperties, LenProperties
    <2>3. DOMAIN s3 = 1..Len(s3) /\ DOMAIN s3' = 1..Len(s3') BY <2>1, <2>2, LenProperties
    <2>4. s3' \in Seq(G) /\ DOMAIN s3 \subseteq DOMAIN s3' BY <2>2, <2>3
    <2> QED BY <2>4 DEF G
  <1>3. Filing!TypeOK' BY <1>1, <1>2, <1>t DEF Filing!TypeOK
  <1>4. ASSUME NEW f \in Filers PROVE Filing!Placed(f)' /\ Filing!Counted(f)' /\ VerdictOf(f)'
    <2>1. Filing!RowsOf(f)' = Filing!RowsOf(f) BY <1>1 DEF Filing!RowsOf
    <2>2. Filing!Taken(f)' = Filing!Taken(f) BY <1>1, <2>1 DEF Filing!Taken
    <2>3. Filing!Placed(f) /\ Filing!Counted(f) /\ VerdictOf(f) BY FilingByRequest
    <2>4. Filing!Placed(f)' BY <1>1, <1>2, <2>3 DEF Filing!Placed, Filing!Settled, Filing!Filed
    <2>5. Filing!Counted(f)' BY <1>1, <2>2, <2>3 DEF Filing!Counted
    <2>6. VerdictOf(f)' BY <1>1, <2>1, <2>3 DEF VerdictOf, Filing!Settled
    <2> QED BY <2>4, <2>5, <2>6
  <1>5. Filing!VerdictMatchesRecords' BY <1>4 DEF Filing!VerdictMatchesRecords, VerdictOf
  <1> QED BY <1>3, <1>4, <1>5 DEF Filing!IInv

\* The permission is marked, wherever it is.
LEMMA GrantMarked ==
    ASSUME Filing!TypeOK, NEW i \in DOMAIN s3, s3' = [s3 EXCEPT ![i].consumed = TRUE]
    PROVE  /\ s3' \in Seq([period : Periods, consumed : BOOLEAN]) /\ DOMAIN s3' = DOMAIN s3
           /\ s3'[i].consumed = TRUE
           /\ \A k \in DOMAIN s3 : s3'[k].period = s3[k].period /\ (k # i => s3'[k] = s3[k])
  <1> DEFINE G == [period : Periods, consumed : BOOLEAN]
             g == [s3[i] EXCEPT !.consumed = TRUE]
  <1>1. s3 \in Seq(G) BY FilingTypes
  <1>2. s3[i] \in G
    <2> HIDE DEF G
    <2> QED BY <1>1, ElementOfSeq, LenProperties
  <1>3. g \in G /\ g.consumed = TRUE /\ g.period = s3[i].period BY <1>2
  <1>4. s3' = [s3 EXCEPT ![i] = g] BY <1>1
  <1> HIDE DEF g
  <1>5. s3' \in Seq(G) /\ DOMAIN s3' = DOMAIN s3 /\ s3'[i] = g /\ \A k \in DOMAIN s3 : k # i => s3'[k] = s3[k]
    <2> HIDE DEF G
    <2>1. i \in 1..Len(s3) BY <1>1, LenProperties
    <2>2. [s3 EXCEPT ![i] = g] \in Seq(G) BY <1>1, <1>3, <2>1, ExceptSeq
    <2> QED BY <1>1, <1>4, <2>2
  <1>6. \A k \in DOMAIN s3 : s3'[k].period = s3[k].period BY <1>3, <1>5
  <1> QED BY <1>3, <1>5, <1>6 DEF G

LEMMA FilingConsumes ==
    ASSUME Filing!IInv, NEW f \in Filers, Filing!ConsumeGrant(f) PROVE Filing!IInv'
  <1>t. /\ Filing!TypeOK /\ Filing!Placed(f) /\ s4 \in Nat /\ crashes \in Nat
    BY FilingTypes DEF Filing!IInv
  <1>1. /\ job[f].pc = "consume" /\ s1' = s1 /\ s2' = s2 /\ s4' = s4 /\ crashes' = crashes
        /\ s3' = [s3 EXCEPT ![job[f].grant].consumed = TRUE] /\ Filing!Goto(f, "create")
        /\ "create" \in Filing!Steps
    BY DEF Filing!ConsumeGrant, Filing!Steps
  <1>2. job[f].grant \in DOMAIN s3 BY <1>t, <1>1 DEF Filing!Placed
  <1>3. s3' \in Seq([period : Periods, consumed : BOOLEAN]) /\ DOMAIN s3' = DOMAIN s3
    BY <1>t, <1>1, <1>2, GrantMarked
  <1>4. PICK j \in Filing!Jobs :
              /\ job' = [job EXCEPT ![f] = j] /\ job'[f] = j /\ j.pc = "create"
              /\ j.file = job[f].file /\ j.next = job[f].next /\ j.rejected = job[f].rejected
              /\ j.batch = job[f].batch
    BY <1>t, <1>1, FilingGoto
  <1>5. Filing!Placed(f)' BY <1>t, <1>1, <1>4 DEF Filing!Placed, Filing!Settled, Filing!Filed
  <1> QED BY <1>t, <1>1, <1>3, <1>4, <1>5, FilingGoes

LEMMA FilingCreates ==
    ASSUME Filing!IInv, NEW f \in Filers, Filing!CreateSubmission(f) PROVE Filing!IInv'
  <1>t. /\ Filing!TypeOK /\ Filing!Placed(f) /\ s4 \in Nat /\ crashes \in Nat
        /\ s3 \in Seq([period : Periods, consumed : BOOLEAN])
        /\ s1 \in [Filers -> Filing!Submissions] /\ job[f].file \in Returns
    BY FilingTypes DEF Filing!IInv
  <1> DEFINE w == Filing!NewSubmission(job[f].file, "VALIDATING")
  <1>1. /\ job[f].pc = "create" /\ s1' = [s1 EXCEPT ![f] = w] /\ s2' = s2 /\ s3' = s3 /\ s4' = s4
        /\ crashes' = crashes /\ Filing!Goto(f, "check") /\ "check" \in Filing!Steps
    BY DEF Filing!CreateSubmission, Filing!Steps
  <1>2. /\ w \in Filing!Submissions /\ w.status = "VALIDATING" /\ w.period = job[f].file.period
        /\ w.channel = job[f].file.channel /\ w.accepted = 0
    BY <1>t, FileFacts DEF Filing!NewSubmission, Filing!Submissions, Filing!Statuses
  <1> HIDE DEF w
  <1>3. s1'[f] = w BY <1>t, <1>1
  <1>4. PICK j \in Filing!Jobs :
              /\ job' = [job EXCEPT ![f] = j] /\ job'[f] = j /\ j.pc = "check"
              /\ j.file = job[f].file /\ j.next = job[f].next /\ j.rejected = job[f].rejected
              /\ j.batch = job[f].batch
    BY <1>t, <1>1, FilingGoto
  <1>5. Filing!Placed(f)'
    BY <1>t, <1>1, <1>2, <1>3, <1>4 DEF Filing!Placed, Filing!Settled, Filing!Filed
  <1>6. VerdictOf(f)' BY <1>2, <1>3 DEF VerdictOf, Filing!Settled
  <1> QED BY <1>t, <1>1, <1>2, <1>4, <1>5, <1>6, FilingMoves

LEMMA FilingLoads ==
    ASSUME Filing!IInv, NEW f \in Filers, Filing!LoadExisting(f) PROVE Filing!IInv'
  <1>t. /\ Filing!TypeOK /\ Filing!Placed(f) /\ s4 \in Nat /\ crashes \in Nat
        /\ s3 \in Seq([period : Periods, consumed : BOOLEAN])
        /\ job \in [Filers -> Filing!Jobs] /\ job[f] \in Filing!Jobs /\ job[f].file \in Returns
    BY FilingTypes DEF Filing!IInv
  <1>1. /\ job[f].pc = "load" /\ s1' = s1 /\ s2' = s2 /\ s3' = s3 /\ s4' = s4 /\ crashes' = crashes
        /\ job' = [job EXCEPT ![f].pc = "rows", ![f].seen = Filing!OnFile]
    BY DEF Filing!LoadExisting
  <1>2. Filing!OnFile \subseteq Filing!Keys
    <2> SUFFICES ASSUME NEW r \in s2 PROVE Filing!KeyOf(r[1], r[2]) \in Filing!Keys
      BY DEF Filing!OnFile
    <2>1. r[1] \in Filers /\ r = <<r[1], r[2]>> BY <1>t, FilingTypes
    <2>2. r \in Filing!Taken(r[1]) BY <2>1 DEF Filing!Taken, Filing!RowsOf
    <2>3. r[2] \in 1..Len(job[r[1]].file.rows) BY <2>1, <2>2 DEF Filing!IInv, Filing!Counted
    <2>4. job[r[1]].file \in Returns BY <1>t, <2>1, FilingTypes
    <2> QED BY <2>3, <2>4, FileFacts DEF Filing!KeyOf
  <1> DEFINE j == [job[f] EXCEPT !.pc = "rows", !.seen = Filing!OnFile]
  <1>3. job' = [job EXCEPT ![f] = j] BY <1>t, <1>1
  <1>4. /\ j \in Filing!Jobs /\ j.pc = "rows" /\ j.file = job[f].file /\ j.next = job[f].next
        /\ j.rejected = job[f].rejected /\ j.batch = job[f].batch
    BY <1>t, <1>2 DEF Filing!Jobs, Filing!Steps
  <1> HIDE DEF j
  <1>5. job'[f] = j BY <1>t, <1>3
  <1>6. job[f].next = 1 /\ 1 <= Len(job[f].file.rows) BY <1>t, <1>1, FileFacts DEF Filing!Placed
  <1>7. Filing!Placed(f)'
    BY <1>t, <1>1, <1>4, <1>5, <1>6 DEF Filing!Placed, Filing!Settled, Filing!Filed
  <1> QED BY <1>t, <1>1, <1>3, <1>4, <1>7, FilingGoes

\* One turn of the loop: the row is turned away, or it is new among those taken.
LEMMA TurnOfLoop ==
    ASSUME Filing!TypeOK, NEW f \in Filers, Filing!Placed(f), Filing!Counted(f), Filing!TakeRow(f)
    PROVE  \E j \in Filing!Jobs :
              /\ job' = [job EXCEPT ![f] = j] /\ job'[f] = j /\ j.file = job[f].file
              /\ j.next = job[f].next + 1 /\ j.grant = job[f].grant
              /\ \/ /\ ~Filing!Repeats(f, job[f].next) /\ j.batch = job[f].batch \cup {job[f].next}
                    /\ j.rejected = job[f].rejected
                    /\ j.seen = job[f].seen \cup {Filing!KeyOf(f, job[f].next)}
                 \/ /\ Filing!Repeats(f, job[f].next) /\ j.batch = job[f].batch
                    /\ j.rejected = job[f].rejected + 1 /\ j.seen = job[f].seen
              /\ \/ j.pc = "flush"
                 \/ j.pc = "close" /\ job[f].next = Len(job[f].file.rows) /\ j.batch = {}
                 \/ j.pc = "rows" /\ job[f].next # Len(job[f].file.rows)

  <1> DEFINE i == job[f].next
             rows == job[f].file.rows
             keep == ~Filing!Repeats(f, i)
             batch == IF keep THEN job[f].batch \cup {i} ELSE job[f].batch
             seen == IF keep THEN job[f].seen \cup {rows[i]} ELSE job[f].seen
             rejected == IF keep THEN job[f].rejected ELSE job[f].rejected + 1
             full == Filing!Cardinality(batch) >= Batch
             pc == CASE batch # {} /\ (full \/ i = Len(rows)) -> "flush"
                     [] i = Len(rows) /\ batch = {}      -> "close"
                     [] OTHER                            -> "rows"
             j == [job[f] EXCEPT !.next = i + 1, !.batch = batch, !.seen = seen, !.rejected = rejected, !.pc = pc]
  <1>t. /\ job \in [Filers -> Filing!Jobs] /\ job[f] \in Filing!Jobs /\ job[f].file \in Returns
        /\ i \in Nat /\ job[f].rejected \in Nat /\ job[f].batch \subseteq Nat
        /\ job[f].seen \subseteq Filing!Keys
    BY FilingTypes
  <1>1. job[f].pc = "rows" /\ job' = [job EXCEPT ![f] = j]
    BY DEF Filing!TakeRow
  <1>2. rows[i] \in Filing!Keys
    <2>1. i \in 1..Len(rows) BY <1>t, <1>1, FileFacts DEF Filing!Placed, Filing!Counted
    <2> QED BY <1>t, <2>1, FileFacts
  <1>3. batch \subseteq Nat /\ rejected \in Nat /\ seen \subseteq Filing!Keys
    BY <1>t, <1>2
  <1>4. /\ pc \in {"flush", "close", "rows"}
        /\ pc = "close" => i = Len(rows) /\ batch = {}
        /\ pc = "rows" => i # Len(rows)
    <2> HIDE DEF full, batch, i, rows
    <2>1. CASE batch # {} /\ (full \/ i = Len(rows)) BY <2>1
    <2>2. CASE i = Len(rows) /\ batch = {} BY <2>2
    <2>3. CASE ~(batch # {} /\ (full \/ i = Len(rows))) /\ ~(i = Len(rows) /\ batch = {})
      <3>1. pc = "rows" BY <2>3
      <3>2. i # Len(rows) BY <2>3
      <3> QED BY <3>1, <3>2
    <2> QED BY <2>1, <2>2, <2>3
  <1>5. /\ keep => batch = job[f].batch \cup {i} /\ rejected = job[f].rejected
                   /\ seen = job[f].seen \cup {Filing!KeyOf(f, i)}
        /\ ~keep => batch = job[f].batch /\ rejected = job[f].rejected + 1 /\ seen = job[f].seen
    BY DEF Filing!KeyOf
  <1>6. i + 1 \in Nat BY <1>t
  <1> HIDE DEF pc, full, batch, seen, rejected, keep
  <1>7. /\ j \in Filing!Jobs /\ j.file = job[f].file /\ j.next = i + 1 /\ j.grant = job[f].grant
        /\ j.batch = batch /\ j.rejected = rejected /\ j.seen = seen /\ j.pc = pc
    BY <1>t, <1>3, <1>4, <1>6 DEF Filing!Jobs, Filing!Steps
  <1> HIDE DEF j
  <1>8. job'[f] = j BY <1>t, <1>1
  <1>9. keep = ~Filing!Repeats(f, i) BY DEF keep
  <1> QED BY <1>1, <1>4, <1>5, <1>7, <1>8, <1>9

LEMMA FilingTakes ==
    ASSUME Filing!IInv, NEW f \in Filers, Filing!TakeRow(f) PROVE Filing!IInv'
  <1> DEFINE i == job[f].next
             n == Len(job[f].file.rows)
  <1>t. /\ Filing!TypeOK /\ Filing!Placed(f) /\ Filing!Counted(f)
        /\ s1 \in [Filers -> Filing!Submissions] /\ s1[f] \in Filing!Submissions
        /\ s3 \in Seq([period : Periods, consumed : BOOLEAN]) /\ s4 \in Nat /\ crashes \in Nat
        /\ n \in Nat /\ job[f].rejected \in Nat
    BY FilingTypes, FileFacts DEF Filing!IInv
  <1>1. /\ job[f].pc = "rows" /\ s1' = s1 /\ s2' = s2 /\ s3' = s3 /\ s4' = s4 /\ crashes' = crashes
    BY DEF Filing!TakeRow
  <1>2. PICK j \in Filing!Jobs :
              /\ job' = [job EXCEPT ![f] = j] /\ job'[f] = j /\ j.file = job[f].file
              /\ j.next = i + 1
              /\ \/ j.batch = job[f].batch \cup {i} /\ j.rejected = job[f].rejected
                 \/ j.batch = job[f].batch /\ j.rejected = job[f].rejected + 1
              /\ \/ j.pc = "flush"
                 \/ j.pc = "close" /\ i = n /\ j.batch = {}
                 \/ j.pc = "rows" /\ i # n
    BY <1>t, TurnOfLoop
  <1>3. i \in Nat /\ 1 <= i /\ i <= n BY <1>t, <1>1 DEF Filing!Placed, Filing!Counted
  <1>4. Filing!Placed(f)'
    <2>1. s1[f].status = "VALIDATING" BY <1>t, <1>1 DEF Filing!Placed
    <2>2. Filing!Filed(f) /\ ~Filing!Settled(f) BY <2>1 DEF Filing!Filed, Filing!Settled
    <2>3. Filing!Filed(f)' /\ ~Filing!Settled(f)' BY <1>1, <2>1 DEF Filing!Filed, Filing!Settled
    <2>4. /\ s1[f].period = job[f].file.period /\ s1[f].channel = job[f].file.channel /\ s1[f].accepted = 0
      BY <1>t, <2>2 DEF Filing!Placed
    <2>5. j.pc = "rows" => j.next <= n BY <1>2, <1>3, <1>t
    <2>6. j.pc = "close" => j.batch = {} /\ j.next = n + 1 BY <1>2
    <2>7. j.pc \in {"rows", "flush", "close"} BY <1>2
    <2> QED BY <1>1, <1>2, <2>1, <2>3, <2>4, <2>5, <2>6, <2>7 DEF Filing!Placed
  <1>5. Filing!Counted(f)'
    <2>0. /\ IsFiniteSet(Filing!Taken(f))
          /\ Cardinality(Filing!Taken(f)) + job[f].rejected + 1 = i
          /\ \A r \in Filing!Taken(f) : r[2] \in 1..n /\ r[2] < i
      BY <1>t, FilingSets DEF Filing!Counted
    <2>1. Cardinality(Filing!Taken(f)) \in Nat BY <2>0, FS_CardinalityType
    <2>2. j.next \in 1..(n + 1) BY <1>2, <1>3, <1>t
    <2>3. CASE j.batch = job[f].batch \cup {i} /\ j.rejected = job[f].rejected
      <3>1. Filing!Taken(f)' = Filing!Taken(f) \cup {<<f, i>>}
        BY <1>1, <1>2, <2>3 DEF Filing!Taken, Filing!RowsOf
      <3>2. <<f, i>> \notin Filing!Taken(f)
        <4> SUFFICES ASSUME <<f, i>> \in Filing!Taken(f) PROVE FALSE OBVIOUS
        <4>1. <<f, i>>[2] < i BY <2>0
        <4> QED BY <4>1, <1>3
      <3>3. /\ IsFiniteSet(Filing!Taken(f)')
            /\ Cardinality(Filing!Taken(f)') = Cardinality(Filing!Taken(f)) + 1
        BY <2>0, <3>1, <3>2, FS_AddElement
      <3>4. \A r \in Filing!Taken(f)' : r[2] \in 1..n /\ r[2] < j.next
        <4>1. <<f, i>>[2] = i OBVIOUS
        <4>2. ASSUME NEW r \in Filing!Taken(f) PROVE r[2] \in 1..n /\ r[2] < j.next
          BY <2>0, <1>2, <1>3, <1>t
        <4> QED BY <1>2, <1>3, <1>t, <3>1, <4>1, <4>2
      <3>5. Cardinality(Filing!Taken(f)') + j.rejected + 1 = j.next
        <4>1. job[f].rejected \in Nat /\ j.rejected = job[f].rejected BY <1>t, <2>3
        <4> QED BY <1>2, <2>0, <2>1, <3>3, <4>1
      <3>6. job'[f] = j /\ j.file = job[f].file BY <1>2
      <3> QED BY <2>2, <3>3, <3>4, <3>5, <3>6, FilingSets DEF Filing!Counted
    <2>4. CASE j.batch = job[f].batch /\ j.rejected = job[f].rejected + 1
      <3>1. Filing!Taken(f)' = Filing!Taken(f) BY <1>1, <1>2, <2>4 DEF Filing!Taken, Filing!RowsOf
      <3>2. \A r \in Filing!Taken(f)' : r[2] \in 1..n /\ r[2] < j.next
        BY <2>0, <1>2, <1>3, <1>t, <3>1
      <3>3. Cardinality(Filing!Taken(f)') + j.rejected + 1 = j.next /\ IsFiniteSet(Filing!Taken(f)')
        <4>1. job[f].rejected \in Nat /\ j.rejected = job[f].rejected + 1 BY <1>t, <2>4
        <4> QED BY <1>2, <2>0, <2>1, <3>1, <4>1
      <3>4. job'[f] = j /\ j.file = job[f].file BY <1>2
      <3> QED BY <2>2, <3>2, <3>3, <3>4, FilingSets DEF Filing!Counted
    <2> QED BY <1>2, <2>3, <2>4
  <1>6. VerdictOf(f)'
    <2>1. s1'[f].status = "VALIDATING" BY <1>t, <1>1 DEF Filing!Placed
    <2> QED BY <2>1 DEF VerdictOf, Filing!Settled
  <1>7. s1' = [s1 EXCEPT ![f] = s1[f]] BY <1>t, <1>1
  <1>8. PICK B \in SUBSET Nat : s2' = s2 \cup ({f} \X B)
    <2>1. s2' = s2 \cup ({f} \X {}) BY <1>1
    <2> QED BY <2>1
  <1> QED BY <1>t, <1>1, <1>2, <1>4, <1>5, <1>6, <1>7, <1>8, FilingTouch

LEMMA FilingFlushes ==
    ASSUME Filing!IInv, NEW f \in Filers, Filing!Flush(f) PROVE Filing!IInv'
  <1> DEFINE n == Len(job[f].file.rows)
             to == IF job[f].next > n THEN "close" ELSE "rows"
             j == [job[f] EXCEPT !.batch = {}, !.pc = to]
  <1>t. /\ Filing!TypeOK /\ Filing!Placed(f) /\ Filing!Counted(f)
        /\ job \in [Filers -> Filing!Jobs] /\ job[f] \in Filing!Jobs /\ job[f].batch \subseteq Nat
        /\ s1 \in [Filers -> Filing!Submissions] /\ s1[f] \in Filing!Submissions
        /\ s3 \in Seq([period : Periods, consumed : BOOLEAN]) /\ s4 \in Nat /\ crashes \in Nat
        /\ n \in Nat
    BY FilingTypes, FileFacts DEF Filing!IInv
  <1>1. /\ job[f].pc = "flush" /\ s1' = s1 /\ s3' = s3 /\ s4' = s4 /\ crashes' = crashes
        /\ s2' = s2 \cup ({f} \X job[f].batch) /\ job' = [job EXCEPT ![f] = j]
    BY <1>t DEF Filing!Flush
  <1>2. /\ to \in {"rows", "close"} /\ (to = "rows" => ~(job[f].next > n)) /\ (to = "close" => job[f].next > n)
    OBVIOUS
  <1> HIDE DEF to
  <1>3. /\ j \in Filing!Jobs /\ j.pc = to /\ j.file = job[f].file /\ j.next = job[f].next
        /\ j.batch = {} /\ j.rejected = job[f].rejected
    BY <1>t, <1>2 DEF Filing!Jobs, Filing!Steps
  <1> HIDE DEF j
  <1>4. job'[f] = j BY <1>1, <1>t
  <1>5. job[f].next \in 1..(n + 1) BY <1>t DEF Filing!Counted
  <1>6. Filing!Placed(f)'
    <2>1. s1[f].status = "VALIDATING" BY <1>t, <1>1 DEF Filing!Placed
    <2>2. Filing!Filed(f) /\ ~Filing!Settled(f) BY <2>1 DEF Filing!Filed, Filing!Settled
    <2>3. Filing!Filed(f)' /\ ~Filing!Settled(f)' BY <1>1, <2>1 DEF Filing!Filed, Filing!Settled
    <2>4. /\ s1[f].period = job[f].file.period /\ s1[f].channel = job[f].file.channel /\ s1[f].accepted = 0
      BY <1>t, <2>2 DEF Filing!Placed
    <2>5. (to = "rows" => j.next <= n) /\ (to = "close" => j.next = n + 1) BY <1>2, <1>3, <1>5, <1>t
    <2> QED BY <1>1, <1>2, <1>3, <1>4, <2>1, <2>3, <2>4, <2>5 DEF Filing!Placed
  <1>7. Filing!Taken(f)' = Filing!Taken(f)
    BY <1>1, <1>3, <1>4 DEF Filing!Taken, Filing!RowsOf
  <1>8. Filing!Counted(f)' BY <1>3, <1>4, <1>7, <1>t DEF Filing!Counted
  <1>9. VerdictOf(f)'
    <2>1. s1'[f].status = "VALIDATING" BY <1>t, <1>1 DEF Filing!Placed
    <2> QED BY <2>1 DEF VerdictOf, Filing!Settled
  <1>10. s1' = [s1 EXCEPT ![f] = s1[f]] BY <1>t, <1>1
  <1> QED BY <1>t, <1>1, <1>3, <1>6, <1>8, <1>9, <1>10, FilingTouch

LEMMA FilingCloses ==
    ASSUME Filing!IInv, NEW f \in Filers, Filing!Close(f) PROVE Filing!IInv'
  <1> DEFINE n == Len(job[f].file.rows)
             rejected == job[f].rejected
             accepted == job[f].next - 1 - rejected
             v == Filing!Verdict(accepted, rejected)
             w == [s1[f] EXCEPT !.status = v, !.accepted = accepted, !.rejected = rejected,
                                !.resubmitDue = v # "ACCEPTED"]
  <1>t. /\ Filing!TypeOK /\ Filing!Placed(f) /\ Filing!Counted(f)
        /\ s1 \in [Filers -> Filing!Submissions] /\ s1[f] \in Filing!Submissions
        /\ s3 \in Seq([period : Periods, consumed : BOOLEAN]) /\ s4 \in Nat /\ crashes \in Nat
        /\ n \in Nat /\ rejected \in Nat
    BY FilingTypes, FileFacts DEF Filing!IInv
  <1>1. /\ job[f].pc = "close" /\ s2' = s2 /\ s3' = s3 /\ s4' = s4 /\ crashes' = crashes
        /\ Filing!Goto(f, "done") /\ "done" \in Filing!Ends /\ s1' = [s1 EXCEPT ![f] = w]
    BY <1>t DEF Filing!Close, Filing!Ends
  <1>2. job[f].batch = {} /\ job[f].next = n + 1 BY <1>t, <1>1 DEF Filing!Placed
  <1>3. Filing!Taken(f) = Filing!RowsOf(f) BY <1>2 DEF Filing!Taken
  <1>4. /\ IsFiniteSet(Filing!RowsOf(f)) /\ Cardinality(Filing!RowsOf(f)) \in Nat
        /\ Cardinality(Filing!RowsOf(f)) = accepted /\ accepted + rejected = n
    <2>1. IsFiniteSet(Filing!RowsOf(f)) /\ Cardinality(Filing!RowsOf(f)) + rejected + 1 = n + 1
      BY <1>t, <1>2, <1>3, FilingSets DEF Filing!Counted
    <2>2. Cardinality(Filing!RowsOf(f)) \in Nat BY <2>1, FS_CardinalityType
    <2>3. rejected \in Nat /\ n \in Nat BY <1>t
    <2>4. accepted = n - rejected
      <3>1. job[f].next = n + 1 BY <1>2
      <3> QED BY <2>3, <3>1
    <2> HIDE DEF n, accepted, rejected
    <2>5. Cardinality(Filing!RowsOf(f)) = accepted /\ accepted + rejected = n
      BY <2>1, <2>2, <2>3, <2>4
    <2> QED BY <2>1, <2>2, <2>5
  <1>5. /\ v \in {"ACCEPTED", "PARTIALLY_ACCEPTED", "REJECTED"}
        /\ v = "ACCEPTED" => rejected = 0
        /\ v = "REJECTED" => accepted = 0
    BY <1>4, <1>t DEF Filing!Verdict
  <1>6. accepted \in Nat BY <1>4
  <1> HIDE DEF v, accepted
  <1>7. /\ w \in Filing!Submissions /\ w.status = v /\ w.accepted = accepted /\ w.period = s1[f].period
        /\ w.channel = s1[f].channel
    BY <1>5, <1>6, <1>t DEF Filing!Submissions, Filing!Statuses
  <1> HIDE DEF w
  <1>8. s1'[f] = w BY <1>1, <1>t
  <1>9. PICK j \in Filing!Jobs :
              /\ job' = [job EXCEPT ![f] = j] /\ job'[f] = j /\ j.pc = "done"
              /\ j.file = job[f].file /\ j.next = job[f].next /\ j.rejected = job[f].rejected
              /\ j.batch = job[f].batch
    BY <1>t, <1>1, FilingGoto
  <1>10. Filing!Placed(f)'
    <2>1. Filing!Filed(f) BY <1>t, <1>1 DEF Filing!Placed, Filing!Filed
    <2>2. s1[f].period = job[f].file.period /\ s1[f].channel = job[f].file.channel
      BY <1>t, <2>1 DEF Filing!Placed
    <2>3. Filing!Settled(f)' BY <1>5, <1>7, <1>8 DEF Filing!Settled
    <2> QED BY <1>7, <1>8, <1>9, <2>2, <2>3 DEF Filing!Placed
  <1>11. VerdictOf(f)'
    <2>1. Filing!RowsOf(f)' = Filing!RowsOf(f) BY <1>1 DEF Filing!RowsOf
    <2>2. Filing!Cardinality(Filing!RowsOf(f)) = accepted BY <1>4, FilingSets
    <2>3. v = "ACCEPTED" => accepted = n BY <1>4, <1>5, <1>6, <1>t
    <2>4. v = "REJECTED" => Filing!RowsOf(f) = {} BY <1>4, <1>5, FS_EmptySet
    <2> QED BY <1>7, <1>8, <1>9, <2>1, <2>2, <2>3, <2>4 DEF VerdictOf
  <1> QED BY <1>t, <1>1, <1>7, <1>9, <1>10, <1>11, FilingMoves

LEMMA FilingFails ==
    ASSUME Filing!IInv, NEW f \in Filers, Filing!Fail(f) PROVE Filing!IInv'
  <1>t. /\ Filing!TypeOK /\ Filing!Placed(f)
        /\ s1 \in [Filers -> Filing!Submissions] /\ s1[f] \in Filing!Submissions
        /\ s3 \in Seq([period : Periods, consumed : BOOLEAN]) /\ s4 \in Nat /\ crashes \in Nat
    BY FilingTypes DEF Filing!IInv
  <1> DEFINE w == [s1[f] EXCEPT !.status = "REJECTED", !.fatal = TRUE]
  <1>1. /\ job[f].pc = "fail" /\ s2' = s2 /\ s3' = s3 /\ s4' = s4 /\ crashes' = crashes
        /\ Filing!Goto(f, "done") /\ "done" \in Filing!Ends /\ s1' = [s1 EXCEPT ![f] = w]
    BY <1>t DEF Filing!Fail, Filing!Ends
  <1>2. /\ w \in Filing!Submissions /\ w.status = "REJECTED" /\ w.fatal = TRUE
        /\ w.period = s1[f].period /\ w.channel = s1[f].channel
    BY <1>t DEF Filing!Submissions, Filing!Statuses
  <1> HIDE DEF w
  <1>3. s1'[f] = w BY <1>1, <1>t
  <1>4. PICK j \in Filing!Jobs :
              /\ job' = [job EXCEPT ![f] = j] /\ job'[f] = j /\ j.pc = "done"
              /\ j.file = job[f].file /\ j.next = job[f].next /\ j.rejected = job[f].rejected
              /\ j.batch = job[f].batch
    BY <1>t, <1>1, FilingGoto
  <1>5. Filing!Placed(f)'
    <2>1. Filing!Filed(f) BY <1>t, <1>1 DEF Filing!Placed, Filing!Filed
    <2>2. s1[f].period = job[f].file.period /\ s1[f].channel = job[f].file.channel
      BY <1>t, <2>1 DEF Filing!Placed
    <2>3. Filing!Settled(f)' BY <1>2, <1>3 DEF Filing!Settled
    <2> QED BY <1>2, <1>3, <1>4, <2>2, <2>3 DEF Filing!Placed
  <1>6. VerdictOf(f)' BY <1>2, <1>3 DEF VerdictOf
  <1> QED BY <1>t, <1>1, <1>2, <1>4, <1>5, <1>6, FilingMoves

LEMMA FilingCrashes ==
    ASSUME Filing!IInv, Filing!Crash PROVE Filing!IInv'
  <1>t. /\ Filing!TypeOK /\ job \in [Filers -> Filing!Jobs] /\ crashes \in Nat
    BY FilingTypes DEF Filing!IInv
  <1>1. /\ s1' = s1 /\ s2' = s2 /\ s3' = s3 /\ s4' = s4 /\ crashes' = crashes + 1
        /\ job' = [f \in Filers |-> IF Filing!Active(f) THEN [job[f] EXCEPT !.pc = "dead"] ELSE job[f]]
    BY DEF Filing!Crash
  <1>2. ASSUME NEW f \in Filers
        PROVE  /\ job'[f] \in Filing!Jobs /\ job'[f].file = job[f].file /\ job'[f].next = job[f].next
               /\ job'[f].rejected = job[f].rejected /\ job'[f].batch = job[f].batch
               /\ \/ job'[f] = job[f]
                  \/ job'[f].pc = "dead" /\ Filing!Active(f)
    <2>1. job[f] \in Filing!Jobs BY <1>t
    <2>2. [job[f] EXCEPT !.pc = "dead"] \in Filing!Jobs BY <2>1 DEF Filing!Jobs, Filing!Ends
    <2>3. CASE Filing!Active(f)
      <3>1. job'[f] = [job[f] EXCEPT !.pc = "dead"] BY <1>1, <2>3
      <3> QED BY <2>1, <2>2, <2>3, <3>1 DEF Filing!Jobs
    <2>4. CASE ~Filing!Active(f)
      <3>1. job'[f] = job[f] BY <1>1, <2>4
      <3>2. job'[f] \in Filing!Jobs BY <2>1, <3>1
      <3>3. job'[f].file = job[f].file /\ job'[f].next = job[f].next
            /\ job'[f].rejected = job[f].rejected /\ job'[f].batch = job[f].batch
        BY <3>1
      <3> QED BY <3>1, <3>2, <3>3
    <2> QED BY <2>3, <2>4
  <1>3. job' \in [Filers -> Filing!Jobs]
    <2>1. job' = [f \in Filers |-> job'[f]] BY <1>1
    <2> QED BY <1>2, <2>1
  <1>4. Filing!TypeOK' BY <1>1, <1>3, <1>t DEF Filing!TypeOK
  <1>5. ASSUME NEW f \in Filers PROVE Filing!Placed(f)' /\ Filing!Counted(f)' /\ VerdictOf(f)'
    <2>1. Filing!RowsOf(f)' = Filing!RowsOf(f) BY <1>1 DEF Filing!RowsOf
    <2>2. Filing!Taken(f)' = Filing!Taken(f) BY <1>2, <2>1 DEF Filing!Taken
    <2>3. Filing!Placed(f) /\ Filing!Counted(f) /\ VerdictOf(f) BY FilingByRequest
    <2>4. Filing!Settled(f)' = Filing!Settled(f) /\ Filing!Filed(f)' = Filing!Filed(f) /\ s1'[f] = s1[f]
      BY <1>1 DEF Filing!Settled, Filing!Filed
    <2>5. Filing!Active(f) => ~Filing!Settled(f)
      BY <2>3 DEF Filing!Active, Filing!Steps, Filing!Placed, Filing!Settled
    <2>6. Filing!Placed(f)'
      <3>1. CASE job'[f] = job[f] BY <1>1, <2>3, <2>4, <3>1 DEF Filing!Placed
      <3>2. CASE job'[f].pc = "dead" /\ Filing!Active(f)
        BY <1>1, <1>2, <2>3, <2>4, <2>5, <3>2 DEF Filing!Placed
      <3> QED BY <1>2, <3>1, <3>2
    <2>7. Filing!Counted(f)' BY <1>2, <2>2, <2>3 DEF Filing!Counted
    <2>8. VerdictOf(f)' BY <1>2, <2>1, <2>3, <2>4 DEF VerdictOf
    <2> QED BY <2>6, <2>7, <2>8
  <1>6. Filing!VerdictMatchesRecords' BY <1>5 DEF Filing!VerdictMatchesRecords, VerdictOf
  <1> QED BY <1>4, <1>5, <1>6 DEF Filing!IInv

LEMMA FilingStep ==
    ASSUME Filing!IInv, Filing!Next PROVE Filing!IInv'
  BY FilingReceives, FilingReads, FilingGrants, FilingConsumes, FilingCreates, FilingLoads, FilingTakes,
     FilingFlushes, FilingCloses, FilingFails, FilingCrashes DEF Filing!Next, Filing!Step

LEMMA FilingInit ==
    ASSUME Filing!Init PROVE Filing!IInv /\ Filing!Calm
  <1>1. Filing!AnyFile \in Returns
    BY FilingConstants DEF Filing!FilingAssumption, Filing!AnyFile
  <1>2. /\ \A f \in Filers : job[f] = Filing!NewJob(Filing!AnyFile, "idle")
                          /\ s1[f] = Filing!NewSubmission(Filing!AnyFile, "NONE")
        /\ s2 = {} /\ s3 = <<>> /\ s4 = 0 /\ crashes = 0
    BY DEF Filing!Init
  <1>3. Filing!NewJob(Filing!AnyFile, "idle") \in Filing!Jobs
    BY <1>1 DEF Filing!NewJob, Filing!Jobs
  <1>4. Filing!NewSubmission(Filing!AnyFile, "NONE") \in Filing!Submissions
    BY <1>1, FileFacts DEF Filing!NewSubmission, Filing!Submissions, Filing!Statuses
  <1>5. Filing!TypeOK
    <2>1. s3 \in Seq([period : Periods, consumed : BOOLEAN]) BY <1>2, EmptySeq
    <2> QED BY <1>2, <1>3, <1>4, <2>1 DEF Filing!Init, Filing!TypeOK
  <1>6. ASSUME NEW f \in Filers
        PROVE  Filing!Placed(f) /\ Filing!Counted(f) /\ VerdictOf(f) /\ ~Filing!Filed(f)
               /\ job[f].pc = "idle"
    <2>1. /\ job[f].pc = "idle" /\ job[f].next = 1 /\ job[f].rejected = 0 /\ job[f].batch = {}
          /\ job[f].file = Filing!AnyFile
      BY <1>2 DEF Filing!NewJob
    <2>2. s1[f].status = "NONE" BY <1>2 DEF Filing!NewSubmission
    <2>3. Filing!Taken(f) = {} BY <1>2, <2>1 DEF Filing!Taken, Filing!RowsOf
    <2>4. IsFiniteSet({}) /\ Cardinality({}) = 0 BY FS_EmptySet
    <2>5. Len(Filing!AnyFile.rows) \in Nat BY <1>1, FileFacts
    <2>6. Filing!Counted(f) BY <2>1, <2>3, <2>4, <2>5, FilingSets DEF Filing!Counted
    <2>7. Filing!Placed(f) /\ VerdictOf(f) /\ ~Filing!Filed(f)
      BY <2>1, <2>2 DEF Filing!Placed, VerdictOf, Filing!Settled, Filing!Filed
    <2> QED BY <2>1, <2>6, <2>7
  <1>7. Filing!OncePerPeriod
    <2> SUFFICES ASSUME NEW p \in Periods
                 PROVE  Filing!Cardinality(Filing!FiledBy(p)) <= 1 + Filing!Cardinality(Filing!Spent(p))
      BY DEF Filing!OncePerPeriod
    <2>1. Filing!FiledBy(p) = {} /\ Filing!Spent(p) = {}
      BY <1>2, <1>6 DEF Filing!FiledBy, Filing!Spent
    <2> QED BY <2>1, FilingSets, FS_EmptySet
  <1>8. Filing!Calm
    BY <1>2, <1>6, <1>7
    DEF Filing!Calm, Filing!Alone, Filing!AccountsSeen, Filing!PeriodIsFree, Filing!Active, Filing!Steps,
        Filing!NoAccountTwice
  <1> QED BY <1>5, <1>6, <1>8, FilingByRequest

\* Every row on file is of a request that filed it.
LEMMA RowsAreTaken ==
    ASSUME Filing!IInv, NEW r \in s2
    PROVE  /\ r[1] \in Filers /\ r = <<r[1], r[2]>> /\ r[2] \in Nat
           /\ r \in Filing!Taken(r[1]) /\ job[r[1]].next # 1
  <1>t. Filing!TypeOK BY DEF Filing!IInv
  <1>1. r[1] \in Filers /\ r = <<r[1], r[2]>> /\ r[2] \in Nat BY <1>t, FilingTypes
  <1>2. r \in Filing!Taken(r[1]) BY <1>1 DEF Filing!Taken, Filing!RowsOf
  <1>3. r[2] \in 1..Len(job[r[1]].file.rows) /\ r[2] < job[r[1]].next
    BY <1>1, <1>2 DEF Filing!IInv, Filing!Counted
  <1>4. Len(job[r[1]].file.rows) \in Nat /\ job[r[1]].next \in Nat BY <1>t, <1>1, FilingTypes, FileFacts
  <1>5. job[r[1]].next # 1 BY <1>3, <1>4
  <1> QED BY <1>1, <1>2, <1>5

\* A step that stores no row and does not go among the rows leaves the accounts be.
LEMMA AccountsKept ==
    ASSUME Filing!IInv, Filing!NoAccountTwice, Filing!AccountsSeen, NEW f \in Filers,
           \A g \in Filers \ {f} : job'[g] = job[g],
           job'[f].file = job[f].file \/ job[f].next = 1,
           job'[f].pc \notin {"rows", "flush", "close"}, s2' = s2
    PROVE  Filing!NoAccountTwice' /\ Filing!AccountsSeen'
  <1>1. ASSUME NEW r \in s2 PROVE Filing!KeyOf(r[1], r[2])' = Filing!KeyOf(r[1], r[2])
    BY RowsAreTaken DEF Filing!KeyOf
  <1>2. Filing!NoAccountTwice' BY <1>1 DEF Filing!NoAccountTwice
  <1>3. ASSUME NEW g \in Filers, job'[g].pc \in {"rows", "flush", "close"}
        PROVE  /\ \A r \in Filing!Ahead(g)' : Filing!KeyOf(r[1], r[2])' \in job'[g].seen
               /\ \A r, s \in Filing!Ahead(g)' :
                     r # s /\ Filing!KeyOf(r[1], r[2])' = Filing!KeyOf(s[1], s[2])' =>
                        Filing!KeyOf(r[1], r[2])'[2] = NoAccount
    <2>1. g # f /\ job'[g] = job[g] BY <1>3
    <2>2. Filing!Ahead(g)' = Filing!Ahead(g) BY <2>1 DEF Filing!Ahead
    <2>3. ASSUME NEW r \in Filing!Ahead(g) PROVE Filing!KeyOf(r[1], r[2])' = Filing!KeyOf(r[1], r[2])
      <3>1. CASE r \in s2 BY <1>1, <3>1
      <3>2. CASE r \in {g} \X job[g].batch BY <2>1, <3>2 DEF Filing!KeyOf
      <3> QED BY <3>1, <3>2 DEF Filing!Ahead
    <2>4. /\ \A r \in Filing!Ahead(g) : Filing!KeyOf(r[1], r[2]) \in job[g].seen
          /\ \A r, s \in Filing!Ahead(g) :
                r # s /\ Filing!KeyOf(r[1], r[2]) = Filing!KeyOf(s[1], s[2]) =>
                   Filing!KeyOf(r[1], r[2])[2] = NoAccount
      BY <1>3, <2>1 DEF Filing!AccountsSeen
    <2> QED BY <2>1, <2>2, <2>3, <2>4
  <1>4. Filing!AccountsSeen' BY <1>3 DEF Filing!AccountsSeen
  <1> QED BY <1>2, <1>4

\* What a step that writes no row does to the request that takes it.
LEMMA QuietSteps ==
    ASSUME Filing!IInv, NEW f \in Filers,
           \/ \E file \in Returns : Filing!Receive(f, file)
           \/ Filing!ReadPrior(f) \/ Filing!ReadGrant(f) \/ Filing!ConsumeGrant(f)
           \/ Filing!CreateSubmission(f) \/ Filing!PreValidate(f) \/ Filing!Close(f)
           \/ Filing!Fail(f) \/ Filing!StoreFails(f)
    PROVE  /\ \A g \in Filers \ {f} : job'[g] = job[g]
           /\ job'[f].file = job[f].file \/ job[f].next = 1
           /\ job'[f].pc \notin {"rows", "flush", "close"} /\ s2' = s2
  <1>t. /\ Filing!TypeOK /\ Filing!Placed(f) /\ job \in [Filers -> Filing!Jobs] /\ job[f] \in Filing!Jobs
    BY FilingTypes DEF Filing!IInv
  <1>1. CASE \E file \in Returns : Filing!Receive(f, file)
    <2>1. PICK file \in Returns : Filing!Receive(f, file) BY <1>1
    <2> DEFINE j == Filing!NewJob(file, IF file.channel = "provider" THEN "prior" ELSE "create")
    <2>2. job' = [job EXCEPT ![f] = j] /\ job[f].pc = "idle" /\ s2' = s2 BY <2>1 DEF Filing!Receive
    <2>3. j.pc \in {"prior", "create"} BY DEF Filing!NewJob
    <2> HIDE DEF j
    <2>4. job'[f] = j /\ \A g \in Filers \ {f} : job'[g] = job[g] BY <2>2, <1>t
    <2>5. job[f].next = 1 BY <2>2, <1>t DEF Filing!Placed
    <2> QED BY <2>2, <2>3, <2>4, <2>5
  <1>2. ASSUME NEW pc \in (Filing!Steps \cup Filing!Ends) \ {"rows", "flush", "close"}, Filing!Goto(f, pc), s2' = s2
        PROVE  /\ \A g \in Filers \ {f} : job'[g] = job[g]
               /\ job'[f].file = job[f].file \/ job[f].next = 1
               /\ job'[f].pc \notin {"rows", "flush", "close"} /\ s2' = s2
    <2>1. PICK j \in Filing!Jobs : /\ job' = [job EXCEPT ![f] = j] /\ job'[f] = j /\ j.pc = pc
                                   /\ j.file = job[f].file
      BY <1>t, <1>2, FilingGoto
    <2>2. \A g \in Filers \ {f} : job'[g] = job[g] BY <2>1, <1>t
    <2> QED BY <1>2, <2>1, <2>2
  <1>3. CASE Filing!ReadGrant(f)
    <2>1. CASE Filing!Goto(f, "refused") BY <1>2, <1>3, <2>1 DEF Filing!ReadGrant, Filing!Ends
    <2>2. CASE job' = [job EXCEPT ![f].pc = "consume", ![f].grant = Filing!Max(Filing!OpenGrants(job[f].file.period))]
      <3> DEFINE j == [job[f] EXCEPT !.pc = "consume", !.grant = Filing!Max(Filing!OpenGrants(job[f].file.period))]
      <3>1. job' = [job EXCEPT ![f] = j] BY <2>2, <1>t
      <3>2. j.pc = "consume" /\ j.file = job[f].file BY <1>t DEF Filing!Jobs
      <3> HIDE DEF j
      <3>3. job'[f] = j /\ \A g \in Filers \ {f} : job'[g] = job[g] BY <3>1, <1>t
      <3>4. s2' = s2 BY <1>3 DEF Filing!ReadGrant
      <3> QED BY <3>2, <3>3, <3>4
    <2> QED BY <1>3, <2>1, <2>2 DEF Filing!ReadGrant
  <1>4. CASE \/ Filing!ReadPrior(f) \/ Filing!ConsumeGrant(f)
             \/ Filing!CreateSubmission(f) \/ Filing!PreValidate(f) \/ Filing!Close(f)
             \/ Filing!Fail(f) \/ Filing!StoreFails(f)
    <2>1. s2' = s2
      BY <1>4 DEF Filing!ReadPrior, Filing!ConsumeGrant, Filing!CreateSubmission, Filing!PreValidate,
                  Filing!Close, Filing!Fail, Filing!StoreFails
    <2>2. PICK pc \in {"grant", "create", "check", "fail", "done", "load", "refused"} : Filing!Goto(f, pc)
      BY <1>4 DEF Filing!ReadPrior, Filing!ConsumeGrant, Filing!CreateSubmission, Filing!PreValidate,
                  Filing!Close, Filing!Fail, Filing!StoreFails
    <2>3. pc \in (Filing!Steps \cup Filing!Ends) \ {"rows", "flush", "close"}
      BY DEF Filing!Steps, Filing!Ends
    <2> QED BY <1>2, <2>1, <2>2, <2>3
  <1> QED BY <1>1, <1>3, <1>4

\* An account is filed once as long as the requests come one at a time: whoever
\* writes has seen what is on file, and nobody writes beside him.
LEMMA AccountsStayOnce ==
    ASSUME Filing!IInv, Filing!Alone, Filing!NoAccountTwice, Filing!AccountsSeen, Filing!Next
    PROVE  Filing!NoAccountTwice' /\ Filing!AccountsSeen'
  <1>t. /\ Filing!TypeOK /\ job \in [Filers -> Filing!Jobs]
        /\ \A f \in Filers : Filing!Placed(f) /\ Filing!Counted(f)
    BY FilingTypes DEF Filing!IInv
  \* The only writer.
  <1>a. ASSUME NEW f \in Filers, job[f].pc \in {"load", "rows", "flush"},
               NEW j, job' = [job EXCEPT ![f] = j], j.file = job[f].file, s2' \subseteq Filing!Ahead(f),
               \A r \in s2' \cup ({f} \X j.batch) : Filing!KeyOf(r[1], r[2]) \in j.seen,
               \A r, s \in s2' \cup ({f} \X j.batch) :
                   r # s /\ Filing!KeyOf(r[1], r[2]) = Filing!KeyOf(s[1], s[2]) =>
                      Filing!KeyOf(r[1], r[2])[2] = NoAccount
        PROVE  Filing!NoAccountTwice' /\ Filing!AccountsSeen'
    <2>1. job'[f] = j /\ \A g \in Filers \ {f} : job'[g] = job[g] BY <1>a, <1>t
    <2>2. ASSUME NEW r \in s2' \cup ({f} \X j.batch)
          PROVE  Filing!KeyOf(r[1], r[2])' = Filing!KeyOf(r[1], r[2])
      <3>1. r[1] \in Filers
        <4>1. CASE r \in s2 BY <4>1, RowsAreTaken
        <4>2. CASE r \in ({f} \X j.batch) \cup ({f} \X job[f].batch) BY <4>2
        <4> QED BY <1>a, <2>2, <4>1, <4>2 DEF Filing!Ahead
      <3> QED BY <1>a, <2>1, <3>1 DEF Filing!KeyOf
    <2>3. Filing!NoAccountTwice' BY <1>a, <2>2 DEF Filing!NoAccountTwice
    <2>4. Filing!Ahead(f)' = s2' \cup ({f} \X j.batch) BY <2>1 DEF Filing!Ahead
    <2>5. \A g \in Filers \ {f} : job'[g].pc \notin {"rows", "flush", "close"}
      BY <1>a, <2>1 DEF Filing!Alone, Filing!Active, Filing!Steps
    <2>6. /\ \A r \in Filing!Ahead(f)' : Filing!KeyOf(r[1], r[2])' \in job'[f].seen
          /\ \A r, s \in Filing!Ahead(f)' :
                r # s /\ Filing!KeyOf(r[1], r[2])' = Filing!KeyOf(s[1], s[2])' =>
                   Filing!KeyOf(r[1], r[2])'[2] = NoAccount
      BY <1>a, <2>1, <2>2, <2>4
    <2>7. Filing!AccountsSeen' BY <2>5, <2>6 DEF Filing!AccountsSeen
    <2> QED BY <2>3, <2>7
  <1>1. ASSUME NEW f \in Filers, Filing!LoadExisting(f) PROVE Filing!NoAccountTwice' /\ Filing!AccountsSeen'
    <2> DEFINE j == [job[f] EXCEPT !.pc = "rows", !.seen = Filing!OnFile]
    <2>1. job[f].pc = "load" /\ s2' = s2 /\ job' = [job EXCEPT ![f] = j] BY <1>1, <1>t DEF Filing!LoadExisting
    <2>2. job[f] \in Filing!Jobs /\ job[f].batch = {} BY <1>t, <2>1 DEF Filing!Placed
    <2>3. j.file = job[f].file /\ j.batch = {} /\ j.seen = Filing!OnFile BY <2>2 DEF Filing!Jobs
    <2> HIDE DEF j
    <2>4. \A r \in s2' \cup ({f} \X j.batch) : r \in s2 BY <2>1, <2>3
    <2>5. \A r \in s2' \cup ({f} \X j.batch) : Filing!KeyOf(r[1], r[2]) \in j.seen
      BY <2>3, <2>4 DEF Filing!OnFile
    <2>6. \A r, s \in s2' \cup ({f} \X j.batch) :
              r # s /\ Filing!KeyOf(r[1], r[2]) = Filing!KeyOf(s[1], s[2]) =>
                 Filing!KeyOf(r[1], r[2])[2] = NoAccount
      BY <2>4 DEF Filing!NoAccountTwice
    <2>7. s2' \subseteq Filing!Ahead(f) BY <2>1 DEF Filing!Ahead
    <2> QED BY <1>a, <2>1, <2>3, <2>5, <2>6, <2>7
  <1>2. ASSUME NEW f \in Filers, Filing!TakeRow(f) PROVE Filing!NoAccountTwice' /\ Filing!AccountsSeen'
    <2> DEFINE i == job[f].next
    <2>1. job[f].pc = "rows" /\ s2' = s2 BY <1>2 DEF Filing!TakeRow
    <2>2. PICK j : /\ job' = [job EXCEPT ![f] = j] /\ j.file = job[f].file
                   /\ \/ /\ ~Filing!Repeats(f, i) /\ j.batch = job[f].batch \cup {i}
                         /\ j.seen = job[f].seen \cup {Filing!KeyOf(f, i)}
                      \/ j.batch = job[f].batch /\ j.seen = job[f].seen
      BY <1>2, <1>t, TurnOfLoop
    <2>3. /\ \A r \in Filing!Ahead(f) : Filing!KeyOf(r[1], r[2]) \in job[f].seen
          /\ \A r, s \in Filing!Ahead(f) :
                r # s /\ Filing!KeyOf(r[1], r[2]) = Filing!KeyOf(s[1], s[2]) =>
                   Filing!KeyOf(r[1], r[2])[2] = NoAccount
      BY <2>1 DEF Filing!AccountsSeen
    <2>4. s2' \subseteq Filing!Ahead(f) BY <2>1 DEF Filing!Ahead
    <2>5. CASE j.batch = job[f].batch /\ j.seen = job[f].seen
      <3>1. s2' \cup ({f} \X j.batch) = Filing!Ahead(f) BY <2>1, <2>5 DEF Filing!Ahead
      <3> QED BY <1>a, <2>1, <2>2, <2>3, <2>4, <2>5, <3>1
    <2>6. CASE ~Filing!Repeats(f, i) /\ j.batch = job[f].batch \cup {i}
               /\ j.seen = job[f].seen \cup {Filing!KeyOf(f, i)}
      <3> DEFINE x == <<f, i>>
      <3>1. s2' \cup ({f} \X j.batch) = Filing!Ahead(f) \cup {x} BY <2>1, <2>6 DEF Filing!Ahead
      <3>2. x[1] = f /\ x[2] = i OBVIOUS
      <3> HIDE DEF x
      <3>3. \A r \in Filing!Ahead(f) \cup {x} : Filing!KeyOf(r[1], r[2]) \in j.seen
        BY <2>3, <2>6, <3>2
      <3>4. ASSUME NEW r \in Filing!Ahead(f), Filing!KeyOf(r[1], r[2]) = Filing!KeyOf(f, i)
            PROVE  Filing!KeyOf(f, i)[2] = NoAccount
        BY <2>3, <2>6, <3>4 DEF Filing!Repeats
      <3>5. \A r, s \in Filing!Ahead(f) \cup {x} :
                r # s /\ Filing!KeyOf(r[1], r[2]) = Filing!KeyOf(s[1], s[2]) =>
                   Filing!KeyOf(r[1], r[2])[2] = NoAccount
        BY <2>3, <3>2, <3>4
      <3> QED BY <1>a, <2>1, <2>2, <2>4, <3>1, <3>3, <3>5
    <2> QED BY <2>2, <2>5, <2>6
  <1>3. ASSUME NEW f \in Filers, Filing!Flush(f) PROVE Filing!NoAccountTwice' /\ Filing!AccountsSeen'
    <2> DEFINE to == IF job[f].next > Len(job[f].file.rows) THEN "close" ELSE "rows"
               j == [job[f] EXCEPT !.batch = {}, !.pc = to]
    <2>1. job[f].pc = "flush" /\ job' = [job EXCEPT ![f] = j] /\ s2' = Filing!Ahead(f)
      BY <1>3, <1>t DEF Filing!Flush, Filing!Ahead
    <2>2. job[f] \in Filing!Jobs BY <1>t
    <2> HIDE DEF to
    <2>3. j.file = job[f].file /\ j.batch = {} /\ j.seen = job[f].seen BY <2>2 DEF Filing!Jobs
    <2> HIDE DEF j
    <2>4. s2' \cup ({f} \X j.batch) = Filing!Ahead(f) BY <2>1, <2>3
    <2>5. /\ \A r \in Filing!Ahead(f) : Filing!KeyOf(r[1], r[2]) \in j.seen
          /\ \A r, s \in Filing!Ahead(f) :
                r # s /\ Filing!KeyOf(r[1], r[2]) = Filing!KeyOf(s[1], s[2]) =>
                   Filing!KeyOf(r[1], r[2])[2] = NoAccount
      BY <2>1, <2>3 DEF Filing!AccountsSeen
    <2> QED BY <1>a, <2>1, <2>3, <2>4, <2>5
  <1>4. ASSUME NEW f \in Filers,
               \/ \E file \in Returns : Filing!Receive(f, file)
               \/ Filing!ReadPrior(f) \/ Filing!ReadGrant(f) \/ Filing!ConsumeGrant(f)
               \/ Filing!CreateSubmission(f) \/ Filing!PreValidate(f) \/ Filing!Close(f)
               \/ Filing!Fail(f) \/ Filing!StoreFails(f)
        PROVE  Filing!NoAccountTwice' /\ Filing!AccountsSeen'
    BY <1>4, QuietSteps, AccountsKept
  <1>5. ASSUME NEW p \in Periods, Filing!GrantResubmit(p) PROVE Filing!NoAccountTwice' /\ Filing!AccountsSeen'
    <2>1. job' = job /\ s2' = s2 BY <1>5 DEF Filing!GrantResubmit
    <2> QED BY <2>1 DEF Filing!NoAccountTwice, Filing!AccountsSeen, Filing!Ahead, Filing!KeyOf
  <1>6. ASSUME Filing!Crash PROVE Filing!NoAccountTwice' /\ Filing!AccountsSeen'
    <2>1. s2' = s2 BY <1>6 DEF Filing!Crash
    <2>2. ASSUME NEW f \in Filers
          PROVE  job'[f].file = job[f].file /\ job'[f].pc \notin {"rows", "flush", "close"}
      <3>1. job[f] \in Filing!Jobs BY <1>t
      <3>2. CASE Filing!Active(f)
        <4>1. job'[f] = [job[f] EXCEPT !.pc = "dead"] BY <1>6, <3>2 DEF Filing!Crash
        <4> QED BY <3>1, <4>1 DEF Filing!Jobs
      <3>3. CASE ~Filing!Active(f)
        <4>1. job'[f] = job[f] BY <1>6, <3>3 DEF Filing!Crash
        <4> QED BY <3>3, <4>1 DEF Filing!Active, Filing!Steps
      <3> QED BY <3>2, <3>3
    <2>3. \A r \in s2 : Filing!KeyOf(r[1], r[2])' = Filing!KeyOf(r[1], r[2])
      BY <2>2, RowsAreTaken DEF Filing!KeyOf
    <2> QED BY <2>1, <2>2, <2>3 DEF Filing!NoAccountTwice, Filing!AccountsSeen
  <1> QED BY <1>1, <1>2, <1>3, <1>4, <1>5, <1>6 DEF Filing!Next, Filing!Step

\* The submissions and the permissions of a period are finitely many.
LEMMA PeriodSets ==
    ASSUME Filing!TypeOK, NEW p
    PROVE  /\ IsFiniteSet(Filing!FiledBy(p)) /\ IsFiniteSet(Filing!Spent(p))
           /\ Filing!Cardinality(Filing!FiledBy(p)) \in Nat
           /\ Filing!Cardinality(Filing!Spent(p)) \in Nat
           /\ Filing!Spent(p) \subseteq DOMAIN s3
  <1>1. IsFiniteSet(Filers) BY FilingConstants, FilingSets DEF Filing!FilingAssumption
  <1>2. Filing!FiledBy(p) \subseteq Filers BY DEF Filing!FiledBy
  <1>3. s3 \in Seq([period : Periods, consumed : BOOLEAN]) BY FilingTypes
  <1>4. Filing!Spent(p) \subseteq 1..Len(s3) /\ Len(s3) \in Nat BY <1>3, LenProperties DEF Filing!Spent
  <1>5. IsFiniteSet(1..Len(s3)) BY <1>4, FS_Interval
  <1>6. IsFiniteSet(Filing!FiledBy(p)) /\ IsFiniteSet(Filing!Spent(p))
    BY <1>1, <1>2, <1>4, <1>5, FS_Subset
  <1> QED BY <1>6, FilingSets, FS_CardinalityType DEF Filing!Spent

\* A step that files nothing and unspends nothing keeps a period's bound.
LEMMA PeriodKept ==
    ASSUME Filing!TypeOK, Filing!TypeOK', NEW p,
           Filing!FiledBy(p)' \subseteq Filing!FiledBy(p), Filing!Spent(p) \subseteq Filing!Spent(p)',
           NEW n \in Nat,
           Filing!Cardinality(Filing!FiledBy(p)) <= n + Filing!Cardinality(Filing!Spent(p))
    PROVE  Filing!Cardinality(Filing!FiledBy(p)') <= n + Filing!Cardinality(Filing!Spent(p)')
  <1>1. /\ IsFiniteSet(Filing!FiledBy(p)) /\ Filing!Cardinality(Filing!FiledBy(p)) \in Nat
        /\ Filing!Cardinality(Filing!Spent(p)) \in Nat
    BY PeriodSets
  <1>2. IsFiniteSet(Filing!Spent(p)')
    <2>1. s3' \in Seq([period : Periods, consumed : BOOLEAN]) BY DEF Filing!TypeOK
    <2>2. Filing!Spent(p)' \subseteq 1..Len(s3') /\ Len(s3') \in Nat BY <2>1, LenProperties DEF Filing!Spent
    <2>3. IsFiniteSet(1..Len(s3')) BY <2>2, FS_Interval
    <2> QED BY <2>2, <2>3, FS_Subset
  <1>3. Cardinality(Filing!FiledBy(p)') <= Cardinality(Filing!FiledBy(p)) /\ Cardinality(Filing!FiledBy(p)') \in Nat
    BY <1>1, FS_Subset, FS_CardinalityType
  <1>4. Cardinality(Filing!Spent(p)) <= Cardinality(Filing!Spent(p)') /\ Cardinality(Filing!Spent(p)') \in Nat
    BY <1>2, FS_Subset, FS_CardinalityType
  <1> QED BY <1>1, <1>3, <1>4, FilingSets

\* As long as the requests come one at a time the others rest.
LEMMA OthersRest ==
    ASSUME Filing!Alone, Filing!Alone', NEW f \in Filers, Filing!Active(f) \/ Filing!Active(f)',
           NEW g \in Filers \ {f}, job'[g] = job[g]
    PROVE  job'[g].pc \notin Filing!Steps
  <1>1. CASE Filing!Active(f) BY <1>1 DEF Filing!Alone, Filing!Active
  <1>2. CASE Filing!Active(f)' BY <1>2 DEF Filing!Alone, Filing!Active
  <1> QED BY <1>1, <1>2

\* So a period is free for whoever moves, or for nobody.
PeriodFreeFor(f) ==
    /\ job[f].pc = "consume" => job[f].grant \in Filing!OpenGrants(job[f].file.period)
    /\ job[f].pc = "create" /\ job[f].file.channel = "provider" =>
          Filing!Cardinality(Filing!FiledBy(job[f].file.period))
              <= Filing!Cardinality(Filing!Spent(job[f].file.period))

LEMMA FreeForAll ==
    ASSUME Filing!Alone, Filing!Alone', NEW f \in Filers, Filing!Active(f) \/ Filing!Active(f)',
           \A g \in Filers \ {f} : job'[g] = job[g], PeriodFreeFor(f)'
    PROVE  Filing!PeriodIsFree'
  <1>1. ASSUME NEW g \in Filers PROVE PeriodFreeFor(g)'
    <2>1. CASE g = f BY <2>1
    <2>2. CASE g # f
      <3>1. job'[g].pc \notin Filing!Steps BY <2>2, OthersRest
      <3> QED BY <3>1 DEF PeriodFreeFor, Filing!Steps
    <2> QED BY <2>1, <2>2
  <1> QED BY <1>1 DEF Filing!PeriodIsFree, PeriodFreeFor

\* What every step of a request's handler leaves of the other requests, and what
\* the steps that file or permit nothing leave of the periods.
LEMMA StepsOfOne ==
    ASSUME Filing!TypeOK, NEW f \in Filers, Filing!Step(f) \/ Filing!StoreFails(f)
    PROVE  Filing!Active(f) /\ \A g \in Filers \ {f} : job'[g] = job[g]
  <1>1. job \in [Filers -> Filing!Jobs] BY FilingTypes
  <1>2. Filing!Active(f)
    BY DEF Filing!Step, Filing!StoreFails, Filing!Active, Filing!Steps, Filing!ReadPrior, Filing!ReadGrant,
           Filing!ConsumeGrant, Filing!CreateSubmission, Filing!PreValidate, Filing!LoadExisting,
           Filing!TakeRow, Filing!Flush, Filing!Close, Filing!Fail
  <1>3. \A g \in Filers \ {f} : job'[g] = job[g]
    BY <1>1 DEF Filing!Step, Filing!StoreFails, Filing!Goto, Filing!ReadPrior, Filing!ReadGrant,
           Filing!ConsumeGrant, Filing!CreateSubmission, Filing!PreValidate, Filing!LoadExisting,
           Filing!TakeRow, Filing!Flush, Filing!Close, Filing!Fail
  <1> QED BY <1>2, <1>3

\* A step that files nothing, spends nothing and goes to no file keeps the periods.
LEMMA PeriodsKept ==
    ASSUME Filing!TypeOK, Filing!TypeOK', Filing!Alone, Filing!Alone', Filing!OncePerPeriod,
           NEW f \in Filers, Filing!Active(f) \/ Filing!Active(f)',
           \A g \in Filers \ {f} : job'[g] = job[g], PeriodFreeFor(f)',
           \A g \in Filers : s1'[g] = s1[g] \/ s1'[g].status = "REJECTED" \/
               /\ Filing!Filed(g) /\ s1'[g].period = s1[g].period /\ s1'[g].channel = s1[g].channel
               /\ s1[g].status # "REJECTED",
           \A p : Filing!Spent(p) \subseteq Filing!Spent(p)'
    PROVE  Filing!OncePerPeriod' /\ Filing!PeriodIsFree'
  <1>1. ASSUME NEW p \in Periods PROVE Filing!FiledBy(p)' \subseteq Filing!FiledBy(p)
    BY DEF Filing!FiledBy, Filing!Filed
  <1>2. Filing!OncePerPeriod'
    <2>1. 1 \in Nat OBVIOUS
    <2> QED BY <1>1, <2>1, PeriodKept DEF Filing!OncePerPeriod
  <1> QED BY <1>2, FreeForAll

\* Consuming a permission that is open is one more spent on its period.
LEMMA OneMoreSpent ==
    ASSUME Filing!TypeOK, NEW p \in Periods, NEW i \in Filing!OpenGrants(p),
           s3' = [s3 EXCEPT ![i].consumed = TRUE]
    PROVE  /\ \A q : Filing!Spent(q) \subseteq Filing!Spent(q)'
           /\ Filing!Cardinality(Filing!Spent(p)') = Filing!Cardinality(Filing!Spent(p)) + 1
  <1>1. i \in DOMAIN s3 /\ s3[i].period = p /\ ~s3[i].consumed BY DEF Filing!OpenGrants
  <1>2. /\ DOMAIN s3' = DOMAIN s3 /\ s3'[i].consumed = TRUE
        /\ \A k \in DOMAIN s3 : s3'[k].period = s3[k].period /\ (k # i => s3'[k] = s3[k])
    BY <1>1, GrantMarked
  <1>3. \A q : Filing!Spent(q) \subseteq Filing!Spent(q)' BY <1>1, <1>2 DEF Filing!Spent
  <1>4. Filing!Spent(p)' = Filing!Spent(p) \cup {i} BY <1>1, <1>2 DEF Filing!Spent
  <1>5. i \notin Filing!Spent(p) BY <1>1 DEF Filing!Spent
  <1>6. Cardinality(Filing!Spent(p) \cup {i}) = Cardinality(Filing!Spent(p)) + 1
    BY <1>5, PeriodSets, FS_AddElement
  <1> QED BY <1>3, <1>4, <1>6, FilingSets

\* A period is filed once, and once more per permission spent on it, as long as the
\* requests come one at a time: whoever files found the period free or has an open
\* permission, and nobody files between his look and his filing.
LEMMA PeriodsStayOnce ==
    ASSUME Filing!IInv, Filing!IInv', Filing!Alone, Filing!Alone', Filing!OncePerPeriod,
           Filing!PeriodIsFree, Filing!Next
    PROVE  Filing!OncePerPeriod' /\ Filing!PeriodIsFree'
  <1>t. /\ Filing!TypeOK /\ Filing!TypeOK' /\ job \in [Filers -> Filing!Jobs]
        /\ s1 \in [Filers -> Filing!Submissions]
        /\ \A f \in Filers : Filing!Placed(f) /\ PeriodFreeFor(f)
    BY FilingTypes DEF Filing!IInv, Filing!PeriodIsFree, PeriodFreeFor
  <1>1. ASSUME NEW p \in Periods, Filing!GrantResubmit(p)
        PROVE  Filing!OncePerPeriod' /\ Filing!PeriodIsFree'
    <2> DEFINE G == [period : Periods, consumed : BOOLEAN]
               g == [period |-> p, consumed |-> FALSE]
    <2>1. /\ job' = job /\ s1' = s1 /\ s3' = Append(s3, g) /\ s3 \in Seq(G) /\ g \in G
      BY <1>1, <1>t, FilingTypes DEF Filing!GrantResubmit
    <2> HIDE DEF G, g
    <2>2. /\ \A i \in 1..Len(s3) : s3'[i] = s3[i]
          /\ Len(s3') = Len(s3) + 1 /\ Len(s3) \in Nat /\ s3' \in Seq(G)
      BY <2>1, AppendProperties, LenProperties
    <2>3. DOMAIN s3 \subseteq DOMAIN s3' /\ \A i \in DOMAIN s3 : s3'[i] = s3[i]
      <3>1. DOMAIN s3 = 1..Len(s3) /\ DOMAIN s3' = 1..Len(s3') BY <2>1, <2>2, LenProperties
      <3> QED BY <2>2, <3>1
    <2>4. ASSUME NEW q
          PROVE  /\ Filing!Spent(q) \subseteq Filing!Spent(q)'
                 /\ Filing!OpenGrants(q) \subseteq Filing!OpenGrants(q)'
                 /\ Filing!FiledBy(q)' = Filing!FiledBy(q)
      BY <2>1, <2>3 DEF Filing!Spent, Filing!OpenGrants, Filing!FiledBy, Filing!Filed
    <2>5. Filing!OncePerPeriod'
      <3>1. 1 \in Nat OBVIOUS
      <3>2. \A q : Filing!FiledBy(q)' \subseteq Filing!FiledBy(q) BY <2>4
      <3> QED BY <1>t, <2>4, <3>1, <3>2, PeriodKept DEF Filing!OncePerPeriod
    <2>6. ASSUME NEW f \in Filers PROVE PeriodFreeFor(f)'
      <3>0. PICK q : q = job[f].file.period OBVIOUS
      <3>1. job[f].pc = "consume" => job[f].grant \in Filing!OpenGrants(q)'
        <4>1. job[f].pc = "consume" => job[f].grant \in Filing!OpenGrants(q)
          BY <1>t, <3>0 DEF PeriodFreeFor
        <4> QED BY <2>4, <4>1
      <3>2. ASSUME job[f].pc = "create", job[f].file.channel = "provider"
            PROVE  Filing!Cardinality(Filing!FiledBy(q)') <= Filing!Cardinality(Filing!Spent(q)')
        <4>1. Filing!Cardinality(Filing!FiledBy(q)) <= Filing!Cardinality(Filing!Spent(q))
          BY <1>t, <3>0, <3>2 DEF PeriodFreeFor
        <4>2. /\ Filing!FiledBy(q)' = Filing!FiledBy(q) /\ Filing!Spent(q) \subseteq Filing!Spent(q)'
              /\ Filing!Cardinality(Filing!FiledBy(q)) \in Nat /\ Filing!Cardinality(Filing!Spent(q)) \in Nat
          BY <1>t, <2>4, PeriodSets
        <4>3. IsFiniteSet(Filing!Spent(q)')
          <5>1. IsFiniteSet(1..Len(s3')) BY <2>2, FS_Interval
          <5>2. Filing!Spent(q)' \subseteq 1..Len(s3') BY <2>2, LenProperties DEF Filing!Spent
          <5> QED BY <5>1, <5>2, FS_Subset
        <4>4. /\ Cardinality(Filing!Spent(q)) <= Cardinality(Filing!Spent(q)')
              /\ Cardinality(Filing!Spent(q)') \in Nat
          BY <4>2, <4>3, FS_Subset, FS_CardinalityType
        <4> QED BY <4>1, <4>2, <4>4, FilingSets
      <3>3. job'[f] = job[f] /\ job'[f].file.period = q BY <2>1, <3>0
      <3> QED BY <3>1, <3>2, <3>3 DEF PeriodFreeFor
    <2>7. Filing!PeriodIsFree' BY <2>6 DEF Filing!PeriodIsFree, PeriodFreeFor
    <2> QED BY <2>5, <2>7
  <1>2. ASSUME NEW f \in Filers, NEW file \in Returns, Filing!Receive(f, file)
        PROVE  Filing!OncePerPeriod' /\ Filing!PeriodIsFree'
    <2> DEFINE j == Filing!NewJob(file, IF file.channel = "provider" THEN "prior" ELSE "create")
    <2>1. job' = [job EXCEPT ![f] = j] /\ s1' = s1 /\ s3' = s3 BY <1>2 DEF Filing!Receive
    <2>2. /\ j.file = file /\ j.pc \in {"prior", "create"}
          /\ j.pc = "create" => file.channel # "provider"
      BY DEF Filing!NewJob
    <2> HIDE DEF j
    <2>3. job'[f] = j /\ \A g \in Filers \ {f} : job'[g] = job[g] BY <1>t, <2>1
    <2>4. PeriodFreeFor(f)' /\ Filing!Active(f)'
      BY <2>2, <2>3 DEF PeriodFreeFor, Filing!Active, Filing!Steps
    <2>5. \A q : Filing!Spent(q) \subseteq Filing!Spent(q)' BY <2>1 DEF Filing!Spent
    <2> QED BY <1>t, <2>1, <2>3, <2>4, <2>5, PeriodsKept
  \* The steps that file nothing, spend nothing, and read no permission.
  <1>3. ASSUME NEW f \in Filers,
               \/ Filing!PreValidate(f) \/ Filing!LoadExisting(f) \/ Filing!TakeRow(f) \/ Filing!Flush(f)
               \/ Filing!Close(f) \/ Filing!Fail(f) \/ Filing!StoreFails(f)
        PROVE  Filing!OncePerPeriod' /\ Filing!PeriodIsFree'
    <2>1. Filing!Active(f) /\ \A g \in Filers \ {f} : job'[g] = job[g]
      BY <1>3, <1>t, StepsOfOne DEF Filing!Step
    <2>2. s3' = s3 /\ job'[f].pc \notin {"consume", "create"}
      <3>1. s3' = s3
        BY <1>3 DEF Filing!PreValidate, Filing!LoadExisting, Filing!TakeRow, Filing!Flush, Filing!Close,
                    Filing!Fail, Filing!StoreFails
      <3>2. ASSUME NEW pc \in {"fail", "done", "load", "refused"}, Filing!Goto(f, pc)
            PROVE  job'[f].pc \notin {"consume", "create"}
        BY <1>t, <3>2 DEF Filing!Goto, Filing!Jobs
      <3>3. CASE Filing!PreValidate(f) \/ Filing!Close(f) \/ Filing!Fail(f) \/ Filing!StoreFails(f)
        BY <3>2, <3>3 DEF Filing!PreValidate, Filing!Close, Filing!Fail, Filing!StoreFails
      <3>4. CASE Filing!LoadExisting(f)
        BY <1>t, <3>4 DEF Filing!LoadExisting, Filing!Jobs
      <3>5. CASE Filing!Flush(f)
        BY <1>t, <3>5 DEF Filing!Flush, Filing!Jobs
      <3>6. CASE Filing!TakeRow(f)
        BY <1>t, <3>6 DEF Filing!TakeRow, Filing!Jobs
      <3> QED BY <1>3, <3>1, <3>3, <3>4, <3>5, <3>6
    <2>3. \A g \in Filers : s1'[g] = s1[g] \/ s1'[g].status = "REJECTED" \/
              /\ Filing!Filed(g) /\ s1'[g].period = s1[g].period /\ s1'[g].channel = s1[g].channel
              /\ s1[g].status # "REJECTED"
      <3>1. CASE ~Filing!Close(f)
        BY <1>3, <1>t, <3>1 DEF Filing!PreValidate, Filing!LoadExisting, Filing!TakeRow, Filing!Flush,
                    Filing!Fail, Filing!StoreFails, Filing!Submissions
      <3>2. CASE Filing!Close(f)
        <4>1. job[f].pc = "close" /\ s1[f].status = "VALIDATING"
          BY <1>t, <3>2 DEF Filing!Close, Filing!Placed
        <4>2. /\ \A g \in Filers \ {f} : s1'[g] = s1[g]
              /\ s1'[f].period = s1[f].period /\ s1'[f].channel = s1[f].channel
          BY <1>t, <3>2 DEF Filing!Close, Filing!Submissions
        <4> QED BY <4>1, <4>2 DEF Filing!Filed
      <3> QED BY <3>1, <3>2
    <2>4. PeriodFreeFor(f)' BY <2>2 DEF PeriodFreeFor
    <2>5. \A q : Filing!Spent(q) \subseteq Filing!Spent(q)' BY <2>2 DEF Filing!Spent
    <2> QED BY <1>t, <2>1, <2>3, <2>4, <2>5, PeriodsKept
  <1>4. ASSUME NEW f \in Filers, Filing!ReadPrior(f) PROVE Filing!OncePerPeriod' /\ Filing!PeriodIsFree'
    <2> DEFINE p == job[f].file.period
    <2>1. s1' = s1 /\ s3' = s3 BY <1>4 DEF Filing!ReadPrior
    <2>2. PICK pc \in {"grant", "create"} : Filing!Goto(f, pc) /\ (pc = "create" => ~Filing!Prior(p))
      BY <1>4 DEF Filing!ReadPrior
    <2>3. pc \in Filing!Steps BY DEF Filing!Steps
    <2>4. job'[f].pc = pc /\ job'[f].file = job[f].file BY <1>t, <2>2, <2>3, FilingGoto
    <2>5. Filing!Active(f) /\ \A g \in Filers \ {f} : job'[g] = job[g]
      BY <1>4, <1>t, StepsOfOne DEF Filing!Step
    <2>6. ASSUME pc = "create"
          PROVE  Filing!Cardinality(Filing!FiledBy(p)) <= Filing!Cardinality(Filing!Spent(p))
      <3>1. Filing!FiledBy(p) = {} BY <2>2, <2>6 DEF Filing!FiledBy, Filing!Prior
      <3>2. Filing!Cardinality(Filing!FiledBy(p)) = 0 BY <3>1, FilingSets, FS_EmptySet
      <3>3. Filing!Cardinality(Filing!Spent(p)) \in Nat BY <1>t, PeriodSets
      <3> QED BY <3>2, <3>3
    <2>7. /\ \A q : Filing!Spent(q)' = Filing!Spent(q)
          /\ \A q : Filing!FiledBy(q)' = Filing!FiledBy(q)
      BY <2>1 DEF Filing!Spent, Filing!FiledBy, Filing!Filed
    <2>8. PeriodFreeFor(f)' BY <2>2, <2>4, <2>6, <2>7 DEF PeriodFreeFor
    <2>9. \A q : Filing!Spent(q) \subseteq Filing!Spent(q)' BY <2>7
    <2> QED BY <1>t, <2>1, <2>5, <2>8, <2>9, PeriodsKept
  <1>5. ASSUME NEW f \in Filers, Filing!ReadGrant(f) PROVE Filing!OncePerPeriod' /\ Filing!PeriodIsFree'
    <2> DEFINE open == Filing!OpenGrants(job[f].file.period)
    <2>1. s1' = s1 /\ s3' = s3 BY <1>5 DEF Filing!ReadGrant
    <2>2. Filing!Active(f) /\ \A g \in Filers \ {f} : job'[g] = job[g]
      BY <1>5, <1>t, StepsOfOne DEF Filing!Step
    <2>3. PeriodFreeFor(f)'
      <3>1. CASE open = {}
        <4>1. Filing!Goto(f, "refused") /\ "refused" \in Filing!Ends
          BY <1>5, <3>1 DEF Filing!ReadGrant, Filing!Ends
        <4>2. job'[f].pc = "refused" BY <1>t, <4>1, FilingGoto
        <4> QED BY <4>2 DEF PeriodFreeFor
      <3>2. CASE open # {}
        <4>1. s3 \in Seq([period : Periods, consumed : BOOLEAN]) BY <1>t, FilingTypes
        <4>2. open \subseteq 1..Len(s3) /\ Len(s3) \in Nat
          BY <4>1, LenProperties DEF Filing!OpenGrants
        <4>3. Filing!Max(open) \in open BY <3>2, <4>2, MaxIsOne
        <4> DEFINE j == [job[f] EXCEPT !.pc = "consume", !.grant = Filing!Max(open)]
        <4>4. job' = [job EXCEPT ![f] = j] BY <1>5, <1>t, <3>2 DEF Filing!ReadGrant
        <4>5. j.pc = "consume" /\ j.grant = Filing!Max(open) /\ j.file = job[f].file
          BY <1>t DEF Filing!Jobs
        <4> HIDE DEF j
        <4>6. job'[f] = j BY <1>t, <4>4
        <4>7. \A q : Filing!OpenGrants(q)' = Filing!OpenGrants(q) BY <2>1 DEF Filing!OpenGrants
        <4> QED BY <4>3, <4>5, <4>6, <4>7 DEF PeriodFreeFor
      <3> QED BY <3>1, <3>2
    <2>4. \A q : Filing!Spent(q) \subseteq Filing!Spent(q)' BY <2>1 DEF Filing!Spent
    <2> QED BY <1>t, <2>1, <2>2, <2>3, <2>4, PeriodsKept
  <1>6. ASSUME NEW f \in Filers, Filing!ConsumeGrant(f) PROVE Filing!OncePerPeriod' /\ Filing!PeriodIsFree'
    <2>p. PICK p : p = job[f].file.period OBVIOUS
    <2>1. /\ s1' = s1 /\ s3' = [s3 EXCEPT ![job[f].grant].consumed = TRUE] /\ job[f].pc = "consume"
          /\ Filing!Goto(f, "create") /\ "create" \in Filing!Steps
      BY <1>6 DEF Filing!ConsumeGrant, Filing!Steps
    <2>2. Filing!Active(f) /\ \A g \in Filers \ {f} : job'[g] = job[g]
      BY <1>6, <1>t, StepsOfOne DEF Filing!Step
    <2>3. p \in Periods BY <1>t, <2>p, FilingTypes, FileFacts
    <2>4. job[f].grant \in Filing!OpenGrants(p) BY <1>t, <2>p, <2>1 DEF PeriodFreeFor
    <2>5. /\ \A q : Filing!Spent(q) \subseteq Filing!Spent(q)'
          /\ Filing!Cardinality(Filing!Spent(p)') = Filing!Cardinality(Filing!Spent(p)) + 1
      <3>1. PICK i : i = job[f].grant OBVIOUS
      <3>2. i \in Filing!OpenGrants(p) /\ s3' = [s3 EXCEPT ![i].consumed = TRUE] BY <2>1, <2>4, <3>1
      <3> QED BY <1>t, <2>3, <3>2, OneMoreSpent
    <2>6. job'[f].pc = "create" /\ job'[f].file = job[f].file BY <1>t, <2>1, FilingGoto
    <2>7. Filing!FiledBy(p)' = Filing!FiledBy(p)
      BY <2>1 DEF Filing!FiledBy, Filing!Filed
    <2>8. Filing!Cardinality(Filing!FiledBy(p)) <= 1 + Filing!Cardinality(Filing!Spent(p))
      BY <2>3 DEF Filing!OncePerPeriod
    <2>9. /\ Filing!Cardinality(Filing!FiledBy(p)) \in Nat /\ Filing!Cardinality(Filing!Spent(p)) \in Nat
      BY <1>t, PeriodSets
    <2>10. Filing!Cardinality(Filing!FiledBy(p)') <= Filing!Cardinality(Filing!Spent(p)')
      BY <2>5, <2>7, <2>8, <2>9
    <2>11. PeriodFreeFor(f)' BY <2>p, <2>6, <2>10 DEF PeriodFreeFor
    <2> QED BY <1>t, <2>1, <2>2, <2>5, <2>11, PeriodsKept
  <1>7. ASSUME NEW f \in Filers, Filing!CreateSubmission(f) PROVE Filing!OncePerPeriod' /\ Filing!PeriodIsFree'
    <2> DEFINE w == Filing!NewSubmission(job[f].file, "VALIDATING")
    <2>1. /\ s1' = [s1 EXCEPT ![f] = w] /\ s3' = s3 /\ job[f].pc = "create"
          /\ Filing!Goto(f, "check") /\ "check" \in Filing!Steps
      BY <1>7 DEF Filing!CreateSubmission, Filing!Steps
    <2>2. w.status = "VALIDATING" /\ w.period = job[f].file.period /\ w.channel = job[f].file.channel
      BY DEF Filing!NewSubmission
    <2> HIDE DEF w
    <2>3. s1'[f] = w /\ \A g \in Filers \ {f} : s1'[g] = s1[g] BY <1>t, <2>1
    <2>4. Filing!Active(f) /\ \A g \in Filers \ {f} : job'[g] = job[g]
      BY <1>7, <1>t, StepsOfOne DEF Filing!Step
    <2>5. job'[f].pc = "check" BY <1>t, <2>1, FilingGoto
    <2>6. PeriodFreeFor(f)' BY <2>5 DEF PeriodFreeFor
    <2>7. Filing!PeriodIsFree' BY <2>4, <2>6, FreeForAll
    <2>8. \A q : Filing!Spent(q)' = Filing!Spent(q) BY <2>1 DEF Filing!Spent
    <2>9. ASSUME NEW p \in Periods
          PROVE  Filing!Cardinality(Filing!FiledBy(p)') <= 1 + Filing!Cardinality(Filing!Spent(p)')
      <3>1. /\ Filing!Cardinality(Filing!FiledBy(p)) <= 1 + Filing!Cardinality(Filing!Spent(p))
            /\ Filing!Cardinality(Filing!FiledBy(p)) \in Nat /\ Filing!Cardinality(Filing!Spent(p)) \in Nat
            /\ IsFiniteSet(Filing!FiledBy(p))
        BY <1>t, PeriodSets DEF Filing!OncePerPeriod
      <3>2. CASE p = job[f].file.period /\ job[f].file.channel = "provider"
        <4>1. Filing!FiledBy(p)' \subseteq Filing!FiledBy(p) \cup {f}
          BY <2>3 DEF Filing!FiledBy, Filing!Filed
        <4>2. Cardinality(Filing!FiledBy(p) \cup {f}) <= Cardinality(Filing!FiledBy(p)) + 1
              /\ IsFiniteSet(Filing!FiledBy(p) \cup {f})
          <5>1. Cardinality(Filing!FiledBy(p)) \in Nat BY <3>1, FilingSets
          <5>2. /\ IsFiniteSet(Filing!FiledBy(p) \cup {f})
                /\ Cardinality(Filing!FiledBy(p) \cup {f}) =
                      IF f \in Filing!FiledBy(p) THEN Cardinality(Filing!FiledBy(p))
                                                ELSE Cardinality(Filing!FiledBy(p)) + 1
            BY <3>1, FS_AddElement
          <5> QED BY <5>1, <5>2
        <4>3. /\ Cardinality(Filing!FiledBy(p)') <= Cardinality(Filing!FiledBy(p) \cup {f})
              /\ Cardinality(Filing!FiledBy(p)') \in Nat
              /\ Cardinality(Filing!FiledBy(p) \cup {f}) \in Nat
          BY <4>1, <4>2, FS_Subset, FS_CardinalityType
        <4>4. Filing!Cardinality(Filing!FiledBy(p)) <= Filing!Cardinality(Filing!Spent(p))
          BY <1>t, <2>1, <3>2 DEF PeriodFreeFor
        <4> QED BY <2>8, <3>1, <4>2, <4>3, <4>4, FilingSets
      <3>3. CASE ~(p = job[f].file.period /\ job[f].file.channel = "provider")
        <4>1. Filing!FiledBy(p)' \subseteq Filing!FiledBy(p)
          BY <2>2, <2>3, <3>3 DEF Filing!FiledBy, Filing!Filed
        <4>2. Filing!Spent(p) \subseteq Filing!Spent(p)' /\ 1 \in Nat BY <2>8
        <4> QED BY <1>t, <3>1, <4>1, <4>2, PeriodKept
      <3> QED BY <3>2, <3>3
    <2>10. Filing!OncePerPeriod' BY <2>9 DEF Filing!OncePerPeriod
    <2> QED BY <2>7, <2>10
  <1>8. ASSUME Filing!Crash PROVE Filing!OncePerPeriod' /\ Filing!PeriodIsFree'
    <2>1. s1' = s1 /\ s3' = s3 BY <1>8 DEF Filing!Crash
    <2>2. ASSUME NEW f \in Filers PROVE job'[f].pc \notin {"consume", "create"}
      <3>1. CASE Filing!Active(f)
        <4>1. job'[f] = [job[f] EXCEPT !.pc = "dead"] BY <1>8, <3>1 DEF Filing!Crash
        <4> QED BY <1>t, <4>1 DEF Filing!Jobs
      <3>2. CASE ~Filing!Active(f)
        <4>1. job'[f] = job[f] BY <1>8, <3>2 DEF Filing!Crash
        <4> QED BY <3>2, <4>1 DEF Filing!Active, Filing!Steps
      <3> QED BY <3>1, <3>2
    <2>3. Filing!PeriodIsFree' BY <2>2 DEF Filing!PeriodIsFree
    <2>4. Filing!OncePerPeriod'
      BY <2>1 DEF Filing!OncePerPeriod, Filing!FiledBy, Filing!Filed, Filing!Spent
    <2> QED BY <2>3, <2>4
  <1> QED BY <1>1, <1>2, <1>3, <1>4, <1>5, <1>6, <1>7, <1>8 DEF Filing!Next, Filing!Step

\* Together: what holds of the filings while they come one at a time.
LEMMA FilingCalm ==
    ASSUME Filing!IInv, Filing!Calm, Filing!Next, Filing!Alone'
    PROVE  Filing!Calm'
  <1>1. Filing!IInv' BY FilingStep
  <1>2. Filing!NoAccountTwice' /\ Filing!AccountsSeen' BY AccountsStayOnce DEF Filing!Calm
  <1>3. Filing!OncePerPeriod' /\ Filing!PeriodIsFree' BY <1>1, PeriodsStayOnce DEF Filing!Calm
  <1> QED BY <1>2, <1>3 DEF Filing!Calm

-----------------------------------------------------------------------------
(* Assistant: what is filed is what the preview showed because, as long as the  *)
(* calls do not race, the page, the draft and the preview on its way between    *)
(* them hold one mapping.                                                       *)

\* The types, component by component.
LEMMA AssistantTypes ==
    ASSUME Assistant!Shapes
    PROVE  /\ s1 \in 0..MaxTime /\ MaxTime \in Nat /\ Ttl \in Nat
           /\ s2 \in Assistant!Pages /\ s2.draft \in 0..Len(s3) /\ (s2.view = "pick" <=> s2.draft = 0)
           /\ s3 \in Seq(Assistant!Rows) /\ Len(s3) \in Nat /\ DOMAIN s3 = 1..Len(s3)
           /\ \A d \in DOMAIN s3 : s3[d] \in Assistant!Rows
           /\ job \in [Slots -> Assistant!Jobs]
           /\ \A s \in Slots : job[s] \in Assistant!Jobs /\ job[s].draft \in 0..Len(s3)
           /\ s4 \in Seq(Assistant!Filings) /\ Len(s4) \in Nat /\ DOMAIN s4 = 1..Len(s4)
           /\ \A i \in DOMAIN s4 : s4[i] \in Assistant!Filings
  <1>1. MaxTime \in Nat /\ Ttl \in Nat BY AssistantConstants DEF Assistant!AssistantAssumption
  <1>2. s3 \in Seq(Assistant!Rows) /\ s4 \in Seq(Assistant!Filings) BY DEF Assistant!Shapes
  <1>3. /\ Len(s3) \in Nat /\ DOMAIN s3 = 1..Len(s3) /\ Len(s4) \in Nat /\ DOMAIN s4 = 1..Len(s4)
    BY <1>2, LenProperties
  <1>4. /\ \A d \in DOMAIN s3 : s3[d] \in Assistant!Rows
        /\ \A i \in DOMAIN s4 : s4[i] \in Assistant!Filings
    BY <1>2, <1>3, ElementOfSeq
  <1> QED BY <1>1, <1>2, <1>3, <1>4 DEF Assistant!Shapes, Assistant!TypeOK

\* What the place of a call tells of it.
CallFits(c) ==
    /\ (c.kind = "none") = (c.pc = "free")
    /\ c.pc \in {"file", "mark"} => c.kind = "approve"
    /\ c.pc = "answer" => c.kind \in {"analyze", "recheck"}
    /\ c.pc = "read" => c.kind # "analyze"
    /\ c.kind \in {"recheck", "approve", "cancel"} => c.draft # 0
    /\ c.pc = "answer" => c.draft # 0

\* A slot without a call is one.
LEMMA FreeFits == Assistant!Free \in Assistant!Jobs /\ CallFits(Assistant!Free)
                  /\ Assistant!Free.kind = "none" /\ Assistant!Free.pc = "free" /\ Assistant!Free.draft = 0
  BY DEF Assistant!Free, Assistant!Jobs, Assistant!Mappings, CallFits

\* A step of one call keeps the types if the call, the page and the rows keep theirs.
LEMMA ShapesMove ==
    ASSUME Assistant!Shapes, NEW s \in Slots, NEW c \in Assistant!Jobs, job' = [job EXCEPT ![s] = c],
           CallFits(c), c.draft <= Len(s3'), s3' \in Seq(Assistant!Rows), Len(s3) <= Len(s3'),
           s2' \in Assistant!Pages, s2'.draft <= Len(s3'), s2'.view = "pick" <=> s2'.draft = 0,
           s4' \in Seq(Assistant!Filings), s1' \in 0..MaxTime
    PROVE  Assistant!Shapes'
  <1>t. /\ job \in [Slots -> Assistant!Jobs] /\ Len(s3) \in Nat
        /\ \A u \in Slots : job[u].draft \in 0..Len(s3) /\ CallFits(job[u])
    BY AssistantTypes DEF Assistant!Shapes, CallFits
  <1>1. job' \in [Slots -> Assistant!Jobs] /\ job'[s] = c /\ \A u \in Slots \ {s} : job'[u] = job[u]
    BY <1>t
  <1>2. \A u \in Slots : CallFits(job'[u]) BY <1>t, <1>1
  <1>3. Len(s3') \in Nat /\ DOMAIN s3' = 1..Len(s3') /\ Len(s4') \in Nat /\ DOMAIN s4' = 1..Len(s4')
    BY LenProperties
  <1>4. c.draft \in Nat /\ s2'.draft \in Nat /\ s2'.view \in {"pick", "review"}
        /\ s2'.mapping \in Assistant!Mappings /\ s2'.previewed \in Assistant!Mappings
    BY DEF Assistant!Jobs, Assistant!Pages
  <1>5. \A u \in Slots : job'[u].draft \in 0..Len(s3')
    <2> SUFFICES ASSUME NEW u \in Slots PROVE job'[u].draft \in 0..Len(s3') OBVIOUS
    <2>1. CASE u = s BY <1>1, <1>3, <1>4, <2>1
    <2>2. CASE u # s BY <1>t, <1>1, <1>3, <2>2
    <2> QED BY <2>1, <2>2
  <1>6. \A d \in DOMAIN s3' : s3'[d].status \in {"PENDING", "APPROVED", "CANCELLED"}
                              /\ s3'[d].mapping \in Assistant!Mappings
    <2>1. \A d \in DOMAIN s3' : s3'[d] \in Assistant!Rows BY <1>3, ElementOfSeq
    <2> QED BY <2>1 DEF Assistant!Rows
  <1>7. \A i \in DOMAIN s4' : s4'[i].mapping \in Assistant!Mappings
    <2>1. \A i \in DOMAIN s4' : s4'[i] \in Assistant!Filings BY <1>3, ElementOfSeq
    <2> QED BY <2>1 DEF Assistant!Filings
  <1>8. Assistant!TypeOK' BY <1>3, <1>4, <1>5, <1>6, <1>7 DEF Assistant!TypeOK
  <1> QED BY <1>1, <1>2, <1>8 DEF Assistant!Shapes, CallFits

\* Nothing is under way at the start.
LEMMA AssistantInit == ASSUME Assistant!Init PROVE Assistant!IInv
  <1>1. /\ s1 = 0 /\ s2 = Assistant!Blank /\ s3 = <<>> /\ s4 = <<>>
        /\ job = [s \in Slots |-> Assistant!Free] /\ overlapped = FALSE /\ spent = FALSE
    BY DEF Assistant!Init
  <1>2. /\ Assistant!Blank \in Assistant!Pages /\ Assistant!Blank.view = "pick" /\ Assistant!Blank.draft = 0
        /\ Assistant!Blank.mapping \in Assistant!Mappings /\ Assistant!Blank.previewed \in Assistant!Mappings
    BY DEF Assistant!Blank, Assistant!Pages, Assistant!Mappings
  <1>3. MaxTime \in Nat BY AssistantConstants DEF Assistant!AssistantAssumption
  <1>4. Len(s3) = 0 /\ DOMAIN s3 = {} /\ DOMAIN s4 = {} /\ s3 \in Seq(Assistant!Rows) /\ s4 \in Seq(Assistant!Filings)
    BY <1>1, EmptySeq
  <1>5. job \in [Slots -> Assistant!Jobs] /\ \A s \in Slots : job[s] = Assistant!Free BY <1>1, FreeFits
  <1>6. Assistant!TypeOK BY <1>1, <1>2, <1>3, <1>4, <1>5, FreeFits DEF Assistant!TypeOK
  <1>7. Assistant!Shapes BY <1>1, <1>2, <1>4, <1>5, <1>6, FreeFits DEF Assistant!Shapes, CallFits
  <1>8. Assistant!Serial /\ Assistant!FreshIsUnknown BY <1>5, FreeFits DEF Assistant!Serial, Assistant!FreshIsUnknown
  <1>9. Assistant!PreviewIsOfDraft /\ Assistant!ApprovalIsSound
    BY <1>1, <1>2, <1>4, <1>5, FreeFits DEF Assistant!PreviewIsOfDraft, Assistant!ApprovalIsSound
  <1>10. Assistant!FiledAsPreviewed /\ Assistant!DraftFilesOnce
    BY <1>4 DEF Assistant!FiledAsPreviewed, Assistant!DraftFilesOnce
  <1> QED BY <1>7, <1>8, <1>9, <1>10 DEF Assistant!IInv

\* What has been filed is what was shown, and no draft twice.
FiledSound == \A i \in DOMAIN s4 : s4[i].mapping = s4[i].shown /\ Assistant!Accepted(s4[i].mapping)
FiledOnce  == \A i, j \in DOMAIN s4 : s4[i].draft = s4[j].draft => i = j

\* What holds for as long as nothing raced.
Unraced ==
    /\ Assistant!Serial /\ Assistant!FreshIsUnknown /\ Assistant!PreviewIsOfDraft
    /\ Assistant!ApprovalIsSound /\ FiledSound /\ FiledOnce

LEMMA UnracedIs == Assistant!IInv <=> Assistant!Shapes /\ (overlapped \/ spent \/ Unraced)
  BY DEF Assistant!IInv, Unraced, FiledSound, FiledOnce, Assistant!FiledAsPreviewed, Assistant!DraftFilesOnce

\* A call that ends without an answer to show, and may have closed its draft.
LEMMA CallQuits ==
    ASSUME Assistant!Shapes, Unraced, NEW s \in Slots, job' = [job EXCEPT ![s] = Assistant!Free],
           job[s].pc # "answer", s2'.draft = s2.draft, s2'.previewed = s2.previewed,
           DOMAIN s3' = DOMAIN s3,
           \A d \in DOMAIN s3 : /\ s3'[d].mapping = s3[d].mapping
                                /\ s3[d].status # "PENDING" => s3'[d].status # "PENDING",
           job[s].pc = "mark" => s3'[job[s].draft].status # "PENDING", s4' = s4
    PROVE  Unraced'
  <1>t. /\ job \in [Slots -> Assistant!Jobs] /\ DOMAIN s3 = 1..Len(s3) /\ Len(s3) \in Nat
        /\ s2.draft \in 0..Len(s3) /\ \A u \in Slots : job[u].draft \in 0..Len(s3) /\ CallFits(job[u])
    BY AssistantTypes DEF Assistant!Shapes, CallFits
  <1>1. job'[s] = Assistant!Free /\ \A u \in Slots \ {s} : job'[u] = job[u] BY <1>t
  <1>2. Assistant!Serial' BY <1>1, FreeFits DEF Unraced, Assistant!Serial
  <1>3. Assistant!FreshIsUnknown'
    <2> SUFFICES ASSUME NEW u \in Slots, job'[u].kind = "analyze" /\ job'[u].pc = "answer"
                 PROVE  /\ job'[u].draft # s2'.draft
                        /\ \A v \in Slots \ {u} : job'[v].draft # job'[u].draft
      BY DEF Assistant!FreshIsUnknown
    <2>1. u # s /\ job'[u] = job[u] BY <1>1, FreeFits
    <2>2. job[u].draft # 0 BY <1>t, <2>1 DEF CallFits
    <2> QED BY <1>1, <2>1, <2>2, FreeFits DEF Unraced, Assistant!FreshIsUnknown
  <1>4. Assistant!PreviewIsOfDraft'
    <2>1. ASSUME NEW u \in Slots, job'[u].pc = "answer" PROVE s3'[job'[u].draft].mapping = job'[u].mapping
      <3>1. u # s /\ job'[u] = job[u] BY <1>1, <2>1, FreeFits
      <3>2. job[u].draft \in DOMAIN s3 BY <1>t, <2>1, <3>1 DEF CallFits
      <3> QED BY <2>1, <3>1, <3>2 DEF Unraced, Assistant!PreviewIsOfDraft
    <2>2. ASSUME s2'.draft # 0
          PROVE  \/ s3'[s2'.draft].mapping = s2'.previewed
                 \/ \E u \in Slots : job'[u].kind = "recheck" /\ job'[u].pc = "answer"
      <3>1. s2.draft \in DOMAIN s3 BY <1>t, <2>2
      <3>2. CASE s3[s2.draft].mapping = s2.previewed BY <3>1, <3>2
      <3>3. CASE \E u \in Slots : job[u].kind = "recheck" /\ job[u].pc = "answer" BY <1>1, <3>3
      <3> QED BY <2>2, <3>2, <3>3 DEF Unraced, Assistant!PreviewIsOfDraft
    <2> QED BY <2>1, <2>2 DEF Assistant!PreviewIsOfDraft
  <1>5. Assistant!ApprovalIsSound'
    <2>1. ASSUME NEW u \in Slots, job'[u].kind = "approve"
          PROVE  /\ Assistant!Accepted(job'[u].shown) /\ s3'[job'[u].draft].mapping = job'[u].shown
                 /\ job'[u].pc \in {"read", "file"} =>
                       /\ job'[u].mapping = job'[u].shown
                       /\ \A i \in DOMAIN s4' : s4'[i].draft # job'[u].draft
      <3>1. u # s /\ job'[u] = job[u] BY <1>1, <2>1, FreeFits
      <3>2. job[u].draft \in DOMAIN s3 BY <1>t, <2>1, <3>1 DEF CallFits
      <3> QED BY <2>1, <3>1, <3>2 DEF Unraced, Assistant!ApprovalIsSound
    <2>2. ASSUME NEW i \in DOMAIN s4'
          PROVE  /\ s4'[i].draft \in DOMAIN s3'
                 /\ \/ s3'[s4'[i].draft].status # "PENDING"
                    \/ \E u \in Slots : job'[u].pc = "mark" /\ job'[u].draft = s4'[i].draft
      <3>1. /\ s4[i].draft \in DOMAIN s3
            /\ \/ s3[s4[i].draft].status # "PENDING"
               \/ \E u \in Slots : job[u].pc = "mark" /\ job[u].draft = s4[i].draft
        BY <2>2 DEF Unraced, Assistant!ApprovalIsSound
      <3>2. CASE s3[s4[i].draft].status # "PENDING" BY <3>1, <3>2
      <3>3. CASE \E u \in Slots : job[u].pc = "mark" /\ job[u].draft = s4[i].draft
        <4>1. PICK u \in Slots : job[u].pc = "mark" /\ job[u].draft = s4[i].draft BY <3>3
        <4>2. CASE u = s BY <3>1, <4>1, <4>2
        <4>3. CASE u # s BY <1>1, <3>1, <4>1, <4>3
        <4> QED BY <4>2, <4>3
      <3> QED BY <3>1, <3>2, <3>3
    <2> QED BY <2>1, <2>2 DEF Assistant!ApprovalIsSound
  <1>6. FiledSound' /\ FiledOnce' BY DEF Unraced, FiledSound, FiledOnce
  <1> QED BY <1>2, <1>3, <1>4, <1>5, <1>6 DEF Unraced

\* A call that begins is of the draft the page is about, and disturbs none under way.
LEMMA CallBegins ==
    ASSUME Assistant!Shapes, Unraced, NEW s \in Slots, NEW c, job' = [job EXCEPT ![s] = c],
           job[s].pc = "free", c.pc = "sent", c.draft = s2.draft, c.shown = s2.previewed,
           s2'.draft = s2.draft, s2'.previewed = s2.previewed, s3' = s3, s4' = s4,
           c.kind = "approve" => /\ s2.draft # 0 /\ Assistant!Accepted(s2.previewed)
                                 /\ ~Assistant!Busy({"approve", "recheck", "cancel"}),
           c.kind = "recheck" => ~Assistant!Busy({"approve", "recheck"}),
           c.kind = "cancel" => ~Assistant!Busy({"approve"})
    PROVE  Unraced'
  <1>t. job \in [Slots -> Assistant!Jobs] BY AssistantTypes
  <1>1. job'[s] = c /\ \A u \in Slots \ {s} : job'[u] = job[u] BY <1>t
  <1>2. Assistant!Serial'
    <2> SUFFICES ASSUME NEW u \in Slots, NEW v \in Slots, u # v, job'[u].kind \in {"approve", "recheck"}
                 PROVE  job'[v].kind \notin {"approve", "recheck"}
                            \cup (IF job'[u].kind = "approve" THEN {"cancel"} ELSE {})
      BY DEF Assistant!Serial
    <2>1. CASE u = s BY <1>1, <2>1 DEF Assistant!Busy
    <2>2. CASE v = s BY <1>1, <2>2 DEF Assistant!Busy
    <2>3. CASE u # s /\ v # s BY <1>1, <2>3 DEF Unraced, Assistant!Serial
    <2> QED BY <2>1, <2>2, <2>3
  <1>3. Assistant!FreshIsUnknown' BY <1>1 DEF Unraced, Assistant!FreshIsUnknown
  <1>4. Assistant!PreviewIsOfDraft' BY <1>1 DEF Unraced, Assistant!PreviewIsOfDraft
  <1>5. Assistant!ApprovalIsSound'
    <2>1. ASSUME NEW u \in Slots, job'[u].kind = "approve"
          PROVE  /\ Assistant!Accepted(job'[u].shown) /\ s3'[job'[u].draft].mapping = job'[u].shown
                 /\ job'[u].pc \in {"read", "file"} =>
                       /\ job'[u].mapping = job'[u].shown
                       /\ \A i \in DOMAIN s4' : s4'[i].draft # job'[u].draft
      <3>1. CASE u # s BY <1>1, <2>1, <3>1 DEF Unraced, Assistant!ApprovalIsSound
      <3>2. CASE u = s
        <4>1. \A v \in Slots : ~(job[v].kind = "recheck" /\ job[v].pc = "answer")
          BY <1>1, <2>1, <3>2 DEF Assistant!Busy
        <4>2. s3[s2.draft].mapping = s2.previewed
          BY <1>1, <2>1, <3>2, <4>1 DEF Unraced, Assistant!PreviewIsOfDraft
        <4> QED BY <1>1, <2>1, <3>2, <4>2
      <3> QED BY <3>1, <3>2
    <2>2. ASSUME NEW i \in DOMAIN s4'
          PROVE  /\ s4'[i].draft \in DOMAIN s3'
                 /\ \/ s3'[s4'[i].draft].status # "PENDING"
                    \/ \E u \in Slots : job'[u].pc = "mark" /\ job'[u].draft = s4'[i].draft
      <3>1. /\ s4[i].draft \in DOMAIN s3
            /\ \/ s3[s4[i].draft].status # "PENDING"
               \/ \E u \in Slots : job[u].pc = "mark" /\ job[u].draft = s4[i].draft
        BY <2>2 DEF Unraced, Assistant!ApprovalIsSound
      <3> QED BY <1>1, <3>1
    <2> QED BY <2>1, <2>2 DEF Assistant!ApprovalIsSound
  <1>6. FiledSound' /\ FiledOnce' BY DEF Unraced, FiledSound, FiledOnce
  <1> QED BY <1>2, <1>3, <1>4, <1>5, <1>6 DEF Unraced

\* A call that moves on, with the draft it found, and has not filed it.
LEMMA CallMoves ==
    ASSUME Assistant!Shapes, Unraced, NEW s \in Slots, NEW c, job' = [job EXCEPT ![s] = c],
           job[s].pc \in {"sent", "read"}, c.pc \in {"read", "file"},
           c.kind = job[s].kind, c.draft = job[s].draft, c.shown = job[s].shown,
           s2' = s2, s3' = s3, s4' = s4,
           c.kind = "approve" => c.mapping = c.shown /\ \A i \in DOMAIN s4 : s4[i].draft # c.draft
    PROVE  Unraced'
  <1>t. job \in [Slots -> Assistant!Jobs] BY AssistantTypes
  <1>1. job'[s] = c /\ \A u \in Slots \ {s} : job'[u] = job[u] BY <1>t
  <1>2. Assistant!Serial' BY <1>1 DEF Unraced, Assistant!Serial
  <1>3. Assistant!FreshIsUnknown' BY <1>1 DEF Unraced, Assistant!FreshIsUnknown
  <1>4. Assistant!PreviewIsOfDraft' BY <1>1 DEF Unraced, Assistant!PreviewIsOfDraft
  <1>5. Assistant!ApprovalIsSound' BY <1>1 DEF Unraced, Assistant!ApprovalIsSound
  <1>6. FiledSound' /\ FiledOnce' BY DEF Unraced, FiledSound, FiledOnce
  <1> QED BY <1>2, <1>3, <1>4, <1>5, <1>6 DEF Unraced

\* Edits on the page, a page started over and a verdict of the ingestion.
LEMMA CallsRest ==
    ASSUME Assistant!Shapes, Unraced, job' = job, s3' = s3,
           \/ s2'.draft = s2.draft /\ s2'.previewed = s2.previewed
           \/ s2'.draft = 0,
           DOMAIN s4' = DOMAIN s4,
           \A i \in DOMAIN s4 : /\ s4'[i].draft = s4[i].draft /\ s4'[i].mapping = s4[i].mapping
                                /\ s4'[i].shown = s4[i].shown
    PROVE  Unraced'
  <1>t. \A u \in Slots : job[u].pc = "answer" => job[u].draft # 0 BY DEF Assistant!Shapes
  <1>1. Assistant!Serial' BY DEF Unraced, Assistant!Serial
  <1>2. Assistant!FreshIsUnknown' BY <1>t DEF Unraced, Assistant!FreshIsUnknown
  <1>3. Assistant!PreviewIsOfDraft' BY DEF Unraced, Assistant!PreviewIsOfDraft
  <1>4. Assistant!ApprovalIsSound' BY DEF Unraced, Assistant!ApprovalIsSound
  <1>5. FiledSound' /\ FiledOnce' BY DEF Unraced, FiledSound, FiledOnce
  <1> QED BY <1>1, <1>2, <1>3, <1>4, <1>5 DEF Unraced

\* The four calls the page starts.
LEMMA AssistantClicks ==
    ASSUME Assistant!IInv, ~overlapped, ~spent, NEW s \in Slots,
           \/ Assistant!AnalyzeClick(s) \/ Assistant!RecheckClick(s)
           \/ Assistant!ApproveClick(s) \/ Assistant!CancelCall(s)
    PROVE  Assistant!Shapes' /\ (overlapped' \/ spent' \/ Unraced')
  <1>t. Assistant!Shapes /\ Unraced BY UnracedIs
  <1>f. /\ s1 \in 0..MaxTime /\ s2 \in Assistant!Pages /\ s2.draft <= Len(s3) /\ s2.draft \in Nat
        /\ (s2.view = "pick" <=> s2.draft = 0)
        /\ s3 \in Seq(Assistant!Rows) /\ Len(s3) \in Nat /\ s4 \in Seq(Assistant!Filings)
    BY <1>t, AssistantTypes
  <1>1. PICK kind \in {"analyze", "recheck", "approve", "cancel"} :
            /\ Assistant!Start(s, kind, s2.mapping, s2.previewed)
            /\ s2' = s2 \/ \E b \in {"analyze", "recheck", "approve"} : s2' = [s2 EXCEPT !.busy = b]
            /\ s1' = s1 /\ s3' = s3 /\ s4' = s4
            /\ kind # "analyze" => s2.draft # 0
            /\ kind = "approve" => Assistant!Accepted(s2.previewed)
            /\ kind = "approve" /\ ~overlapped' => ~Assistant!Busy({"approve", "recheck", "cancel"})
            /\ kind = "recheck" /\ ~overlapped' => ~Assistant!Busy({"approve", "recheck"})
            /\ kind = "cancel" /\ ~overlapped' => ~Assistant!Busy({"approve"})
    <2>1. CASE Assistant!AnalyzeClick(s)
      <3>1. /\ Assistant!Start(s, "analyze", s2.mapping, s2.previewed)
            /\ s2' = [s2 EXCEPT !.busy = "analyze"] /\ s1' = s1 /\ s3' = s3 /\ s4' = s4
        BY <2>1 DEF Assistant!AnalyzeClick
      <3> QED BY <3>1
    <2>2. CASE Assistant!RecheckClick(s)
      <3>1. /\ Assistant!Start(s, "recheck", s2.mapping, s2.previewed) /\ s2.view = "review"
            /\ s2' = [s2 EXCEPT !.busy = "recheck"] /\ s1' = s1 /\ s3' = s3 /\ s4' = s4
            /\ overlapped' = (overlapped \/ Assistant!Busy({"approve", "recheck"}))
        BY <2>2 DEF Assistant!RecheckClick
      <3> QED BY <1>f, <3>1
    <2>3. CASE Assistant!ApproveClick(s)
      <3>1. /\ Assistant!Start(s, "approve", s2.mapping, s2.previewed) /\ s2.view = "review"
            /\ s2' = [s2 EXCEPT !.busy = "approve"] /\ s1' = s1 /\ s3' = s3 /\ s4' = s4
            /\ Assistant!Accepted(s2.previewed)
            /\ overlapped' = (overlapped \/ Assistant!Busy({"approve", "recheck", "cancel"}))
        BY <2>3 DEF Assistant!ApproveClick
      <3> QED BY <1>f, <3>1
    <2>4. CASE Assistant!CancelCall(s)
      <3>1. /\ Assistant!Start(s, "cancel", s2.mapping, s2.previewed) /\ s2.draft # 0
            /\ s2' = s2 /\ s1' = s1 /\ s3' = s3 /\ s4' = s4
            /\ overlapped' = (overlapped \/ Assistant!Busy({"approve"}))
        BY <2>4 DEF Assistant!CancelCall
      <3> QED BY <3>1
    <2> QED BY <2>1, <2>2, <2>3, <2>4
  <1> DEFINE c == [kind |-> kind, pc |-> "sent", draft |-> s2.draft, mapping |-> s2.mapping,
                   shown |-> s2.previewed]
  <1>2. job[s].pc = "free" /\ job' = [job EXCEPT ![s] = c] BY <1>1 DEF Assistant!Start
  <1>3. /\ c \in Assistant!Jobs /\ c.pc = "sent" /\ c.kind = kind /\ c.draft = s2.draft
        /\ c.shown = s2.previewed
    BY <1>f DEF Assistant!Jobs, Assistant!Pages
  <1> HIDE DEF c
  <1>4. CallFits(c) BY <1>1, <1>3 DEF CallFits
  <1>5. s2' \in Assistant!Pages /\ s2'.draft = s2.draft /\ s2'.previewed = s2.previewed /\ s2'.view = s2.view
    BY <1>f, <1>1 DEF Assistant!Pages
  <1>a. /\ c.draft <= Len(s3') /\ s3' \in Seq(Assistant!Rows) /\ Len(s3) <= Len(s3')
        /\ s2'.draft <= Len(s3') /\ s4' \in Seq(Assistant!Filings) /\ s1' \in 0..MaxTime
        /\ (s2'.view = "pick" <=> s2'.draft = 0)
    BY <1>f, <1>1, <1>3, <1>5
  <1>6. Assistant!Shapes' BY <1>t, <1>2, <1>3, <1>4, <1>5, <1>a, ShapesMove
  <1>7. ASSUME ~overlapped' PROVE Unraced'
    BY <1>t, <1>1, <1>2, <1>3, <1>5, <1>7, CallBegins
  <1> QED BY <1>6, <1>7

\* A call is over.
LEMMA AnswerGiven ==
    ASSUME Assistant!Shapes, NEW s \in Slots, NEW p \in Assistant!Pages, Assistant!Answer(s, p),
           p.draft <= Len(s3'), p.view = "pick" <=> p.draft = 0,
           s3' \in Seq(Assistant!Rows), Len(s3) <= Len(s3'), s1' = s1, s4' = s4
    PROVE  /\ Assistant!Shapes' /\ job' = [job EXCEPT ![s] = Assistant!Free]
           /\ s2'.draft = p.draft /\ s2'.previewed = p.previewed
  <1>1. job' = [job EXCEPT ![s] = Assistant!Free] /\ s2' = [p EXCEPT !.busy = "none"]
    BY DEF Assistant!Answer
  <1>2. s2' \in Assistant!Pages /\ s2'.draft = p.draft /\ s2'.previewed = p.previewed /\ s2'.view = p.view
    BY <1>1 DEF Assistant!Pages
  <1>3. Assistant!Free.draft <= Len(s3') BY FreeFits, LenProperties
  <1>4. s1 \in 0..MaxTime /\ s4 \in Seq(Assistant!Filings) BY AssistantTypes
  <1>5. Assistant!Shapes' BY <1>1, <1>2, <1>3, <1>4, FreeFits, ShapesMove
  <1> QED BY <1>1, <1>2, <1>5

\* A row of a draft is updated in place.
LEMMA DraftUpdated ==
    ASSUME Assistant!Shapes, NEW d \in DOMAIN s3, NEW row \in Assistant!Rows, s3' = [s3 EXCEPT ![d] = row]
    PROVE  /\ s3' \in Seq(Assistant!Rows) /\ Len(s3') = Len(s3) /\ DOMAIN s3' = DOMAIN s3 /\ s3'[d] = row
           /\ \A e \in DOMAIN s3 : e # d => s3'[e] = s3[e]
  <1>1. s3 \in Seq(Assistant!Rows) /\ d \in 1..Len(s3) BY AssistantTypes
  <1>2. [s3 EXCEPT ![d] = row] \in Seq(Assistant!Rows) BY <1>1, ExceptSeq
  <1>3. Len([s3 EXCEPT ![d] = row]) = Len(s3) BY <1>1, ExceptSeq
  <1> QED BY <1>1, <1>2, <1>3

\* The calls that end with nothing new to show.
LEMMA AssistantEnds ==
    ASSUME Assistant!IInv, ~overlapped, ~spent, NEW s \in Slots,
           Assistant!ApproveMark(s) \/ Assistant!Cancel(s) \/ Assistant!Fail(s)
    PROVE  Assistant!Shapes' /\ (overlapped' \/ spent' \/ Unraced')
  <1>t. Assistant!Shapes /\ Unraced BY UnracedIs
  <1>f. /\ s1 \in 0..MaxTime /\ s2 \in Assistant!Pages /\ s2.draft <= Len(s3) /\ s2.draft \in Nat
        /\ (s2.view = "pick" <=> s2.draft = 0)
        /\ s3 \in Seq(Assistant!Rows) /\ Len(s3) \in Nat /\ DOMAIN s3 = 1..Len(s3)
        /\ s4 \in Seq(Assistant!Filings) /\ Len(s4) \in Nat
        /\ job[s] \in Assistant!Jobs /\ job[s].draft \in 0..Len(s3) /\ CallFits(job[s])
    BY <1>t, AssistantTypes DEF Assistant!Shapes, CallFits
  <1>1. CASE Assistant!Fail(s)
    <2>1. /\ Assistant!Answer(s, s2) /\ s1' = s1 /\ s3' = s3 /\ s4' = s4
          /\ spent' = (spent \/ job[s].pc \in {"mark", "answer"})
      BY <1>1 DEF Assistant!Fail
    <2>2. s3' \in Seq(Assistant!Rows) /\ Len(s3) <= Len(s3') /\ s2.draft <= Len(s3') BY <1>f, <2>1
    <2>3. /\ Assistant!Shapes' /\ job' = [job EXCEPT ![s] = Assistant!Free]
          /\ s2'.draft = s2.draft /\ s2'.previewed = s2.previewed
      BY <1>t, <1>f, <2>1, <2>2, AnswerGiven
    <2>4. ASSUME ~spent' PROVE Unraced' BY <1>t, <2>1, <2>3, <2>4, CallQuits
    <2> QED BY <2>3, <2>4
  <1>2. CASE Assistant!ApproveMark(s)
    <2> DEFINE d == job[s].draft
               row == [s3[d] EXCEPT !.status = "APPROVED", !.filed = Len(s4)]
    <2>1. job[s].pc = "mark" /\ Assistant!Answer(s, s2) /\ s1' = s1 /\ s4' = s4 BY <1>2 DEF Assistant!ApproveMark
    <2>2. d \in DOMAIN s3 /\ s3[d] \in Assistant!Rows
      <3>1. d # 0 BY <1>f, <2>1 DEF CallFits
      <3>2. d \in DOMAIN s3 BY <1>f, <3>1
      <3> QED BY <1>t, <3>2, AssistantTypes
    <2>3. s3' = [s3 EXCEPT ![d] = row] BY <1>2, <1>f, <2>2 DEF Assistant!ApproveMark
    <2>4. row \in Assistant!Rows /\ row.mapping = s3[d].mapping /\ row.status = "APPROVED"
      <3> HIDE DEF d
      <3> QED BY <1>f, <2>2 DEF Assistant!Rows
    <2>5. PICK e, r : e = d /\ r = row OBVIOUS
    <2>6. /\ s3' \in Seq(Assistant!Rows) /\ Len(s3') = Len(s3) /\ DOMAIN s3' = DOMAIN s3 /\ s3'[e] = r
          /\ \A x \in DOMAIN s3 : x # e => s3'[x] = s3[x]
      <3>1. e \in DOMAIN s3 /\ r \in Assistant!Rows /\ s3' = [s3 EXCEPT ![e] = r] BY <2>2, <2>3, <2>4, <2>5
      <3> QED BY <1>t, <3>1, DraftUpdated
    <2>7. Len(s3) <= Len(s3') /\ s2.draft <= Len(s3') BY <1>f, <2>6
    <2>8. /\ Assistant!Shapes' /\ job' = [job EXCEPT ![s] = Assistant!Free]
          /\ s2'.draft = s2.draft /\ s2'.previewed = s2.previewed
      BY <1>t, <1>f, <2>1, <2>6, <2>7, AnswerGiven
    <2>9. r.mapping = s3[e].mapping /\ r.status = "APPROVED" BY <2>4, <2>5
    <2>10. \A x \in DOMAIN s3 : /\ s3'[x].mapping = s3[x].mapping
                                /\ s3[x].status # "PENDING" => s3'[x].status # "PENDING"
      BY <2>6, <2>9
    <2>11. s3'[job[s].draft].status # "PENDING" BY <2>5, <2>6, <2>9
    <2> HIDE DEF d, row
    <2>12. Unraced' BY <1>t, <2>1, <2>6, <2>8, <2>10, <2>11, CallQuits
    <2> QED BY <2>8, <2>12
  <1>3. CASE Assistant!Cancel(s)
    <2> DEFINE d == job[s].draft
               row == [s3[d] EXCEPT !.status = "CANCELLED"]
    <2>1. /\ job[s].kind = "cancel" /\ job[s].pc = "read" /\ s1' = s1 /\ s2' = s2 /\ s4' = s4
          /\ job' = [job EXCEPT ![s] = Assistant!Free]
      BY <1>3 DEF Assistant!Cancel
    <2>2. d \in DOMAIN s3 /\ s3[d] \in Assistant!Rows
      <3>1. d # 0 BY <1>f, <2>1 DEF CallFits
      <3>2. d \in DOMAIN s3 BY <1>f, <3>1
      <3> QED BY <1>t, <3>2, AssistantTypes
    <2>3. s3' = [s3 EXCEPT ![d] = row] BY <1>3, <1>f, <2>2 DEF Assistant!Cancel
    <2>4. row \in Assistant!Rows /\ row.mapping = s3[d].mapping /\ row.status = "CANCELLED"
      <3> HIDE DEF d
      <3> QED BY <2>2 DEF Assistant!Rows
    <2>5. PICK e, r : e = d /\ r = row OBVIOUS
    <2>6. /\ s3' \in Seq(Assistant!Rows) /\ Len(s3') = Len(s3) /\ DOMAIN s3' = DOMAIN s3 /\ s3'[e] = r
          /\ \A x \in DOMAIN s3 : x # e => s3'[x] = s3[x]
      <3>1. e \in DOMAIN s3 /\ r \in Assistant!Rows /\ s3' = [s3 EXCEPT ![e] = r] BY <2>2, <2>3, <2>4, <2>5
      <3> QED BY <1>t, <3>1, DraftUpdated
    <2>7. r.mapping = s3[e].mapping /\ r.status = "CANCELLED" BY <2>4, <2>5
    <2>8. \A x \in DOMAIN s3 : /\ s3'[x].mapping = s3[x].mapping
                               /\ s3[x].status # "PENDING" => s3'[x].status # "PENDING"
      BY <2>6, <2>7
    <2> HIDE DEF d, row
    <2>9. Len(s3) <= Len(s3') /\ s2'.draft <= Len(s3') /\ Assistant!Free.draft <= Len(s3')
          /\ s1' \in 0..MaxTime
      BY <1>f, <2>1, <2>6, FreeFits
    <2>10. Assistant!Shapes' BY <1>t, <1>f, <2>1, <2>6, <2>9, FreeFits, ShapesMove
    <2>11. Unraced' BY <1>t, <2>1, <2>6, <2>8, CallQuits
    <2> QED BY <2>10, <2>11
  <1> QED BY <1>1, <1>2, <1>3

\* The draft a call found open has not been filed, and no other approval is at it.
LEMMA OpenIsUnfiled ==
    ASSUME Assistant!Shapes, Unraced, NEW s \in Slots, job[s].kind = "approve", job[s].pc = "sent",
           s3[job[s].draft].status = "PENDING", NEW i \in DOMAIN s4
    PROVE  s4[i].draft # job[s].draft
  <1> SUFFICES ASSUME s4[i].draft = job[s].draft PROVE FALSE OBVIOUS
  <1>1. PICK u \in Slots : job[u].pc = "mark" /\ job[u].draft = s4[i].draft
    BY DEF Unraced, Assistant!ApprovalIsSound
  <1>2. job[u].kind = "approve" /\ u # s BY <1>1 DEF Assistant!Shapes
  <1> QED BY <1>2 DEF Unraced, Assistant!Serial

\* The steps of a call that read: its draft, and the gate of the upload.
LEMMA AssistantReads ==
    ASSUME Assistant!IInv, ~overlapped, ~spent, NEW s \in Slots,
           Assistant!GetDraft(s) \/ Assistant!ApproveGate(s)
    PROVE  Assistant!Shapes' /\ (overlapped' \/ spent' \/ Unraced')
  <1>t. Assistant!Shapes /\ Unraced BY UnracedIs
  <1>f. /\ s1 \in 0..MaxTime /\ s2 \in Assistant!Pages /\ s2.draft <= Len(s3) /\ s2.draft \in Nat
        /\ (s2.view = "pick" <=> s2.draft = 0)
        /\ s3 \in Seq(Assistant!Rows) /\ Len(s3) \in Nat /\ DOMAIN s3 = 1..Len(s3)
        /\ s4 \in Seq(Assistant!Filings) /\ job \in [Slots -> Assistant!Jobs]
        /\ job[s] \in Assistant!Jobs /\ job[s].draft \in 0..Len(s3) /\ CallFits(job[s])
    BY <1>t, AssistantTypes DEF Assistant!Shapes, CallFits
  <1>1. s1' = s1 /\ s3' = s3 /\ s4' = s4 BY DEF Assistant!GetDraft, Assistant!ApproveGate
  \* The call is refused.
  <1>2. CASE Assistant!Answer(s, s2) /\ job[s].pc # "answer" /\ job[s].pc # "mark"
    <2>1. /\ Assistant!Shapes' /\ job' = [job EXCEPT ![s] = Assistant!Free]
          /\ s2'.draft = s2.draft /\ s2'.previewed = s2.previewed
      BY <1>t, <1>f, <1>1, <1>2, AnswerGiven
    <2>2. Unraced' BY <1>t, <1>1, <1>2, <2>1, CallQuits
    <2> QED BY <2>1, <2>2
  \* It goes on.
  <1>3. ASSUME NEW c \in Assistant!Jobs, job' = [job EXCEPT ![s] = c], s2' = s2,
               job[s].pc \in {"sent", "read"}, c.pc \in {"read", "file"}, c.kind = job[s].kind,
               c.draft = job[s].draft, c.shown = job[s].shown,
               c.kind \in {"recheck", "approve", "cancel"}, c.pc = "file" => c.kind = "approve",
               c.kind = "approve" => c.mapping = c.shown /\ \A i \in DOMAIN s4 : s4[i].draft # c.draft
        PROVE  Assistant!Shapes' /\ Unraced'
    <2>1. CallFits(c) BY <1>f, <1>3 DEF CallFits
    <2>2. c.draft <= Len(s3') /\ Len(s3) <= Len(s3') /\ s2'.draft <= Len(s3') BY <1>f, <1>1, <1>3
    <2>3. Assistant!Shapes' BY <1>t, <1>f, <1>1, <1>3, <2>1, <2>2, ShapesMove
    <2>4. Unraced' BY <1>t, <1>1, <1>3, CallMoves
    <2> QED BY <2>3, <2>4
  <1>4. CASE Assistant!GetDraft(s)
    <2>1. job[s].pc = "sent" /\ job[s].kind \in {"recheck", "approve", "cancel"} BY <1>4 DEF Assistant!GetDraft
    <2>2. CASE ~Assistant!Open(s3[job[s].draft])
      <3>1. Assistant!Answer(s, s2) BY <1>4, <2>2 DEF Assistant!GetDraft
      <3> QED BY <1>2, <2>1, <3>1
    <2>3. CASE Assistant!Open(s3[job[s].draft])
      <3> DEFINE m == IF job[s].kind = "approve" THEN s3[job[s].draft].mapping ELSE job[s].mapping
                 c == [job[s] EXCEPT !.pc = "read", !.mapping = m]
      <3>1. job' = [job EXCEPT ![s] = c] /\ s2' = s2
        BY <1>4, <1>f, <2>3 DEF Assistant!GetDraft
      <3>2. job[s].draft \in DOMAIN s3
        <4>1. job[s].draft # 0 BY <1>f, <2>1 DEF CallFits
        <4> QED BY <1>f, <4>1
      <3>3. m \in Assistant!Mappings
        <4>1. s3[job[s].draft] \in Assistant!Rows BY <1>t, <3>2, AssistantTypes
        <4> QED BY <1>f, <4>1 DEF Assistant!Rows, Assistant!Jobs
      <3>4. job[s].kind = "approve" => m = job[s].shown
        BY <1>t DEF Unraced, Assistant!ApprovalIsSound
      <3>5. job[s].kind = "approve" => \A i \in DOMAIN s4 : s4[i].draft # job[s].draft
        BY <1>t, <2>1, <2>3, OpenIsUnfiled DEF Assistant!Open
      <3> HIDE DEF m
      <3>6. /\ c \in Assistant!Jobs /\ c.pc = "read" /\ c.kind = job[s].kind /\ c.draft = job[s].draft
            /\ c.shown = job[s].shown /\ c.mapping = m
        BY <1>f, <3>3 DEF Assistant!Jobs
      <3> HIDE DEF c
      <3> QED BY <1>3, <2>1, <3>1, <3>4, <3>5, <3>6
    <2> QED BY <2>2, <2>3
  <1>5. CASE Assistant!ApproveGate(s)
    <2>1. job[s].pc = "read" /\ job[s].kind = "approve" BY <1>5 DEF Assistant!ApproveGate
    <2>2. CASE Assistant!Standing # {}
      <3>1. Assistant!Answer(s, s2) BY <1>5, <2>2 DEF Assistant!ApproveGate
      <3> QED BY <1>2, <2>1, <3>1
    <2>3. CASE Assistant!Standing = {}
      <3> DEFINE c == [job[s] EXCEPT !.pc = "file"]
      <3>1. job' = [job EXCEPT ![s] = c] /\ s2' = s2
        BY <1>5, <1>f, <2>3 DEF Assistant!ApproveGate
      <3>2. /\ c \in Assistant!Jobs /\ c.pc = "file" /\ c.kind = job[s].kind /\ c.draft = job[s].draft
            /\ c.shown = job[s].shown /\ c.mapping = job[s].mapping
        BY <1>f DEF Assistant!Jobs
      <3> HIDE DEF c
      <3>3. job[s].mapping = job[s].shown /\ \A i \in DOMAIN s4 : s4[i].draft # job[s].draft
        BY <1>t, <2>1 DEF Unraced, Assistant!ApprovalIsSound
      <3> QED BY <1>3, <2>1, <3>1, <3>2, <3>3
    <2> QED BY <2>2, <2>3
  <1> QED BY <1>4, <1>5

\* A new draft, with the preview of it on its way to the page.
LEMMA AssistantAnalyzes ==
    ASSUME Assistant!IInv, ~overlapped, ~spent, NEW s \in Slots, Assistant!Analyze(s)
    PROVE  Assistant!Shapes' /\ Unraced'
  <1>t. Assistant!Shapes /\ Unraced BY UnracedIs
  <1>f. /\ s1 \in 0..MaxTime /\ s2 \in Assistant!Pages /\ s2.draft \in 0..Len(s3)
        /\ (s2.view = "pick" <=> s2.draft = 0) /\ Ttl \in Nat
        /\ s3 \in Seq(Assistant!Rows) /\ Len(s3) \in Nat /\ DOMAIN s3 = 1..Len(s3)
        /\ s4 \in Seq(Assistant!Filings) /\ job \in [Slots -> Assistant!Jobs]
        /\ \A u \in Slots : job[u] \in Assistant!Jobs /\ job[u].draft \in 0..Len(s3) /\ CallFits(job[u])
    BY <1>t, AssistantTypes DEF Assistant!Shapes, CallFits
  <1>1. PICK proposal \in Assistant!Mappings :
            /\ s3' = Append(s3, [status |-> "PENDING", mapping |-> Assistant!Resolve(proposal),
                                 expiresAt |-> s1 + Ttl, filed |-> 0])
            /\ job' = [job EXCEPT ![s].pc = "answer", ![s].draft = Len(s3) + 1,
                                  ![s].mapping = Assistant!Resolve(proposal)]
    BY DEF Assistant!Analyze
  <1>2. job[s].kind = "analyze" /\ s1' = s1 /\ s2' = s2 /\ s4' = s4 BY DEF Assistant!Analyze
  <1> DEFINE m == Assistant!Resolve(proposal)
             row == [status |-> "PENDING", mapping |-> m, expiresAt |-> s1 + Ttl, filed |-> 0]
             n == Len(s3) + 1
             c == [job[s] EXCEPT !.pc = "answer", !.draft = n, !.mapping = m]
  <1>3. m \in Assistant!Mappings
    BY AssistantConstants DEF Assistant!Resolve, Assistant!Mappings, Assistant!AssistantAssumption
  <1>4. job' = [job EXCEPT ![s] = c] BY <1>1, <1>f
  <1>5. s3' = Append(s3, row) BY <1>1
  <1> HIDE DEF m
  <1>6. row \in Assistant!Rows /\ row.mapping = m BY <1>f, <1>3 DEF Assistant!Rows
  <1> HIDE DEF row
  <1>n. n \in Nat /\ n # 0 BY <1>f
  <1>7. /\ s3' \in Seq(Assistant!Rows) /\ Len(s3') = n /\ s3'[n] = row /\ DOMAIN s3' = 1..n
        /\ \A d \in DOMAIN s3 : d \in DOMAIN s3' /\ s3'[d] = s3[d]
    <2>1. /\ s3' \in Seq(Assistant!Rows) /\ Len(s3') = n /\ s3'[n] = row
          /\ \A d \in 1..Len(s3) : s3'[d] = s3[d]
      BY <1>f, <1>5, <1>6, AppendProperties
    <2>2. DOMAIN s3' = 1..n BY <2>1, LenProperties
    <2> QED BY <1>f, <2>1, <2>2
  <1>l. \A k \in 0..Len(s3) : k # n /\ k <= n BY <1>f
  <1>u. Len(s3) <= n /\ n <= n BY <1>f
  <1> HIDE DEF n
  <1>8. /\ c \in Assistant!Jobs /\ c.pc = "answer" /\ c.kind = "analyze" /\ c.draft = n
        /\ c.shown = job[s].shown /\ c.mapping = m
    BY <1>f, <1>2, <1>3, <1>n DEF Assistant!Jobs
  <1> HIDE DEF c
  <1>9. CallFits(c) BY <1>8, <1>n DEF CallFits
  <1>10. Assistant!Shapes'
    <2>1. /\ c.draft <= Len(s3') /\ Len(s3) <= Len(s3') /\ s2'.draft <= Len(s3') /\ s1' \in 0..MaxTime
          /\ s2' \in Assistant!Pages /\ (s2'.view = "pick" <=> s2'.draft = 0) /\ s4' \in Seq(Assistant!Filings)
      BY <1>f, <1>2, <1>7, <1>8, <1>l, <1>u
    <2> QED BY <1>t, <1>4, <1>7, <1>8, <1>9, <2>1, ShapesMove
  <1>11. job'[s] = c /\ \A u \in Slots \ {s} : job'[u] = job[u] BY <1>f, <1>4
  <1>12. Assistant!Serial' BY <1>t, <1>8, <1>2, <1>11 DEF Unraced, Assistant!Serial
  <1>13. Assistant!FreshIsUnknown'
    <2> SUFFICES ASSUME NEW u \in Slots, job'[u].kind = "analyze" /\ job'[u].pc = "answer"
                 PROVE  /\ job'[u].draft # s2'.draft
                        /\ \A v \in Slots \ {u} : job'[v].draft # job'[u].draft
      BY DEF Assistant!FreshIsUnknown
    <2>1. CASE u = s
      <3>1. s2.draft # n /\ \A v \in Slots : job[v].draft # n BY <1>f, <1>l
      <3> QED BY <1>2, <1>8, <1>11, <2>1, <3>1
    <2>2. CASE u # s
      <3>1. job'[u] = job[u] /\ job[u].draft # n BY <1>f, <1>l, <1>11, <2>2
      <3> QED BY <1>t, <1>2, <1>8, <1>11, <2>2, <3>1 DEF Unraced, Assistant!FreshIsUnknown
    <2> QED BY <2>1, <2>2
  <1>14. Assistant!PreviewIsOfDraft'
    <2>1. ASSUME NEW u \in Slots, job'[u].pc = "answer" PROVE s3'[job'[u].draft].mapping = job'[u].mapping
      <3>1. CASE u = s BY <1>6, <1>7, <1>8, <1>11, <3>1
      <3>2. CASE u # s
        <4>1. job'[u] = job[u] /\ job[u].draft # 0 BY <1>f, <1>11, <2>1, <3>2 DEF CallFits
        <4>2. job[u].draft \in DOMAIN s3 BY <1>f, <4>1
        <4> QED BY <1>t, <1>7, <2>1, <4>1, <4>2 DEF Unraced, Assistant!PreviewIsOfDraft
      <3> QED BY <3>1, <3>2
    <2>2. ASSUME s2'.draft # 0
          PROVE  \/ s3'[s2'.draft].mapping = s2'.previewed
                 \/ \E u \in Slots : job'[u].kind = "recheck" /\ job'[u].pc = "answer"
      <3>1. s2.draft \in DOMAIN s3 BY <1>f, <1>2, <2>2
      <3>2. \/ s3[s2.draft].mapping = s2.previewed
            \/ \E u \in Slots : job[u].kind = "recheck" /\ job[u].pc = "answer"
        BY <1>t, <1>2, <2>2 DEF Unraced, Assistant!PreviewIsOfDraft
      <3>3. CASE s3[s2.draft].mapping = s2.previewed BY <1>2, <1>7, <3>1, <3>3
      <3>4. CASE \E u \in Slots : job[u].kind = "recheck" /\ job[u].pc = "answer"
        <4>1. PICK u \in Slots : job[u].kind = "recheck" /\ job[u].pc = "answer" BY <3>4
        <4> QED BY <1>2, <1>11, <4>1
      <3> QED BY <3>2, <3>3, <3>4
    <2> QED BY <2>1, <2>2 DEF Assistant!PreviewIsOfDraft
  <1>15. Assistant!ApprovalIsSound'
    <2>1. ASSUME NEW u \in Slots, job'[u].kind = "approve"
          PROVE  /\ Assistant!Accepted(job'[u].shown) /\ s3'[job'[u].draft].mapping = job'[u].shown
                 /\ job'[u].pc \in {"read", "file"} =>
                       /\ job'[u].mapping = job'[u].shown
                       /\ \A i \in DOMAIN s4' : s4'[i].draft # job'[u].draft
      <3>1. u # s /\ job'[u] = job[u] BY <1>8, <1>11, <2>1
      <3>2. job[u].draft # 0 BY <1>f, <2>1, <3>1 DEF CallFits
      <3>3. job[u].draft \in DOMAIN s3 BY <1>f, <3>2
      <3> QED BY <1>t, <1>2, <1>7, <2>1, <3>1, <3>3 DEF Unraced, Assistant!ApprovalIsSound
    <2>2. ASSUME NEW i \in DOMAIN s4'
          PROVE  /\ s4'[i].draft \in DOMAIN s3'
                 /\ \/ s3'[s4'[i].draft].status # "PENDING"
                    \/ \E u \in Slots : job'[u].pc = "mark" /\ job'[u].draft = s4'[i].draft
      <3>1. /\ s4[i].draft \in DOMAIN s3
            /\ \/ s3[s4[i].draft].status # "PENDING"
               \/ \E u \in Slots : job[u].pc = "mark" /\ job[u].draft = s4[i].draft
        BY <1>t, <1>2, <2>2 DEF Unraced, Assistant!ApprovalIsSound
      <3>2. CASE s3[s4[i].draft].status # "PENDING" BY <1>2, <1>7, <3>1, <3>2
      <3>3. CASE \E u \in Slots : job[u].pc = "mark" /\ job[u].draft = s4[i].draft
        <4>1. PICK u \in Slots : job[u].pc = "mark" /\ job[u].draft = s4[i].draft BY <3>3
        <4>2. u # s BY <1>f, <1>2, <4>1 DEF CallFits
        <4> QED BY <1>2, <1>7, <1>11, <3>1, <4>1, <4>2
      <3> QED BY <3>1, <3>2, <3>3
    <2> QED BY <2>1, <2>2 DEF Assistant!ApprovalIsSound
  <1>16. FiledSound' /\ FiledOnce' BY <1>t, <1>2 DEF Unraced, FiledSound, FiledOnce
  <1>17. Unraced' BY <1>12, <1>13, <1>14, <1>15, <1>16 DEF Unraced
  <1> QED BY <1>10, <1>17

\* The re-checked mapping becomes the draft's, and its preview is on its way.
LEMMA AssistantRechecks ==
    ASSUME Assistant!IInv, ~overlapped, ~spent, NEW s \in Slots, Assistant!Recheck(s)
    PROVE  Assistant!Shapes' /\ Unraced'
  <1>t. Assistant!Shapes /\ Unraced BY UnracedIs
  <1>f. /\ s1 \in 0..MaxTime /\ s2 \in Assistant!Pages /\ s2.draft <= Len(s3) /\ s2.draft \in Nat
        /\ (s2.view = "pick" <=> s2.draft = 0)
        /\ s3 \in Seq(Assistant!Rows) /\ Len(s3) \in Nat /\ DOMAIN s3 = 1..Len(s3)
        /\ s4 \in Seq(Assistant!Filings) /\ job \in [Slots -> Assistant!Jobs]
        /\ \A u \in Slots : job[u] \in Assistant!Jobs /\ job[u].draft \in 0..Len(s3) /\ CallFits(job[u])
    BY <1>t, AssistantTypes DEF Assistant!Shapes, CallFits
  <1>1. job[s].kind = "recheck" /\ job[s].pc = "read" /\ s1' = s1 /\ s2' = s2 /\ s4' = s4
    BY DEF Assistant!Recheck
  <1> DEFINE c == [job[s] EXCEPT !.pc = "answer"]
  <1>2. job' = [job EXCEPT ![s] = c] BY <1>f DEF Assistant!Recheck
  <1>3. /\ c \in Assistant!Jobs /\ c.pc = "answer" /\ c.kind = "recheck" /\ c.draft = job[s].draft
        /\ c.mapping = job[s].mapping
    BY <1>f, <1>1 DEF Assistant!Jobs
  <1> HIDE DEF c
  <1>4. PICK d : d = job[s].draft OBVIOUS
  <1>5. d \in DOMAIN s3 /\ d # 0 BY <1>f, <1>1, <1>4 DEF CallFits
  <1>6. PICK row \in Assistant!Rows : /\ s3' = [s3 EXCEPT ![d] = row] /\ row.mapping = job[s].mapping
                                      /\ row.status = s3[d].status
    <2> DEFINE r == [s3[d] EXCEPT !.mapping = job[s].mapping]
    <2>1. s3' = [s3 EXCEPT ![d] = r] BY <1>4, <1>5, <1>f DEF Assistant!Recheck, Assistant!Rechecked
    <2>2. s3[d] \in Assistant!Rows /\ job[s].mapping \in Assistant!Mappings
      BY <1>t, <1>f, <1>5, AssistantTypes DEF Assistant!Jobs
    <2>3. r \in Assistant!Rows /\ r.mapping = job[s].mapping /\ r.status = s3[d].status
      BY <2>2 DEF Assistant!Rows
    <2> HIDE DEF r
    <2> QED BY <2>1, <2>3
  <1>7. /\ s3' \in Seq(Assistant!Rows) /\ Len(s3') = Len(s3) /\ DOMAIN s3' = DOMAIN s3 /\ s3'[d] = row
        /\ \A e \in DOMAIN s3 : e # d => s3'[e] = s3[e]
    BY <1>t, <1>5, <1>6, DraftUpdated
  <1>8. Assistant!Shapes'
    <2>1. CallFits(c) BY <1>3, <1>4, <1>5 DEF CallFits
    <2>2. c.draft <= Len(s3') /\ Len(s3) <= Len(s3') /\ s2'.draft <= Len(s3') /\ s1' \in 0..MaxTime
          /\ s2' \in Assistant!Pages /\ (s2'.view = "pick" <=> s2'.draft = 0) /\ s4' \in Seq(Assistant!Filings)
      BY <1>f, <1>1, <1>3, <1>7
    <2> QED BY <1>t, <1>2, <1>3, <1>7, <2>1, <2>2, ShapesMove
  <1>9. job'[s] = c /\ \A u \in Slots \ {s} : job'[u] = job[u] BY <1>f, <1>2
  <1>10. Assistant!Serial' BY <1>t, <1>1, <1>3, <1>9 DEF Unraced, Assistant!Serial
  <1>11. Assistant!FreshIsUnknown' BY <1>t, <1>1, <1>3, <1>9 DEF Unraced, Assistant!FreshIsUnknown
  <1>12. Assistant!PreviewIsOfDraft'
    <2>1. ASSUME NEW u \in Slots, job'[u].pc = "answer" PROVE s3'[job'[u].draft].mapping = job'[u].mapping
      <3>1. CASE u = s BY <1>3, <1>4, <1>6, <1>7, <1>9, <3>1
      <3>2. CASE u # s
        <4>1. job'[u] = job[u] /\ job[u].kind \in {"analyze", "recheck"} /\ job[u].draft \in DOMAIN s3
          BY <1>f, <1>9, <2>1, <3>2 DEF CallFits
        <4>2. job[u].kind = "analyze" BY <1>t, <1>1, <3>2, <4>1 DEF Unraced, Assistant!Serial
        <4>3. job[u].draft # d BY <1>t, <1>4, <2>1, <3>2, <4>1, <4>2 DEF Unraced, Assistant!FreshIsUnknown
        <4> QED BY <1>t, <1>7, <2>1, <4>1, <4>3 DEF Unraced, Assistant!PreviewIsOfDraft
      <3> QED BY <3>1, <3>2
    <2>2. job'[s].kind = "recheck" /\ job'[s].pc = "answer" BY <1>3, <1>9
    <2> QED BY <2>1, <2>2 DEF Assistant!PreviewIsOfDraft
  <1>13. Assistant!ApprovalIsSound'
    <2>1. \A u \in Slots : job'[u].kind # "approve"
      BY <1>t, <1>1, <1>3, <1>9 DEF Unraced, Assistant!Serial
    <2>2. ASSUME NEW i \in DOMAIN s4'
          PROVE  s4'[i].draft \in DOMAIN s3' /\ s3'[s4'[i].draft].status # "PENDING"
      <3>1. /\ s4[i].draft \in DOMAIN s3
            /\ \/ s3[s4[i].draft].status # "PENDING"
               \/ \E u \in Slots : job[u].pc = "mark" /\ job[u].draft = s4[i].draft
        BY <1>t, <1>1, <2>2 DEF Unraced, Assistant!ApprovalIsSound
      <3>2. \A u \in Slots : job[u].pc # "mark"
        BY <1>t, <1>f, <1>1 DEF Unraced, Assistant!Serial, CallFits
      <3> QED BY <1>1, <1>6, <1>7, <3>1, <3>2
    <2> QED BY <2>1, <2>2 DEF Assistant!ApprovalIsSound
  <1>14. FiledSound' /\ FiledOnce' BY <1>t, <1>1 DEF Unraced, FiledSound, FiledOnce
  <1>15. Unraced' BY <1>10, <1>11, <1>12, <1>13, <1>14 DEF Unraced
  <1> QED BY <1>8, <1>15

\* The preview is shown: the page is about its draft, and nothing else is.
LEMMA AssistantShows ==
    ASSUME Assistant!IInv, ~overlapped, ~spent, NEW s \in Slots, Assistant!Preview(s)
    PROVE  Assistant!Shapes' /\ Unraced'
  <1>t. Assistant!Shapes /\ Unraced BY UnracedIs
  <1>f. /\ s2 \in Assistant!Pages /\ s3 \in Seq(Assistant!Rows) /\ Len(s3) \in Nat /\ DOMAIN s3 = 1..Len(s3)
        /\ job \in [Slots -> Assistant!Jobs]
        /\ \A u \in Slots : job[u] \in Assistant!Jobs /\ job[u].draft \in 0..Len(s3) /\ CallFits(job[u])
    BY <1>t, AssistantTypes DEF Assistant!Shapes, CallFits
  <1> DEFINE p == [s2 EXCEPT !.view = "review", !.mapping = job[s].mapping,
                             !.previewed = job[s].mapping, !.draft = job[s].draft]
  <1>1. job[s].pc = "answer" /\ Assistant!Answer(s, p) /\ s1' = s1 /\ s3' = s3 /\ s4' = s4
    BY DEF Assistant!Preview
  <1>2. job[s].draft # 0 /\ job[s].draft \in DOMAIN s3 BY <1>f, <1>1 DEF CallFits
  <1>3. p \in Assistant!Pages /\ p.view = "review" /\ p.draft = job[s].draft /\ p.previewed = job[s].mapping
    <2>1. job[s].mapping \in Assistant!Mappings /\ job[s].draft \in Nat BY <1>f DEF Assistant!Jobs
    <2> QED BY <1>f, <2>1 DEF Assistant!Pages
  <1> HIDE DEF p
  <1>4. p.draft <= Len(s3') /\ Len(s3) <= Len(s3') /\ (p.view = "pick" <=> p.draft = 0)
        /\ s3' \in Seq(Assistant!Rows)
    BY <1>f, <1>1, <1>2, <1>3
  <1>5. /\ Assistant!Shapes' /\ job' = [job EXCEPT ![s] = Assistant!Free]
        /\ s2'.draft = job[s].draft /\ s2'.previewed = job[s].mapping
    BY <1>t, <1>1, <1>3, <1>4, AnswerGiven
  <1>6. job'[s] = Assistant!Free /\ \A u \in Slots \ {s} : job'[u] = job[u] BY <1>f, <1>5
  <1>7. Assistant!Serial' BY <1>t, <1>6, FreeFits DEF Unraced, Assistant!Serial
  <1>8. Assistant!FreshIsUnknown'
    <2> SUFFICES ASSUME NEW u \in Slots, job'[u].kind = "analyze" /\ job'[u].pc = "answer"
                 PROVE  /\ job'[u].draft # s2'.draft
                        /\ \A v \in Slots \ {u} : job'[v].draft # job'[u].draft
      BY DEF Assistant!FreshIsUnknown
    <2>1. u # s /\ job'[u] = job[u] BY <1>6, FreeFits
    <2>2. job[u].draft # 0 BY <1>f, <2>1 DEF CallFits
    <2> QED BY <1>t, <1>5, <1>6, <2>1, <2>2, FreeFits DEF Unraced, Assistant!FreshIsUnknown
  <1>9. Assistant!PreviewIsOfDraft'
    <2>1. s3[job[s].draft].mapping = job[s].mapping BY <1>t, <1>1 DEF Unraced, Assistant!PreviewIsOfDraft
    <2>2. \A u \in Slots : job'[u].pc = "answer" => job'[u] = job[u] BY <1>6, FreeFits
    <2> QED BY <1>t, <1>1, <1>5, <2>1, <2>2 DEF Unraced, Assistant!PreviewIsOfDraft
  <1>10. Assistant!ApprovalIsSound'
    <2>1. \A u \in Slots : job'[u].kind = "approve" => job'[u] = job[u] BY <1>6, FreeFits
    <2>2. \A u \in Slots : job[u].pc = "mark" => job'[u] = job[u] BY <1>1, <1>6
    <2> QED BY <1>t, <1>1, <2>1, <2>2 DEF Unraced, Assistant!ApprovalIsSound
  <1>11. FiledSound' /\ FiledOnce' BY <1>t, <1>1 DEF Unraced, FiledSound, FiledOnce
  <1>12. Unraced' BY <1>7, <1>8, <1>9, <1>10, <1>11 DEF Unraced
  <1> QED BY <1>5, <1>12

\* The file goes in: as it was shown, and of a draft that was not filed.
LEMMA AssistantFiles ==
    ASSUME Assistant!IInv, ~overlapped, ~spent, NEW s \in Slots, Assistant!ApproveFile(s)
    PROVE  Assistant!Shapes' /\ Unraced'
  <1>t. Assistant!Shapes /\ Unraced BY UnracedIs
  <1>f. /\ s1 \in 0..MaxTime /\ s2 \in Assistant!Pages /\ s2.draft <= Len(s3) /\ s2.draft \in Nat
        /\ (s2.view = "pick" <=> s2.draft = 0)
        /\ s3 \in Seq(Assistant!Rows) /\ Len(s3) \in Nat /\ DOMAIN s3 = 1..Len(s3)
        /\ s4 \in Seq(Assistant!Filings) /\ Len(s4) \in Nat /\ DOMAIN s4 = 1..Len(s4)
        /\ job \in [Slots -> Assistant!Jobs]
        /\ \A u \in Slots : job[u] \in Assistant!Jobs /\ job[u].draft \in 0..Len(s3) /\ CallFits(job[u])
    BY <1>t, AssistantTypes DEF Assistant!Shapes, CallFits
  <1> DEFINE c == [job[s] EXCEPT !.pc = "mark"]
             w == [status |-> "PENDING", draft |-> job[s].draft, mapping |-> job[s].mapping,
                   shown |-> job[s].shown]
  <1>1. /\ job[s].pc = "file" /\ job' = [job EXCEPT ![s] = c] /\ s4' = Append(s4, w)
        /\ s1' = s1 /\ s2' = s2 /\ s3' = s3
    BY <1>f DEF Assistant!ApproveFile
  <1>2. /\ c \in Assistant!Jobs /\ c.pc = "mark" /\ c.kind = job[s].kind /\ c.draft = job[s].draft
        /\ c.shown = job[s].shown
    BY <1>f DEF Assistant!Jobs
  <1>3. /\ w \in Assistant!Filings /\ w.draft = job[s].draft /\ w.mapping = job[s].mapping
        /\ w.shown = job[s].shown
    BY <1>f DEF Assistant!Jobs, Assistant!Filings
  <1> HIDE DEF c, w
  <1>4. job[s].kind = "approve" /\ job[s].draft \in DOMAIN s3 BY <1>f, <1>1 DEF CallFits
  <1>5. /\ Assistant!Accepted(job[s].shown) /\ s3[job[s].draft].mapping = job[s].shown
        /\ job[s].mapping = job[s].shown /\ \A i \in DOMAIN s4 : s4[i].draft # job[s].draft
    BY <1>t, <1>1, <1>4 DEF Unraced, Assistant!ApprovalIsSound
  <1>6. /\ s4' \in Seq(Assistant!Filings) /\ s4'[Len(s4) + 1] = w
        /\ \A i \in DOMAIN s4' : i \in DOMAIN s4 \/ i = Len(s4) + 1
        /\ \A i \in DOMAIN s4 : s4'[i] = s4[i]
    <2>1. /\ s4' \in Seq(Assistant!Filings) /\ Len(s4') = Len(s4) + 1 /\ s4'[Len(s4) + 1] = w
          /\ \A i \in 1..Len(s4) : s4'[i] = s4[i]
      BY <1>f, <1>1, <1>3, AppendProperties
    <2>2. DOMAIN s4' = 1..(Len(s4) + 1) BY <2>1, LenProperties
    <2> QED BY <1>f, <2>1, <2>2
  <1>7. Assistant!Shapes'
    <2>1. CallFits(c) BY <1>f, <1>2, <1>4 DEF CallFits
    <2>2. c.draft <= Len(s3') /\ Len(s3) <= Len(s3') /\ s2'.draft <= Len(s3') /\ s1' \in 0..MaxTime
      BY <1>f, <1>1, <1>2, <1>4
    <2> QED BY <1>t, <1>f, <1>1, <1>2, <1>6, <2>1, <2>2, ShapesMove
  <1>8. job'[s] = c /\ \A u \in Slots \ {s} : job'[u] = job[u] BY <1>f, <1>1
  <1>9. Assistant!Serial' BY <1>t, <1>2, <1>8 DEF Unraced, Assistant!Serial
  <1>10. Assistant!FreshIsUnknown' BY <1>t, <1>1, <1>2, <1>8 DEF Unraced, Assistant!FreshIsUnknown
  <1>11. Assistant!PreviewIsOfDraft' BY <1>t, <1>1, <1>2, <1>4, <1>8 DEF Unraced, Assistant!PreviewIsOfDraft
  <1>12. Assistant!ApprovalIsSound'
    <2>1. ASSUME NEW u \in Slots, job'[u].kind = "approve"
          PROVE  /\ Assistant!Accepted(job'[u].shown) /\ s3'[job'[u].draft].mapping = job'[u].shown
                 /\ job'[u].pc \notin {"read", "file"}
      <3>1. u = s BY <1>t, <1>4, <1>8, <2>1 DEF Unraced, Assistant!Serial
      <3> QED BY <1>1, <1>2, <1>5, <1>8, <3>1
    <2>2. ASSUME NEW i \in DOMAIN s4'
          PROVE  /\ s4'[i].draft \in DOMAIN s3'
                 /\ \/ s3'[s4'[i].draft].status # "PENDING"
                    \/ \E u \in Slots : job'[u].pc = "mark" /\ job'[u].draft = s4'[i].draft
      <3>1. CASE i = Len(s4) + 1 BY <1>1, <1>2, <1>3, <1>4, <1>6, <1>8, <3>1
      <3>2. CASE i \in DOMAIN s4
        <4>1. /\ s4[i].draft \in DOMAIN s3 /\ s4'[i] = s4[i]
              /\ \/ s3[s4[i].draft].status # "PENDING"
                 \/ \E u \in Slots : job[u].pc = "mark" /\ job[u].draft = s4[i].draft
          BY <1>t, <1>6, <3>2 DEF Unraced, Assistant!ApprovalIsSound
        <4>2. \A u \in Slots : job[u].pc = "mark" => job'[u] = job[u] BY <1>1, <1>8
        <4> QED BY <1>1, <4>1, <4>2
      <3> QED BY <1>6, <2>2, <3>1, <3>2
    <2> QED BY <2>1, <2>2 DEF Assistant!ApprovalIsSound
  <1>13. FiledSound' BY <1>t, <1>3, <1>5, <1>6 DEF Unraced, FiledSound
  <1>14. FiledOnce'
    <2> SUFFICES ASSUME NEW i \in DOMAIN s4', NEW k \in DOMAIN s4', s4'[i].draft = s4'[k].draft PROVE i = k
      BY DEF FiledOnce
    <2>1. CASE i \in DOMAIN s4 /\ k \in DOMAIN s4 BY <1>t, <1>6, <2>1 DEF Unraced, FiledOnce
    <2>2. CASE i = Len(s4) + 1 /\ k \in DOMAIN s4 BY <1>3, <1>5, <1>6, <2>2
    <2>3. CASE i \in DOMAIN s4 /\ k = Len(s4) + 1 BY <1>3, <1>5, <1>6, <2>3
    <2> QED BY <1>6, <2>1, <2>2, <2>3
  <1>15. Unraced' BY <1>9, <1>10, <1>11, <1>12, <1>13, <1>14 DEF Unraced
  <1> QED BY <1>7, <1>15

\* What no call does: edits, a page started over, verdicts, and time.
LEMMA AssistantRests ==
    ASSUME Assistant!IInv, ~overlapped, ~spent,
           \/ \E h \in Headers, f \in Fields \cup {Assistant!Ignored} : Assistant!SetTarget(h, f)
           \/ \E i \in 1..MaxDrafts : Assistant!Ingest(i)
           \/ Assistant!Reset \/ Assistant!Tick
    PROVE  Assistant!Shapes' /\ Unraced'
  <1>t. Assistant!Shapes /\ Unraced BY UnracedIs
  <1>f. /\ s1 \in 0..MaxTime /\ MaxTime \in Nat /\ s2 \in Assistant!Pages /\ s2.draft \in 0..Len(s3)
        /\ (s2.view = "pick" <=> s2.draft = 0) /\ Len(s3) \in Nat
        /\ s4 \in Seq(Assistant!Filings) /\ Len(s4) \in Nat /\ DOMAIN s4 = 1..Len(s4)
    BY <1>t, AssistantTypes
  <1>1. ASSUME s2' \in Assistant!Pages, s2'.view = "pick" <=> s2'.draft = 0,
               \/ s2'.draft = s2.draft /\ s2'.previewed = s2.previewed
               \/ s2'.draft = 0,
               job' = job, s3' = s3, s1' \in 0..MaxTime, s4' \in Seq(Assistant!Filings),
               DOMAIN s4' = DOMAIN s4,
               \A i \in DOMAIN s4 : /\ s4'[i].draft = s4[i].draft /\ s4'[i].mapping = s4[i].mapping
                                    /\ s4'[i].shown = s4[i].shown
        PROVE  Assistant!Shapes' /\ Unraced'
    <2>1. s2'.draft \in 0..Len(s3') BY <1>f, <1>1
    <2>2. s2'.view \in {"pick", "review"} /\ s2'.mapping \in Assistant!Mappings
          /\ s2'.previewed \in Assistant!Mappings
      BY <1>1 DEF Assistant!Pages
    <2>3. Assistant!TypeOK' BY <1>t, <1>1, <2>1, <2>2 DEF Assistant!Shapes, Assistant!TypeOK
    <2>4. Assistant!Shapes' BY <1>t, <1>1, <2>3 DEF Assistant!Shapes
    <2>5. Unraced' BY <1>t, <1>1, CallsRest
    <2> QED BY <2>4, <2>5
  <1>2. ASSUME NEW h \in Headers, NEW f \in Fields \cup {Assistant!Ignored}, Assistant!SetTarget(h, f)
        PROVE  Assistant!Shapes' /\ Unraced'
    <2>1. /\ job' = job /\ s3' = s3 /\ s1' = s1 /\ s4' = s4
          /\ s2' = [s2 EXCEPT !.mapping[h] = f, !.edits = @ + 1]
      BY <1>2 DEF Assistant!SetTarget
    <2>2. s2' = [s2 EXCEPT !.mapping = [s2.mapping EXCEPT ![h] = f], !.edits = s2.edits + 1]
      BY <1>f, <2>1 DEF Assistant!Pages
    <2>3. PICK m, n : m = [s2.mapping EXCEPT ![h] = f] /\ n = s2.edits + 1 OBVIOUS
    <2>4. m \in Assistant!Mappings /\ n \in Nat
      <3>1. s2.mapping \in Assistant!Mappings /\ s2.edits \in Nat BY <1>f DEF Assistant!Pages
      <3>2. m \in Assistant!Mappings BY <2>3, <3>1 DEF Assistant!Mappings
      <3> QED BY <2>3, <3>1, <3>2
    <2>5. s2' = [s2 EXCEPT !.mapping = m, !.edits = n] BY <2>2, <2>3
    <2>6. /\ s2' \in Assistant!Pages /\ s2'.view = s2.view /\ s2'.draft = s2.draft
          /\ s2'.previewed = s2.previewed
      BY <1>f, <2>4, <2>5 DEF Assistant!Pages
    <2> QED BY <1>1, <1>f, <2>1, <2>6
  <1>3. ASSUME Assistant!Reset PROVE Assistant!Shapes' /\ Unraced'
    <2>1. /\ job' = job /\ s3' = s3 /\ s1' = s1 /\ s4' = s4
          /\ s2' = [Assistant!Blank EXCEPT !.busy = s2.busy, !.edits = s2.edits]
      BY <1>3 DEF Assistant!Reset
    <2>2. s2' \in Assistant!Pages /\ s2'.view = "pick" /\ s2'.draft = 0
      BY <1>f, <2>1 DEF Assistant!Blank, Assistant!Pages, Assistant!Mappings
    <2> QED BY <1>1, <1>f, <2>1, <2>2
  <1>4. ASSUME Assistant!Tick PROVE Assistant!Shapes' /\ Unraced'
    <2>1. job' = job /\ s3' = s3 /\ s2' = s2 /\ s4' = s4 /\ s1' = s1 + 1 /\ s1 < MaxTime
      BY <1>4 DEF Assistant!Tick
    <2>2. s1' \in 0..MaxTime BY <1>f, <2>1
    <2> QED BY <1>1, <1>f, <2>1, <2>2
  <1>5. ASSUME NEW i \in 1..MaxDrafts, Assistant!Ingest(i) PROVE Assistant!Shapes' /\ Unraced'
    <2>1. PICK verdict \in {"VALIDATED", "REJECTED"} : s4' = [s4 EXCEPT ![i].status = verdict]
      BY <1>5 DEF Assistant!Ingest
    <2>2. i \in DOMAIN s4 /\ job' = job /\ s3' = s3 /\ s2' = s2 /\ s1' = s1 BY <1>5 DEF Assistant!Ingest
    <2>3. s4[i] \in Assistant!Filings BY <1>t, <2>2, AssistantTypes
    <2> DEFINE w == [s4[i] EXCEPT !.status = verdict]
    <2>4. s4' = [s4 EXCEPT ![i] = w] BY <2>1, <2>2
    <2>5. /\ w \in Assistant!Filings /\ w.draft = s4[i].draft /\ w.mapping = s4[i].mapping
          /\ w.shown = s4[i].shown
      BY <2>3 DEF Assistant!Filings
    <2> HIDE DEF w
    <2>6. [s4 EXCEPT ![i] = w] \in Seq(Assistant!Filings) BY <1>f, <2>2, <2>5, ExceptSeq
    <2>7. s4'[i] = w /\ DOMAIN s4' = DOMAIN s4 /\ \A k \in DOMAIN s4 : k # i => s4'[k] = s4[k]
      BY <1>f, <2>2, <2>4
    <2>8. \A k \in DOMAIN s4 : /\ s4'[k].draft = s4[k].draft /\ s4'[k].mapping = s4[k].mapping
                               /\ s4'[k].shown = s4[k].shown
      BY <2>5, <2>7
    <2> QED BY <1>1, <1>f, <2>2, <2>4, <2>6, <2>7, <2>8
  <1> QED BY <1>2, <1>3, <1>4, <1>5

LEMMA AssistantStep ==
    ASSUME Assistant!IInv, ~overlapped, ~spent, Assistant!Next
    PROVE  Assistant!IInv'
  <1>1. Assistant!Shapes' /\ (overlapped' \/ spent' \/ Unraced')
    BY AssistantClicks, AssistantEnds, AssistantReads, AssistantAnalyzes, AssistantRechecks,
       AssistantShows, AssistantFiles, AssistantRests, Zenon DEF Assistant!Next
  <1> QED BY <1>1 DEF Assistant!IInv, Unraced, FiledSound, FiledOnce, Assistant!FiledAsPreviewed,
                      Assistant!DraftFilesOnce

-----------------------------------------------------------------------------
(* The whole: each part keeps its invariant, and what besides holds of it for   *)
(* as long as its requests come one at a time.                                  *)

FilingHolds == Filing!IInv /\ (overlapped \/ Filing!Calm)
MultipartHolds == IInv /\ (overlapped \/ crashes > 0 \/ Calm)
TinsHold == /\ Tins!TypeOK
            /\ overlapped \/ Tins!Calm
            /\ overlapped \/ spent \/ Tins!RootsAreCounted
IntakeHolds ==
    /\ focus \in {"filing", "multipart", "tin", "assistant"}
    /\ focus = "filing" => FilingHolds
    /\ focus = "multipart" => MultipartHolds
    /\ focus = "tin" => TinsHold
    /\ focus = "assistant" => Assistant!IInv

LEMMA IntakeInit ==
    ASSUME MCInit PROVE IntakeHolds
  <1>1. CASE focus = "filing" BY <1>1, FilingInit DEF MCInit, FilingHolds, IntakeHolds
  <1>2. CASE focus = "multipart" BY <1>2, InitIInv, InitCalm DEF MCInit, MultipartHolds, IntakeHolds
  <1>3. CASE focus = "tin" BY <1>3, TinsInit DEF MCInit, TinsHold, IntakeHolds
  <1>4. CASE focus = "assistant" BY <1>4, AssistantInit DEF MCInit, IntakeHolds
  <1> QED BY <1>1, <1>2, <1>3, <1>4 DEF MCInit

\* Where the steps of the model do not note an overlap there is none.
LEMMA FilingNextHolds ==
    ASSUME FilingHolds, FilingNext PROVE FilingHolds'
  <1>1. Filing!IInv' BY FilingStep DEF FilingHolds, FilingNext
  <1>2. ASSUME ~overlapped' PROVE Filing!Calm'
    <2> DEFINE A == {f \in Filers : Filing!Active(f)'}
    <2>1. ~overlapped /\ ~(Cardinality(A) > 1) /\ Filing!Next BY <1>2 DEF FilingNext
    <2>2. IsFiniteSet(Filers) BY FilingConstants, FilingSets DEF Filing!FilingAssumption
    <2>3. \A f, g \in A : f = g
      <3>1. A \in SUBSET Filers OBVIOUS
      <3> HIDE DEF A
      <3> QED BY <2>1, <2>2, <3>1, AtMostOne
    <2>4. Filing!Alone' BY <2>3 DEF Filing!Alone
    <2> QED BY <2>1, <2>4, FilingCalm DEF FilingHolds
  <1> QED BY <1>1, <1>2 DEF FilingHolds

LEMMA MultipartNextHolds ==
    ASSUME MultipartHolds, MultipartNext PROVE MultipartHolds'
  <1>1. Next /\ IInv BY DEF MultipartHolds, MultipartNext
  <1>2. IInv' BY <1>1, NextIInv
  <1>3. crashes \in Nat /\ crashes' \in {crashes, crashes + 1}
    <2>1. crashes \in Nat BY <1>1 DEF IInv, TypeOK
    <2> QED BY <1>1, <2>1 DEF Next, UploadPart, StorePart, Complete, Collect, Mismatch, Feed, Record, Purge,
                    Abort, MarkAborted, Crash
  <1>4. ASSUME ~overlapped', ~(crashes' > 0) PROVE Calm'
    <2> DEFINE A == {r \in Requests : Active(r)'}
    <2>1. ~overlapped /\ ~(Cardinality(A) > 1) BY <1>4 DEF MultipartNext
    <2>2. crashes = 0 /\ crashes' = 0 BY <1>3, <1>4
    <2>3. Calm BY <2>1, <2>2 DEF MultipartHolds
    <2>4. IsFiniteSet(Requests) BY UploadAssumption
    <2>5. \A q, r \in A : q = r
      <3>1. A \in SUBSET Requests OBVIOUS
      <3> HIDE DEF A
      <3> QED BY <2>1, <2>4, <3>1, AtMostOne
    <2>6. \A q, r \in Requests : Active(q)' /\ Active(r)' => q = r BY <2>5
    <2> QED BY <1>1, <2>2, <2>3, <2>6, NextCalm
  <1> QED BY <1>2, <1>4 DEF MultipartHolds

LEMMA TinsNextHolds ==
    ASSUME TinsHold, TinsNext PROVE TinsHold' /\ (overlapped' \/ Tins!NothingOverwritten)
  <1>1. Tins!TypeOK /\ Tins!Next BY DEF TinsHold, TinsNext
  <1>2. Tins!TypeOK' BY <1>1, TinsStep
  <1>3. ASSUME ~overlapped'
        PROVE  /\ Tins!Calm' /\ Tins!NothingOverwritten
               /\ spent' \/ Tins!RootsAreCounted'
    <2>1. /\ ~overlapped /\ ~(Cardinality(TinsInFlight') > 1) /\ Tins!Calm
          /\ s2' # s2 => TinsInFlight = {}
      BY <1>3 DEF TinsNext, TinsHold
    <2>2. s2' # s2 => \A r \in Callers : ~Tins!Active(r) BY <2>1 DEF TinsInFlight
    <2>3. IsFiniteSet(Callers) BY TinConstant, TinConstants, TinSets DEF Tins!TinAssumption
    <2>4. \A q, r \in TinsInFlight' : q = r
      <3>1. TinsInFlight' \in SUBSET Callers BY DEF TinsInFlight
      <3>2. PICK A : A = TinsInFlight' OBVIOUS
      <3> QED BY <2>1, <2>3, <3>1, <3>2, AtMostOne
    <2>5. \A q, r \in Callers : Tins!Active(q)' /\ Tins!Active(r)' => q = r BY <2>4 DEF TinsInFlight
    <2>6. Tins!Calm' /\ Tins!NothingOverwritten BY <1>1, <2>1, <2>2, <2>5, TinsCalm
    <2>7. ASSUME ~spent' PROVE Tins!RootsAreCounted'
      <3>1. ~spent /\ \A t \in Taxpayers : s1[t] # Tins!NoTin => s1'[t] # Tins!NoTin
        BY <2>7 DEF TinsNext
      <3>2. Tins!RootsAreCounted BY <2>1, <3>1 DEF TinsHold
      <3> QED BY <1>1, <2>1, <2>2, <3>1, <3>2, TinsRoots
    <2> QED BY <2>6, <2>7
  <1> QED BY <1>2, <1>3 DEF TinsHold

LEMMA AssistantNextHolds ==
    ASSUME Assistant!IInv, AssistantNext PROVE Assistant!IInv'
  BY AssistantStep DEF AssistantNext

\* Only an edit or import replaces a TIN, unless two writers overlapped.
OnlyEditsReplace == focus = "tin" => overlapped' \/ Tins!NothingOverwritten

LEMMA IntakeNext ==
    ASSUME IntakeHolds, MCNext PROVE IntakeHolds' /\ OnlyEditsReplace
  <1>1. focus' = focus BY DEF MCNext
  <1>2. CASE focus = "filing"
    <2>1. FilingHolds' BY <1>2, FilingNextHolds DEF IntakeHolds, MCNext
    <2> QED BY <1>1, <1>2, <2>1 DEF IntakeHolds, OnlyEditsReplace
  <1>3. CASE focus = "multipart"
    <2>1. MultipartHolds' BY <1>3, MultipartNextHolds DEF IntakeHolds, MCNext
    <2> QED BY <1>1, <1>3, <2>1 DEF IntakeHolds, OnlyEditsReplace
  <1>4. CASE focus = "tin"
    <2>1. TinsHold' /\ (overlapped' \/ Tins!NothingOverwritten)
      BY <1>4, TinsNextHolds DEF IntakeHolds, MCNext
    <2> QED BY <1>1, <1>4, <2>1 DEF IntakeHolds, OnlyEditsReplace
  <1>5. CASE focus = "assistant"
    <2>1. Assistant!IInv' BY <1>5, AssistantNextHolds DEF IntakeHolds, MCNext
    <2> QED BY <1>1, <1>5, <2>1 DEF IntakeHolds, OnlyEditsReplace
  <1> QED BY <1>2, <1>3, <1>4, <1>5 DEF MCNext

\* A step that changes nothing keeps what holds.
LEMMA IntakeStutters ==
    ASSUME IntakeHolds, UNCHANGED <<focus, slots>> PROVE IntakeHolds'
  <1>1. UNCHANGED <<focus, status, part, fed, job, crashes, s1, s2, s3, s4, s5, overlapped, spent>>
    BY DEF slots, vars
  <1>2. ASSUME FilingHolds PROVE FilingHolds'
    <2>1. Filing!TypeOK' BY <1>1, <1>2 DEF FilingHolds, Filing!IInv, Filing!TypeOK
    <2>2. \A f \in Filers : Filing!RowsOf(f)' = Filing!RowsOf(f) /\ Filing!Settled(f)' = Filing!Settled(f)
      BY <1>1 DEF Filing!RowsOf, Filing!Settled
    <2>3. \A f \in Filers : Filing!Taken(f)' = Filing!Taken(f) /\ Filing!Filed(f)' = Filing!Filed(f)
      BY <1>1, <2>2 DEF Filing!Taken, Filing!Filed
    <2>4. \A f \in Filers : Filing!Placed(f)'
      BY <1>1, <1>2, <2>2, <2>3 DEF FilingHolds, Filing!IInv, Filing!Placed
    <2>5. \A f \in Filers : Filing!Counted(f)'
      BY <1>1, <1>2, <2>3 DEF FilingHolds, Filing!IInv, Filing!Counted
    <2>6. Filing!VerdictMatchesRecords'
      BY <1>1, <1>2, <2>2 DEF FilingHolds, Filing!IInv, Filing!VerdictMatchesRecords
    <2>7. ASSUME Filing!Calm PROVE Filing!Calm'
      <3>1. Filing!Alone' BY <1>1, <2>7 DEF Filing!Calm, Filing!Alone, Filing!Active
      <3>2. Filing!NoAccountTwice' BY <1>1, <2>7 DEF Filing!Calm, Filing!NoAccountTwice, Filing!KeyOf
      <3>3. Filing!AccountsSeen'
        BY <1>1, <2>7 DEF Filing!Calm, Filing!AccountsSeen, Filing!KeyOf, Filing!Ahead
      <3>4. \A p : Filing!FiledBy(p)' = Filing!FiledBy(p) /\ Filing!Spent(p)' = Filing!Spent(p)
                   /\ Filing!OpenGrants(p)' = Filing!OpenGrants(p)
        BY <1>1 DEF Filing!FiledBy, Filing!Filed, Filing!Spent, Filing!OpenGrants
      <3>5. Filing!OncePerPeriod' BY <2>7, <3>4 DEF Filing!Calm, Filing!OncePerPeriod
      <3>6. Filing!PeriodIsFree'
        <4>1. ASSUME NEW f \in Filers PROVE PeriodFreeFor(f)'
          <5>1. PICK p : p = job[f].file.period OBVIOUS
          <5>2. job'[f] = job[f] /\ job'[f].file.period = p BY <1>1, <5>1
          <5>3. PeriodFreeFor(f) BY <2>7 DEF Filing!Calm, Filing!PeriodIsFree, PeriodFreeFor
          <5> QED BY <3>4, <5>1, <5>2, <5>3 DEF PeriodFreeFor
        <4> QED BY <4>1 DEF Filing!PeriodIsFree, PeriodFreeFor
      <3> QED BY <3>1, <3>2, <3>3, <3>5, <3>6 DEF Filing!Calm
    <2>8. Filing!IInv' BY <2>1, <2>4, <2>5, <2>6 DEF Filing!IInv
    <2> QED BY <1>1, <1>2, <2>7, <2>8 DEF FilingHolds
  <1>3. ASSUME MultipartHolds PROVE MultipartHolds'
    <2>1. UNCHANGED vars BY <1>1 DEF vars
    <2>2. IInv' BY <1>3, <2>1, NextIInv DEF MultipartHolds
    <2>3. Calm => Calm' BY <1>1 DEF Calm, Active
    <2> QED BY <1>1, <1>3, <2>2, <2>3 DEF MultipartHolds
  <1>4. ASSUME TinsHold PROVE TinsHold'
    <2>1. Tins!TypeOK' BY <1>1, <1>4 DEF TinsHold, Tins!TypeOK
    <2>2. Tins!Calm => Tins!Calm' BY <1>1 DEF Tins!Calm, Tins!Active
    <2>3. Tins!NextRoot' = Tins!NextRoot BY <1>1 DEF Tins!NextRoot
    <2>4. Tins!RootsAreCounted => Tins!RootsAreCounted' BY <1>1, <2>3 DEF Tins!RootsAreCounted
    <2> QED BY <1>1, <1>4, <2>1, <2>2, <2>4 DEF TinsHold
  <1>5. ASSUME Assistant!IInv PROVE Assistant!IInv'
    <2>1. Assistant!Shapes /\ (overlapped \/ spent \/ Unraced) BY <1>5, UnracedIs
    <2>2. Assistant!TypeOK' BY <1>1, <2>1 DEF Assistant!Shapes, Assistant!TypeOK
    <2>3. Assistant!Shapes' BY <1>1, <2>1, <2>2 DEF Assistant!Shapes
    <2>4. Unraced => Unraced'
      <3>1. DOMAIN s4' = DOMAIN s4 /\ \A i \in DOMAIN s4 : s4'[i] = s4[i] BY <1>1
      <3> QED BY <1>1, <2>1, <3>1, CallsRest
    <2> QED BY <1>1, <2>1, <2>3, <2>4 DEF Assistant!IInv, Unraced, FiledSound, FiledOnce,
                Assistant!FiledAsPreviewed, Assistant!DraftFilesOnce
  <1> QED BY <1>1, <1>2, <1>3, <1>4, <1>5 DEF IntakeHolds

LEMMA IntakeAlways == MCSpec => []IntakeHolds
  <1>1. IntakeHolds /\ [MCNext]_<<focus, slots>> => IntakeHolds' BY IntakeNext, IntakeStutters
  <1> QED BY IntakeInit, <1>1, PTL DEF MCSpec

\* Types of all four parts, whatever the numbers of requests, files and columns.
THEOREM IntakeKeepsItsTypes == MCSpec => []TypesOK
  <1>1. ASSUME IntakeHolds PROVE TypesOK
    <2>1. CASE focus = "filing"
      <3>1. Filing!TypeOK BY <1>1, <2>1 DEF IntakeHolds, FilingHolds, Filing!IInv
      <3> QED BY <2>1, <3>1, Zenon DEF TypesOK
    <2>2. CASE focus = "multipart"
      <3>1. TypeOK BY <1>1, <2>2 DEF IntakeHolds, MultipartHolds, IInv
      <3> QED BY <2>2, <3>1, Zenon DEF TypesOK
    <2>3. CASE focus = "tin"
      <3>1. Tins!TypeOK BY <1>1, <2>3 DEF IntakeHolds, TinsHold
      <3> QED BY <2>3, <3>1, Zenon DEF TypesOK
    <2>4. CASE focus = "assistant"
      <3>1. Assistant!TypeOK BY <1>1, <2>4 DEF IntakeHolds, Assistant!IInv, Assistant!Shapes
      <3> QED BY <2>4, <3>1, Zenon DEF TypesOK
    <2> QED BY <1>1, <2>1, <2>2, <2>3, <2>4 DEF IntakeHolds
  <1> QED BY <1>1, IntakeAlways, PTL

\* However the requests interleave and whatever fails, the verdict of a settled
\* submission is what its stored rows say (processRows and the two updates that close
\* it); and unless calls raced or were cut short, the assistant files what the preview
\* it showed was computed from, once per draft.
THEOREM FilingsAreAlwaysTrue == MCSpec => []FilingsAreTrue
  <1>1. ASSUME IntakeHolds PROVE FilingsAreTrue
    <2>1. CASE focus = "filing"
      <3>1. Filing!VerdictMatchesRecords BY <1>1, <2>1 DEF IntakeHolds, FilingHolds, Filing!IInv
      <3> QED BY <2>1, <3>1, Zenon DEF FilingsAreTrue
    <2>2. CASE focus = "assistant"
      <3>1. Assistant!IInv BY <1>1, <2>2 DEF IntakeHolds
      <3>2. Assistant!FiledAsPreviewed /\ Assistant!DraftFilesOnce
        BY <3>1 DEF Assistant!IInv, Assistant!FiledAsPreviewed, Assistant!DraftFilesOnce
      <3> QED BY <2>2, <3>2, Zenon DEF FilingsAreTrue
    <2>3. CASE focus \notin {"filing", "assistant"} BY <2>3, Zenon DEF FilingsAreTrue
    <2> QED BY <2>1, <2>2, <2>3
  <1> QED BY <1>1, IntakeAlways, PTL

\* As long as no two requests overlapped: a period is filed once and once more per
\* permission spent, an account is on file once a period, an uploaded session makes one
\* submission, and the next TIN the register gives is free.
THEOREM NothingIsTakenTwice == MCSpec => []NothingTwiceUnlessOverlapped
  <1>1. ASSUME IntakeHolds PROVE NothingTwiceUnlessOverlapped
    <2>0. CASE overlapped BY <2>0 DEF NothingTwiceUnlessOverlapped
    <2>1. CASE ~overlapped /\ focus = "filing"
      <3>1. Filing!OncePerPeriod /\ Filing!NoAccountTwice
        BY <1>1, <2>1 DEF IntakeHolds, FilingHolds, Filing!Calm
      <3> QED BY <2>1, <3>1, Zenon DEF NothingTwiceUnlessOverlapped
    <2>2. CASE ~overlapped /\ focus = "multipart"
      <3>1. crashes > 0 \/ \A f, g \in fed : f = g
        BY <1>1, <2>2 DEF IntakeHolds, MultipartHolds, Calm
      <3>2. crashes > 0 \/ OneSubmissionPerSession BY <3>1, OneAtMost DEF OneSubmissionPerSession
      <3> QED BY <2>2, <3>2, Zenon DEF NothingTwiceUnlessOverlapped
    <2>3. CASE ~overlapped /\ focus = "tin"
      <3>1. spent \/ Tins!NextRootIsFree BY <1>1, <2>3, TinsFollow DEF IntakeHolds, TinsHold
      <3> QED BY <2>3, <3>1, Zenon DEF NothingTwiceUnlessOverlapped
    <2>4. CASE focus \notin {"filing", "multipart", "tin"}
      BY <2>4, Zenon DEF NothingTwiceUnlessOverlapped
    <2> QED BY <2>0, <2>1, <2>2, <2>3, <2>4
  <1> QED BY <1>1, IntakeAlways, PTL

\* As long as no two writers overlapped, what generateTin or a linkage finds on the
\* register it leaves there: only an edit or an import replaces a TIN.
THEOREM TinsAreNotReplaced == MCSpec => NeverOverwrittenUnlessOverlapped
  <1>1. IntakeHolds /\ [MCNext]_<<focus, slots>> => [OnlyEditsReplace]_<<focus, slots>> BY IntakeNext
  <1>2. MCSpec => [][OnlyEditsReplace]_<<focus, slots>> BY <1>1, IntakeAlways, PTL DEF MCSpec
  <1> QED BY <1>2 DEF NeverOverwrittenUnlessOverlapped, OnlyEditsReplace
=============================================================================

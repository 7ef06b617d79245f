----------------------------- MODULE StaffProofs -----------------------------
(* Who gets in, and to what, for any staff, any number of requests at a time   *)
(* and any times of life: the credentials, the grants, the second factor, the  *)
(* idle tabs, the conversation and the test of MCStaff, with what              *)
(* AccessElevationProofs proves of the elevations.                             *)
EXTENDS MCStaff, SequenceTheorems, TLAPS

-----------------------------------------------------------------------------
(* Credentials: as long as no two requests overlapped, no session outlives the *)
(* password it was opened with.                                                *)

\* A token, or the row a login has read, is no newer than the password, and of
\* this password when it has its epoch.
Fresh(t) == /\ t.pwdIat <= user.changedAt
            /\ t.pwdIat = user.changedAt => t.pwd = user.password

\* The epochs are read off a clock that does not run back.
Clock == /\ user.changedAt <= now
         /\ \A s \in Slots : job[s].at <= now

\* As long as nothing overlapped: one request at a time, and the epoch it is about
\* to write is later than the password's.
OneAtATime == \A s, t \in Slots : s # t => job[s] = IdleJob \/ job[t] = IdleJob
Later(j) == /\ j.pc = "mint" => Fresh(j.row)
            /\ j.pc \in {"change", "admin", "reset"} => j.at >= user.changedAt
            /\ j.pc = "stamped" => j.at > user.changedAt
Orderly == /\ OneAtATime
           /\ \A t \in tokens : Fresh(t)
           /\ \A s \in Slots : Later(job[s])

IInv == TypeOK /\ Clock /\ (~overlapped => Orderly)

\* A function on 1 .. n is a sequence.
LEMMA ListIsASeq ==
    ASSUME NEW S, NEW n \in Nat, NEW q \in [1 .. n -> S] PROVE q \in Seq(S)
  OBVIOUS

\* A burned link is a link.
LEMMA BurnedLink ==
    ASSUME NEW k \in Links PROVE [k EXCEPT !.used = TRUE] \in Links
  BY DEF Links

\* The invariant says that a session does not outlive its password.
LEMMA InvEvicts == IInv => EvictedByChange
  <1> SUFFICES ASSUME IInv, ~overlapped, NEW t \in tokens, Accepts(t)
               PROVE t.pwd = user.password
    BY DEF EvictedByChange
  <1>1. Fresh(t)  BY DEF IInv, Orderly
  <1>2. /\ t.pwdIat \in Nat /\ user.changedAt \in Nat
        /\ user.changedAt # 0 => t.pwdIat >= user.changedAt
    BY DEF IInv, TypeOK, Tokens, Users, Accepts, NoTime
  <1> QED  BY <1>1, <1>2 DEF Fresh

LEMMA InitHolds == ASSUME CredentialsAssumption PROVE Init => IInv
  <1> SUFFICES ASSUME Init PROVE IInv  OBVIOUS
  <1>1. IdleJob \in Jobs  BY DEF IdleJob, Jobs, NoRow, Tokens, NoTime, NoLink, Steps
  <1>2. MaxTime \in Nat \ {0} /\ MaxPassword \in Nat  BY DEF CredentialsAssumption
  <1>3. TypeOK
    <2> DEFINE must == kind = "PROVIDER"
    <2>1. must \in BOOLEAN  OBVIOUS
    <2>2. user = [password |-> 0, changedAt |-> 0, active |-> TRUE, mustChange |-> must]
      BY DEF Init, NoTime
    <2> HIDE DEF must
    <2>3. user \in Users  BY <2>1, <2>2 DEF Users
    <2>4. job \in [Slots -> Jobs]  BY <1>1 DEF Init
    <2>5. now \in 1 .. MaxTime /\ passwords \in 0 .. MaxPassword  BY <1>2 DEF Init
    <2>6. links = <<>> /\ tokens = {} /\ overlapped = FALSE /\ kind \in {"STAFF", "PROVIDER"}
      BY DEF Init
    <2>7. links \in Seq(Links)  BY <2>6
    <2>8. tokens \subseteq Tokens /\ overlapped \in BOOLEAN  BY <2>6
    <2> QED  BY <2>3, <2>4, <2>5, <2>6, <2>7, <2>8 DEF TypeOK
  <1>4. Clock  BY DEF Init, Clock, NoTime, IdleJob
  <1>5. Orderly  BY DEF Init, Orderly, OneAtATime, Later, IdleJob
  <1> QED  BY <1>3, <1>4, <1>5 DEF IInv

\* What a step leaves to show once the type and the clock are kept.
LEMMA Assembled ==
    ASSUME IInv, Next, TypeOK', Clock',
           (~overlapped /\ Orderly /\ OneAtATime') =>
               (\A t \in tokens' : Fresh(t)') /\ (\A s \in Slots : Later(job[s])')
    PROVE  IInv'
  <1>1. ~overlapped' => ~overlapped /\ OneAtATime'
    BY DEF Next, OneAtATime
  <1> QED  BY <1>1 DEF IInv, Orderly

\* A request is put into another state: only its own slot changes.
LEMMA SlotChanges ==
    ASSUME TypeOK, NEW s \in Slots, NEW j \in Jobs, Goto(s, j)
    PROVE  /\ job' \in [Slots -> Jobs]
           /\ job'[s] = j
           /\ \A r \in Slots : r # s => job'[r] = job[r]
  BY DEF TypeOK, Goto

\* A step of the slot s that leaves the account alone keeps the invariant, when the
\* new state of s is no later than the clock and the tokens stay fresh.
LEMMA AccountKept ==
    ASSUME IInv, Next, NEW s \in Slots, NEW j \in Jobs, Goto(s, j),
           UNCHANGED <<now, kind, user, passwords>>, j.at <= now,
           links' \in Seq(Links), tokens' \subseteq Tokens,
           (~overlapped /\ Orderly) => Later(j) /\ \A t \in tokens' : Fresh(t)
    PROVE  IInv'
  <1>1. /\ job' \in [Slots -> Jobs] /\ job'[s] = j
        /\ \A r \in Slots : r # s => job'[r] = job[r]
    BY SlotChanges DEF IInv
  <1>2. overlapped' \in BOOLEAN  BY DEF Next, IInv, TypeOK
  <1>3. TypeOK'  BY <1>1, <1>2 DEF IInv, TypeOK
  <1>4. Clock'  BY <1>1 DEF IInv, Clock
  <1>5. ASSUME ~overlapped, Orderly
        PROVE (\A t \in tokens' : Fresh(t)') /\ (\A r \in Slots : Later(job[r])')
    BY <1>1, <1>5 DEF Orderly, Later, Fresh
  <1> QED  BY <1>3, <1>4, <1>5, Assembled

\* The new password has a later epoch than any token, and nobody else is at work.
LEMMA PasswordWritten ==
    ASSUME CredentialsAssumption, IInv, Next, NEW s \in Slots, WritePassword(s)
    PROVE  IInv'
  <1> DEFINE j == IF job[s].admin /\ kind = "PROVIDER"
                  THEN [IdleJob EXCEPT !.pc = "invite"] ELSE IdleJob
  <1>0. /\ job \in [Slots -> Jobs] /\ job[s] \in Jobs /\ user \in Users
        /\ now \in Nat /\ passwords \in Nat /\ MaxPassword \in Nat
    BY DEF IInv, TypeOK, CredentialsAssumption
  <1>1. j \in Jobs /\ j.at = 0 /\ j.pc \in {"invite", "idle"}
    BY DEF IdleJob, Jobs, NoRow, Tokens, NoTime, NoLink, Steps
  <1>2. /\ job' \in [Slots -> Jobs] /\ job'[s] = j
        /\ \A r \in Slots : r # s => job'[r] = job[r]
    <2>1. Goto(s, j)  BY DEF WritePassword
    <2> HIDE DEF j
    <2> QED  BY <2>1, <1>1, SlotChanges DEF IInv
  <1> HIDE DEF j
  <1>3. /\ user' = [user EXCEPT !.password = passwords + 1, !.changedAt = job[s].at,
                                !.mustChange = job[s].admin]
        /\ passwords' = passwords + 1 /\ passwords < MaxPassword
        /\ UNCHANGED <<now, kind, tokens>>
        /\ job[s].pc = "stamped"
    BY DEF WritePassword
  <1>4. user' \in Users /\ user'.changedAt = job[s].at
    <2>1. job[s].at \in Nat /\ job[s].admin \in BOOLEAN  BY <1>0 DEF Jobs
    <2>2. user.active \in BOOLEAN  BY <1>0 DEF Users
    <2>3. user' = [password |-> passwords + 1, changedAt |-> job[s].at,
                   active |-> user.active, mustChange |-> job[s].admin]
      BY <1>0, <1>3 DEF Users
    <2> QED  BY <1>0, <2>1, <2>2, <2>3 DEF Users
  <1>5. links' \in Seq(Links)
    <2>1. links \in Seq(Links)  BY DEF IInv, TypeOK
    <2>2. ASSUME NEW i PROVE Burn(i) \in Seq(Links)
      <3>1. ASSUME NEW k \in DOMAIN links PROVE [links[k] EXCEPT !.used = TRUE] \in Links
        <4>1. links[k] \in Links  BY <2>1
        <4> QED  BY <4>1, BurnedLink
      <3>2. DOMAIN links = 1 .. Len(links) /\ Len(links) \in Nat  BY <2>1
      <3>3. Burn(i) \in [1 .. Len(links) -> Links]  BY <3>1, <3>2 DEF Burn
      <3> QED  BY <3>2, <3>3, ListIsASeq
    <2> QED  BY <2>1, <2>2 DEF WritePassword
  <1>6. overlapped' \in BOOLEAN  BY DEF Next, IInv, TypeOK
  <1>7. TypeOK'
    BY <1>0, <1>2, <1>3, <1>4, <1>5, <1>6 DEF IInv, TypeOK
  <1>8. Clock'
    BY <1>0, <1>1, <1>2, <1>3, <1>4 DEF IInv, Clock
  <1>9. ASSUME ~overlapped, Orderly
        PROVE (\A t \in tokens' : Fresh(t)') /\ (\A r \in Slots : Later(job[r])')
    <2>1. job[s].at > user.changedAt  BY <1>3, <1>9 DEF Orderly, Later
    <2>2. ASSUME NEW t \in tokens PROVE Fresh(t)'
      <3>1. t.pwdIat \in Nat /\ t.pwdIat <= user.changedAt
        BY <1>9 DEF IInv, TypeOK, Tokens, Orderly, Fresh
      <3>2. t.pwdIat < user'.changedAt
        BY <2>1, <3>1, <1>0, <1>4 DEF Users, Jobs
      <3> QED  BY <3>1, <3>2, <1>4 DEF Fresh, Users
    <2>3. ASSUME NEW r \in Slots PROVE Later(job[r])'
      <3>1. CASE r = s  BY <3>1, <1>1, <1>2 DEF Later
      <3>2. CASE r # s
        <4>1. job[r] = IdleJob
          <5>1. job[s] # IdleJob  BY <1>3 DEF IdleJob
          <5> QED  BY <3>2, <5>1, <1>9 DEF Orderly, OneAtATime
        <4>2. job'[r].pc = "idle"  BY <4>1, <3>2, <1>2 DEF IdleJob
        <4> QED  BY <4>2 DEF Later
      <3> QED  BY <3>1, <3>2
    <2> QED  BY <1>3, <2>2, <2>3
  <1> QED  BY <1>7, <1>8, <1>9, Assembled

\* Every step keeps the invariant.
LEMMA StepHolds == ASSUME CredentialsAssumption PROVE IInv /\ [Next]_vars => IInv'
  <1> SUFFICES ASSUME IInv, [Next]_vars PROVE IInv'  OBVIOUS
  <1>0. /\ job \in [Slots -> Jobs] /\ user \in Users /\ tokens \subseteq Tokens
        /\ links \in Seq(Links) /\ now \in 1 .. MaxTime /\ now \in Nat /\ MaxTime \in Nat
        /\ \A s \in Slots : job[s] \in Jobs /\ job[s].at <= now
        /\ user.changedAt <= now
    BY DEF IInv, TypeOK, Clock, CredentialsAssumption
  <1>i. /\ IdleJob \in Jobs /\ IdleJob.pc = "idle" /\ IdleJob.at = 0
        /\ \A pc \in Steps, at \in Nat, row \in Tokens, l \in Nat, b \in BOOLEAN :
             [pc |-> pc, at |-> at, link |-> l, admin |-> b, row |-> row] \in Jobs
    BY DEF IdleJob, Jobs, NoRow, Tokens, NoTime, NoLink, Steps
  <1>t. ASSUME ~overlapped, Orderly PROVE \A t \in tokens : Fresh(t)
    BY <1>t DEF Orderly
  <1>1. ASSUME Next, Tick PROVE IInv'
    <2>1. now' = now + 1 /\ now < MaxTime /\ UNCHANGED <<kind, user, links, tokens, job, passwords>>
      BY <1>1 DEF Tick
    <2>2. overlapped' \in BOOLEAN  BY <1>1 DEF Next, IInv, TypeOK
    <2>3. TypeOK'  BY <1>0, <2>1, <2>2 DEF IInv, TypeOK
    <2>4. Clock'  BY <1>0, <2>1 DEF Clock, Users, Jobs
    <2>5. ASSUME ~overlapped, Orderly
          PROVE (\A t \in tokens' : Fresh(t)') /\ (\A r \in Slots : Later(job[r])')
      BY <2>1, <2>5 DEF Orderly, Later, Fresh
    <2> QED  BY <1>1, <2>3, <2>4, <2>5, Assembled
  <1>2. ASSUME Next, SetActive PROVE IInv'
    <2>1. PICK b \in BOOLEAN : /\ user' = [user EXCEPT !.active = b]
                               /\ UNCHANGED <<now, kind, links, tokens, job, passwords>>
      BY <1>2 DEF SetActive
    <2>2. user' \in Users /\ user'.changedAt = user.changedAt /\ user'.password = user.password
      BY <1>0, <2>1 DEF Users
    <2>3. overlapped' \in BOOLEAN  BY <1>2 DEF Next, IInv, TypeOK
    <2>4. TypeOK'  BY <2>1, <2>2, <2>3 DEF IInv, TypeOK
    <2>5. Clock'  BY <2>1, <2>2 DEF IInv, Clock
    <2>6. ASSUME ~overlapped, Orderly
          PROVE (\A t \in tokens' : Fresh(t)') /\ (\A r \in Slots : Later(job[r])')
      BY <2>1, <2>2, <2>6 DEF Orderly, Later, Fresh
    <2> QED  BY <1>2, <2>4, <2>5, <2>6, Assembled
  <1>3. ASSUME Next, NEW s \in Slots, ReadForLogin(s) PROVE IInv'
    <2> DEFINE row == [pwdIat |-> user.changedAt, pwd |-> user.password]
               j   == [IdleJob EXCEPT !.pc = "mint", !.at = now, !.row = row]
    <2>1. row \in Tokens /\ Fresh(row)  BY <1>0 DEF Users, Tokens, Fresh
    <2>2. Goto(s, j) /\ UNCHANGED <<now, kind, user, links, tokens, passwords>>
      BY <1>3 DEF ReadForLogin
    <2> HIDE DEF row
    <2>3. j \in Jobs /\ j.at = now /\ j.pc = "mint" /\ j.row = row
      BY <1>0, <2>1 DEF IdleJob, Jobs, NoRow, NoTime, NoLink, Steps
    <2> HIDE DEF j
    <2>4. Later(j)  BY <2>1, <2>3 DEF Later
    <2> QED  BY <1>0, <1>t, <1>3, <2>2, <2>3, <2>4, AccountKept
  <1>4. ASSUME Next, NEW s \in Slots, Mint(s) PROVE IInv'
    <2>1. /\ tokens' = tokens \cup {job[s].row} /\ job[s].pc = "mint"
          /\ Goto(s, IdleJob) /\ UNCHANGED <<now, kind, user, links, passwords>>
      BY <1>4 DEF Mint, Done
    <2>2. tokens' \subseteq Tokens  BY <1>0, <2>1 DEF Jobs
    <2>3. ASSUME ~overlapped, Orderly PROVE Later(IdleJob) /\ \A t \in tokens' : Fresh(t)
      <3>1. Fresh(job[s].row)  BY <2>1, <2>3 DEF Orderly, Later
      <3> QED  BY <2>1, <2>3, <3>1, <1>i DEF Orderly, Later
    <2> QED  BY <1>0, <1>i, <1>4, <2>1, <2>2, <2>3, AccountKept
  <1>5. ASSUME Next, NEW s \in Slots, NEW j \in Jobs, Goto(s, j), j.at <= now, Later(j),
               UNCHANGED <<now, kind, user, tokens, passwords>>, links' \in Seq(Links)
        PROVE IInv'
    BY <1>0, <1>t, <1>5, AccountKept
  <1>6. ASSUME Next, NEW s \in Slots, ReadForChange(s) \/ AdminReset(s) \/ ReadLink(s) PROVE IInv'
    <2>1. ASSUME NEW j \in Jobs, j.pc \in {"change", "admin", "reset"}, j.at = now, Goto(s, j),
                 UNCHANGED <<now, kind, user, links, tokens, passwords>>
          PROVE IInv'
      <3>1. Later(j)  BY <1>0, <2>1 DEF Later, Users
      <3> QED  BY <1>0, <1>5, <1>6, <2>1, <3>1
    <2>2. CASE ReadForChange(s)
      <3> DEFINE j == [IdleJob EXCEPT !.pc = "change", !.at = now]
      <3>1. Goto(s, j) /\ UNCHANGED <<now, kind, user, links, tokens, passwords>>
        BY <2>2 DEF ReadForChange
      <3>2. j \in Jobs /\ j.pc = "change" /\ j.at = now
        BY <1>0 DEF IdleJob, Jobs, NoRow, Tokens, NoTime, NoLink, Steps
      <3> HIDE DEF j
      <3> QED  BY <2>1, <3>1, <3>2
    <2>3. CASE AdminReset(s)
      <3> DEFINE j == [IdleJob EXCEPT !.pc = "admin", !.at = now, !.admin = TRUE]
      <3>1. Goto(s, j) /\ UNCHANGED <<now, kind, user, links, tokens, passwords>>
        BY <2>3 DEF AdminReset
      <3>2. j \in Jobs /\ j.pc = "admin" /\ j.at = now
        BY <1>0 DEF IdleJob, Jobs, NoRow, Tokens, NoTime, NoLink, Steps
      <3> HIDE DEF j
      <3> QED  BY <2>1, <3>1, <3>2
    <2>4. ASSUME NEW i \in DOMAIN links,
                 Goto(s, [IdleJob EXCEPT !.pc = "reset", !.at = now, !.link = i]),
                 UNCHANGED <<now, kind, user, links, tokens, passwords>>
          PROVE IInv'
      <3> DEFINE j == [IdleJob EXCEPT !.pc = "reset", !.at = now, !.link = i]
      <3>1. i \in Nat  BY <1>0
      <3>2. j \in Jobs /\ j.pc = "reset" /\ j.at = now
        BY <1>0, <3>1 DEF IdleJob, Jobs, NoRow, Tokens, NoTime, NoLink, Steps
      <3>3. Goto(s, j)  BY <2>4
      <3> HIDE DEF j
      <3> QED  BY <2>1, <2>4, <3>2, <3>3
    <2> QED  BY <1>6, <2>2, <2>3, <2>4 DEF ReadLink
  <1>7. ASSUME Next, NEW s \in Slots, Stamp(s) PROVE IInv'
    <2> DEFINE j == [job[s] EXCEPT !.pc = "stamped", !.at = now]
    <2>1. /\ Goto(s, j) /\ UNCHANGED <<now, kind, user, links, tokens, passwords>>
          /\ job[s].pc \in {"change", "admin", "reset"} /\ now > job[s].at
      BY <1>7 DEF Stamp
    <2>2. j \in Jobs /\ j.at = now /\ j.pc = "stamped"  BY <1>0 DEF Jobs, Steps
    <2> HIDE DEF j
    <2>3. ASSUME ~overlapped, Orderly PROVE Later(j)
      <3>1. job[s].at >= user.changedAt  BY <2>1, <2>3 DEF Orderly, Later
      <3>2. j.at > user.changedAt  BY <2>1, <2>2, <3>1, <1>0 DEF Users, Jobs
      <3> QED  BY <2>2, <3>2 DEF Later
    <2> QED  BY <1>0, <1>t, <1>7, <2>1, <2>2, <2>3, AccountKept
  <1>8. ASSUME Next, NEW s \in Slots, RequestReset(s) PROVE IInv'
    <2> DEFINE j == [IdleJob EXCEPT !.pc = "link"]
    <2>1. Goto(s, j) /\ UNCHANGED <<now, kind, user, links, tokens, passwords>>
      BY <1>8 DEF RequestReset
    <2>2. j \in Jobs /\ j.at = 0 /\ j.pc = "link"
      BY DEF IdleJob, Jobs, NoRow, Tokens, NoTime, NoLink, Steps
    <2> HIDE DEF j
    <2>3. Later(j)  BY <2>2 DEF Later
    <2> QED  BY <1>0, <1>5, <1>8, <2>1, <2>2, <2>3
  <1>9. ASSUME Next, NEW s \in Slots, MintLink(s) PROVE IInv'
    <2>1. /\ links' = Append(links, [used |-> FALSE,
                expiresAt |-> now + (IF job[s].pc = "link" THEN ResetTtl ELSE InviteTtl)])
          /\ Goto(s, IdleJob) /\ UNCHANGED <<now, kind, user, tokens, passwords>>
      BY <1>9 DEF MintLink, Done
    <2>2. now + (IF job[s].pc = "link" THEN ResetTtl ELSE InviteTtl) \in Nat
      BY <1>0 DEF CredentialsAssumption
    <2>3. links' \in Seq(Links)  BY <1>0, <2>1, <2>2 DEF Links
    <2>4. Later(IdleJob)  BY <1>i DEF Later
    <2> QED  BY <1>0, <1>i, <1>5, <1>9, <2>1, <2>3, <2>4
  <1>10. CASE UNCHANGED vars
    <2>1. UNCHANGED <<now, kind, user, links, tokens, job, passwords, overlapped>>
      BY <1>10 DEF vars
    <2>2. TypeOK' /\ Clock'  BY <2>1 DEF IInv, TypeOK, Clock
    <2>3. Orderly => Orderly'  BY <2>1 DEF Orderly, OneAtATime, Later, Fresh
    <2> QED  BY <2>1, <2>2, <2>3 DEF IInv
  <1>11. CASE Next
    <2>1. Step  BY <1>11 DEF Next
    <2> QED  BY <1>1, <1>2, <1>3, <1>4, <1>6, <1>7, <1>8, <1>9, <1>11, <2>1, PasswordWritten
          DEF Step, Serve
  <1> QED  BY <1>10, <1>11

LEMMA Invariance == Spec => []IInv
  <1>1. Init => IInv  BY InitHolds, CredentialsAssumption
  <1>2. IInv /\ [Next]_vars => IInv'  BY StepHolds, CredentialsAssumption
  <1> QED  BY <1>1, <1>2, PTL DEF Spec

\* The variables always have their types.
THEOREM CredentialsTypeCorrect == Spec => []TypeOK
  <1>1. IInv => TypeOK  BY DEF IInv
  <1> QED  BY <1>1, Invariance, PTL

\* As long as no two requests have overlapped, a session does not outlive the
\* password it was opened with (changeStaffPassword and resetPassword write the
\* epoch the guards compare with, auth.service.ts 197, 422, 427).
THEOREM Eviction == Spec => []EvictedByChange
  <1> QED  BY InvEvicts, Invariance, PTL

-----------------------------------------------------------------------------
(* Grants.                                                                     *)

LEMMA GrantNumbers ==
    ASSUME Grant!TypeOK
    PROVE  /\ now \in Nat /\ RedeemWindow \in Nat /\ SessionHours \in Nat /\ GrantTime \in Nat
           /\ MaxTokens \in Nat /\ SuperAdmins \subseteq AdminStaff
           /\ s1 \in Seq(Grant!Grants) /\ s2 \in Seq(Grant!Assignments)
           /\ DOMAIN s1 = 1..Len(s1) /\ DOMAIN s2 = 1..Len(s2)
           /\ Len(s1) \in Nat /\ Len(s2) \in Nat
  <1>1. s1 \in Seq(Grant!Grants) /\ s2 \in Seq(Grant!Assignments) BY DEF Grant!TypeOK
  <1>2. now \in Nat BY DEF Grant!TypeOK
  <1> QED BY <1>1, <1>2, GrantConstants DEF Grant!AccessAssumption

LEMMA GrantRow ==
    ASSUME Grant!TypeOK, NEW i \in DOMAIN s1
    PROVE  /\ i \in Nat /\ s1[i] \in Grant!Grants
           /\ s1[i].staff \in AdminStaff /\ s1[i].token \in Nat
           /\ s1[i].approvedAt \in Nat /\ s1[i].redeemBy \in Nat /\ s1[i].until \in Nat
           /\ s1[i].by \in AdminStaff \cup {Grant!NoOne} /\ s1[i].revoked \in BOOLEAN
  <1>1. i \in Nat /\ s1[i] \in Grant!Grants BY GrantNumbers
  <1> QED BY <1>1 DEF Grant!Grants

LEMMA AssignmentRow ==
    ASSUME Grant!TypeOK, NEW i \in DOMAIN s2
    PROVE  /\ i \in Nat /\ s2[i] \in Grant!Assignments
           /\ s2[i].staff \in AdminStaff /\ s2[i].revoked \in BOOLEAN
  <1>1. i \in Nat /\ s2[i] \in Grant!Assignments BY GrantNumbers
  <1> QED BY <1>1 DEF Grant!Assignments

LEMMA GrantJob ==
    ASSUME Grant!TypeOK, NEW s \in Slots
    PROVE  /\ job[s] \in Grant!Jobs /\ job[s].id \in Nat /\ job[s].at \in Nat
           /\ job[s].pc \in Grant!Steps \cup {"idle", "shown", "reused"}
  <1>1. job[s] \in Grant!Jobs BY DEF Grant!TypeOK
  <1> QED BY <1>1 DEF Grant!Jobs

LEMMA GrantMoves ==
    ASSUME Grant!TypeOK, NEW s \in Slots, NEW j \in Grant!Jobs, Grant!Goto(s, j)
    PROVE  /\ job' \in [Slots -> Grant!Jobs] /\ job'[s] = j
           /\ \A t \in Slots : t # s => job'[t] = job[t]
  BY DEF Grant!TypeOK, Grant!Goto

\* A request that is over is entitled to nothing and holds nothing.
LEMMA GrantIdle ==
    /\ Grant!IdleJob \in Grant!Jobs /\ Grant!Entitled(Grant!IdleJob) /\ Grant!Current(Grant!IdleJob)
    /\ Grant!IdleJob.pc \notin Grant!Steps
    /\ Grant!Entitled(Grant!IdleJob)' /\ Grant!Current(Grant!IdleJob)'
  BY DEF Grant!IdleJob, Grant!Jobs, Grant!Entitled, Grant!Current, Grant!Steps, Grant!NoOne

LEMMA GrantAt ==
    ASSUME Grant!TypeOK, NEW pc \in Grant!Steps \cup {"idle", "shown", "reused"},
           NEW o \in AdminStaff \cup {Grant!NoOne}, NEW id \in Nat
    PROVE  /\ Grant!At(pc, o, id) \in Grant!Jobs /\ Grant!At(pc, o, id).pc = pc
           /\ Grant!At(pc, o, id).staff = o /\ Grant!At(pc, o, id).id = id
           /\ Grant!At(pc, o, id).at = now
  BY GrantNumbers DEF Grant!At, Grant!Jobs

\* A step that only reads: what it goes on with must itself be entitled and current.
LEMMA GrantReads ==
    ASSUME Grant!InOrder, NEW s \in Slots, NEW j \in Grant!Jobs, Grant!Goto(s, j),
           UNCHANGED <<now, s1, s2, s3>>, Grant!Entitled(j)
    PROVE  /\ Grant!InOrder'
           /\ Grant!OneByOne /\ Grant!Alone' /\ Grant!Current(j) => Grant!OneByOne'
  <1>1. /\ job' \in [Slots -> Grant!Jobs] /\ job'[s] = j
        /\ \A t \in Slots : t # s => job'[t] = job[t]
    BY GrantMoves DEF Grant!InOrder
  <1>2. Grant!TypeOK' BY <1>1 DEF Grant!InOrder, Grant!TypeOK
  <1>3. \A i \in DOMAIN s1 : Grant!Dated(s1[i])' BY DEF Grant!InOrder, Grant!Dated
  <1>4. ASSUME NEW t \in Slots PROVE Grant!Entitled(job[t])'
    <2>1. Grant!Entitled(job'[t]) BY <1>1 DEF Grant!InOrder
    <2> QED BY <2>1 DEF Grant!Entitled
  <1>5. ASSUME Grant!OneByOne, Grant!Alone', Grant!Current(j) PROVE Grant!OneByOne'
    <2>1. Grant!OneAssignment' BY <1>5 DEF Grant!OneByOne, Grant!OneAssignment
    <2>2. Grant!OneGrantPerOfficer'
      BY <1>5 DEF Grant!OneByOne, Grant!OneGrantPerOfficer, Grant!Usable, Grant!InSession
    <2>3. \A i \in DOMAIN s1' : Grant!NotOpened(s1'[i]) BY <1>5 DEF Grant!OneByOne
    <2>4. ASSUME NEW t \in Slots PROVE Grant!Current(job[t])'
      <3>1. Grant!Current(job'[t]) BY <1>1, <1>5 DEF Grant!OneByOne
      <3>2. /\ Grant!Reusable(job[t].staff)' = Grant!Reusable(job'[t].staff)
            /\ Grant!HasAccess(job[t].staff)' <=> Grant!HasAccess(job'[t].staff)
        BY DEF Grant!Reusable, Grant!HasAccess
      <3>3. \A k : Grant!Usable(s1[k])' <=> Grant!Usable(s1[k])
        BY DEF Grant!Usable, Grant!InSession
      <3> QED BY <3>1, <3>2, <3>3 DEF Grant!Current
    <2> QED BY <1>5, <2>1, <2>2, <2>3, <2>4 DEF Grant!OneByOne
  <1> QED BY <1>2, <1>3, <1>4, <1>5 DEF Grant!InOrder

\* A step that ends the only request under way holds nothing current.
LEMMA GrantEnds ==
    ASSUME Grant!TypeOK, NEW s \in Slots, Grant!Goto(s, Grant!IdleJob)
    PROVE  /\ job' \in [Slots -> Grant!Jobs] /\ job'[s] = Grant!IdleJob
           /\ \A t \in Slots : t # s => job'[t] = job[t]
           /\ Grant!Alone /\ ~Grant!Free(s) =>
                 Grant!Alone' /\ \A t \in Slots : Grant!Current(job[t])'
  <1>1. /\ job' \in [Slots -> Grant!Jobs] /\ job'[s] = Grant!IdleJob
        /\ \A t \in Slots : t # s => job'[t] = job[t]
    BY GrantMoves, GrantIdle
  <1>2. ASSUME Grant!Alone, ~Grant!Free(s), NEW t \in Slots
        PROVE  job'[t].pc \notin Grant!Steps /\ Grant!Current(job[t])'
    <2>1. job'[t].pc \notin Grant!Steps
      <3>1. CASE t = s BY <1>1, <3>1, GrantIdle
      <3>2. CASE t # s BY <1>1, <1>2, <3>2 DEF Grant!Alone, Grant!Free
      <3> QED BY <3>1, <3>2
    <2>2. job'[t].pc \notin {"assign", "create", "approve", "redeem"} BY <2>1 DEF Grant!Steps
    <2> QED BY <2>1, <2>2 DEF Grant!Current
  <1> QED BY <1>1, <1>2 DEF Grant!Alone, Grant!Free

\* The assignments are written.
LEMMA AssignmentsWritten ==
    ASSUME Grant!InOrder, NEW s \in Slots, Grant!Goto(s, Grant!IdleJob), ~Grant!Free(s),
           UNCHANGED <<now, s1, s3>>,
           s2' \in Seq(Grant!Assignments), DOMAIN s2 \subseteq DOMAIN s2'
    PROVE  /\ Grant!InOrder'
           /\ Grant!OneByOne /\ Grant!OneAssignment' => Grant!OneByOne'
  <1>1. /\ job' \in [Slots -> Grant!Jobs] /\ job'[s] = Grant!IdleJob
        /\ \A t \in Slots : t # s => job'[t] = job[t]
        /\ Grant!Alone => Grant!Alone' /\ \A t \in Slots : Grant!Current(job[t])'
    BY GrantEnds DEF Grant!InOrder
  <1>2. Grant!TypeOK' BY <1>1 DEF Grant!InOrder, Grant!TypeOK
  <1>3. \A i \in DOMAIN s1 : Grant!Dated(s1[i])' BY DEF Grant!InOrder, Grant!Dated
  <1>4. ASSUME NEW t \in Slots PROVE Grant!Entitled(job[t])'
    <2>1. CASE t = s
      <3>1. job'[t] = Grant!IdleJob BY <1>1, <2>1
      <3>2. Grant!IdleJob.pc \notin Grant!Steps BY GrantIdle
      <3> QED BY <3>1, <3>2 DEF Grant!Entitled, Grant!Steps
    <2>2. CASE t # s
      <3>1. Grant!Entitled(job[t]) /\ job'[t] = job[t] BY <1>1, <2>2 DEF Grant!InOrder
      <3> QED BY <3>1 DEF Grant!Entitled
    <2> QED BY <2>1, <2>2
  <1>5. ASSUME Grant!OneByOne, Grant!OneAssignment' PROVE Grant!OneByOne'
    <2>1. Grant!OneGrantPerOfficer'
      BY <1>5 DEF Grant!OneByOne, Grant!OneGrantPerOfficer, Grant!Usable, Grant!InSession
    <2>2. \A i \in DOMAIN s1' : Grant!NotOpened(s1'[i]) BY <1>5 DEF Grant!OneByOne
    <2> QED BY <1>1, <1>5, <2>1, <2>2 DEF Grant!OneByOne
  <1> QED BY <1>2, <1>3, <1>4, <1>5 DEF Grant!InOrder

LEMMA AssignmentCreated ==
    ASSUME Grant!InOrder, NEW s \in Slots, Grant!CreateAssignment(s)
    PROVE  /\ Grant!InOrder'
           /\ Grant!OneByOne => Grant!OneByOne'
  <1> DEFINE new == [staff |-> job[s].staff, revoked |-> FALSE]
             n == Len(s2) + 1
  <1>1. job[s].pc = "assign" /\ Grant!Goto(s, Grant!IdleJob) /\ UNCHANGED <<now, s1, s3>>
        /\ s2' = Append(s2, new)
    BY DEF Grant!CreateAssignment
  <1>2. ~Grant!Free(s) BY <1>1 DEF Grant!Free, Grant!Steps
  <1>3. Grant!Entitled(job[s]) /\ Grant!TypeOK BY DEF Grant!InOrder
  <1>4. new \in Grant!Assignments /\ new.staff = job[s].staff
    BY <1>1, <1>3 DEF Grant!Entitled, Grant!Steps, Grant!Assignments
  <1>5. s2 \in Seq(Grant!Assignments) /\ DOMAIN s2 = 1..Len(s2) /\ Len(s2) \in Nat
    BY <1>3, GrantNumbers
  <1> HIDE DEF new
  <1>6. /\ s2' \in Seq(Grant!Assignments) /\ Len(s2') = n /\ s2'[n] = new
        /\ \A i \in 1..Len(s2) : s2'[i] = s2[i]
    BY <1>1, <1>4, <1>5, AppendProperties
  <1>7. DOMAIN s2' = 1..n BY <1>6, LenProperties
  <1>8. ASSUME Grant!OneByOne PROVE Grant!OneAssignment'
    <2>1. Grant!OneAssignment /\ ~Grant!HasAccess(job[s].staff)
      BY <1>1, <1>8 DEF Grant!OneByOne, Grant!Current
    <2>2. \A i \in DOMAIN s2 : s2[i].staff = job[s].staff => s2[i].revoked
      BY <2>1 DEF Grant!HasAccess
    <2>3. SUFFICES ASSUME NEW i \in DOMAIN s2', NEW k \in DOMAIN s2',
                          ~s2'[i].revoked, ~s2'[k].revoked, s2'[i].staff = s2'[k].staff
                   PROVE  i = k
      BY DEF Grant!OneAssignment
    <2>4. (i \in DOMAIN s2 \/ i = n) /\ (k \in DOMAIN s2 \/ k = n) BY <1>5, <1>7
    <2>5. CASE i \in DOMAIN s2 /\ k \in DOMAIN s2
      BY <1>5, <1>6, <2>1, <2>3, <2>5 DEF Grant!OneAssignment
    <2>6. CASE i = n /\ k \in DOMAIN s2 BY <1>4, <1>5, <1>6, <2>2, <2>3, <2>6
    <2>7. CASE k = n /\ i \in DOMAIN s2 BY <1>4, <1>5, <1>6, <2>2, <2>3, <2>7
    <2> QED BY <2>4, <2>5, <2>6, <2>7
  <1>9. DOMAIN s2 \subseteq DOMAIN s2' BY <1>5, <1>7
  <1> QED BY <1>1, <1>2, <1>6, <1>8, <1>9, AssignmentsWritten

LEMMA AssignmentRevoked ==
    ASSUME Grant!InOrder, NEW s \in Slots, Grant!RevokeAssignment(s)
    PROVE  /\ Grant!InOrder'
           /\ Grant!OneByOne => Grant!OneByOne' /\ Grant!RevokeCutsAccess
  <1> DEFINE id == job[s].id
             row == [s2[id] EXCEPT !.revoked = TRUE]
  <1>1. job[s].pc = "unassign" /\ Grant!Goto(s, Grant!IdleJob) /\ UNCHANGED <<now, s1, s3>>
        /\ s2' = [s2 EXCEPT ![id].revoked = TRUE]
    BY DEF Grant!RevokeAssignment
  <1>2. ~Grant!Free(s) BY <1>1 DEF Grant!Free, Grant!Steps
  <1>3. Grant!Entitled(job[s]) /\ Grant!TypeOK BY DEF Grant!InOrder
  <1>4. id \in DOMAIN s2 BY <1>1, <1>3 DEF Grant!Entitled
  <1>5. s2 \in Seq(Grant!Assignments) /\ DOMAIN s2 = 1..Len(s2) /\ Len(s2) \in Nat
    BY <1>3, GrantNumbers
  <1>6. row \in Grant!Assignments /\ row.staff = s2[id].staff /\ row.revoked
    BY <1>3, <1>4, AssignmentRow DEF Grant!Assignments
  <1>7. s2' = [s2 EXCEPT ![id] = row] BY <1>1
  <1> HIDE DEF id, row
  <1>8. /\ s2' \in Seq(Grant!Assignments) /\ DOMAIN s2' = DOMAIN s2 /\ s2'[id] = row
        /\ \A i \in DOMAIN s2 : i # id => s2'[i] = s2[i]
    BY <1>4, <1>5, <1>6, <1>7
  <1>9. ASSUME Grant!OneByOne PROVE Grant!OneAssignment' /\ Grant!RevokeCutsAccess
    <2>1. Grant!OneAssignment BY <1>9 DEF Grant!OneByOne
    <2>2. Grant!OneAssignment' BY <1>6, <1>8, <2>1 DEF Grant!OneAssignment
    <2>3. \A i \in DOMAIN s2 : s2'[i].staff = s2[i].staff /\ (~s2'[i].revoked => ~s2[i].revoked)
      BY <1>6, <1>8
    <2>4. ASSUME NEW i \in DOMAIN s2, ~s2[i].revoked, s2'[i].revoked,
                 NEW k \in DOMAIN s2', s2'[k].staff = s2'[i].staff, ~s2'[k].revoked
          PROVE  FALSE
      BY <1>8, <2>1, <2>3, <2>4 DEF Grant!OneAssignment
    <2> QED BY <2>2, <2>4 DEF Grant!RevokeCutsAccess, Grant!HasAccess
  <1> QED BY <1>1, <1>2, <1>8, <1>9, AssignmentsWritten

\* A row of the grants is decided by a request that holds it.
LEMMA GrantWritten ==
    ASSUME Grant!InOrder, NEW s \in Slots, Grant!Goto(s, Grant!IdleJob), ~Grant!Free(s),
           UNCHANGED <<now, s2>>, s3' \in 0..MaxTokens,
           NEW id \in DOMAIN s1, NEW g \in Grant!Grants, s1' = [s1 EXCEPT ![id] = g],
           g.staff = s1[id].staff, Grant!Dated(g), g.approvedAt >= s1[id].approvedAt,
           s1[id].by \in SuperAdmins => g.by \in SuperAdmins
    PROVE  /\ Grant!InOrder'
           /\ s1' \in Seq(Grant!Grants) /\ DOMAIN s1' = DOMAIN s1 /\ s1'[id] = g
           /\ \A i \in DOMAIN s1 : i # id => s1'[i] = s1[i]
           /\ Grant!OneByOne /\ Grant!NotOpened(g) /\
              (Grant!Usable(g) =>
                 \/ Grant!Usable(s1[id])
                 \/ \A k \in DOMAIN s1 : k # id /\ s1[k].staff = s1[id].staff => ~Grant!Usable(s1[k]))
              => Grant!OneByOne'
  <1>1. /\ job' \in [Slots -> Grant!Jobs] /\ job'[s] = Grant!IdleJob
        /\ \A t \in Slots : t # s => job'[t] = job[t]
        /\ Grant!Alone => Grant!Alone' /\ \A t \in Slots : Grant!Current(job[t])'
    BY GrantEnds DEF Grant!InOrder
  <1>2. /\ s1' \in Seq(Grant!Grants) /\ DOMAIN s1' = DOMAIN s1 /\ s1'[id] = g
        /\ \A i \in DOMAIN s1 : i # id => s1'[i] = s1[i]
    BY GrantNumbers DEF Grant!InOrder
  <1>3. Grant!TypeOK' BY <1>1, <1>2 DEF Grant!InOrder, Grant!TypeOK
  <1>4. ASSUME NEW i \in DOMAIN s1 PROVE Grant!Dated(s1[i])'
    <2>1. Grant!Dated(s1'[i]) BY <1>2 DEF Grant!InOrder
    <2> QED BY <2>1 DEF Grant!Dated
  <1>5. ASSUME NEW t \in Slots PROVE Grant!Entitled(job[t])'
    <2>1. CASE t = s
      <3>1. job'[t] = Grant!IdleJob BY <1>1, <2>1
      <3>2. Grant!IdleJob.pc \notin Grant!Steps BY GrantIdle
      <3> QED BY <3>1, <3>2 DEF Grant!Entitled, Grant!Steps
    <2>2. CASE t # s
      <3>1. Grant!Entitled(job[t]) /\ job'[t] = job[t] BY <1>1, <2>2 DEF Grant!InOrder
      <3>2. job[t].at \in Nat /\ RedeemWindow \in Nat BY GrantJob, GrantNumbers DEF Grant!InOrder
      <3>3. job[t].pc = "redeem" =>
                /\ s1'[job[t].id].by \in SuperAdmins
                /\ job[t].at <= s1'[job[t].id].approvedAt + RedeemWindow
        <4> SUFFICES ASSUME job[t].pc = "redeem"
                     PROVE  /\ s1'[job[t].id].by \in SuperAdmins
                            /\ job[t].at <= s1'[job[t].id].approvedAt + RedeemWindow
          OBVIOUS
        <4>1. /\ job[t].id \in DOMAIN s1 /\ s1[job[t].id].by \in SuperAdmins
              /\ job[t].at <= s1[job[t].id].approvedAt + RedeemWindow
          BY <3>1 DEF Grant!Entitled
        <4>2. s1[job[t].id].approvedAt \in Nat /\ g.approvedAt \in Nat
          BY <4>1, GrantRow DEF Grant!InOrder, Grant!Grants
        <4>3. \A at, a, b, w \in Nat : at <= a + w /\ b >= a => at <= b + w
          OBVIOUS
        <4>4. CASE job[t].id = id
          <5>1. s1'[job[t].id] = g BY <1>2, <4>4, Zenon
          <5>2. /\ s1[id].by \in SuperAdmins /\ s1[id].approvedAt \in Nat
                /\ job[t].at <= s1[id].approvedAt + RedeemWindow
            BY <4>1, <4>2, <4>4, Zenon
          <5>3. job[t].at <= g.approvedAt + RedeemWindow BY <3>2, <4>2, <4>3, <5>2, Zenon
          <5> QED BY <5>1, <5>2, <5>3, Zenon
        <4>5. CASE job[t].id # id
          <5>1. s1'[job[t].id] = s1[job[t].id] BY <1>2, <4>1, <4>5, Zenon
          <5> QED BY <4>1, <5>1, Zenon
        <4> QED BY <4>4, <4>5
      <3> QED BY <1>2, <3>1, <3>3 DEF Grant!Entitled
    <2> QED BY <2>1, <2>2
  <1>6. ASSUME Grant!OneByOne, Grant!NotOpened(g),
               Grant!Usable(g) =>
                 \/ Grant!Usable(s1[id])
                 \/ \A k \in DOMAIN s1 : k # id /\ s1[k].staff = s1[id].staff => ~Grant!Usable(s1[k])
        PROVE  Grant!OneByOne'
    <2>1. Grant!OneGrantPerOfficer /\ Grant!OneAssignment /\ \A i \in DOMAIN s1 : Grant!NotOpened(s1[i])
      BY <1>6 DEF Grant!OneByOne
    <2>2. \A i : Grant!Usable(s1[i])' <=> Grant!Usable(s1'[i]) BY DEF Grant!Usable, Grant!InSession
    <2>3. ASSUME NEW i \in DOMAIN s1, NEW k \in DOMAIN s1, Grant!Usable(s1'[i]), Grant!Usable(s1'[k]),
                 s1'[i].staff = s1'[k].staff
          PROVE  i = k
      <3>1. CASE i # id /\ k # id
        BY <1>2, <2>1, <2>3, <3>1 DEF Grant!OneGrantPerOfficer
      <3>2. CASE i = id /\ k # id
        BY <1>2, <1>6, <2>1, <2>3, <3>2 DEF Grant!OneGrantPerOfficer
      <3>3. CASE k = id /\ i # id
        BY <1>2, <1>6, <2>1, <2>3, <3>3 DEF Grant!OneGrantPerOfficer
      <3> QED BY <3>1, <3>2, <3>3
    <2>4. Grant!OneGrantPerOfficer' BY <1>2, <2>2, <2>3 DEF Grant!OneGrantPerOfficer
    <2>5. \A i \in DOMAIN s1' : Grant!NotOpened(s1'[i]) BY <1>2, <1>6, <2>1
    <2>6. Grant!OneAssignment' BY <2>1 DEF Grant!OneAssignment
    <2> QED BY <1>1, <1>6, <2>4, <2>5, <2>6 DEF Grant!OneByOne
  <1> QED BY <1>2, <1>3, <1>4, <1>5, <1>6 DEF Grant!InOrder

LEMMA GrantApproved ==
    ASSUME Grant!InOrder, NEW s \in Slots, Grant!Approve(s)
    PROVE  /\ Grant!InOrder'
           /\ Grant!OneByOne => Grant!OneByOne' /\ Grant!SessionEndIsFixed
  <1> DEFINE id == job[s].id
             g == [s1[id] EXCEPT !.status = "APPROVED", !.token = s3', !.by = job[s].staff,
                                 !.approvedAt = now, !.redeemBy = now + RedeemWindow]
  <1>1. /\ job[s].pc = "approve" /\ s3 < MaxTokens /\ s3' = s3 + 1
        /\ Grant!Goto(s, Grant!IdleJob) /\ UNCHANGED <<now, s2>>
        /\ s1' = [s1 EXCEPT ![id] = g]
    BY DEF Grant!Approve
  <1>2. ~Grant!Free(s) BY <1>1 DEF Grant!Free, Grant!Steps
  <1>3. Grant!TypeOK /\ Grant!Entitled(job[s]) BY DEF Grant!InOrder
  <1>4. id \in DOMAIN s1 /\ job[s].staff \in SuperAdmins BY <1>1, <1>3 DEF Grant!Entitled
  <1>5. s1[id] \in Grant!Grants /\ s1[id].approvedAt \in Nat /\ s1[id].until \in Nat
    BY <1>3, <1>4, GrantRow
  <1>6. /\ now \in Nat /\ RedeemWindow \in Nat /\ SessionHours \in Nat /\ MaxTokens \in Nat
        /\ SuperAdmins \subseteq AdminStaff /\ s3 \in 0..MaxTokens
    BY <1>3, GrantNumbers DEF Grant!TypeOK
  <1>7. s3' \in 0..MaxTokens BY <1>1, <1>6
  <1>8. /\ g \in Grant!Grants /\ g.staff = s1[id].staff /\ g.status = "APPROVED"
        /\ g.by = job[s].staff /\ g.approvedAt = now /\ g.redeemBy = now + RedeemWindow
        /\ g.until = s1[id].until /\ g.revoked = s1[id].revoked
    <2>1. PICK r : r = s1[id] OBVIOUS
    <2>2. PICK n : n = s3' OBVIOUS
    <2>3. PICK o : o = job[s].staff OBVIOUS
    <2>4. PICK d : d = now + RedeemWindow OBVIOUS
    <2>5. r \in Grant!Grants /\ n \in Nat /\ o \in AdminStaff /\ d \in Nat
      BY <1>4, <1>5, <1>6, <1>7, <2>1, <2>2, <2>3, <2>4
    <2>6. g = [r EXCEPT !.status = "APPROVED", !.token = n, !.by = o,
                        !.approvedAt = now, !.redeemBy = d]
      BY <2>1, <2>2, <2>3, <2>4
    <2> HIDE DEF g
    <2> QED BY <1>6, <2>1, <2>3, <2>4, <2>5, <2>6 DEF Grant!Grants, Grant!Statuses
  <1> HIDE DEF id, g
  <1>9. /\ s1[id].approvedAt <= now
        /\ s1[id].until <= s1[id].approvedAt + RedeemWindow + SessionHours
    BY <1>4 DEF Grant!InOrder, Grant!Dated
  <1>10. Grant!Dated(g) /\ g.approvedAt >= s1[id].approvedAt /\ g.by \in SuperAdmins
    BY <1>4, <1>5, <1>6, <1>8, <1>9 DEF Grant!Dated
  <1>11. /\ Grant!InOrder' /\ s1'[id] = g
         /\ \A i \in DOMAIN s1 : i # id => s1'[i] = s1[i]
         /\ Grant!OneByOne /\ Grant!NotOpened(g) /\ (Grant!Usable(g) => Grant!Usable(s1[id]))
            => Grant!OneByOne'
    BY <1>1, <1>2, <1>4, <1>7, <1>8, <1>10, GrantWritten
  <1>12. ASSUME Grant!OneByOne PROVE Grant!OneByOne' /\ Grant!SessionEndIsFixed
    <2>1. s1[id].status = "PENDING" /\ Grant!NotOpened(s1[id])
      BY <1>1, <1>4, <1>12 DEF Grant!OneByOne, Grant!Current, id
    <2>2. Grant!NotOpened(g) BY <1>8, <2>1 DEF Grant!NotOpened
    <2>3. Grant!Usable(g) => Grant!Usable(s1[id])
      BY <1>8, <2>1 DEF Grant!Usable, Grant!InSession
    <2>4. Grant!SessionEndIsFixed BY <1>8, <1>11 DEF Grant!SessionEndIsFixed
    <2> QED BY <1>11, <1>12, <2>2, <2>3, <2>4
  <1> QED BY <1>11, <1>12

LEMMA GrantRedeemed ==
    ASSUME Grant!InOrder, NEW s \in Slots, Grant!Redeem(s)
    PROVE  /\ Grant!InOrder'
           /\ Grant!OneByOne => Grant!OneByOne' /\ Grant!SessionEndIsFixed
  <1> DEFINE id == job[s].id
             g == [s1[id] EXCEPT !.status = "REDEEMED", !.until = job[s].at + SessionHours]
  <1>1. /\ job[s].pc = "redeem" /\ UNCHANGED s3
        /\ Grant!Goto(s, Grant!IdleJob) /\ UNCHANGED <<now, s2>>
        /\ s1' = [s1 EXCEPT ![id] = g]
    BY DEF Grant!Redeem
  <1>2. ~Grant!Free(s) BY <1>1 DEF Grant!Free, Grant!Steps
  <1>3. Grant!TypeOK /\ Grant!Entitled(job[s]) BY DEF Grant!InOrder
  <1>4. /\ id \in DOMAIN s1 /\ s1[id].by \in SuperAdmins
        /\ job[s].at <= s1[id].approvedAt + RedeemWindow
    BY <1>1, <1>3 DEF Grant!Entitled
  <1>5. s1[id] \in Grant!Grants /\ s1[id].approvedAt \in Nat /\ job[s].at \in Nat
    BY <1>3, <1>4, GrantRow, GrantJob
  <1>6. RedeemWindow \in Nat /\ SessionHours \in Nat BY <1>3, GrantNumbers
  <1>7. s3' \in 0..MaxTokens BY <1>1, <1>3 DEF Grant!TypeOK
  <1>8. /\ g \in Grant!Grants /\ g.staff = s1[id].staff /\ g.status = "REDEEMED"
        /\ g.by = s1[id].by /\ g.approvedAt = s1[id].approvedAt /\ g.redeemBy = s1[id].redeemBy
        /\ g.until = job[s].at + SessionHours
    <2>1. PICK r : r = s1[id] OBVIOUS
    <2>2. PICK u : u = job[s].at + SessionHours OBVIOUS
    <2>3. r \in Grant!Grants /\ u \in Nat BY <1>5, <1>6, <2>1, <2>2
    <2>4. g = [r EXCEPT !.status = "REDEEMED", !.until = u] BY <2>1, <2>2
    <2> HIDE DEF g
    <2> QED BY <2>1, <2>2, <2>3, <2>4 DEF Grant!Grants, Grant!Statuses
  <1> HIDE DEF id, g
  <1>9. s1[id].approvedAt <= now /\ s1[id].redeemBy <= s1[id].approvedAt + RedeemWindow
    BY <1>4 DEF Grant!InOrder, Grant!Dated
  <1>10. Grant!Dated(g) /\ g.approvedAt >= s1[id].approvedAt
    BY <1>4, <1>5, <1>6, <1>8, <1>9 DEF Grant!Dated
  <1>11. /\ Grant!InOrder' /\ s1'[id] = g
         /\ \A i \in DOMAIN s1 : i # id => s1'[i] = s1[i]
         /\ Grant!OneByOne /\ Grant!NotOpened(g)
            /\ (\A k \in DOMAIN s1 : k # id /\ s1[k].staff = s1[id].staff => ~Grant!Usable(s1[k]))
            => Grant!OneByOne'
    BY <1>1, <1>2, <1>4, <1>7, <1>8, <1>10, GrantWritten
  <1>12. ASSUME Grant!OneByOne PROVE Grant!OneByOne' /\ Grant!SessionEndIsFixed
    <2>1. /\ s1[id].status = "APPROVED"
          /\ \A k \in DOMAIN s1 : k # id /\ s1[k].staff = s1[id].staff => ~Grant!Usable(s1[k])
      BY <1>1, <1>12 DEF Grant!OneByOne, Grant!Current, id
    <2>2. Grant!NotOpened(g) BY <1>8 DEF Grant!NotOpened
    <2>3. Grant!SessionEndIsFixed
      BY <1>11, <2>1 DEF Grant!SessionEndIsFixed, Grant!InSession
    <2> QED BY <1>11, <1>12, <2>1, <2>2, <2>3
  <1> QED BY <1>11, <1>12

LEMMA GrantRevoked ==
    ASSUME Grant!InOrder, NEW s \in Slots, Grant!Revoke(s)
    PROVE  /\ Grant!InOrder'
           /\ Grant!OneByOne => Grant!OneByOne' /\ Grant!SessionEndIsFixed
  <1> DEFINE id == job[s].id
             g == [s1[id] EXCEPT !.status = "REVOKED", !.revoked = TRUE, !.token = Grant!NoToken]
  <1>1. /\ job[s].pc = "revoke" /\ UNCHANGED s3
        /\ Grant!Goto(s, Grant!IdleJob) /\ UNCHANGED <<now, s2>>
        /\ s1' = [s1 EXCEPT ![id] = g]
    BY DEF Grant!Revoke
  <1>2. ~Grant!Free(s) BY <1>1 DEF Grant!Free, Grant!Steps
  <1>3. Grant!TypeOK /\ Grant!Entitled(job[s]) BY DEF Grant!InOrder
  <1>4. id \in DOMAIN s1 BY <1>1, <1>3 DEF Grant!Entitled
  <1>5. s1[id] \in Grant!Grants /\ s1[id].approvedAt \in Nat BY <1>3, <1>4, GrantRow
  <1>7. s3' \in 0..MaxTokens BY <1>1, <1>3 DEF Grant!TypeOK
  <1>8. /\ g \in Grant!Grants /\ g.staff = s1[id].staff /\ g.status = "REVOKED"
        /\ g.by = s1[id].by /\ g.approvedAt = s1[id].approvedAt /\ g.redeemBy = s1[id].redeemBy
        /\ g.until = s1[id].until /\ g.revoked
    BY <1>5 DEF Grant!Grants, Grant!Statuses, Grant!NoToken
  <1> HIDE DEF id, g
  <1>9. Grant!Dated(s1[id]) BY <1>4 DEF Grant!InOrder
  <1>10. Grant!Dated(g) /\ g.approvedAt >= s1[id].approvedAt
    BY <1>5, <1>8, <1>9 DEF Grant!Dated
  <1>11. /\ Grant!InOrder' /\ s1'[id] = g
         /\ \A i \in DOMAIN s1 : i # id => s1'[i] = s1[i]
         /\ Grant!OneByOne /\ Grant!NotOpened(g) /\ (Grant!Usable(g) => Grant!Usable(s1[id]))
            => Grant!OneByOne'
    BY <1>1, <1>2, <1>4, <1>7, <1>8, <1>10, GrantWritten
  <1>12. Grant!NotOpened(g) /\ ~Grant!Usable(g) BY <1>8 DEF Grant!NotOpened, Grant!Usable
  <1>13. Grant!SessionEndIsFixed BY <1>8, <1>11 DEF Grant!SessionEndIsFixed
  <1> QED BY <1>11, <1>12, <1>13

LEMMA GrantRequested ==
    ASSUME Grant!InOrder, NEW s \in Slots, Grant!CreateRequest(s)
    PROVE  /\ Grant!InOrder'
           /\ Grant!OneByOne => Grant!OneByOne' /\ Grant!SessionEndIsFixed
  <1> DEFINE g == [staff |-> job[s].staff, status |-> "PENDING", token |-> Grant!NoToken,
                   by |-> Grant!NoOne, approvedAt |-> Grant!NoTime, redeemBy |-> Grant!NoTime,
                   until |-> Grant!NoTime, revoked |-> FALSE]
             n == Len(s1) + 1
  <1>1. /\ job[s].pc = "create" /\ Grant!Goto(s, Grant!IdleJob) /\ UNCHANGED <<now, s2, s3>>
        /\ s1' = IF Len(s1) = MaxGrants THEN s1 ELSE Append(s1, g)
    BY DEF Grant!CreateRequest
  <1>2. ~Grant!Free(s) BY <1>1 DEF Grant!Free, Grant!Steps
  <1>3. Grant!TypeOK /\ Grant!Entitled(job[s]) BY DEF Grant!InOrder
  <1>4. /\ job' \in [Slots -> Grant!Jobs] /\ job'[s] = Grant!IdleJob
        /\ \A t \in Slots : t # s => job'[t] = job[t]
        /\ Grant!Alone => Grant!Alone' /\ \A t \in Slots : Grant!Current(job[t])'
    BY <1>1, <1>2, <1>3, GrantEnds
  <1>5. job[s].staff \in AdminStaff BY <1>1, <1>3 DEF Grant!Entitled, Grant!Steps
  <1>6. g \in Grant!Grants /\ g.staff = job[s].staff
    BY <1>5 DEF Grant!Grants, Grant!Statuses, Grant!NoToken, Grant!NoTime
  <1>7. /\ now \in Nat /\ RedeemWindow \in Nat /\ SessionHours \in Nat
        /\ s1 \in Seq(Grant!Grants) /\ DOMAIN s1 = 1..Len(s1) /\ Len(s1) \in Nat
    BY <1>3, GrantNumbers
  <1>8. Grant!Dated(g) /\ Grant!NotOpened(g)
    BY <1>7 DEF Grant!Dated, Grant!NotOpened, Grant!NoTime
  <1> HIDE DEF g
  <1>9. /\ s1' \in Seq(Grant!Grants) /\ DOMAIN s1 \subseteq DOMAIN s1'
        /\ \A i \in DOMAIN s1 : s1'[i] = s1[i]
        /\ \A i \in DOMAIN s1' : i \in DOMAIN s1 \/ (i = n /\ s1'[i] = g)
    <2>1. CASE Len(s1) = MaxGrants BY <1>1, <1>7, <2>1
    <2>2. CASE Len(s1) # MaxGrants
      <3>1. s1' = Append(s1, g) BY <1>1, <2>2
      <3>2. /\ s1' \in Seq(Grant!Grants) /\ Len(s1') = n /\ s1'[n] = g
            /\ \A i \in 1..Len(s1) : s1'[i] = s1[i]
        BY <1>6, <1>7, <3>1, AppendProperties
      <3>3. DOMAIN s1' = 1..n BY <3>2, LenProperties
      <3> QED BY <1>7, <3>2, <3>3
    <2> QED BY <2>1, <2>2
  <1>10. Grant!TypeOK' BY <1>1, <1>3, <1>4, <1>9 DEF Grant!TypeOK
  <1>11. ASSUME NEW i \in DOMAIN s1' PROVE Grant!Dated(s1[i])'
    <2>1. Grant!Dated(s1'[i]) BY <1>8, <1>9 DEF Grant!InOrder
    <2> QED BY <1>1, <2>1 DEF Grant!Dated
  <1>12. ASSUME NEW t \in Slots PROVE Grant!Entitled(job[t])'
    <2>1. CASE t = s
      <3>1. job'[t] = Grant!IdleJob BY <1>4, <2>1
      <3>2. Grant!IdleJob.pc \notin Grant!Steps BY GrantIdle
      <3> QED BY <3>1, <3>2 DEF Grant!Entitled, Grant!Steps
    <2>2. CASE t # s
      <3>1. Grant!Entitled(job[t]) /\ job'[t] = job[t] BY <1>4, <2>2 DEF Grant!InOrder
      <3> QED BY <1>1, <1>9, <3>1 DEF Grant!Entitled
    <2> QED BY <2>1, <2>2
  <1>13. ASSUME Grant!OneByOne PROVE Grant!OneByOne'
    <2>1. /\ Grant!OneGrantPerOfficer /\ Grant!Reusable(job[s].staff) = {}
          /\ \A i \in DOMAIN s1 : Grant!NotOpened(s1[i])
      BY <1>1, <1>13 DEF Grant!OneByOne, Grant!Current
    <2>2. ASSUME NEW i \in DOMAIN s1, s1[i].staff = job[s].staff PROVE ~Grant!Usable(s1[i])
      <3>1. /\ s1[i].status \in {"PENDING", "APPROVED", "REDEEMED"}
               => ~(s1[i].until = Grant!NoTime \/ s1[i].until > now)
        BY <2>1, <2>2 DEF Grant!Reusable
      <3>2. s1[i].status \in {"PENDING", "APPROVED"} => s1[i].until = Grant!NoTime
        BY <2>1 DEF Grant!NotOpened
      <3> QED BY <3>1, <3>2 DEF Grant!Usable, Grant!InSession
    <2>3. \A i : Grant!Usable(s1[i])' <=> Grant!Usable(s1'[i])
      BY <1>1 DEF Grant!Usable, Grant!InSession
    <2>4. ASSUME NEW i \in DOMAIN s1', NEW k \in DOMAIN s1', Grant!Usable(s1'[i]),
                 Grant!Usable(s1'[k]), s1'[i].staff = s1'[k].staff
          PROVE  i = k
      <3>1. CASE i \in DOMAIN s1 /\ k \in DOMAIN s1
        BY <1>9, <2>1, <2>4, <3>1 DEF Grant!OneGrantPerOfficer
      <3>2. CASE i \in DOMAIN s1 /\ k \notin DOMAIN s1 BY <1>6, <1>9, <2>2, <2>4, <3>2
      <3>3. CASE i \notin DOMAIN s1 /\ k \in DOMAIN s1 BY <1>6, <1>9, <2>2, <2>4, <3>3
      <3>4. CASE i \notin DOMAIN s1 /\ k \notin DOMAIN s1 BY <1>9, <3>4
      <3> QED BY <3>1, <3>2, <3>3, <3>4
    <2>5. Grant!OneGrantPerOfficer' BY <2>3, <2>4 DEF Grant!OneGrantPerOfficer
    <2>6. \A i \in DOMAIN s1' : Grant!NotOpened(s1'[i]) BY <1>8, <1>9, <2>1
    <2>7. Grant!OneAssignment' BY <1>1, <1>13 DEF Grant!OneByOne, Grant!OneAssignment
    <2> QED BY <1>4, <1>13, <2>5, <2>6, <2>7 DEF Grant!OneByOne
  <1>14. Grant!SessionEndIsFixed BY <1>9 DEF Grant!SessionEndIsFixed
  <1> QED BY <1>10, <1>11, <1>12, <1>13, <1>14 DEF Grant!InOrder

LEMMA GrantTicks ==
    ASSUME Grant!InOrder, Grant!Tick
    PROVE  /\ Grant!InOrder'
           /\ Grant!OneByOne => Grant!OneByOne'
  <1>1. now < GrantTime /\ now' = now + 1 /\ UNCHANGED <<s1, s2, s3, job>> BY DEF Grant!Tick
  <1>2. now \in Nat /\ GrantTime \in Nat /\ Grant!TypeOK BY GrantNumbers DEF Grant!InOrder
  <1>3. now' \in 1..GrantTime BY <1>1, <1>2
  <1>4. Grant!TypeOK' BY <1>1, <1>2, <1>3 DEF Grant!TypeOK
  <1>5. ASSUME NEW i \in DOMAIN s1 PROVE Grant!Dated(s1[i])'
    <2>1. Grant!Dated(s1[i]) /\ s1[i].approvedAt \in Nat BY <1>2, GrantRow DEF Grant!InOrder
    <2> QED BY <1>1, <1>2, <2>1 DEF Grant!Dated
  <1>6. \A t \in Slots : Grant!Entitled(job[t])' BY <1>1 DEF Grant!InOrder, Grant!Entitled
  <1>7. ASSUME NEW i \in DOMAIN s1 PROVE Grant!Usable(s1[i])' => Grant!Usable(s1[i])
    <2>1. s1[i].redeemBy \in Nat /\ s1[i].until \in Nat BY <1>2, GrantRow
    <2> QED BY <1>1, <1>2, <2>1 DEF Grant!Usable, Grant!InSession
  <1>8. ASSUME Grant!OneByOne PROVE Grant!OneByOne'
    <2>1. Grant!Alone' /\ Grant!OneAssignment' /\ \A i \in DOMAIN s1' : Grant!NotOpened(s1'[i])
      BY <1>1, <1>8 DEF Grant!OneByOne, Grant!Alone, Grant!Free, Grant!OneAssignment
    <2>2. Grant!OneGrantPerOfficer'
      BY <1>1, <1>7, <1>8 DEF Grant!OneByOne, Grant!OneGrantPerOfficer
    <2>3. ASSUME NEW t \in Slots PROVE Grant!Current(job[t])'
      <3>1. Grant!Current(job[t]) BY <1>8 DEF Grant!OneByOne
      <3>2. Grant!Reusable(job[t].staff)' \subseteq Grant!Reusable(job[t].staff)
        <4>1. \A i \in DOMAIN s1 : s1[i].until \in Nat BY <1>2, GrantRow
        <4> QED BY <1>1, <1>2, <4>1 DEF Grant!Reusable
      <3>3. Grant!HasAccess(job[t].staff)' <=> Grant!HasAccess(job[t].staff)
        BY <1>1 DEF Grant!HasAccess
      <3>4. job[t].pc = "redeem" => \A k \in DOMAIN s1 :
                k # job[t].id /\ s1[k].staff = s1[job[t].id].staff => ~Grant!Usable(s1[k])'
        BY <1>7, <3>1 DEF Grant!Current
      <3> QED BY <1>1, <3>1, <3>2, <3>3, <3>4 DEF Grant!Current
    <2> QED BY <2>1, <2>2, <2>3 DEF Grant!OneByOne
  <1> QED BY <1>1, <1>4, <1>5, <1>6, <1>8 DEF Grant!InOrder

\* Nobody is shown a record but by the check of the session.
LEMMA GrantNotShown ==
    ASSUME Grant!TypeOK, NEW s \in Slots, NEW j \in Grant!Jobs, Grant!Goto(s, j), j.pc # "shown"
    PROVE  Grant!ShownHasGrant
  <1>1. job'[s] = j /\ \A t \in Slots : t # s => job'[t] = job[t] BY GrantMoves
  <1> QED BY <1>1 DEF Grant!ShownHasGrant, Grant!Free, Grant!Steps

\* The steps that read and go on; what they read is why they may.
LEMMA GrantStarts ==
    ASSUME Grant!InOrder, NEW s \in Slots,
           \/ Grant!Assign(s) \/ Grant!ReadAssignment(s) \/ Grant!Request(s)
           \/ Grant!ReadRequest(s) \/ Grant!ReadGrant(s) \/ Grant!View(s)
    PROVE  \E j \in Grant!Jobs :
              /\ Grant!Goto(s, j) /\ UNCHANGED <<now, s1, s2, s3>>
              /\ Grant!Entitled(j) /\ j.pc # "shown"
              /\ Grant!Current(j)
  <1>1. Grant!TypeOK /\ SuperAdmins \subseteq AdminStaff BY GrantNumbers DEF Grant!InOrder
  <1>2. CASE Grant!Assign(s)
    <2>1. PICK o \in AdminStaff : Grant!Goto(s, Grant!At("assigned", o, 0))
              /\ UNCHANGED <<now, s1, s2, s3>>
      BY <1>2 DEF Grant!Assign
    <2> DEFINE j == Grant!At("assigned", o, 0)
    <2>2. j \in Grant!Jobs /\ j.pc = "assigned" /\ j.staff = o
      BY <1>1, GrantAt DEF Grant!Steps
    <2> HIDE DEF j
    <2>3. Grant!Entitled(j) /\ Grant!Current(j) BY <2>2 DEF Grant!Entitled, Grant!Current
    <2> QED BY <2>1, <2>2, <2>3 DEF j
  <1>3. CASE Grant!ReadAssignment(s)
    <2>1. PICK i \in DOMAIN s2 : Grant!Goto(s, Grant!At("unassign", s2[i].staff, i))
              /\ UNCHANGED <<now, s1, s2, s3>>
      BY <1>3 DEF Grant!ReadAssignment
    <2> DEFINE j == Grant!At("unassign", s2[i].staff, i)
    <2>2. i \in Nat /\ s2[i].staff \in AdminStaff BY <1>1, AssignmentRow
    <2>3. j \in Grant!Jobs /\ j.pc = "unassign" /\ j.staff = s2[i].staff /\ j.id = i
      BY <1>1, <2>2, GrantAt DEF Grant!Steps
    <2> HIDE DEF j
    <2>4. Grant!Entitled(j) /\ Grant!Current(j) BY <2>2, <2>3 DEF Grant!Entitled, Grant!Current
    <2> QED BY <2>1, <2>3, <2>4 DEF j
  <1>4. CASE Grant!Request(s)
    <2>1. PICK o \in AdminStaff : Grant!Goto(s, Grant!At("reuse", o, 0))
              /\ UNCHANGED <<now, s1, s2, s3>>
      BY <1>4 DEF Grant!Request
    <2> DEFINE j == Grant!At("reuse", o, 0)
    <2>2. j \in Grant!Jobs /\ j.pc = "reuse" /\ j.staff = o
      BY <1>1, GrantAt DEF Grant!Steps
    <2> HIDE DEF j
    <2>3. Grant!Entitled(j) /\ Grant!Current(j) BY <2>2 DEF Grant!Entitled, Grant!Current
    <2> QED BY <2>1, <2>2, <2>3 DEF j
  <1>5. CASE Grant!ReadRequest(s)
    <2>1. PICK o \in SuperAdmins, i \in DOMAIN s1 :
              /\ s1[i].status = "PENDING"
              /\ Grant!Goto(s, Grant!At("approve", o, i)) /\ UNCHANGED <<now, s1, s2, s3>>
      BY <1>5 DEF Grant!ReadRequest
    <2> DEFINE j == Grant!At("approve", o, i)
    <2>2. i \in Nat /\ o \in AdminStaff BY <1>1, GrantRow
    <2>3. j \in Grant!Jobs /\ j.pc = "approve" /\ j.staff = o /\ j.id = i
      BY <1>1, <2>2, GrantAt DEF Grant!Steps
    <2> HIDE DEF j
    <2>4. Grant!Entitled(j) /\ Grant!Current(j)
      BY <2>1, <2>2, <2>3 DEF Grant!Entitled, Grant!Current
    <2> QED BY <2>1, <2>3, <2>4 DEF j
  <1>6. CASE Grant!ReadGrant(s)
    <2>1. PICK i \in DOMAIN s1 : Grant!Goto(s, Grant!At("revoke", Grant!NoOne, i))
              /\ UNCHANGED <<now, s1, s2, s3>>
      BY <1>6 DEF Grant!ReadGrant
    <2> DEFINE j == Grant!At("revoke", Grant!NoOne, i)
    <2>2. i \in Nat BY <1>1, GrantRow
    <2>3. j \in Grant!Jobs /\ j.pc = "revoke" /\ j.id = i
      BY <1>1, <2>2, GrantAt DEF Grant!Steps
    <2> HIDE DEF j
    <2>4. Grant!Entitled(j) /\ Grant!Current(j) BY <2>3 DEF Grant!Entitled, Grant!Current
    <2> QED BY <2>1, <2>3, <2>4 DEF j
  <1>7. CASE Grant!View(s)
    <2>1. PICK o \in AdminStaff : Grant!Goto(s, Grant!At("session", o, 0))
              /\ UNCHANGED <<now, s1, s2, s3>>
      BY <1>7 DEF Grant!View
    <2> DEFINE j == Grant!At("session", o, 0)
    <2>2. j \in Grant!Jobs /\ j.pc = "session" /\ j.staff = o
      BY <1>1, GrantAt DEF Grant!Steps
    <2> HIDE DEF j
    <2>3. Grant!Entitled(j) /\ Grant!Current(j) BY <2>2 DEF Grant!Entitled, Grant!Current
    <2> QED BY <2>1, <2>2, <2>3 DEF j
  <1> QED BY <1>2, <1>3, <1>4, <1>5, <1>6, <1>7

LEMMA GrantGoesOn ==
    ASSUME Grant!InOrder, NEW s \in Slots,
           Grant!FindAssignment(s) \/ Grant!Reuse(s) \/ Grant!FindGrant(s)
    PROVE  \E j \in Grant!Jobs :
              /\ Grant!Goto(s, j) /\ UNCHANGED <<now, s1, s2, s3>>
              /\ Grant!Entitled(j) /\ j.pc # "shown"
              /\ Grant!OneByOne => Grant!Current(j)
  <1>1. /\ Grant!TypeOK /\ Grant!Entitled(job[s]) /\ job[s] \in Grant!Jobs
        /\ Grant!IdleJob \in Grant!Jobs /\ Grant!Entitled(Grant!IdleJob)
        /\ Grant!Current(Grant!IdleJob) /\ Grant!IdleJob.pc # "shown"
    BY GrantJob, GrantIdle DEF Grant!InOrder, Grant!IdleJob
  <1>2. CASE Grant!FindAssignment(s)
    <2> DEFINE j == [job[s] EXCEPT !.pc = "assign"]
    <2>1. /\ job[s].pc = "assigned" /\ UNCHANGED <<now, s1, s2, s3>>
          /\ Grant!Goto(s, IF Grant!HasAccess(job[s].staff) THEN Grant!IdleJob ELSE j)
      BY <1>2 DEF Grant!FindAssignment
    <2>2. CASE Grant!HasAccess(job[s].staff)
      <3>1. Grant!Goto(s, Grant!IdleJob) BY <2>1, <2>2
      <3> QED BY <1>1, <2>1, <3>1
    <2>3. CASE ~Grant!HasAccess(job[s].staff)
      <3>1. j \in Grant!Jobs /\ j.pc = "assign" /\ j.staff = job[s].staff
        BY <1>1 DEF Grant!Jobs, Grant!Steps
      <3>2. job[s].staff \in AdminStaff BY <1>1, <2>1 DEF Grant!Entitled, Grant!Steps
      <3> HIDE DEF j
      <3>3. Grant!Entitled(j) /\ Grant!Current(j)
        BY <2>3, <3>1, <3>2 DEF Grant!Entitled, Grant!Current
      <3> QED BY <2>1, <2>3, <3>1, <3>3
    <2> QED BY <2>2, <2>3
  <1>3. CASE Grant!Reuse(s)
    <2>1. job[s].pc = "reuse" /\ UNCHANGED <<now, s1, s2, s3>> BY <1>3 DEF Grant!Reuse
    <2>2. job[s].staff \in AdminStaff BY <1>1, <2>1 DEF Grant!Entitled, Grant!Steps
    <2>3. CASE \E i \in Grant!Reusable(job[s].staff) : Grant!Goto(s, Grant!At("reused", job[s].staff, i))
      <3>1. PICK i \in Grant!Reusable(job[s].staff) :
                Grant!Goto(s, Grant!At("reused", job[s].staff, i))
        BY <2>3
      <3> DEFINE j == Grant!At("reused", job[s].staff, i)
      <3>2. i \in Nat BY <1>1, GrantRow DEF Grant!Reusable
      <3> HIDE DEF Grant!Reusable
      <3>a. PICK o : o = job[s].staff OBVIOUS
      <3>b. o \in AdminStaff \cup {Grant!NoOne} BY <2>2, <3>a
      <3>c. Grant!At("reused", o, i) \in Grant!Jobs /\ Grant!At("reused", o, i).pc = "reused"
        <4>1. "reused" \in Grant!Steps \cup {"idle", "shown", "reused"} OBVIOUS
        <4>2. Grant!TypeOK BY <1>1, Zenon
        <4>3. \A pc \in Grant!Steps \cup {"idle", "shown", "reused"} :
                  Grant!At(pc, o, i) \in Grant!Jobs /\ Grant!At(pc, o, i).pc = pc
          BY <3>2, <3>b, <4>2, GrantAt
        <4> QED BY <4>1, <4>3, Zenon
      <3>3. j \in Grant!Jobs /\ j.pc = "reused" BY <3>a, <3>c
      <3> HIDE DEF j
      <3>4. Grant!Entitled(j) /\ Grant!Current(j)
        BY <3>3 DEF Grant!Entitled, Grant!Current, Grant!Steps
      <3> QED BY <2>1, <3>1, <3>3, <3>4 DEF j
    <2>4. CASE Grant!Reusable(job[s].staff) = {} /\ Grant!Goto(s, [job[s] EXCEPT !.pc = "create"])
      <3> DEFINE j == [job[s] EXCEPT !.pc = "create"]
      <3>1. j \in Grant!Jobs /\ j.pc = "create" /\ j.staff = job[s].staff
        BY <1>1 DEF Grant!Jobs, Grant!Steps
      <3> HIDE DEF j
      <3>2. Grant!Entitled(j) /\ Grant!Current(j)
        BY <2>2, <2>4, <3>1 DEF Grant!Entitled, Grant!Current
      <3> QED BY <2>1, <2>4, <3>1, <3>2 DEF j
    <2>5. CASE Grant!Goto(s, Grant!IdleJob) BY <1>1, <2>1, <2>5
    <2> QED BY <1>3, <2>3, <2>4, <2>5 DEF Grant!Reuse
  <1>4. CASE Grant!FindGrant(s)
    <2>1. PICK i \in DOMAIN s1 :
              /\ s1[i].status = "APPROVED" /\ ~s1[i].revoked /\ now <= s1[i].redeemBy
              /\ Grant!Goto(s, Grant!At("redeem", s1[i].staff, i)) /\ UNCHANGED <<now, s1, s2, s3>>
      BY <1>4 DEF Grant!FindGrant
    <2> DEFINE j == Grant!At("redeem", s1[i].staff, i)
    <2>2. i \in Nat /\ s1[i].staff \in AdminStaff /\ s1[i].redeemBy \in Nat /\ s1[i].approvedAt \in Nat
      BY <1>1, GrantRow
    <2>3. j \in Grant!Jobs /\ j.pc = "redeem" /\ j.staff = s1[i].staff /\ j.id = i /\ j.at = now
      BY <1>1, <2>2, GrantAt DEF Grant!Steps
    <2> HIDE DEF j
    <2>4. /\ s1[i].by \in SuperAdmins /\ now <= s1[i].approvedAt + RedeemWindow
      <3>1. Grant!Dated(s1[i]) BY DEF Grant!InOrder
      <3>2. now \in Nat /\ RedeemWindow \in Nat BY <1>1, GrantNumbers
      <3> QED BY <2>1, <2>2, <3>1, <3>2 DEF Grant!Dated
    <2>5. Grant!Entitled(j) BY <2>2, <2>3, <2>4 DEF Grant!Entitled
    <2>6. ASSUME Grant!OneByOne PROVE Grant!Current(j)
      <3>1. Grant!Usable(s1[i]) BY <2>1 DEF Grant!Usable
      <3>2. \A k \in DOMAIN s1 : k # i /\ s1[k].staff = s1[i].staff => ~Grant!Usable(s1[k])
        BY <2>6, <3>1 DEF Grant!OneByOne, Grant!OneGrantPerOfficer
      <3> QED BY <2>1, <2>3, <3>2 DEF Grant!Current
    <2> QED BY <2>1, <2>3, <2>5, <2>6 DEF j
  <1> QED BY <1>2, <1>3, <1>4

LEMMA GrantShows ==
    ASSUME Grant!InOrder, NEW s \in Slots, Grant!Show(s)
    PROVE  /\ Grant!ShownHasGrant
           /\ \E j \in Grant!Jobs : /\ Grant!Goto(s, j) /\ UNCHANGED <<now, s1, s2, s3>>
                                    /\ Grant!Entitled(j) /\ Grant!Current(j)
  <1>1. /\ Grant!TypeOK /\ Grant!Entitled(job[s]) /\ job[s] \in Grant!Jobs
        /\ Grant!IdleJob \in Grant!Jobs /\ Grant!Entitled(Grant!IdleJob)
        /\ Grant!Current(Grant!IdleJob) /\ Grant!IdleJob.pc # "shown"
    BY GrantJob, GrantIdle DEF Grant!InOrder, Grant!IdleJob
  <1> DEFINE j == [job[s] EXCEPT !.pc = "shown"]
             Let == \E i \in DOMAIN s1 : s1[i].staff = job[s].staff /\ Grant!InSession(s1[i])
  <1>2. /\ job[s].pc = "session" /\ UNCHANGED <<now, s1, s2, s3>>
        /\ Grant!Goto(s, IF Let THEN j ELSE Grant!IdleJob)
    BY DEF Grant!Show
  <1>3. CASE ~Let
    <2>1. Grant!Goto(s, Grant!IdleJob) BY <1>2, <1>3
    <2>2. Grant!ShownHasGrant BY <1>1, <2>1, GrantNotShown
    <2> QED BY <1>1, <1>2, <2>1, <2>2
  <1>4. CASE Let
    <2>1. Grant!Goto(s, j) BY <1>2, <1>4
    <2>2. j \in Grant!Jobs /\ j.pc = "shown" BY <1>1 DEF Grant!Jobs
    <2> HIDE DEF j
    <2>3. Grant!Entitled(j) /\ Grant!Current(j)
      BY <2>2 DEF Grant!Entitled, Grant!Current, Grant!Steps
    <2>4. PICK i \in DOMAIN s1 : s1[i].staff = job[s].staff /\ Grant!InSession(s1[i])
      BY <1>4
    <2>5. Grant!Dated(s1[i]) /\ s1[i].approvedAt \in Nat /\ s1[i].until \in Nat
      BY <1>1, GrantRow DEF Grant!InOrder
    <2>6. now \in Nat /\ RedeemWindow \in Nat /\ SessionHours \in Nat BY <1>1, GrantNumbers
    <2>7. ~s1[i].revoked /\ s1[i].by \in SuperAdmins
      BY <2>4, <2>5 DEF Grant!InSession, Grant!Dated
    <2>8. now < s1[i].approvedAt + RedeemWindow + SessionHours
      BY <2>4, <2>5, <2>6 DEF Grant!InSession, Grant!Dated
    <2>9. \A t \in Slots : t # s => job'[t] = job[t] BY <1>1, <2>1, <2>2, GrantMoves
    <2>10. Grant!ShownHasGrant
      <3> SUFFICES ASSUME NEW t \in Slots, ~Grant!Free(t), job'[t].pc = "shown"
                   PROVE  \E k \in DOMAIN s1 :
                             /\ s1[k].staff = job[t].staff /\ ~s1[k].revoked
                             /\ s1[k].by \in SuperAdmins
                             /\ now < s1[k].approvedAt + RedeemWindow + SessionHours
        BY DEF Grant!ShownHasGrant
      <3>1. t = s BY <2>9 DEF Grant!Free, Grant!Steps
      <3> QED BY <2>4, <2>7, <2>8, <3>1
    <2> QED BY <1>2, <2>1, <2>2, <2>3, <2>10
  <1> QED BY <1>3, <1>4

LEMMA GrantStep ==
    ASSUME Grant!InOrder, Grant!Next
    PROVE  /\ Grant!InOrder' /\ Grant!ShownHasGrant
           /\ Grant!OneByOne /\ Grant!Alone' =>
                 Grant!OneByOne' /\ Grant!SessionEndIsFixed /\ Grant!RevokeCutsAccess
  <1>1. Grant!TypeOK /\ Grant!IdleJob \in Grant!Jobs /\ Grant!IdleJob.pc # "shown"
    BY GrantIdle DEF Grant!InOrder, Grant!IdleJob
  <1>2. UNCHANGED s1 => Grant!SessionEndIsFixed BY DEF Grant!SessionEndIsFixed
  <1>3. UNCHANGED s2 => Grant!RevokeCutsAccess BY DEF Grant!RevokeCutsAccess
  <1>4. \A s \in Slots : Grant!Goto(s, Grant!IdleJob) => Grant!ShownHasGrant
    BY <1>1, GrantNotShown
  <1>5. ASSUME NEW s \in Slots,
               \/ Grant!Assign(s) \/ Grant!ReadAssignment(s) \/ Grant!Request(s)
               \/ Grant!ReadRequest(s) \/ Grant!ReadGrant(s) \/ Grant!View(s)
               \/ Grant!FindAssignment(s) \/ Grant!Reuse(s) \/ Grant!FindGrant(s)
        PROVE  /\ Grant!InOrder' /\ Grant!ShownHasGrant /\ UNCHANGED <<s1, s2>>
               /\ Grant!OneByOne /\ Grant!Alone' => Grant!OneByOne'
    <2>1. PICK j \in Grant!Jobs :
              /\ Grant!Goto(s, j) /\ UNCHANGED <<now, s1, s2, s3>>
              /\ Grant!Entitled(j) /\ j.pc # "shown"
              /\ Grant!OneByOne => Grant!Current(j)
      BY <1>5, GrantStarts, GrantGoesOn
    <2>2. Grant!ShownHasGrant BY <1>1, <2>1, GrantNotShown
    <2> QED BY <2>1, <2>2, GrantReads
  <1>6. ASSUME NEW s \in Slots, Grant!Show(s)
        PROVE  /\ Grant!InOrder' /\ Grant!ShownHasGrant /\ UNCHANGED <<s1, s2>>
               /\ Grant!OneByOne /\ Grant!Alone' => Grant!OneByOne'
    <2>1. Grant!ShownHasGrant /\
          \E j \in Grant!Jobs : /\ Grant!Goto(s, j) /\ UNCHANGED <<now, s1, s2, s3>>
                                /\ Grant!Entitled(j) /\ Grant!Current(j)
      BY <1>6, GrantShows
    <2> QED BY <2>1, GrantReads
  <1>7. ASSUME NEW s \in Slots, Grant!CreateAssignment(s) \/ Grant!RevokeAssignment(s)
        PROVE  /\ Grant!InOrder' /\ UNCHANGED s1 /\ Grant!Goto(s, Grant!IdleJob)
               /\ Grant!OneByOne => Grant!OneByOne' /\ Grant!RevokeCutsAccess
    <2>1. CASE Grant!CreateAssignment(s)
      <3>1. Grant!InOrder' /\ (Grant!OneByOne => Grant!OneByOne') BY <2>1, AssignmentCreated
      <3>2. /\ UNCHANGED s1 /\ Grant!Goto(s, Grant!IdleJob) /\ job[s].pc = "assign"
            /\ s2' = Append(s2, [staff |-> job[s].staff, revoked |-> FALSE])
        BY <2>1 DEF Grant!CreateAssignment
      <3>3. \A i \in DOMAIN s2 : s2'[i] = s2[i]
        BY <1>1, <3>2, GrantNumbers
      <3> QED BY <3>1, <3>2, <3>3 DEF Grant!RevokeCutsAccess
    <2>2. CASE Grant!RevokeAssignment(s)
      BY <2>2, AssignmentRevoked DEF Grant!RevokeAssignment
    <2> QED BY <1>7, <2>1, <2>2
  <1>8. ASSUME NEW s \in Slots,
               Grant!CreateRequest(s) \/ Grant!Approve(s) \/ Grant!Redeem(s) \/ Grant!Revoke(s)
        PROVE  /\ Grant!InOrder' /\ UNCHANGED s2 /\ Grant!Goto(s, Grant!IdleJob)
               /\ Grant!OneByOne => Grant!OneByOne' /\ Grant!SessionEndIsFixed
    <2>1. UNCHANGED s2 /\ Grant!Goto(s, Grant!IdleJob)
      BY <1>8 DEF Grant!CreateRequest, Grant!Approve, Grant!Redeem, Grant!Revoke
    <2> QED BY <1>8, <2>1, GrantRequested, GrantApproved, GrantRedeemed, GrantRevoked
  <1>9. CASE Grant!Tick
    <2>1. Grant!InOrder' /\ (Grant!OneByOne => Grant!OneByOne') BY <1>9, GrantTicks
    <2>2. UNCHANGED <<s1, s2, job>> BY <1>9 DEF Grant!Tick
    <2>3. Grant!ShownHasGrant BY <2>2 DEF Grant!ShownHasGrant, Grant!Free, Grant!Steps
    <2> QED BY <1>2, <1>3, <2>1, <2>2, <2>3
  <1> QED BY <1>2, <1>3, <1>4, <1>5, <1>6, <1>7, <1>8, <1>9 DEF Grant!Next

\* Whatever requests overlap, the rows are in order; until two have, they are
\* also decided one by one.
GrantsHold == Grant!InOrder /\ (overlapped \/ Grant!OneByOne)

LEMMA GrantsInit ==
    ASSUME Grant!Init PROVE Grant!InOrder /\ Grant!OneByOne
  <1>1. /\ now = 1 /\ s3 = 0 /\ s1 = <<>> /\ s2 = <<>>
        /\ job = [s \in Slots |-> Grant!IdleJob]
    BY DEF Grant!Init
  <1>2. /\ GrantTime \in Nat /\ GrantTime > 0 /\ MaxTokens \in Nat
    BY GrantConstants DEF Grant!AccessAssumption
  <1>3. 1 \in 1..GrantTime /\ 0 \in 0..MaxTokens BY <1>2
  <1>4. <<>> \in Seq(Grant!Grants) /\ <<>> \in Seq(Grant!Assignments) /\ DOMAIN <<>> = {}
    OBVIOUS
  <1>5. Grant!TypeOK BY <1>1, <1>3, <1>4, GrantIdle DEF Grant!TypeOK
  <1>6. \A s \in Slots : /\ Grant!Entitled(job[s]) /\ Grant!Current(job[s]) /\ Grant!Free(s)
    BY <1>1, GrantIdle DEF Grant!Free
  <1>7. DOMAIN s1 = {} /\ DOMAIN s2 = {} BY <1>1, <1>4
  <1> QED
    BY <1>5, <1>6, <1>7 DEF Grant!InOrder, Grant!OneByOne, Grant!Alone, Grant!OneAssignment,
         Grant!OneGrantPerOfficer

LEMMA GrantsNext ==
    ASSUME GrantsHold, GrantNext
    PROVE  /\ GrantsHold' /\ Grant!ShownHasGrant
           /\ overlapped' \/ (Grant!SessionEndIsFixed /\ Grant!RevokeCutsAccess)
  <1>1. /\ Grant!Next
        /\ overlapped' = (overlapped \/ \E s, t \in Slots :
                              s # t /\ ~Grant!Free(s)' /\ ~Grant!Free(t)')
    BY DEF GrantNext
  <1>2. ASSUME ~overlapped' PROVE ~overlapped /\ Grant!Alone'
    BY <1>1, <1>2 DEF Grant!Alone
  <1> QED BY <1>1, <1>2, GrantStep DEF GrantsHold

-----------------------------------------------------------------------------
(* Elevations: what AccessElevationProofs proves, of the slots of this model.  *)

EP == INSTANCE AccessElevationProofs WITH
    Staff <- Officers, Supers <- OfficerSupers, Window <- RevealWindow, elevations <- s1

LEMMA ElevationsInit ==
    ASSUME Elevation!Init PROVE EP!IInv
  <1>1. EP!ElevationAssumption
    BY ElevationConstants DEF Elevation!ElevationAssumption, EP!ElevationAssumption
  <1>2. EP!Init
    BY DEF Elevation!Init, EP!Init, Elevation!IdleJob, EP!IdleJob, Elevation!NoOne, EP!NoOne,
           Elevation!NoTime, EP!NoTime
  <1> QED BY <1>1, <1>2, EP!InitHolds

LEMMA ElevationsNext ==
    ASSUME EP!IInv, Elevation!Next
    PROVE  EP!IInv' /\ (overlapped' \/ Elevation!DecisionStands)
  <1>1. EP!ElevationAssumption
    BY ElevationConstants DEF Elevation!ElevationAssumption, EP!ElevationAssumption
  <1>2. EP!Next
    BY DEF Elevation!Next, EP!Next, Elevation!Step, EP!Step, Elevation!Tick, EP!Tick,
           Elevation!FindOpen, EP!FindOpen, Elevation!CreateRequest, EP!CreateRequest,
           Elevation!ReadToApprove, EP!ReadToApprove, Elevation!Approve, EP!Approve,
           Elevation!ReadToDeny, EP!ReadToDeny, Elevation!Deny, EP!Deny,
           Elevation!ReadToRevoke, EP!ReadToRevoke, Elevation!Revoke, EP!Revoke,
           Elevation!CheckReveal, EP!CheckReveal, Elevation!Reveal, EP!Reveal,
           Elevation!Elevated, EP!Elevated, Elevation!MayDecide, EP!MayDecide,
           Elevation!MayApprove, EP!MayApprove, Elevation!Decide, EP!Decide,
           Elevation!Goto, EP!Goto, Elevation!Done, EP!Done, Elevation!Idle, EP!Idle,
           Elevation!IdleJob, EP!IdleJob, Elevation!NoOne, EP!NoOne,
           Elevation!NoTime, EP!NoTime, Elevation!Collide, EP!Collide,
           Elevation!Deciding, EP!Deciding
  <1>3. EP!IInv' BY <1>1, <1>2, EP!NextHolds
  <1>4. ~overlapped' => EP!DecisionStands BY <1>2, EP!DecisionKept
  <1>5. EP!DecisionStands => Elevation!DecisionStands
    BY DEF EP!DecisionStands, Elevation!DecisionStands
  <1> QED BY <1>3, <1>4, <1>5

LEMMA ElevationsShown ==
    ASSUME EP!IInv PROVE Elevation!TypeOK /\ Elevation!ShownByAnother
  <1>1. EP!TypeOK BY DEF EP!IInv
  <1>2. Elevation!TypeOK
    BY <1>1 DEF EP!TypeOK, Elevation!TypeOK, EP!Elevation, Elevation!Elevation, EP!Jobs,
           Elevation!Jobs, EP!Steps, Elevation!Steps, EP!NoOne, Elevation!NoOne
  <1>3. EP!ShownByAnother BY EP!InvShows
  <1> QED BY <1>2, <1>3 DEF EP!ShownByAnother, Elevation!ShownByAnother

-----------------------------------------------------------------------------
(* Links: until two requests overlap, the link a request holds is still good.  *)

LinkHeld(s) == job[s].link # NoLink =>
    job[s].link \in DOMAIN links /\ ~links[job[s].link].used
LinksHold == IInv /\ (overlapped \/ \A s \in Slots : LinkHeld(s))

LEMMA LinkKept ==
    ASSUME IInv, NEW s \in Slots, NEW j \in Jobs, Goto(s, j),
           \A t \in Slots : LinkHeld(t),
           DOMAIN links \subseteq DOMAIN links', \A i \in DOMAIN links : links'[i] = links[i],
           j.link \in {NoLink, job[s].link}
    PROVE  \A t \in Slots : LinkHeld(t)'
  <1>1. job'[s] = j /\ \A t \in Slots : t # s => job'[t] = job[t] BY SlotChanges DEF IInv
  <1> QED BY <1>1 DEF LinkHeld

LEMMA ServedLinks ==
    ASSUME IInv, OneAtATime, NEW s \in Slots, Serve(s), \A t \in Slots : LinkHeld(t)
    PROVE  /\ \A t \in Slots : LinkHeld(t)'
           /\ \A t \in Slots : LinkSpent(t)
  <1>1. /\ job \in [Slots -> Jobs] /\ links \in Seq(Links) /\ now \in Nat
        /\ user \in Users /\ \A t \in Slots : job[t] \in Jobs
    BY DEF IInv, TypeOK
  <1>2. DOMAIN links = 1..Len(links) /\ Len(links) \in Nat BY <1>1
  <1>3. IdleJob \in Jobs /\ IdleJob.link = NoLink
    BY DEF IdleJob, Jobs, NoRow, Tokens, NoTime, NoLink, Steps
  <1>4. UNCHANGED passwords => \A t \in Slots : LinkSpent(t) BY DEF LinkSpent
  <1>5. ASSUME NEW j \in Jobs, Goto(s, j), UNCHANGED <<links, passwords>>, j.link \in {NoLink, job[s].link}
        PROVE  (\A t \in Slots : LinkHeld(t)') /\ \A t \in Slots : LinkSpent(t)
    BY <1>4, <1>5, LinkKept
  <1>6. CASE ReadForLogin(s)
    <2> DEFINE row == [pwdIat |-> user.changedAt, pwd |-> user.password]
               j   == [IdleJob EXCEPT !.pc = "mint", !.at = now, !.row = row]
    <2>1. row \in Tokens BY <1>1 DEF Users, Tokens
    <2>2. Goto(s, j) /\ UNCHANGED <<links, passwords>> BY <1>6 DEF ReadForLogin
    <2> HIDE DEF row
    <2>3. j \in Jobs /\ j.link = NoLink
      BY <1>1, <2>1 DEF IdleJob, Jobs, NoRow, Tokens, NoTime, NoLink, Steps
    <2> HIDE DEF j
    <2> QED BY <1>5, <2>2, <2>3
  <1>7. CASE Mint(s)
    <2>1. Goto(s, IdleJob) /\ UNCHANGED <<links, passwords>> BY <1>7 DEF Mint, Done
    <2> QED BY <1>3, <1>5, <2>1
  <1>8. CASE ReadForChange(s)
    <2> DEFINE j == [IdleJob EXCEPT !.pc = "change", !.at = now]
    <2>1. Goto(s, j) /\ UNCHANGED <<links, passwords>> BY <1>8 DEF ReadForChange
    <2>2. j \in Jobs /\ j.link = NoLink
      BY <1>1 DEF IdleJob, Jobs, NoRow, Tokens, NoTime, NoLink, Steps
    <2> HIDE DEF j
    <2> QED BY <1>5, <2>1, <2>2
  <1>9. CASE AdminReset(s)
    <2> DEFINE j == [IdleJob EXCEPT !.pc = "admin", !.at = now, !.admin = TRUE]
    <2>1. Goto(s, j) /\ UNCHANGED <<links, passwords>> BY <1>9 DEF AdminReset
    <2>2. j \in Jobs /\ j.link = NoLink
      BY <1>1 DEF IdleJob, Jobs, NoRow, Tokens, NoTime, NoLink, Steps
    <2> HIDE DEF j
    <2> QED BY <1>5, <2>1, <2>2
  <1>10. CASE ReadLink(s)
    <2>1. PICK i \in DOMAIN links :
              /\ ~links[i].used /\ UNCHANGED <<links, passwords>>
              /\ Goto(s, [IdleJob EXCEPT !.pc = "reset", !.at = now, !.link = i])
      BY <1>10 DEF ReadLink, Usable
    <2> DEFINE j == [IdleJob EXCEPT !.pc = "reset", !.at = now, !.link = i]
    <2>2. i \in Nat BY <1>2
    <2>3. j \in Jobs /\ j.link = i
      BY <1>1, <2>2 DEF IdleJob, Jobs, NoRow, Tokens, NoTime, NoLink, Steps
    <2>4. Goto(s, j) BY <2>1
    <2> HIDE DEF j
    <2>5. job'[s] = j /\ \A t \in Slots : t # s => job'[t] = job[t]
      BY <2>3, <2>4, SlotChanges DEF IInv
    <2> QED BY <1>4, <2>1, <2>3, <2>5 DEF LinkHeld
  <1>11. CASE Stamp(s)
    <2> DEFINE j == [job[s] EXCEPT !.pc = "stamped", !.at = now]
    <2>1. Goto(s, j) /\ UNCHANGED <<links, passwords>> BY <1>11 DEF Stamp
    <2>2. j \in Jobs /\ j.link = job[s].link BY <1>1 DEF Jobs, Steps
    <2> HIDE DEF j
    <2> QED BY <1>5, <2>1, <2>2
  <1>12. CASE WritePassword(s)
    <2> DEFINE j == IF job[s].admin /\ kind = "PROVIDER"
                    THEN [IdleJob EXCEPT !.pc = "invite"] ELSE IdleJob
    <2>1. /\ job[s].pc = "stamped" /\ Goto(s, j)
          /\ links' = IF job[s].link = NoLink THEN links ELSE Burn(job[s].link)
      BY <1>12 DEF WritePassword
    <2>2. j \in Jobs /\ j.link = NoLink
      BY DEF IdleJob, Jobs, NoRow, Tokens, NoTime, NoLink, Steps
    <2> HIDE DEF j
    <2>3. job'[s] = j /\ \A t \in Slots : t # s => job'[t] = job[t]
      BY <2>1, <2>2, SlotChanges DEF IInv
    <2>4. job[s] # IdleJob BY <2>1 DEF IdleJob
    <2>5. \A t \in Slots : t # s => job[t] = IdleJob BY <2>4 DEF OneAtATime
    <2>6. \A t \in Slots : LinkHeld(t)' BY <1>3, <2>2, <2>3, <2>5 DEF LinkHeld
    <2>7. ASSUME NEW t \in Slots PROVE LinkSpent(t)
      <3>1. CASE t # s
        <4>1. job[t].pc # "stamped" BY <2>5, <3>1 DEF IdleJob
        <4> QED BY <4>1 DEF LinkSpent
      <3>2. CASE t = s /\ job[s].link # NoLink
        <4>1. links' = [k \in DOMAIN links |-> [links[k] EXCEPT !.used = TRUE]]
          BY <2>1, <3>2 DEF Burn
        <4>2. \A i \in DOMAIN links : links[i] \in Links BY <1>1
        <4>3. \A i \in DOMAIN links' : links'[i].used BY <4>1, <4>2 DEF Links
        <4> QED BY <3>2, <4>3 DEF LinkSpent, LinkHeld
      <3>3. CASE t = s /\ job[s].link = NoLink BY <3>3 DEF LinkSpent
      <3> QED BY <3>1, <3>2, <3>3
    <2> QED BY <2>6, <2>7
  <1>13. CASE RequestReset(s)
    <2> DEFINE j == [IdleJob EXCEPT !.pc = "link"]
    <2>1. Goto(s, j) /\ UNCHANGED <<links, passwords>> BY <1>13 DEF RequestReset
    <2>2. j \in Jobs /\ j.link = NoLink
      BY DEF IdleJob, Jobs, NoRow, Tokens, NoTime, NoLink, Steps
    <2> HIDE DEF j
    <2> QED BY <1>5, <2>1, <2>2
  <1>14. CASE MintLink(s)
    <2> DEFINE l == [used |-> FALSE,
                     expiresAt |-> now + (IF job[s].pc = "link" THEN ResetTtl ELSE InviteTtl)]
    <2>1. Goto(s, IdleJob) /\ UNCHANGED passwords /\ links' = Append(links, l)
      BY <1>14 DEF MintLink, Done
    <2> HIDE DEF l
    <2>2. DOMAIN links' = 1..(Len(links) + 1) /\ \A i \in DOMAIN links : links'[i] = links[i]
      BY <1>1, <1>2, <2>1
    <2>3. DOMAIN links \subseteq DOMAIN links' BY <1>2, <2>2
    <2> QED BY <1>3, <1>4, <2>1, <2>2, <2>3, LinkKept
  <1> QED
    BY <1>6, <1>7, <1>8, <1>9, <1>10, <1>11, <1>12, <1>13, <1>14 DEF Serve

LEMMA LinksInit ==
    ASSUME Init PROVE LinksHold
  <1>1. IInv BY CredentialsAssumption, InitHolds
  <1>2. \A s \in Slots : job[s] = IdleJob BY DEF Init
  <1> QED BY <1>1, <1>2 DEF LinksHold, LinkHeld, IdleJob

LEMMA LinksNext ==
    ASSUME LinksHold, Next
    PROVE  LinksHold' /\ (overlapped' \/ \A s \in Slots : LinkSpent(s))
  <1>1. IInv /\ IInv' BY CredentialsAssumption, StepHolds DEF LinksHold
  <1>2. ASSUME ~overlapped'
        PROVE  (\A s \in Slots : LinkHeld(s)') /\ \A s \in Slots : LinkSpent(s)
    <2>1. ~overlapped BY <1>2 DEF Next
    <2>2. OneAtATime /\ \A s \in Slots : LinkHeld(s) BY <1>1, <2>1 DEF LinksHold, IInv, Orderly
    <2>3. CASE Tick \/ SetActive
      <3>1. UNCHANGED <<links, job, passwords>> BY <2>3 DEF Tick, SetActive
      <3> QED BY <2>2, <3>1 DEF LinkHeld, LinkSpent
    <2>4. CASE \E s \in Slots : Serve(s) BY <1>1, <2>2, <2>4, ServedLinks
    <2> QED BY <2>3, <2>4 DEF Next, Step
  <1> QED BY <1>1, <1>2 DEF LinksHold

-----------------------------------------------------------------------------
(* Second factor.                                                              *)

LEMMA FactorNumbers ==
    /\ CodesPer \in Nat /\ StepUpTtl \in Nat /\ Ceiling \in Nat /\ Ceiling > 0
    /\ FactorTime \in Nat /\ MaxMade \in Nat /\ MaxMade > 0
  BY FactorConstants DEF Factor!FactorAssumption

\* A code tells the set it is of.
LEMMA CodeOfSet ==
    ASSUME NEW n, NEW c \in Factor!CodeSet(n) PROVE c[1] = n
  BY DEF Factor!CodeSet

LEMMA SetsAreCodes ==
    ASSUME NEW n \in 1..MaxMade PROVE Factor!CodeSet(n) \subseteq Factor!Codes
  BY DEF Factor!Codes

LEMMA FactorRow ==
    ASSUME Factor!TypeOK
    PROVE  /\ now \in Nat /\ s1 \in BOOLEAN /\ s2 \in Nat /\ s2 \in 0..MaxMade
           /\ s3 \subseteq Factor!Codes /\ s5 \subseteq Factor!Codes
           /\ s4.secrets \in 0..MaxMade /\ s4.sets \in 0..MaxMade /\ s4.sets \in Nat
           /\ s6.origIat \in Nat /\ s6.expires \in Nat /\ s7 \in Nat /\ s7 \in 0..FactorTime
           /\ \A s \in Slots : job[s] \in Factor!Jobs
  <1>1. s4 \in [secrets : 0..MaxMade, sets : 0..MaxMade] /\ s6 \in Factor!Session
    BY DEF Factor!TypeOK
  <1>2. s4.secrets \in 0..MaxMade /\ s4.sets \in 0..MaxMade BY <1>1
  <1>3. s6.origIat \in Nat /\ s6.expires \in Nat BY <1>1 DEF Factor!Session
  <1> QED BY <1>2, <1>3, FactorNumbers DEF Factor!TypeOK

LEMMA FactorIdle ==
    /\ Factor!IdleJob \in Factor!Jobs /\ Factor!IdleJob.pc = "idle"
    /\ \A pc \in Factor!Steps : /\ [Factor!IdleJob EXCEPT !.pc = pc] \in Factor!Jobs
                                /\ [Factor!IdleJob EXCEPT !.pc = pc].pc = pc
                                /\ [Factor!IdleJob EXCEPT !.pc = pc] # Factor!IdleJob
  BY DEF Factor!IdleJob, Factor!Jobs, Factor!Steps

\* A request takes a step: what it leaves must be whole, and others under way
\* must have been alone with what they hold.
LEMMA FactorServed ==
    ASSUME Factor!Whole, ~overlapped, Factor!Next, NEW s \in Slots, NEW j \in Factor!Jobs,
           Factor!Goto(s, j), UNCHANGED <<now, s6, s7>>,
           s1' \in BOOLEAN, s2' \in 0..MaxMade, s3' \subseteq Factor!Codes, s5' \subseteq Factor!Codes,
           s4' \in [secrets : 0..MaxMade, sets : 0..MaxMade], Factor!SpentAreMade',
           s1' => s2' # Factor!None, s3' \subseteq Factor!CodeSet(s4'.sets) \ s5',
           j.pc = "enable" => s2' # Factor!None,
           j.pc = "consume" => j.codes = s3' /\ j.code \in s3',
           job[s] # Factor!IdleJob \/ (s3' = s3 /\ (s2' = s2 \/ s2' # Factor!None))
    PROVE  Factor!Whole'
  <1>1. /\ job' \in [Slots -> Factor!Jobs] /\ job'[s] = j
        /\ \A t \in Slots : t # s => job'[t] = job[t]
    BY DEF Factor!Whole, Factor!TypeOK, Factor!Goto
  <1>2. overlapped' \in BOOLEAN /\ (~overlapped' => Factor!Alone')
    BY DEF Factor!Next, Factor!Whole, Factor!TypeOK, Factor!Alone, Factor!Idle
  <1>3. Factor!TypeOK' BY <1>1, <1>2 DEF Factor!Whole, Factor!TypeOK
  <1>4. Factor!CountsFromStepUp' BY DEF Factor!Whole, Factor!CountsFromStepUp, Factor!SessionEnds
  <1>5. Factor!FactorIsWhole' BY DEF Factor!FactorIsWhole
  <1>6. ASSUME NEW t \in Slots PROVE Factor!Current(job[t])'
    <2>1. CASE t = s BY <1>1, <2>1 DEF Factor!Current
    <2>2. CASE t # s /\ job[s] # Factor!IdleJob
      <3>1. job'[t] = Factor!IdleJob
        BY <1>1, <2>2 DEF Factor!Whole, Factor!OneByOne, Factor!Alone, Factor!Idle
      <3> QED BY <3>1, FactorIdle DEF Factor!Current
    <2>3. CASE t # s /\ s3' = s3 /\ (s2' = s2 \/ s2' # Factor!None)
      <3>1. Factor!Current(job[t]) /\ job'[t] = job[t]
        BY <1>1, <2>3 DEF Factor!Whole, Factor!OneByOne
      <3> QED BY <2>3, <3>1 DEF Factor!Current
    <2> QED BY <2>1, <2>2, <2>3
  <1> QED BY <1>2, <1>3, <1>4, <1>5, <1>6 DEF Factor!Whole, Factor!OneByOne

LEMMA FactorOwn ==
    ASSUME Factor!Whole, ~overlapped
    PROVE  /\ Factor!TypeOK /\ Factor!SpentAreMade /\ Factor!Alone
           /\ s1 => s2 # Factor!None
           /\ s3 \subseteq Factor!CodeSet(s4.sets) \ s5
           /\ \A s \in Slots : Factor!Current(job[s])
  BY DEF Factor!Whole, Factor!OneByOne, Factor!FactorIsWhole

LEMMA FactorReads ==
    ASSUME Factor!Whole, ~overlapped, Factor!Next, NEW s \in Slots,
           \/ Factor!ReadToEnable(s) \/ Factor!ReadToRegenerate(s)
           \/ Factor!ReadToConsume(s) \/ Factor!ReadToDisable(s)
    PROVE  Factor!Whole'
  <1>1. /\ Factor!TypeOK /\ Factor!SpentAreMade /\ (s1 => s2 # Factor!None)
        /\ s3 \subseteq Factor!CodeSet(s4.sets) \ s5
    BY FactorOwn
  <1>2. UNCHANGED <<now, s1, s2, s3, s4, s5, s6, s7>>
    BY DEF Factor!ReadToEnable, Factor!ReadToRegenerate, Factor!ReadToConsume, Factor!ReadToDisable
  <1>3. Factor!SpentAreMade' BY <1>1, <1>2 DEF Factor!SpentAreMade
  <1>4. ASSUME NEW j \in Factor!Jobs, Factor!Goto(s, j), j.pc = "enable" => s2 # Factor!None,
               j.pc = "consume" => j.codes = s3 /\ j.code \in s3
        PROVE  Factor!Whole'
    <2>1. s4 \in [secrets : 0..MaxMade, sets : 0..MaxMade] BY <1>1 DEF Factor!TypeOK
    <2> QED BY <1>1, <1>2, <1>3, <1>4, <2>1, FactorRow, FactorServed
  <1>5. CASE Factor!ReadToEnable(s) \/ Factor!ReadToRegenerate(s) \/ Factor!ReadToDisable(s)
    <2>1. PICK pc \in {"enable", "codes", "disable"} :
              /\ s2 # Factor!None
              /\ Factor!Goto(s, [Factor!IdleJob EXCEPT !.pc = pc])
      BY <1>5 DEF Factor!ReadToEnable, Factor!ReadToRegenerate, Factor!ReadToDisable
    <2> DEFINE j == [Factor!IdleJob EXCEPT !.pc = pc]
    <2>2. j \in Factor!Jobs /\ j.pc = pc BY FactorIdle DEF Factor!Steps
    <2>3. Factor!Goto(s, j) BY <2>1
    <2> HIDE DEF j
    <2> QED BY <1>4, <2>1, <2>2, <2>3
  <1>6. CASE Factor!ReadToConsume(s)
    <2>1. PICK c \in s3, d \in BOOLEAN :
              Factor!Goto(s, [pc |-> "consume", codes |-> s3, code |-> c, disable |-> d])
      BY <1>6 DEF Factor!ReadToConsume
    <2> DEFINE j == [pc |-> "consume", codes |-> s3, code |-> c, disable |-> d]
    <2>2. s3 \subseteq Factor!Codes BY <1>1, FactorRow
    <2>3. j \in Factor!Jobs /\ j.pc = "consume" /\ j.codes = s3 /\ j.code = c
      BY <2>2 DEF Factor!Jobs, Factor!Steps
    <2>4. Factor!Goto(s, j) BY <2>1
    <2> HIDE DEF j
    <2> QED BY <1>4, <2>3, <2>4
  <1> QED BY <1>5, <1>6

LEMMA FactorWrites ==
    ASSUME Factor!Whole, ~overlapped, Factor!Next, NEW s \in Slots, Factor!WriteCodes(s)
    PROVE  Factor!Whole'
  <1> DEFINE n == s4.sets + 1
  <1>1. /\ Factor!TypeOK /\ Factor!SpentAreMade /\ (s1 => s2 # Factor!None)
        /\ Factor!Current(job[s])
    BY FactorOwn
  <1>2. /\ job[s].pc \in {"enable", "codes"} /\ s4.sets < MaxMade
        /\ s4' = [s4 EXCEPT !.sets = s4.sets + 1]
        /\ s3' = Factor!CodeSet(n) /\ s1' = (s1 \/ job[s].pc = "enable")
        /\ Factor!Goto(s, Factor!IdleJob) /\ UNCHANGED <<now, s2, s5, s6, s7>>
    BY DEF Factor!WriteCodes, Factor!Done
  <1>3. /\ s4.sets \in Nat /\ s4.sets \in 0..MaxMade /\ MaxMade \in Nat
        /\ s4 \in [secrets : 0..MaxMade, sets : 0..MaxMade]
    BY <1>1, FactorRow, FactorNumbers DEF Factor!TypeOK
  <1>4. n \in 1..MaxMade /\ n \in 0..MaxMade BY <1>2, <1>3
  <1> HIDE DEF n
  <1>5. s4' = [s4 EXCEPT !.sets = n] BY <1>2 DEF n
  <1>6. s4' \in [secrets : 0..MaxMade, sets : 0..MaxMade] /\ s4'.sets = n
    BY <1>3, <1>4, <1>5
  <1>7. s3' \subseteq Factor!Codes BY <1>2, <1>4, SetsAreCodes
  <1>8. \A c \in s5 : c \notin Factor!CodeSet(n)
    <2> SUFFICES ASSUME NEW c \in s5, c \in Factor!CodeSet(n) PROVE FALSE OBVIOUS
    <2>1. PICK m \in 1..s4.sets : c \in Factor!CodeSet(m) BY <1>1 DEF Factor!SpentAreMade
    <2>2. c[1] = m /\ c[1] = n BY <2>1, CodeOfSet
    <2>3. n = s4.sets + 1 BY DEF n
    <2> QED BY <1>3, <2>1, <2>2, <2>3
  <1>9. Factor!SpentAreMade'
    <2> SUFFICES ASSUME NEW c \in s5 PROVE \E m \in 1..n : c \in Factor!CodeSet(m)
      BY <1>2, <1>6 DEF Factor!SpentAreMade
    <2>1. PICK m \in 1..s4.sets : c \in Factor!CodeSet(m) BY <1>1 DEF Factor!SpentAreMade
    <2>2. m \in 1..n BY <1>3, <2>1 DEF n
    <2> QED BY <2>1, <2>2
  <1>10. s1' \in BOOLEAN /\ (s1' => s2' # Factor!None)
    <2>1. s1 \in BOOLEAN BY <1>1, FactorRow
    <2>2. job[s].pc = "enable" => s2 # Factor!None BY <1>1 DEF Factor!Current
    <2> QED BY <1>1, <1>2, <2>1, <2>2
  <1>11. job[s] # Factor!IdleJob BY <1>2, FactorIdle
  <1>12. s2' \in 0..MaxMade /\ s5' \subseteq Factor!Codes BY <1>1, <1>2, FactorRow
  <1>13. s3' \subseteq Factor!CodeSet(s4'.sets) \ s5' BY <1>2, <1>6, <1>8
  <1> QED BY <1>2, <1>6, <1>7, <1>9, <1>10, <1>11, <1>12, <1>13, FactorIdle, FactorServed

LEMMA FactorConsumes ==
    ASSUME Factor!Whole, ~overlapped, Factor!Next, NEW s \in Slots, Factor!Consume(s)
    PROVE  Factor!Whole'
  <1> DEFINE j == IF job[s].disable THEN [Factor!IdleJob EXCEPT !.pc = "disable"] ELSE Factor!IdleJob
             c == job[s].code
  <1>1. /\ Factor!TypeOK /\ Factor!SpentAreMade /\ (s1 => s2 # Factor!None)
        /\ s3 \subseteq Factor!CodeSet(s4.sets) \ s5 /\ Factor!Current(job[s])
    BY FactorOwn
  <1>2. /\ job[s].pc = "consume" /\ s3' = job[s].codes \ {c} /\ s5' = s5 \cup {c}
        /\ Factor!Goto(s, j) /\ UNCHANGED <<now, s1, s2, s4, s6, s7>>
    BY DEF Factor!Consume
  <1>3. job[s].codes = s3 /\ c \in s3 BY <1>1, <1>2 DEF Factor!Current
  <1>4. j \in Factor!Jobs /\ j.pc \in {"disable", "idle"} BY FactorIdle DEF Factor!Steps
  <1> HIDE DEF j, c
  <1>5. /\ s3 \subseteq Factor!Codes /\ s5 \subseteq Factor!Codes /\ s1 \in BOOLEAN
        /\ s2 \in 0..MaxMade /\ s4.sets \in Nat
        /\ s4 \in [secrets : 0..MaxMade, sets : 0..MaxMade]
    BY <1>1, FactorRow DEF Factor!TypeOK
  <1>6. c \in Factor!CodeSet(s4.sets) BY <1>1, <1>3
  <1>7. s4.sets \in 1..s4.sets
    <2>1. s4.sets # 0
      <3> SUFFICES ASSUME s4.sets = 0 PROVE FALSE OBVIOUS
      <3>1. \E m \in 1..MaxMade : c \in Factor!CodeSet(m) BY <1>3, <1>5 DEF Factor!Codes
      <3>2. c[1] = 0 BY <1>6, CodeOfSet
      <3>3. \E m \in 1..MaxMade : c[1] = m BY <3>1, CodeOfSet
      <3> QED BY <3>2, <3>3, FactorNumbers
    <2> QED BY <1>5, <2>1
  <1>8. Factor!SpentAreMade' BY <1>1, <1>2, <1>6, <1>7 DEF Factor!SpentAreMade
  <1>9. s3' \subseteq Factor!CodeSet(s4'.sets) \ s5' BY <1>1, <1>2, <1>3
  <1>10. s3' \subseteq Factor!Codes /\ s5' \subseteq Factor!Codes BY <1>2, <1>3, <1>5
  <1>11. job[s] # Factor!IdleJob BY <1>2, FactorIdle
  <1> QED BY <1>1, <1>2, <1>4, <1>5, <1>8, <1>9, <1>10, <1>11, FactorServed

LEMMA FactorMoves ==
    ASSUME Factor!Whole, ~overlapped, Factor!Next, NEW s \in Slots,
           Factor!Setup(s) \/ Factor!Disable(s)
    PROVE  Factor!Whole'
  <1>1. /\ Factor!TypeOK /\ Factor!SpentAreMade /\ (s1 => s2 # Factor!None)
        /\ s3 \subseteq Factor!CodeSet(s4.sets) \ s5
    BY FactorOwn
  <1>2. /\ s3 \subseteq Factor!Codes /\ s5 \subseteq Factor!Codes /\ s1 \in BOOLEAN
        /\ s2 \in 0..MaxMade /\ s4.secrets \in 0..MaxMade /\ s4.sets \in 0..MaxMade
        /\ s4 \in [secrets : 0..MaxMade, sets : 0..MaxMade] /\ MaxMade \in Nat
        /\ job \in [Slots -> Factor!Jobs]
    BY <1>1, FactorRow, FactorNumbers DEF Factor!TypeOK
  <1>3. CASE Factor!Setup(s)
    <2> DEFINE n == s4.secrets + 1
    <2>1. /\ job[s] = Factor!IdleJob /\ s4.secrets < MaxMade
          /\ s4' = [s4 EXCEPT !.secrets = n] /\ s2' = n /\ s1' = FALSE
          /\ UNCHANGED <<now, s3, s5, s6, s7, job>>
      BY <1>3 DEF Factor!Setup, Factor!Idle
    <2>2. n \in 0..MaxMade /\ n # Factor!None BY <1>2, <2>1 DEF Factor!None
    <2> HIDE DEF n
    <2>3. s4' \in [secrets : 0..MaxMade, sets : 0..MaxMade] /\ s4'.sets = s4.sets
      BY <1>2, <2>1, <2>2
    <2>4. Factor!Goto(s, Factor!IdleJob) BY <1>2, <2>1 DEF Factor!Goto
    <2>5. Factor!SpentAreMade' BY <1>1, <2>1, <2>3 DEF Factor!SpentAreMade
    <2>6. s3' \subseteq Factor!CodeSet(s4'.sets) \ s5' BY <1>1, <2>1, <2>3
    <2>7. s1' \in BOOLEAN /\ ~s1' BY <2>1
    <2> QED BY <1>2, <2>1, <2>2, <2>3, <2>4, <2>5, <2>6, <2>7, FactorIdle, FactorServed
  <1>4. CASE Factor!Disable(s)
    <2>1. /\ job[s].pc = "disable" /\ s1' = FALSE /\ s2' = Factor!None /\ s3' = {}
          /\ Factor!Goto(s, Factor!IdleJob) /\ UNCHANGED <<now, s4, s5, s6, s7>>
      BY <1>4 DEF Factor!Disable, Factor!Done
    <2>2. Factor!SpentAreMade' BY <1>1, <2>1 DEF Factor!SpentAreMade
    <2>3. s2' \in 0..MaxMade BY <1>2, <2>1 DEF Factor!None
    <2>4. job[s] # Factor!IdleJob BY <2>1, FactorIdle
    <2>5. s1' \in BOOLEAN /\ ~s1' BY <2>1
    <2>6. s3' \subseteq Factor!CodeSet(s4'.sets) \ s5' /\ s3' \subseteq Factor!Codes BY <2>1
    <2> QED BY <1>2, <2>1, <2>2, <2>3, <2>4, <2>5, <2>6, FactorIdle, FactorServed
  <1> QED BY <1>3, <1>4

\* A session is opened or renewed, or time passes.
LEMMA FactorAgrees ==
    ASSUME Factor!Whole, ~overlapped, Factor!Next,
           Factor!Tick \/ Factor!StepUp \/ Factor!Renew
    PROVE  Factor!Whole'
  <1>1. Factor!TypeOK /\ Factor!CountsFromStepUp /\ Factor!OneByOne BY DEF Factor!Whole
  <1>2. UNCHANGED <<s1, s2, s3, s4, s5, job>> BY DEF Factor!Tick, Factor!StepUp, Factor!Renew
  <1>3. overlapped' \in BOOLEAN BY <1>1 DEF Factor!Next, Factor!TypeOK
  <1>4. /\ now \in Nat /\ now \in 0..FactorTime /\ FactorTime \in Nat /\ StepUpTtl \in Nat
        /\ Ceiling \in Nat /\ Ceiling > 0 /\ s6 \in Factor!Session
        /\ s7 \in 0..FactorTime /\ s6.origIat \in Nat
    BY <1>1, FactorRow, FactorNumbers DEF Factor!TypeOK
  <1>5. s6.origIat = s7 /\ s6.expires < s7 + Ceiling + StepUpTtl
    BY <1>1 DEF Factor!CountsFromStepUp, Factor!SessionEnds
  <1>6. /\ now' \in 0..FactorTime /\ s6' \in Factor!Session /\ s7' \in 0..FactorTime
        /\ s6'.origIat = s7' /\ s6'.expires < s7' + Ceiling + StepUpTtl
    <2>1. CASE Factor!Tick
      <3>1. now < FactorTime /\ now' = now + 1 /\ UNCHANGED <<s6, s7>> BY <2>1 DEF Factor!Tick
      <3> QED BY <1>4, <1>5, <3>1
    <2>2. CASE Factor!StepUp
      <3>1. /\ s6' = [origIat |-> now, expires |-> now + StepUpTtl] /\ s7' = now
            /\ UNCHANGED now
        BY <2>2 DEF Factor!StepUp
      <3>2. PICK e : e = now + StepUpTtl OBVIOUS
      <3>3. e \in Nat /\ e < now + Ceiling + StepUpTtl BY <1>4, <3>2
      <3>4. s6' = [origIat |-> now, expires |-> e] BY <3>1, <3>2
      <3> QED BY <1>4, <3>1, <3>3, <3>4 DEF Factor!Session
    <2>3. CASE Factor!Renew
      <3>1. /\ now - s6.origIat < Ceiling /\ UNCHANGED <<now, s7>>
            /\ s6' = [s6 EXCEPT !.expires = now + StepUpTtl]
        BY <2>3 DEF Factor!Renew
      <3>2. PICK e : e = now + StepUpTtl OBVIOUS
      <3>3. e \in Nat /\ e < s7 + Ceiling + StepUpTtl BY <1>4, <1>5, <3>1, <3>2
      <3>4. s6' = [s6 EXCEPT !.expires = e] BY <3>1, <3>2
      <3> QED BY <1>4, <1>5, <3>1, <3>3, <3>4 DEF Factor!Session
    <2> QED BY <2>1, <2>2, <2>3
  <1>7. Factor!TypeOK' BY <1>1, <1>2, <1>3, <1>6 DEF Factor!TypeOK
  <1>8. Factor!CountsFromStepUp' BY <1>6 DEF Factor!CountsFromStepUp, Factor!SessionEnds
  <1>9. Factor!SpentAreMade' BY <1>2 DEF Factor!Whole, Factor!SpentAreMade
  <1>10. Factor!OneByOne'
    BY <1>1, <1>2 DEF Factor!OneByOne, Factor!Alone, Factor!Idle, Factor!FactorIsWhole, Factor!Current
  <1> QED BY <1>7, <1>8, <1>9, <1>10 DEF Factor!Whole

LEMMA FactorNextKeeps ==
    ASSUME Factor!Whole, ~overlapped, Factor!Next PROVE Factor!Whole'
  <1>1. \/ Factor!Tick \/ Factor!StepUp \/ Factor!Renew
        \/ \E s \in Slots : Factor!Serve(s)
    BY DEF Factor!Next, Factor!Step
  <1>2. ASSUME NEW s \in Slots, Factor!Serve(s) PROVE Factor!Whole'
    BY <1>2, FactorReads, FactorWrites, FactorConsumes, FactorMoves DEF Factor!Serve
  <1> QED BY <1>1, <1>2, FactorAgrees

LEMMA FactorInit ==
    ASSUME Factor!Init PROVE Factor!Whole
  <1>1. /\ now = 0 /\ s1 = FALSE /\ s2 = Factor!None /\ s3 = {} /\ s5 = {}
        /\ s4 = [secrets |-> 0, sets |-> 0] /\ s6 = Factor!NoSession /\ s7 = 0
        /\ job = [s \in Slots |-> Factor!IdleJob] /\ overlapped = FALSE
    BY DEF Factor!Init
  <1>2. 0 \in 0..FactorTime /\ 0 \in 0..MaxMade BY FactorNumbers
  <1>3. s4 \in [secrets : 0..MaxMade, sets : 0..MaxMade] BY <1>1, <1>2
  <1>4. s6 \in Factor!Session /\ s6.origIat = 0 /\ s6.expires = 0
    BY <1>1 DEF Factor!Session, Factor!NoSession
  <1>5. job \in [Slots -> Factor!Jobs] BY <1>1, FactorIdle
  <1>6. Factor!TypeOK BY <1>1, <1>2, <1>3, <1>4, <1>5 DEF Factor!TypeOK, Factor!None
  <1>7. Factor!CountsFromStepUp
    BY <1>1, <1>4, FactorNumbers DEF Factor!CountsFromStepUp, Factor!SessionEnds
  <1>8. Factor!SpentAreMade BY <1>1 DEF Factor!SpentAreMade
  <1>9. Factor!OneByOne
    BY <1>1, FactorIdle DEF Factor!OneByOne, Factor!Alone, Factor!Idle, Factor!FactorIsWhole,
                            Factor!Current
  <1> QED BY <1>6, <1>7, <1>8, <1>9 DEF Factor!Whole

-----------------------------------------------------------------------------
(* Idle session.                                                               *)

TabsHold == Tabs!TypeOK /\ Tabs!ClockRuns

LEMMA TabsNumbers ==
    ASSUME TabsHold
    PROVE  /\ IdleMs \in Nat /\ WarningMs \in Nat /\ Throttle \in Nat /\ IdleTime \in Nat
           /\ IdleMs > 0 /\ Throttle > 0 /\ Throttle <= IdleMs
           /\ now \in 1..IdleTime /\ now \in Nat /\ now > 0
           /\ s2 \in 0..IdleTime /\ s5 \in 0..IdleTime /\ s2 \in Nat /\ s5 \in Nat
           /\ s1 \in BOOLEAN /\ s3 \in [Slots -> Tabs!TabStates]
           /\ s4 \subseteq Slots /\ s6 \subseteq Slots
           /\ s2 <= now /\ s5 <= now
           /\ s2 # Tabs!NoTime => s5 - s2 < Throttle
  <1>1. /\ IdleMs \in Nat /\ WarningMs \in Nat /\ Throttle \in Nat /\ IdleTime \in Nat
        /\ IdleMs > 0 /\ Throttle > 0 /\ Throttle <= IdleMs
    BY TabsConstants DEF Tabs!IdleAssumption
  <1>2. /\ now \in 1..IdleTime /\ s2 \in 0..IdleTime /\ s5 \in 0..IdleTime
        /\ s1 \in BOOLEAN /\ s3 \in [Slots -> Tabs!TabStates]
        /\ s4 \subseteq Slots /\ s6 \subseteq Slots
    BY DEF TabsHold, Tabs!TypeOK
  <1>3. s2 <= now /\ s5 <= now /\ (s2 # Tabs!NoTime => s5 - s2 < Throttle)
    BY DEF TabsHold, Tabs!ClockRuns
  <1> QED BY <1>1, <1>2, <1>3

LEMMA TabRow ==
    ASSUME TabsHold, NEW t \in Slots
    PROVE  /\ s3[t] \in Tabs!TabStates /\ s3[t].write \in Nat /\ s3[t].write <= s2
           /\ s3[t].warning \in BOOLEAN /\ s3[t].shows \in {"nothing", "login", "app"}
           /\ s3[t].shows = "app" => s2 # Tabs!NoTime
  <1>1. s3[t] \in Tabs!TabStates BY TabsNumbers
  <1> QED BY <1>1 DEF Tabs!TabStates, TabsHold, Tabs!ClockRuns, Tabs!InApp

\* A tab goes on as r, and the clocks with it.
LEMMA TabMoves ==
    ASSUME TabsHold, NEW t \in Slots, NEW r \in Tabs!TabStates, s3' = [s3 EXCEPT ![t] = r],
           UNCHANGED now, s1' \in BOOLEAN, s2' \in {s2, now}, s5' \in {s5, now},
           s4' \subseteq Slots, s6' \subseteq Slots,
           r.write <= s2', r.shows = "app" => s2' # Tabs!NoTime,
           s2' # Tabs!NoTime => s5' - s2' < Throttle
    PROVE  TabsHold' /\ s3'[t] = r
  <1>1. /\ IdleTime \in Nat /\ now \in 1..IdleTime /\ now \in Nat /\ s2 \in 0..IdleTime
        /\ s5 \in 0..IdleTime /\ s3 \in [Slots -> Tabs!TabStates] /\ s2 <= now /\ s5 <= now
        /\ s2 \in Nat /\ s5 \in Nat
    BY TabsNumbers
  <1>2. /\ s3' \in [Slots -> Tabs!TabStates] /\ s3'[t] = r
        /\ \A u \in Slots : u # t => s3'[u] = s3[u]
    BY <1>1
  <1>3. s2' \in 0..IdleTime /\ s5' \in 0..IdleTime /\ s2' <= now' /\ s5' <= now' /\ s2 <= s2'
    BY <1>1
  <1>4. Tabs!TypeOK' BY <1>1, <1>2, <1>3 DEF Tabs!TypeOK
  <1>5. ASSUME NEW u \in Slots
        PROVE  s3'[u].write <= s2' /\ (s3'[u].shows = "app" => s2' # Tabs!NoTime)
    <2>1. CASE u = t BY <1>2, <2>1
    <2>2. CASE u # t
      <3>1. /\ s3'[u] = s3[u] /\ s3[u].write \in Nat /\ s3[u].write <= s2
            /\ s3[u].shows = "app" => s2 # Tabs!NoTime
        BY <1>2, <2>2, TabRow
      <3> QED BY <1>1, <1>3, <3>1 DEF Tabs!NoTime
    <2> QED BY <2>1, <2>2
  <1>6. Tabs!ClockRuns' BY <1>3, <1>5 DEF Tabs!ClockRuns, Tabs!InApp
  <1> QED BY <1>2, <1>4, <1>6 DEF TabsHold

\* What check does to a tab: the clocks stand.
LEMMA TabChecked ==
    ASSUME TabsHold, NEW t \in Slots, Tabs!Checked(t) \/ (Tabs!SignedOut(t)),
           UNCHANGED <<now, s2, s5>>, s4' \subseteq Slots, s6' \subseteq Slots
    PROVE  TabsHold'
  <1>1. /\ s3[t] \in Tabs!TabStates /\ s3[t].write \in Nat /\ s3[t].write <= s2
        /\ s3[t].shows = "app" => s2 # Tabs!NoTime
    BY TabRow
  <1>2. /\ s1 \in BOOLEAN /\ (s2 # Tabs!NoTime => s5 - s2 < Throttle) BY TabsNumbers
  <1>3. CASE Tabs!SignedOut(t)
    <2> DEFINE r == [s3[t] EXCEPT !.shows = "login", !.warning = FALSE]
    <2>1. s1' = FALSE /\ s3' = [s3 EXCEPT ![t] = r] BY <1>3 DEF Tabs!SignedOut
    <2>2. r \in Tabs!TabStates /\ r.shows = "login" /\ r.write = s3[t].write
      BY <1>1 DEF Tabs!TabStates
    <2> HIDE DEF r
    <2> QED BY <1>1, <1>2, <2>1, <2>2, TabMoves
  <1>4. CASE ~Tabs!SignedOut(t)
    <2> DEFINE late == Tabs!Elapsed(s3[t].write) >= IdleMs
               r    == [s3[t] EXCEPT !.warning = late]
    <2>1. UNCHANGED s1 /\ s3' = [s3 EXCEPT ![t] = r] BY <1>4 DEF Tabs!Checked
    <2>2. late \in BOOLEAN OBVIOUS
    <2> HIDE DEF late
    <2>3. r \in Tabs!TabStates /\ r.shows = s3[t].shows /\ r.write = s3[t].write
      BY <1>1, <2>2 DEF Tabs!TabStates
    <2> HIDE DEF r
    <2> QED BY <1>1, <1>2, <2>1, <2>3, TabMoves
  <1> QED BY <1>3, <1>4

\* The user does what counts as activity: what is not written is within the
\* throttle of what was.
LEMMA TabRecords ==
    ASSUME TabsHold, NEW t \in Slots, NEW force \in BOOLEAN, Tabs!Present(t), Tabs!Record(t, force),
           UNCHANGED <<now, s1, s4, s6>>, s5' = now
    PROVE  /\ TabsHold'
           /\ Tabs!PastLimitUnlessWoken
  <1>1. /\ s3[t] \in Tabs!TabStates /\ s3[t].write \in Nat /\ s3[t].write <= s2
        /\ s2 # Tabs!NoTime
    BY TabRow DEF Tabs!Present, Tabs!InApp
  <1>2. /\ now \in Nat /\ now > 0 /\ s2 \in Nat /\ Throttle \in Nat /\ Throttle > 0
        /\ s1 \in BOOLEAN /\ s4 \subseteq Slots /\ s6 \subseteq Slots
        /\ s3 \in [Slots -> Tabs!TabStates] /\ IdleMs \in Nat /\ WarningMs \in Nat
    BY TabsNumbers
  <1>3. CASE ~force /\ now - s3[t].write < Throttle
    <2>1. UNCHANGED <<s2, s3>> BY <1>3 DEF Tabs!Record
    <2>2. s3' = [s3 EXCEPT ![t] = s3[t]] BY <1>2, <2>1
    <2>3. now - s2 < Throttle BY <1>1, <1>2, <1>3
    <2>4. s3[t].write <= s2' /\ s2' \in {s2, now} /\ s2' # Tabs!NoTime /\ s5' - s2' < Throttle
      BY <1>1, <2>1, <2>3
    <2>5. TabsHold' BY <1>1, <1>2, <2>2, <2>4, TabMoves
    <2> QED BY <2>1, <2>5 DEF Tabs!PastLimitUnlessWoken, Tabs!PastLimitStaysPast
  <1>4. CASE ~(~force /\ now - s3[t].write < Throttle)
    <2> DEFINE r == [s3[t] EXCEPT !.write = now, !.warning = FALSE]
    <2>1. s2' = now /\ s3' = [s3 EXCEPT ![t] = r] BY <1>4 DEF Tabs!Record
    <2>2. r \in Tabs!TabStates /\ r.write = now BY <1>1, <1>2 DEF Tabs!TabStates
    <2> HIDE DEF r
    <2>3. r.write <= s2' /\ s2' \in {s2, now} /\ s2' # Tabs!NoTime /\ s5' - s2' < Throttle
      BY <1>2, <2>1, <2>2 DEF Tabs!NoTime
    <2>4. TabsHold' /\ s3'[t] = r BY <1>2, <2>1, <2>2, <2>3, TabMoves
    <2>5. ASSUME now - s2 >= Tabs!Limit PROVE t \in s6 /\ Tabs!Awake(t)
      <3>1. Tabs!Elapsed(s3[t].write) = now - s2
        BY <1>1 DEF Tabs!Elapsed, Tabs!Since
      <3>2. Tabs!Limit \in Nat BY <1>2 DEF Tabs!Limit
      <3>3. ~(Tabs!Elapsed(s3[t].write) < Tabs!Limit) BY <1>2, <2>5, <3>1, <3>2
      <3> QED BY <3>3 DEF Tabs!Present, Tabs!Settled
    <2>6. Tabs!PastLimitUnlessWoken
      BY <2>2, <2>4, <2>5 DEF Tabs!PastLimitUnlessWoken, Tabs!PastLimitStaysPast
    <2> QED BY <2>4, <2>6
  <1> QED BY <1>3, <1>4

LEMMA TabOpens ==
    ASSUME TabsHold, NEW t \in Slots, Tabs!Open(t)
    PROVE  /\ TabsHold'
           /\ Tabs!PastLimitUnlessWoken
  <1>1. /\ now \in Nat /\ now > 0 /\ s2 \in Nat /\ s5 \in Nat /\ Throttle \in Nat /\ Throttle > 0
        /\ s1 \in BOOLEAN /\ s4 \subseteq Slots /\ s6 \subseteq Slots /\ s5 <= now
        /\ s2 # Tabs!NoTime => s5 - s2 < Throttle
    BY TabsNumbers
  <1>2. UNCHANGED <<now, s4, s5, s6>> BY DEF Tabs!Open
  <1> DEFINE out == [Tabs!Closed EXCEPT !.shows = "login"]
             warn == s2 # Tabs!NoTime /\ now - s2 >= IdleMs
             in  == [shows |-> "app", warning |-> warn,
                     write |-> IF s2 = Tabs!NoTime THEN now ELSE Tabs!NoTime]
  <1>3. CASE s1' = FALSE /\ s3' = [s3 EXCEPT ![t] = out] /\ UNCHANGED s2
    <2>1. out \in Tabs!TabStates /\ out.shows = "login" /\ out.write = 0
      BY DEF Tabs!Closed, Tabs!TabStates, Tabs!NoTime
    <2> HIDE DEF out
    <2>a. s1' \in BOOLEAN BY <1>3
    <2>b. s4' \subseteq Slots /\ s6' \subseteq Slots BY <1>1, <1>2
    <2>c. s2' = s2 /\ s5' = s5 BY <1>2, <1>3
    <2>d. s2' # Tabs!NoTime => s5' - s2' < Throttle BY <1>1, <2>c
    <2>e. out.write <= s2' BY <1>1, <2>1, <2>c
    <2>2. /\ out.write <= s2' /\ s2' \in {s2, now} /\ s5' \in {s5, now} /\ s1' \in BOOLEAN
          /\ s2' # Tabs!NoTime => s5' - s2' < Throttle
          /\ s4' \subseteq Slots /\ s6' \subseteq Slots /\ out.shows # "app"
      BY <2>1, <2>a, <2>b, <2>c, <2>d, <2>e
    <2>3. TabsHold' BY <1>2, <1>3, <2>1, <2>2, TabMoves
    <2> QED BY <1>3, <2>3 DEF Tabs!PastLimitUnlessWoken, Tabs!PastLimitStaysPast
  <1>4. CASE /\ s2' = IF s2 = Tabs!NoTime THEN now ELSE s2
             /\ s3' = [s3 EXCEPT ![t] = in] /\ UNCHANGED s1
    <2>1. warn \in BOOLEAN OBVIOUS
    <2> HIDE DEF warn
    <2>2. in \in Tabs!TabStates /\ in.write = IF s2 = Tabs!NoTime THEN now ELSE Tabs!NoTime
      BY <1>1, <2>1 DEF Tabs!TabStates, Tabs!NoTime
    <2> HIDE DEF in
    <2>3. /\ in.write <= s2' /\ s2' \in {s2, now} /\ s2' # Tabs!NoTime /\ s5' - s2' < Throttle
      BY <1>1, <1>2, <1>4, <2>2 DEF Tabs!NoTime
    <2>4. TabsHold' BY <1>1, <1>2, <1>4, <2>2, <2>3, TabMoves
    <2>5. s2 # Tabs!NoTime => UNCHANGED s2 BY <1>4
    <2> QED BY <2>4, <2>5 DEF Tabs!PastLimitUnlessWoken, Tabs!PastLimitStaysPast
  <1> QED BY <1>3, <1>4 DEF Tabs!Open

LEMMA TabSteps ==
    ASSUME TabsHold, NEW t \in Slots, Tabs!TabStep(t)
    PROVE  /\ TabsHold'
           /\ Tabs!PastLimitUnlessWoken
  <1>1. /\ now \in Nat /\ now > 0 /\ s2 \in Nat /\ Throttle \in Nat /\ Throttle > 0
        /\ s1 \in BOOLEAN /\ s4 \subseteq Slots /\ s6 \subseteq Slots
        /\ s3 \in [Slots -> Tabs!TabStates]
        /\ s2 # Tabs!NoTime => s5 - s2 < Throttle
    BY TabsNumbers
  <1>2. /\ s3[t] \in Tabs!TabStates /\ s3[t].write \in Nat /\ s3[t].write <= s2
        /\ s3[t].shows = "app" => s2 # Tabs!NoTime
    BY TabRow
  <1>3. UNCHANGED s2 => Tabs!PastLimitUnlessWoken
    BY DEF Tabs!PastLimitUnlessWoken, Tabs!PastLimitStaysPast
  <1>4. CASE Tabs!Check(t)
    <2>1. /\ Tabs!Checked(t) /\ UNCHANGED <<now, s2, s4, s5>> /\ s6' = s6 \ {t}
      BY <1>4 DEF Tabs!Check
    <2> QED BY <1>1, <1>3, <2>1, TabChecked
  <1>5. CASE Tabs!Activity(t) \/ Tabs!Stay(t)
    <2>1. PICK force \in BOOLEAN :
              /\ Tabs!Present(t) /\ Tabs!Record(t, force)
              /\ UNCHANGED <<now, s1, s4, s6>> /\ s5' = now
      BY <1>5 DEF Tabs!Activity, Tabs!Stay
    <2> QED BY <2>1, TabRecords
  <1>6. CASE Tabs!SignOut(t)
    <2>1. Tabs!SignedOut(t) /\ UNCHANGED <<now, s2, s4, s5, s6>> BY <1>6 DEF Tabs!SignOut
    <2> QED BY <1>1, <1>3, <2>1, TabChecked
  <1>7. CASE Tabs!SignIn(t)
    <2> DEFINE r == [s3[t] EXCEPT !.shows = "app", !.warning = FALSE]
    <2>1. /\ s3[t].shows = "login" /\ s1' = TRUE /\ s2' = now /\ s5' = now
          /\ s3' = [s3 EXCEPT ![t] = r] /\ UNCHANGED <<now, s4, s6>>
      BY <1>7 DEF Tabs!SignIn
    <2>2. r \in Tabs!TabStates /\ r.shows = "app" /\ r.write = s3[t].write
      BY <1>2 DEF Tabs!TabStates
    <2> HIDE DEF r
    <2>3. r.write <= s2' /\ s2' # Tabs!NoTime /\ s5' - s2' < Throttle
      <3>1. s2 <= now BY TabsNumbers
      <3> QED BY <1>1, <1>2, <2>1, <2>2, <3>1 DEF Tabs!NoTime
    <2>4. TabsHold' /\ s3'[t] = r BY <1>1, <2>1, <2>2, <2>3, TabMoves
    <2> QED BY <2>1, <2>2, <2>4 DEF Tabs!PastLimitUnlessWoken, Tabs!PastLimitStaysPast
  <1>8. CASE Tabs!Open(t) BY <1>8, TabOpens
  <1>9. CASE Tabs!Close(t)
    <2>1. /\ s3' = [s3 EXCEPT ![t] = Tabs!Closed] /\ s4' = s4 \ {t} /\ s6' = s6 \ {t}
          /\ UNCHANGED <<now, s1, s2, s5>>
      BY <1>9 DEF Tabs!Close
    <2>2. Tabs!Closed \in Tabs!TabStates /\ Tabs!Closed.shows = "nothing" /\ Tabs!Closed.write = 0
      BY DEF Tabs!Closed, Tabs!TabStates, Tabs!NoTime
    <2>3. /\ Tabs!Closed.write <= s2' /\ s2' \in {s2, now} /\ s5' \in {s5, now} /\ s1' \in BOOLEAN
          /\ s2' # Tabs!NoTime => s5' - s2' < Throttle
          /\ s4' \subseteq Slots /\ s6' \subseteq Slots /\ Tabs!Closed.shows # "app"
      BY <1>1, <2>1, <2>2
    <2>4. TabsHold' BY <2>1, <2>2, <2>3, TabMoves
    <2> QED BY <1>3, <2>1, <2>4
  <1>10. CASE Tabs!Suspend(t) \/ Tabs!Wake(t)
    <2>1. /\ UNCHANGED <<now, s1, s2, s3, s5>> /\ s4' \subseteq Slots /\ s6' \subseteq Slots
      BY <1>1, <1>10 DEF Tabs!Suspend, Tabs!Wake
    <2>2. TabsHold'
      BY <2>1 DEF TabsHold, Tabs!TypeOK, Tabs!ClockRuns, Tabs!InApp
    <2> QED BY <1>3, <2>1, <2>2
  <1>11. CASE Tabs!Resume(t)
    <2>1. /\ UNCHANGED <<now, s2, s5, s6>> /\ s4' = s4 \ {t}
          /\ IF Tabs!InApp(t) THEN Tabs!Checked(t) ELSE UNCHANGED <<s1, s3>>
      BY <1>11 DEF Tabs!Resume
    <2>2. CASE Tabs!InApp(t) BY <1>1, <1>3, <2>1, <2>2, TabChecked
    <2>3. CASE ~Tabs!InApp(t)
      <3>1. TabsHold' BY <1>1, <2>1, <2>3 DEF TabsHold, Tabs!TypeOK, Tabs!ClockRuns, Tabs!InApp
      <3> QED BY <1>3, <2>1, <3>1
    <2> QED BY <2>2, <2>3
  <1> QED BY <1>4, <1>5, <1>6, <1>7, <1>8, <1>9, <1>10, <1>11 DEF Tabs!TabStep

LEMMA TabsNextKeeps ==
    ASSUME TabsHold, Tabs!Next
    PROVE  /\ TabsHold'
           /\ Tabs!PastLimitUnlessWoken
  <1>1. CASE Tabs!Tick
    <2>1. now < IdleTime /\ now' = now + 1 /\ UNCHANGED <<s1, s2, s3, s4, s5, s6>>
      BY <1>1 DEF Tabs!Tick
    <2>2. /\ now \in Nat /\ now \in 1..IdleTime /\ IdleTime \in Nat /\ s2 \in Nat /\ s5 \in Nat
          /\ s2 <= now /\ s5 <= now
      BY TabsNumbers
    <2>3. now' \in 1..IdleTime /\ s2 <= now' /\ s5 <= now' BY <2>1, <2>2
    <2>4. TabsHold' BY <2>1, <2>3 DEF TabsHold, Tabs!TypeOK, Tabs!ClockRuns, Tabs!InApp
    <2> QED BY <2>1, <2>4 DEF Tabs!PastLimitUnlessWoken, Tabs!PastLimitStaysPast
  <1>2. CASE \E t \in Slots : Tabs!TabStep(t) BY <1>2, TabSteps
  <1> QED BY <1>1, <1>2 DEF Tabs!Next

LEMMA TabsInit ==
    ASSUME Tabs!Init PROVE TabsHold
  <1>1. IdleTime \in Nat /\ IdleTime > 0 /\ Throttle \in Nat /\ Throttle > 0
    BY TabsConstants DEF Tabs!IdleAssumption
  <1>2. /\ now = 1 /\ s1 = FALSE /\ s2 = 0 /\ s4 = {} /\ s5 = 1 /\ s6 = {}
        /\ s3 = [t \in Slots |-> Tabs!Closed]
    BY DEF Tabs!Init, Tabs!NoTime
  <1>3. Tabs!Closed \in Tabs!TabStates /\ Tabs!Closed.shows = "nothing" /\ Tabs!Closed.write = 0
    BY DEF Tabs!Closed, Tabs!TabStates, Tabs!NoTime
  <1>4. Tabs!TypeOK
    <2>1. now \in 1..IdleTime /\ s2 \in 0..IdleTime /\ s5 \in 0..IdleTime BY <1>1, <1>2
    <2>2. s3 \in [Slots -> Tabs!TabStates] BY <1>2, <1>3
    <2> QED BY <1>2, <2>1, <2>2 DEF Tabs!TypeOK
  <1>5. Tabs!ClockRuns BY <1>2, <1>3 DEF Tabs!ClockRuns, Tabs!InApp, Tabs!NoTime
  <1> QED BY <1>4, <1>5 DEF TabsHold

LEMMA TabsNotEarly ==
    ASSUME TabsHold PROVE Tabs!NoEarlySignOut
  <1> SUFFICES ASSUME NEW t \in Slots, s3[t].shows = "app",
                      Tabs!Elapsed(s3[t].write) >= Tabs!Limit
               PROVE  now - s5 > Tabs!Limit - Throttle
    BY DEF Tabs!NoEarlySignOut, Tabs!InApp
  <1>1. s2 # Tabs!NoTime BY TabRow
  <1>2. Tabs!Elapsed(s3[t].write) = now - s2 BY <1>1 DEF Tabs!Elapsed, Tabs!Since
  <1>3. Tabs!Limit \in Nat BY TabsNumbers DEF Tabs!Limit
  <1> QED BY <1>1, <1>2, <1>3, TabsNumbers

-----------------------------------------------------------------------------
(* Conversation.                                                               *)

LEMMA NonEmpty ==
    ASSUME NEW S, NEW m \in Seq(S)
    PROVE  Len(m) \in Nat /\ DOMAIN m = 1..Len(m) /\ (m # <<>> <=> Len(m) > 0)
  <1>1. Len(m) \in Nat /\ DOMAIN m = 1..Len(m) BY LenProperties
  <1>2. m # <<>> => Len(m) \in Nat \ {0} BY EmptySeq
  <1>3. m = <<>> => Len(m) = 0 BY EmptySeq
  <1> QED BY <1>1, <1>2, <1>3

\* A message more, after one that asks for tools exactly when it answers them.
LEMMA PairsOneMore ==
    ASSUME NEW n \in Nat, NEW a, NEW m, NEW x,
           \A i \in 1..n : m[i].kind = "tool_use" /\ i < n => m[i + 1].kind = "tool_results",
           \A i \in 1..n : m[i].kind = "tool_results" => i > 1 /\ m[i - 1].kind = "tool_use",
           n > 0 => (m[n].kind = "tool_use" <=> x.kind = "tool_results"),
           n = 0 => x.kind # "tool_results",
           \A i \in 1..n : a[i] = m[i], a[n + 1] = x
    PROVE  \A i \in 1..(n + 1) :
              /\ a[i].kind = "tool_use" /\ i < n + 1 => a[i + 1].kind = "tool_results"
              /\ a[i].kind = "tool_results" => i > 1 /\ a[i - 1].kind = "tool_use"
  <1> SUFFICES ASSUME NEW i \in 1..(n + 1)
        PROVE  /\ a[i].kind = "tool_use" /\ i < n + 1 => a[i + 1].kind = "tool_results"
               /\ a[i].kind = "tool_results" => i > 1 /\ a[i - 1].kind = "tool_use"
    OBVIOUS
  <1>1. CASE i < n
    <2>1. i \in 1..n /\ i + 1 \in 1..n BY <1>1
    <2>2. a[i] = m[i] /\ a[i + 1] = m[i + 1] BY <2>1
    <2>3. i > 1 => a[i - 1] = m[i - 1] BY <2>1
    <2> QED BY <2>1, <2>2, <2>3, <1>1
  <1>2. CASE i = n
    <2>1. n > 0 /\ a[n] = m[n] BY <1>2
    <2>2. n > 1 => a[n - 1] = m[n - 1] BY <2>1
    <2> QED BY <1>2, <2>1, <2>2
  <1>3. CASE i = n + 1
    <2>1. n > 0 => a[n] = m[n] OBVIOUS
    <2>2. x.kind = "tool_results" => n > 0 /\ a[n].kind = "tool_use" BY <2>1
    <2> QED BY <1>3, <2>2
  <1> QED BY <1>1, <1>2, <1>3

\* A message that answers tools, and only such a one, follows one that asks for them.
LEMMA PairsUpAppend ==
    ASSUME NEW m \in Seq(Chat!Message), NEW x \in Chat!Message, Chat!PairsUp(m),
           Len(m) > 0 => (m[Len(m)].kind = "tool_use" <=> x.kind = "tool_results"),
           Len(m) = 0 => x.kind # "tool_results"
    PROVE  /\ Append(m, x) \in Seq(Chat!Message) /\ Chat!PairsUp(Append(m, x))
           /\ Append(m, x) # <<>> /\ Append(m, x)[Len(Append(m, x))] = x
  <1>1. /\ Append(m, x) \in Seq(Chat!Message) /\ Len(Append(m, x)) = Len(m) + 1
        /\ Append(m, x)[Len(m) + 1] = x /\ Append(m, x) # <<>>
        /\ \A i \in 1..Len(m) : Append(m, x)[i] = m[i]
    BY AppendProperties
  <1>2. /\ Len(m) \in Nat /\ DOMAIN m = 1..Len(m)
        /\ DOMAIN Append(m, x) = 1..(Len(m) + 1)
    BY <1>1, LenProperties
  <1>3. /\ \A i \in 1..Len(m) :
              m[i].kind = "tool_use" /\ i < Len(m) => m[i + 1].kind = "tool_results"
        /\ \A i \in 1..Len(m) :
              m[i].kind = "tool_results" => i > 1 /\ m[i - 1].kind = "tool_use"
    BY <1>2 DEF Chat!PairsUp
  <1>4. \A i \in 1..(Len(m) + 1) :
           /\ (Append(m, x)[i].kind = "tool_use" /\ i < Len(m) + 1
                  => Append(m, x)[i + 1].kind = "tool_results")
           /\ (Append(m, x)[i].kind = "tool_results"
                  => i > 1 /\ Append(m, x)[i - 1].kind = "tool_use")
    BY <1>1, <1>2, <1>3, PairsOneMore
  <1>5. Chat!PairsUp(Append(m, x)) BY <1>1, <1>2, <1>4 DEF Chat!PairsUp
  <1> QED BY <1>1, <1>5

LEMMA SubSeqOfAppend ==
    ASSUME NEW S, NEW m \in Seq(S), NEW x \in S, NEW n \in 0..Len(m)
    PROVE  SubSeq(Append(m, x), 1, n) = SubSeq(m, 1, n)
  <1>1. Len(m) \in Nat /\ DOMAIN m = 1..Len(m) BY LenProperties
  <1>2. /\ Append(m, x) \in Seq(S) /\ Len(Append(m, x)) = Len(m) + 1
        /\ \A i \in 1..Len(m) : Append(m, x)[i] = m[i]
    BY AppendProperties
  <1>3. /\ \A i \in 1..n : m[i] \in S /\ Append(m, x)[i] = m[i]
        /\ n \in Int /\ 1 \in Int
    BY <1>1, <1>2, ElementOfSeq
  <1>4. /\ SubSeq(m, 1, n) \in Seq(S) /\ Len(SubSeq(m, 1, n)) = IF 1 <= n THEN n - 1 + 1 ELSE 0
        /\ \A i \in 1..(n - 1 + 1) : SubSeq(m, 1, n)[i] = m[1 + i - 1]
    BY <1>3, SubSeqProperties
  <1>5. /\ SubSeq(Append(m, x), 1, n) \in Seq(S)
        /\ Len(SubSeq(Append(m, x), 1, n)) = IF 1 <= n THEN n - 1 + 1 ELSE 0
        /\ \A i \in 1..(n - 1 + 1) : SubSeq(Append(m, x), 1, n)[i] = Append(m, x)[1 + i - 1]
    BY <1>3, SubSeqProperties
  <1>6. \A i \in 1..Len(SubSeq(m, 1, n)) : SubSeq(Append(m, x), 1, n)[i] = SubSeq(m, 1, n)[i]
    BY <1>3, <1>4, <1>5
  <1> QED BY <1>4, <1>5, <1>6, SeqEqual

\* The turns after one has taken a step.
LEMMA ChatMoves ==
    ASSUME Chat!ChatHolds, NEW s \in Slots, NEW j, job' = [job EXCEPT ![s] = j],
           j = Chat!IdleJob \/ Chat!UnderWay(j)
    PROVE  /\ DOMAIN job' = Slots /\ job'[s] = j
           /\ \A t \in Slots : t # s => job'[t] = job[t]
           /\ \A t \in Slots : job'[t] = Chat!IdleJob \/ Chat!UnderWay(job'[t])
           /\ \A t \in Slots : job'[t].pc \in {"idle", "send", "receive", "tools", "keep"}
           /\ \A t \in Slots : job'[t].pc = "idle" <=> job'[t] = Chat!IdleJob
  <1>1. /\ DOMAIN job' = Slots /\ job'[s] = j
        /\ \A t \in Slots : t # s => job'[t] = job[t]
    BY DEF Chat!ChatHolds
  <1>2. \A t \in Slots : job'[t] = Chat!IdleJob \/ Chat!UnderWay(job'[t])
    BY <1>1 DEF Chat!ChatHolds
  <1>3. ASSUME NEW k, Chat!UnderWay(k)
        PROVE  k.pc \in {"send", "receive", "tools", "keep"} /\ k # Chat!IdleJob
    BY <1>3 DEF Chat!UnderWay, Chat!Turns, Chat!IdleJob
  <1>4. Chat!IdleJob.pc = "idle" BY DEF Chat!IdleJob
  <1> QED BY <1>1, <1>2, <1>3, <1>4

LEMMA ChatTurn ==
    ASSUME Chat!ChatHolds, NEW s \in Slots, job[s].pc # "idle"
    PROVE  /\ job[s] # Chat!IdleJob /\ Chat!UnderWay(job[s]) /\ job[s] \in Chat!Turns
           /\ job[s].past \in Nat /\ job[s].messages \in Seq(Chat!Message)
           /\ Len(job[s].messages) \in Nat /\ job[s].past \in 0..Len(job[s].messages)
           /\ job[s].known \subseteq Names /\ job[s].told \subseteq job[s].known
           /\ job[s].round \in Nat
  <1>1. job[s] # Chat!IdleJob BY DEF Chat!IdleJob
  <1>2. Chat!UnderWay(job[s]) BY <1>1 DEF Chat!ChatHolds
  <1>3. job[s].past \in Nat /\ job[s].messages \in Seq(Chat!Message) /\ job[s].known \subseteq Names
        /\ job[s].round \in Nat
    BY <1>2 DEF Chat!UnderWay, Chat!Turns
  <1>4. Len(job[s].messages) \in Nat BY <1>3, LenProperties
  <1> QED BY <1>1, <1>2, <1>3, <1>4 DEF Chat!UnderWay

LEMMA NamesCarried ==
    ASSUME NEW m \in Seq(Chat!Message) PROVE Chat!Carried(m) \subseteq Names
  <1>1. \A i \in DOMAIN m : m[i] \in Chat!Message BY LenProperties, ElementOfSeq
  <1> QED BY <1>1 DEF Chat!Carried, Chat!Message

\* A turn goes on and has kept no more than before.
LEMMA ChatGoesOn ==
    ASSUME Chat!ChatHolds, NEW s \in Slots, NEW j, Chat!UnderWay(j), job' = [job EXCEPT ![s] = j],
           UNCHANGED s1, s2' \in 0..MaxTurns, s3' \subseteq Names \X {"told_now", "told_before", "written"},
           Chat!NamesToldAreHidden', overlapped' \in BOOLEAN,
           ~overlapped' => /\ ~overlapped /\ ~Chat!Torn(job[s])
                           /\ Chat!PairedTurn(j) /\ s1 = SubSeq(j.messages, 1, j.past)
                           /\ \A p \in Slots \X Slots :
                                 p[1] # p[2] /\ Chat!Torn(job'[p[1]]) => job'[p[2]].pc = "idle"
    PROVE  Chat!ChatHolds'
  <1>1. /\ DOMAIN job' = Slots /\ job'[s] = j
        /\ \A t \in Slots : t # s => job'[t] = job[t]
        /\ \A t \in Slots : job'[t] = Chat!IdleJob \/ Chat!UnderWay(job'[t])
        /\ \A t \in Slots : job'[t].pc \in {"idle", "send", "receive", "tools", "keep"}
        /\ \A t \in Slots : job'[t].pc = "idle" <=> job'[t] = Chat!IdleJob
    BY ChatMoves
  <1>2. Chat!TypeOK' BY <1>1 DEF Chat!ChatHolds, Chat!TypeOK
  <1>3. ASSUME ~overlapped' PROVE Chat!KeptInOrder'
    <2>1. Chat!KeptInOrder BY <1>3 DEF Chat!ChatHolds
    <2>2. ASSUME NEW t \in Slots, job'[t] # Chat!IdleJob
          PROVE  Chat!PairedTurn(job'[t]) /\ s1' = SubSeq(job'[t].messages, 1, job'[t].past)
      <3>1. CASE t = s BY <1>1, <1>3, <3>1
      <3>2. CASE t # s BY <1>1, <2>1, <2>2, <3>2 DEF Chat!KeptInOrder
      <3> QED BY <3>1, <3>2
    <2>3. ASSUME NEW t \in Slots, NEW u \in Slots, t # u, Chat!Torn(job'[t])
          PROVE  job'[u] = Chat!IdleJob
      <3>1. <<t, u>> \in Slots \X Slots /\ <<t, u>>[1] = t /\ <<t, u>>[2] = u OBVIOUS
      <3>2. job'[u].pc = "idle" BY <1>3, <2>3, <3>1
      <3> QED BY <1>1, <3>2
    <2>4. ASSUME \A t \in Slots : ~Chat!Torn(job'[t]) PROVE Chat!Whole(s1')
      <3>1. \A t \in Slots : ~Chat!Torn(job[t]) BY <1>1, <1>3, <2>4
      <3> QED BY <2>1, <3>1 DEF Chat!KeptInOrder
    <2> QED BY <2>2, <2>3, <2>4 DEF Chat!KeptInOrder
  <1> QED BY <1>1, <1>2, <1>3 DEF Chat!ChatHolds

\* A turn is over: what it kept stands.
LEMMA ChatEnds ==
    ASSUME Chat!ChatHolds, NEW s \in Slots, job' = [job EXCEPT ![s] = Chat!IdleJob],
           UNCHANGED <<s1, s2, s3>>, overlapped' \in BOOLEAN,
           ~overlapped' => ~overlapped /\ ~Chat!Torn(job[s])
    PROVE  Chat!ChatHolds'
  <1>1. /\ DOMAIN job' = Slots /\ job'[s] = Chat!IdleJob
        /\ \A t \in Slots : t # s => job'[t] = job[t]
        /\ \A t \in Slots : job'[t] = Chat!IdleJob \/ Chat!UnderWay(job'[t])
        /\ \A t \in Slots : job'[t].pc \in {"idle", "send", "receive", "tools", "keep"}
    BY ChatMoves
  <1>2. Chat!TypeOK' BY <1>1 DEF Chat!ChatHolds, Chat!TypeOK
  <1>3. Chat!NamesToldAreHidden' BY DEF Chat!ChatHolds, Chat!NamesToldAreHidden
  <1>4. ASSUME ~overlapped' PROVE Chat!KeptInOrder'
    <2>1. Chat!KeptInOrder BY <1>4 DEF Chat!ChatHolds
    <2>2. ~Chat!Torn(Chat!IdleJob) BY DEF Chat!Torn, Chat!IdleJob
    <2>3. \A t \in Slots : Chat!Torn(job'[t]) => t # s /\ Chat!Torn(job[t]) BY <1>1, <2>2
    <2>4. ASSUME NEW t \in Slots, job'[t] # Chat!IdleJob
          PROVE  Chat!PairedTurn(job'[t]) /\ s1' = SubSeq(job'[t].messages, 1, job'[t].past)
      BY <1>1, <2>1, <2>4 DEF Chat!KeptInOrder
    <2>5. ASSUME NEW t \in Slots, NEW u \in Slots, t # u, Chat!Torn(job'[t])
          PROVE  job'[u] = Chat!IdleJob
      BY <1>1, <2>1, <2>3, <2>5 DEF Chat!KeptInOrder
    <2>6. ASSUME \A t \in Slots : ~Chat!Torn(job'[t]) PROVE Chat!Whole(s1')
      <3>1. \A t \in Slots : ~Chat!Torn(job[t]) BY <1>1, <1>4, <2>6
      <3> QED BY <2>1, <3>1 DEF Chat!KeptInOrder
    <2> QED BY <2>4, <2>5, <2>6 DEF Chat!KeptInOrder
  <1> QED BY <1>1, <1>2, <1>3, <1>4 DEF Chat!ChatHolds

\* A step that is no failure tears nothing that others are under way with.
ChatSteps ==
    overlapped' = (overlapped \/ \E p \in Slots \X Slots :
                      p[1] # p[2] /\ Chat!Torn(job'[p[1]]) /\ job'[p[2]].pc # "idle")

LEMMA ChatApart ==
    ASSUME ChatSteps, overlapped \in BOOLEAN
    PROVE  /\ overlapped' \in BOOLEAN
           /\ ~overlapped' => /\ ~overlapped
                              /\ \A p \in Slots \X Slots :
                                    p[1] # p[2] /\ Chat!Torn(job'[p[1]]) => job'[p[2]].pc = "idle"
           /\ \A t, u \in Slots : ~overlapped' /\ t # u /\ Chat!Torn(job'[t]) => job'[u].pc = "idle"
  <1>1. /\ overlapped' \in BOOLEAN
        /\ ~overlapped' => /\ ~overlapped
                           /\ \A p \in Slots \X Slots :
                                 p[1] # p[2] /\ Chat!Torn(job'[p[1]]) => job'[p[2]].pc = "idle"
    BY DEF ChatSteps
  <1>2. ASSUME NEW t \in Slots, NEW u \in Slots, ~overlapped', t # u, Chat!Torn(job'[t])
        PROVE  job'[u].pc = "idle"
    <2>1. <<t, u>> \in Slots \X Slots /\ <<t, u>>[1] = t /\ <<t, u>>[2] = u OBVIOUS
    <2> QED BY <1>1, <1>2, <2>1
  <1> QED BY <1>1, <1>2

LEMMA ChatBegins ==
    ASSUME Chat!ChatHolds, ChatSteps, NEW s \in Slots, Chat!Begin(s)
    PROVE  Chat!ChatHolds'
  <1>1. PICK names \in SUBSET Names :
           /\ job[s] = Chat!IdleJob /\ s2 < MaxTurns /\ s2' = s2 + 1
           /\ job' = [job EXCEPT ![s] = [pc |-> "send", past |-> Len(s1), round |-> 1,
                 messages |-> Append(s1, [kind |-> "question", names |-> names]),
                 known |-> {}, told |-> {}]]
           /\ UNCHANGED <<s1, s3>>
    BY DEF Chat!Begin
  <1>2. PICK q : q = [kind |-> "question", names |-> names] OBVIOUS
  <1>3. q \in Chat!Message /\ q.kind = "question" BY <1>2 DEF Chat!Message, Chat!Kinds
  <1>4. /\ s1 \in Seq(Chat!Message) /\ s2 \in 0..MaxTurns /\ overlapped \in BOOLEAN
        /\ s3 \subseteq Names \X {"told_now", "told_before", "written"} /\ Chat!NamesToldAreHidden
        /\ DOMAIN job = Slots
    BY DEF Chat!ChatHolds, Chat!TypeOK
  <1>5. Len(s1) \in Nat /\ (s1 # <<>> <=> Len(s1) > 0) /\ SubSeq(s1, 1, Len(s1)) = s1
    BY <1>4, NonEmpty, SubSeqFull
  <1>6. /\ Append(s1, q) \in Seq(Chat!Message) /\ Len(Append(s1, q)) = Len(s1) + 1
        /\ SubSeq(Append(s1, q), 1, Len(s1)) = s1
    BY <1>3, <1>4, <1>5, AppendProperties, SubSeqOfAppend
  <1>7. PICK j : j = [pc |-> "send", past |-> Len(s1), round |-> 1, messages |-> Append(s1, q),
                      known |-> {}, told |-> {}]
    OBVIOUS
  <1>8. job' = [job EXCEPT ![s] = j] BY <1>1, <1>2, <1>7
  <1>9. /\ j.pc = "send" /\ j.messages = Append(s1, q) /\ j.past = Len(s1)
        /\ Chat!UnderWay(j)
    BY <1>5, <1>6, <1>7 DEF Chat!UnderWay, Chat!Turns
  <1>10. ~Chat!Torn(job[s]) BY <1>1 DEF Chat!Torn, Chat!IdleJob
  <1>11. s2' \in 0..MaxTurns BY <1>1, <1>4, ChatConstants DEF Chat!ChatAssumption
  <1>12. Chat!NamesToldAreHidden' BY <1>1, <1>4 DEF Chat!NamesToldAreHidden
  <1>13. ASSUME ~overlapped' PROVE Chat!PairedTurn(j) /\ s1 = SubSeq(j.messages, 1, j.past)
    <2>1. ~overlapped /\ Chat!KeptInOrder BY <1>4, <1>13, ChatApart DEF Chat!ChatHolds
    <2>2. ASSUME NEW t \in Slots PROVE ~Chat!Torn(job[t])
      <3>1. CASE t = s BY <1>10, <3>1
      <3>2. CASE t # s
        <4>1. job'[t] = job[t] /\ job'[s].pc = "send" BY <1>4, <1>8, <1>9, <3>2
        <4> QED BY <1>4, <1>13, <3>2, <4>1, ChatApart
      <3> QED BY <3>1, <3>2
    <2>3. Chat!Whole(s1) BY <2>1, <2>2 DEF Chat!KeptInOrder
    <2>4. Len(s1) > 0 => (s1[Len(s1)].kind = "tool_use" <=> q.kind = "tool_results")
      BY <1>3, <1>5, <2>3 DEF Chat!Whole
    <2>5. /\ Chat!PairsUp(Append(s1, q)) /\ Append(s1, q) # <<>>
          /\ Append(s1, q)[Len(Append(s1, q))] = q
      <3>1. Chat!PairsUp(s1) BY <2>3 DEF Chat!Whole
      <3>2. Len(s1) = 0 => q.kind # "tool_results" BY <1>3
      <3> QED BY <1>3, <1>4, <2>4, <3>1, <3>2, PairsUpAppend
    <2> QED BY <1>3, <1>6, <1>9, <2>5 DEF Chat!PairedTurn
  <1> QED BY <1>1, <1>4, <1>8, <1>9, <1>10, <1>11, <1>12, <1>13, ChatApart, ChatGoesOn

LEMMA ChatSends ==
    ASSUME Chat!ChatHolds, ChatSteps, NEW s \in Slots, Chat!Send(s)
    PROVE  Chat!ChatHolds'
  <1>1. /\ job[s].pc = "send"
        /\ s3' = s3 \cup {<<n, Chat!Origin(n, job[s])>> :
                             n \in Chat!Carried(job[s].messages) \ Chat!Hidden(job[s])}
        /\ job' = [job EXCEPT ![s].pc = "receive", ![s].known = Chat!ScanMessages(job[s])]
        /\ UNCHANGED <<s1, s2>>
    BY DEF Chat!Send
  <1>2. /\ job[s] # Chat!IdleJob /\ Chat!UnderWay(job[s]) /\ job[s] \in Chat!Turns
        /\ job[s].past \in Nat /\ job[s].messages \in Seq(Chat!Message)
        /\ job[s].known \subseteq Names /\ job[s].told \subseteq job[s].known
    BY <1>1, ChatTurn
  <1>3. /\ s2 \in 0..MaxTurns /\ overlapped \in BOOLEAN /\ DOMAIN job = Slots
        /\ s3 \subseteq Names \X {"told_now", "told_before", "written"} /\ Chat!NamesToldAreHidden
    BY DEF Chat!ChatHolds, Chat!TypeOK
  <1>4. PICK known : known = Chat!ScanMessages(job[s]) OBVIOUS
  <1>5. /\ Chat!Carried(job[s].messages) \subseteq Names
        /\ job[s].known \subseteq known /\ known \subseteq Names
    BY <1>2, <1>4, NamesCarried DEF Chat!ScanMessages
  <1>6. PICK j : j = [job[s] EXCEPT !.pc = "receive", !.known = known] OBVIOUS
  <1>7. job' = [job EXCEPT ![s] = j] BY <1>1, <1>3, <1>4, <1>6
  <1>8. /\ j.pc = "receive" /\ j.messages = job[s].messages /\ j.past = job[s].past
        /\ Chat!UnderWay(j)
    BY <1>2, <1>5, <1>6 DEF Chat!UnderWay, Chat!Turns
  <1>9. ~Chat!Torn(job[s]) BY <1>1 DEF Chat!Torn
  <1>10. \A n \in Chat!Carried(job[s].messages) \ Chat!Hidden(job[s]) :
            n \in Names /\ Chat!Origin(n, job[s]) \in {"told_before", "written"}
    BY <1>2, <1>4, <1>5 DEF Chat!Hidden, Chat!Origin
  <1>11. s3' \subseteq Names \X {"told_now", "told_before", "written"} BY <1>1, <1>3, <1>10
  <1>12. Chat!NamesToldAreHidden' BY <1>1, <1>3, <1>10 DEF Chat!NamesToldAreHidden
  <1>13. ASSUME ~overlapped' PROVE Chat!PairedTurn(j) /\ s1 = SubSeq(j.messages, 1, j.past)
    <2>1. Chat!KeptInOrder BY <1>3, <1>13, ChatApart DEF Chat!ChatHolds
    <2>2. Chat!PairedTurn(job[s]) /\ s1 = SubSeq(job[s].messages, 1, job[s].past)
      BY <1>2, <2>1 DEF Chat!KeptInOrder
    <2> QED BY <1>1, <1>8, <2>2 DEF Chat!PairedTurn
  <1> QED BY <1>1, <1>3, <1>7, <1>8, <1>9, <1>11, <1>12, <1>13, ChatApart, ChatGoesOn

\* A turn whose messages are those before and one that fits after them.
ChatAdds(s, x, j) ==
    /\ job[s].pc \in {"receive", "tools"} /\ x \in Chat!Message
    /\ x.kind = "tool_results" <=> job[s].pc = "tools"
    /\ job' = [job EXCEPT ![s] = j] /\ j \in Chat!Turns /\ j.told \subseteq j.known
    /\ j.past = job[s].past /\ j.messages = Append(job[s].messages, x)
    /\ j.pc = "tools" <=> x.kind = "tool_use"
    /\ UNCHANGED <<s1, s2, s3>>

LEMMA ChatAddsOne ==
    ASSUME Chat!ChatHolds, ChatSteps, NEW s \in Slots, NEW x, NEW j, ChatAdds(s, x, j)
    PROVE  Chat!ChatHolds'
  <1> USE DEF ChatAdds
  <1>1. /\ job[s] # Chat!IdleJob /\ job[s].past \in 0..Len(job[s].messages)
        /\ job[s].messages \in Seq(Chat!Message) /\ Len(job[s].messages) \in Nat
    BY ChatTurn
  <1>2. /\ s2 \in 0..MaxTurns /\ overlapped \in BOOLEAN
        /\ s3 \subseteq Names \X {"told_now", "told_before", "written"} /\ Chat!NamesToldAreHidden
    BY DEF Chat!ChatHolds, Chat!TypeOK
  <1>3. Chat!NamesToldAreHidden' BY <1>2 DEF Chat!NamesToldAreHidden
  <1>4. /\ Len(j.messages) = Len(job[s].messages) + 1
        /\ SubSeq(j.messages, 1, j.past) = SubSeq(job[s].messages, 1, job[s].past)
    BY <1>1, AppendProperties, SubSeqOfAppend
  <1>5. Chat!UnderWay(j) BY <1>1, <1>4 DEF Chat!UnderWay
  <1>6. ~Chat!Torn(job[s]) BY DEF Chat!Torn
  <1>7. ASSUME ~overlapped' PROVE Chat!PairedTurn(j) /\ s1 = SubSeq(j.messages, 1, j.past)
    <2>1. Chat!KeptInOrder BY <1>2, <1>7, ChatApart DEF Chat!ChatHolds
    <2>2. Chat!PairedTurn(job[s]) /\ s1 = SubSeq(job[s].messages, 1, job[s].past)
      BY <1>1, <2>1 DEF Chat!KeptInOrder
    <2>3. /\ Chat!PairsUp(job[s].messages) /\ Len(job[s].messages) > 0
          /\ (job[s].pc = "tools" <=> job[s].messages[Len(job[s].messages)].kind = "tool_use")
      BY <1>1, <2>2, NonEmpty DEF Chat!PairedTurn
    <2>4. /\ Chat!PairsUp(Append(job[s].messages, x)) /\ Append(job[s].messages, x) # <<>>
          /\ Append(job[s].messages, x)[Len(Append(job[s].messages, x))] = x
      BY <1>1, <2>3, PairsUpAppend
    <2> QED BY <1>4, <2>2, <2>4 DEF Chat!PairedTurn
  <1> QED BY <1>2, <1>3, <1>5, <1>6, <1>7, ChatApart, ChatGoesOn

LEMMA ChatReceives ==
    ASSUME Chat!ChatHolds, ChatSteps, NEW s \in Slots, Chat!Receive(s)
    PROVE  Chat!ChatHolds'
  <1>1. PICK kind1 \in {"answer", "tool_use"}, names \in SUBSET Chat!Carried(job[s].messages) :
           /\ job' = [job EXCEPT
                 ![s].messages = Append(@, [kind |-> kind1, names |-> names]),
                 ![s].pc = IF kind1 = "answer" THEN "keep" ELSE "tools"]
           /\ UNCHANGED <<s1, s2, s3>>
    BY DEF Chat!Receive
  <1>2. job[s].pc = "receive" BY DEF Chat!Receive
  <1>3. /\ job[s] \in Chat!Turns /\ job[s].messages \in Seq(Chat!Message)
        /\ job[s].told \subseteq job[s].known /\ DOMAIN job = Slots
    BY <1>2, ChatTurn DEF Chat!ChatHolds
  <1>4. PICK x : x = [kind |-> kind1, names |-> names] OBVIOUS
  <1>5. x \in Chat!Message /\ x.kind = kind1
    BY <1>3, <1>4, NamesCarried DEF Chat!Message, Chat!Kinds
  <1>6. PICK messages : messages = Append(job[s].messages, x) OBVIOUS
  <1>7. messages \in Seq(Chat!Message) BY <1>3, <1>5, <1>6, AppendProperties
  <1>8. PICK pc : pc = IF kind1 = "answer" THEN "keep" ELSE "tools" OBVIOUS
  <1>9. PICK j : j = [job[s] EXCEPT !.messages = messages, !.pc = pc] OBVIOUS
  <1>10. job' = [job EXCEPT ![s] = j] BY <1>1, <1>3, <1>4, <1>6, <1>8, <1>9
  <1>11. /\ j \in Chat!Turns /\ j.told = job[s].told /\ j.known = job[s].known
         /\ j.past = job[s].past /\ j.messages = messages /\ j.pc = pc
    BY <1>3, <1>7, <1>8, <1>9 DEF Chat!Turns
  <1>12. /\ pc = "tools" <=> kind1 = "tool_use"
         /\ kind1 # "tool_results"
    BY <1>8
  <1>13. /\ x.kind = "tool_results" <=> job[s].pc = "tools"
         /\ j.pc = "tools" <=> x.kind = "tool_use"
    BY <1>2, <1>5, <1>11, <1>12
  <1>14. j.told \subseteq j.known /\ j.messages = Append(job[s].messages, x)
    BY <1>3, <1>6, <1>11
  <1>15. ChatAdds(s, x, j) BY <1>1, <1>2, <1>5, <1>10, <1>11, <1>13, <1>14 DEF ChatAdds
  <1> QED BY <1>15, ChatAddsOne

LEMMA ChatRunsTool ==
    ASSUME Chat!ChatHolds, ChatSteps, NEW s \in Slots, Chat!RunTool(s)
    PROVE  Chat!ChatHolds'
  <1>1. PICK told \in SUBSET Names :
           /\ job' = [job EXCEPT ![s].messages = Chat!WithResults(job[s], told),
                                 ![s].known = Chat!ScanRaw(job[s], told),
                                 ![s].told = @ \cup told,
                                 ![s].round = @ + 1,
                                 ![s].pc = IF job[s].round < MaxIterations THEN "send" ELSE "keep"]
           /\ UNCHANGED <<s1, s2, s3>>
    BY DEF Chat!RunTool
  <1>2. job[s].pc = "tools" BY DEF Chat!RunTool
  <1>3. /\ job[s] \in Chat!Turns /\ job[s].messages \in Seq(Chat!Message)
        /\ job[s].told \subseteq job[s].known /\ job[s].known \subseteq Names
        /\ job[s].round \in Nat /\ DOMAIN job = Slots
    BY <1>2, ChatTurn DEF Chat!ChatHolds
  <1>4. PICK x : x = [kind |-> "tool_results", names |-> told] OBVIOUS
  <1>5. x \in Chat!Message /\ x.kind = "tool_results" BY <1>4 DEF Chat!Message, Chat!Kinds
  <1>6. PICK messages : messages = Append(job[s].messages, x) OBVIOUS
  <1>7. messages \in Seq(Chat!Message) /\ messages = Chat!WithResults(job[s], told)
    BY <1>3, <1>4, <1>5, <1>6, AppendProperties DEF Chat!WithResults
  <1>8. PICK known : known = Chat!ScanRaw(job[s], told) OBVIOUS
  <1>9. PICK all1 : all1 = job[s].told \cup told OBVIOUS
  <1>10. known \subseteq Names /\ all1 \subseteq known
    BY <1>3, <1>8, <1>9 DEF Chat!ScanRaw
  <1>11. PICK round : round = job[s].round + 1 OBVIOUS
  <1>12. PICK pc : pc = IF job[s].round < MaxIterations THEN "send" ELSE "keep" OBVIOUS
  <1>13. pc \in {"send", "keep"} /\ round \in Nat BY <1>3, <1>11, <1>12
  <1>14. PICK j : j = [job[s] EXCEPT !.messages = messages, !.known = known, !.told = all1,
                                     !.round = round, !.pc = pc]
    OBVIOUS
  <1>15. job' = [job EXCEPT ![s] = j]
    BY <1>1, <1>3, <1>7, <1>8, <1>9, <1>11, <1>12, <1>14
  <1>16. /\ j \in Chat!Turns /\ j.told = all1 /\ j.known = known /\ j.past = job[s].past
         /\ j.messages = messages /\ j.pc = pc
    BY <1>3, <1>7, <1>10, <1>13, <1>14 DEF Chat!Turns
  <1>17. /\ x.kind = "tool_results" <=> job[s].pc = "tools"
         /\ j.pc = "tools" <=> x.kind = "tool_use"
    BY <1>2, <1>5, <1>13, <1>16
  <1>18. j.told \subseteq j.known /\ j.messages = Append(job[s].messages, x)
    BY <1>6, <1>10, <1>16
  <1>19. ChatAdds(s, x, j) BY <1>1, <1>2, <1>5, <1>15, <1>16, <1>17, <1>18 DEF ChatAdds
  <1> QED BY <1>19, ChatAddsOne

\* The history after one more message of a turn is kept.
LEMMA OneMoreKept ==
    ASSUME NEW m \in Seq(Chat!Message), NEW n \in Nat, n < Len(m)
    PROVE  Append(SubSeq(m, 1, n), m[n + 1]) = SubSeq(m, 1, n + 1) /\ m[n + 1] \in Chat!Message
  <1>1. Len(m) \in Nat /\ n + 1 \in 1..Len(m) /\ 1 \in 1..Len(m) /\ n + 1 - 1 = n
    BY LenProperties
  <1>2. \A i \in 1..n : m[i] \in Chat!Message BY <1>1, ElementOfSeq
  <1>3. m[n + 1] \in Chat!Message BY <1>1, ElementOfSeq
  <1>4. SubSeq(m, 1, n) \in Seq(Chat!Message) BY <1>2, SubSeqProperties
  <1>5. SubSeq(m, 1, n + 1) = SubSeq(m, 1, n + 1 - 1) \o <<m[n + 1]>>
    BY <1>1, SubSeqRecursiveSecond
  <1>6. Append(SubSeq(m, 1, n), m[n + 1]) = SubSeq(m, 1, n) \o <<m[n + 1]>>
    BY <1>3, <1>4, AppendIsConcat
  <1> QED BY <1>1, <1>3, <1>5, <1>6

LEMMA ChatKeeps ==
    ASSUME Chat!ChatHolds, ChatSteps, NEW s \in Slots, Chat!Keep(s)
    PROVE  Chat!ChatHolds'
  <1>1. /\ job[s].pc = "keep" /\ job[s].past < Len(job[s].messages)
        /\ s1' = Append(s1, job[s].messages[job[s].past + 1])
        /\ job' = [job EXCEPT ![s].past = @ + 1]
        /\ UNCHANGED <<s2, s3>>
    BY DEF Chat!Keep
  <1>2. /\ job[s] # Chat!IdleJob /\ Chat!UnderWay(job[s]) /\ job[s] \in Chat!Turns
        /\ job[s].past \in Nat /\ job[s].messages \in Seq(Chat!Message)
        /\ Len(job[s].messages) \in Nat
    BY <1>1, ChatTurn
  <1>3. /\ s1 \in Seq(Chat!Message) /\ s2 \in 0..MaxTurns /\ overlapped \in BOOLEAN
        /\ DOMAIN job = Slots
        /\ s3 \subseteq Names \X {"told_now", "told_before", "written"} /\ Chat!NamesToldAreHidden
    BY DEF Chat!ChatHolds, Chat!TypeOK
  <1>4. PICK j : j = [job[s] EXCEPT !.past = job[s].past + 1] OBVIOUS
  <1>5. job' = [job EXCEPT ![s] = j] BY <1>1, <1>3, <1>4
  <1>6. /\ j.pc = "keep" /\ j.messages = job[s].messages /\ j.past = job[s].past + 1
        /\ Chat!UnderWay(j)
    <2>1. PICK past : past = job[s].past + 1 OBVIOUS
    <2>2. past \in Nat /\ past <= Len(job[s].messages) BY <1>1, <1>2, <2>1
    <2>3. j = [job[s] EXCEPT !.past = past] BY <1>4, <2>1
    <2>4. j.pc = "keep" /\ j.messages = job[s].messages /\ j.past = past
          /\ j.told = job[s].told /\ j.known = job[s].known /\ j \in Chat!Turns
      BY <1>1, <1>2, <2>2, <2>3 DEF Chat!Turns
    <2> QED BY <1>2, <2>1, <2>2, <2>4 DEF Chat!UnderWay
  <1>7. /\ DOMAIN job' = Slots /\ job'[s] = j
        /\ \A t \in Slots : t # s => job'[t] = job[t]
        /\ \A t \in Slots : job'[t] = Chat!IdleJob \/ Chat!UnderWay(job'[t])
        /\ \A t \in Slots : job'[t].pc \in {"idle", "send", "receive", "tools", "keep"}
        /\ \A t \in Slots : job'[t].pc = "idle" <=> job'[t] = Chat!IdleJob
    BY <1>5, <1>6, ChatMoves
  <1>8. job[s].messages[job[s].past + 1] \in Chat!Message BY <1>1, <1>2, OneMoreKept
  <1>9. s1' \in Seq(Chat!Message) BY <1>1, <1>3, <1>8, AppendProperties
  <1>10. overlapped' \in BOOLEAN BY <1>3, ChatApart
  <1>11. Chat!TypeOK' BY <1>1, <1>3, <1>7, <1>9, <1>10 DEF Chat!TypeOK
  <1>12. Chat!NamesToldAreHidden' BY <1>1, <1>3 DEF Chat!NamesToldAreHidden
  <1>13. ASSUME ~overlapped' PROVE Chat!KeptInOrder'
    <2>1. Chat!KeptInOrder BY <1>3, <1>13, ChatApart DEF Chat!ChatHolds
    <2>2. Chat!Torn(job[s]) BY <1>1 DEF Chat!Torn
    <2>3. \A t \in Slots : t # s => job'[t] = Chat!IdleJob
      BY <1>7, <2>1, <2>2 DEF Chat!KeptInOrder
    <2>4. Chat!PairedTurn(job[s]) /\ s1 = SubSeq(job[s].messages, 1, job[s].past)
      BY <1>2, <2>1 DEF Chat!KeptInOrder
    <2>5. s1' = SubSeq(j.messages, 1, j.past)
      BY <1>1, <1>2, <1>6, <2>4, OneMoreKept
    <2>6. Chat!PairedTurn(j) BY <1>1, <1>6, <2>4 DEF Chat!PairedTurn
    <2>7. ~Chat!Torn(Chat!IdleJob) BY DEF Chat!Torn, Chat!IdleJob
    <2>8. ASSUME ~Chat!Torn(j) PROVE Chat!Whole(s1')
      <3>1. ~(j.past < Len(j.messages)) BY <1>6, <2>8 DEF Chat!Torn
      <3>2. j.past = Len(j.messages) BY <1>1, <1>2, <1>6, <3>1
      <3>3. s1' = j.messages BY <1>2, <1>6, <2>5, <3>2, SubSeqFull
      <3> QED BY <1>6, <2>6, <3>3 DEF Chat!PairedTurn, Chat!Whole
    <2>9. ASSUME NEW t \in Slots, job'[t] # Chat!IdleJob
          PROVE  Chat!PairedTurn(job'[t]) /\ s1' = SubSeq(job'[t].messages, 1, job'[t].past)
      <3>1. t = s BY <2>3, <2>9
      <3> QED BY <1>7, <2>5, <2>6, <3>1
    <2>10. ASSUME NEW t \in Slots, NEW u \in Slots, t # u, Chat!Torn(job'[t])
           PROVE  job'[u] = Chat!IdleJob
      <3>1. t = s BY <2>3, <2>7, <2>10
      <3> QED BY <2>3, <2>10, <3>1
    <2>11. ASSUME \A t \in Slots : ~Chat!Torn(job'[t]) PROVE Chat!Whole(s1')
      BY <1>7, <2>8, <2>11
    <2> QED BY <2>9, <2>10, <2>11 DEF Chat!KeptInOrder
  <1> QED BY <1>7, <1>11, <1>12, <1>13 DEF Chat!ChatHolds

LEMMA ChatNextKeeps ==
    ASSUME Chat!ChatHolds, ~overlapped, Chat!Next
    PROVE  Chat!ChatHolds'
  <1>1. overlapped \in BOOLEAN BY DEF Chat!ChatHolds, Chat!TypeOK
  <1>2. ASSUME NEW s \in Slots, ChatSteps,
               \/ Chat!Begin(s) \/ Chat!Send(s) \/ Chat!Receive(s) \/ Chat!RunTool(s)
               \/ Chat!Keep(s) \/ Chat!End(s)
        PROVE  Chat!ChatHolds'
    <2>1. CASE Chat!Begin(s) BY <1>2, <2>1, ChatBegins
    <2>2. CASE Chat!Send(s) BY <1>2, <2>2, ChatSends
    <2>3. CASE Chat!Receive(s) BY <1>2, <2>3, ChatReceives
    <2>4. CASE Chat!RunTool(s) BY <1>2, <2>4, ChatRunsTool
    <2>5. CASE Chat!Keep(s) BY <1>2, <2>5, ChatKeeps
    <2>6. CASE Chat!End(s)
      <3>1. /\ job[s].pc = "keep" /\ job[s].past = Len(job[s].messages)
            /\ job' = [job EXCEPT ![s] = Chat!IdleJob] /\ UNCHANGED <<s1, s2, s3>>
        BY <2>6 DEF Chat!End
      <3>2. Len(job[s].messages) \in Nat BY <3>1, ChatTurn
      <3>3. ~Chat!Torn(job[s]) BY <3>1, <3>2 DEF Chat!Torn
      <3> QED BY <1>1, <1>2, <3>1, <3>3, ChatApart, ChatEnds
    <2> QED BY <1>2, <2>1, <2>2, <2>3, <2>4, <2>5, <2>6
  <1>3. ASSUME NEW s \in Slots, Chat!Fail(s), overlapped' = (overlapped \/ Chat!Torn(job[s]))
        PROVE  Chat!ChatHolds'
    <2>1. job' = [job EXCEPT ![s] = Chat!IdleJob] /\ UNCHANGED <<s1, s2, s3>>
      BY <1>3 DEF Chat!Fail
    <2>2. overlapped' \in BOOLEAN /\ (~overlapped' => ~overlapped /\ ~Chat!Torn(job[s]))
      BY <1>1, <1>3
    <2> QED BY <2>1, <2>2, ChatEnds
  <1> QED BY <1>2, <1>3 DEF Chat!Next, ChatSteps

LEMMA ChatInit ==
    ASSUME Chat!Init PROVE Chat!ChatHolds
  <1>1. /\ s1 = <<>> /\ s2 = 0 /\ s3 = {} /\ overlapped = FALSE
        /\ job = [s \in Slots |-> Chat!IdleJob]
    BY DEF Chat!Init
  <1>2. MaxTurns \in Nat BY ChatConstants DEF Chat!ChatAssumption
  <1>3. s1 \in Seq(Chat!Message) /\ DOMAIN s1 = {} BY <1>1
  <1>4. \A s \in Slots : job[s] = Chat!IdleJob BY <1>1
  <1>5. Chat!IdleJob.pc = "idle" /\ ~Chat!Torn(Chat!IdleJob) BY DEF Chat!IdleJob, Chat!Torn
  <1>6. Chat!TypeOK
    <2>1. s2 \in 0..MaxTurns BY <1>1, <1>2
    <2>2. s3 \subseteq Names \X {"told_now", "told_before", "written"} /\ overlapped \in BOOLEAN
      BY <1>1
    <2>3. \A s \in Slots : job[s].pc \in {"idle", "send", "receive", "tools", "keep"}
      BY <1>4, <1>5
    <2> QED BY <1>3, <2>1, <2>2, <2>3 DEF Chat!TypeOK
  <1>7. Chat!Whole(s1) BY <1>1, <1>3 DEF Chat!Whole, Chat!PairsUp
  <1>8. Chat!KeptInOrder BY <1>4, <1>5, <1>7 DEF Chat!KeptInOrder
  <1> QED BY <1>1, <1>4, <1>6, <1>8 DEF Chat!ChatHolds, Chat!NamesToldAreHidden

LEMMA ChatTold ==
    ASSUME Chat!ChatHolds
    PROVE  Chat!TypeOK /\ Chat!HistoryPairsUpUnlessCut /\ Chat!NamesToldAreHidden
  <1>1. ASSUME ~overlapped PROVE Chat!HistoryPairsUpUnlessCut
    <2>1. Chat!KeptInOrder BY <1>1 DEF Chat!ChatHolds
    <2>2. ASSUME NEW s \in Slots, job[s].pc = "send" PROVE Chat!PairsUp(job[s].messages)
      <3>1. job[s] # Chat!IdleJob BY <2>2, ChatTurn
      <3> QED BY <2>1, <3>1 DEF Chat!KeptInOrder, Chat!PairedTurn
    <2>3. ASSUME \A s \in Slots : job[s].pc # "keep" PROVE Chat!Whole(s1)
      <3>1. \A s \in Slots : ~Chat!Torn(job[s]) BY <2>3 DEF Chat!Torn
      <3> QED BY <2>1, <3>1 DEF Chat!KeptInOrder
    <2> QED BY <2>2, <2>3 DEF Chat!HistoryPairsUpUnlessCut, Chat!Whole
  <1> QED BY <1>1 DEF Chat!ChatHolds, Chat!HistoryPairsUpUnlessCut

-----------------------------------------------------------------------------
(* Aptitude test.                                                              *)

\* A request is not yet the attempt's when there is none, and stays one of its as
\* long as the attempt keeps its questions.
LEMMA RequestStands ==
    ASSUME NEW j, NEW a, NEW b, Exam!Request(j, a), a = Exam!None \/ (b # Exam!None /\ b.right = a.right)
    PROVE  Exam!Request(j, b)
  <1>1. CASE a = Exam!None BY <1>1 DEF Exam!Request
  <1>2. CASE a # Exam!None BY <1>2 DEF Exam!Request, Exam!OfAttempt
  <1> QED BY <1>1, <1>2

LEMMA RequestPlaces ==
    ASSUME NEW j, NEW a, Exam!Request(j, a)
    PROVE  j.pc \in {"idle", "insert", "answer", "write_answer", "field", "write_field", "submit",
                     "finalize"}
  <1>1. CASE j = Exam!IdleJob BY <1>1 DEF Exam!IdleJob
  <1>2. CASE j.pc = "insert" BY <1>2
  <1>3. CASE a # Exam!None /\ Exam!OfAttempt(j, a) BY <1>3 DEF Exam!OfAttempt
  <1> QED BY <1>1, <1>2, <1>3 DEF Exam!Request

\* A request that is somewhere is a request of an attempt that there is.
LEMMA RequestOfAttempt ==
    ASSUME Exam!Fits, NEW s \in Slots, job[s].pc \notin {"idle", "insert"}
    PROVE  s2 # Exam!None /\ Exam!OfAttempt(job[s], s2) /\ Exam!Row(s2)
  <1>1. job[s] # Exam!IdleJob BY DEF Exam!IdleJob
  <1>2. Exam!Request(job[s], s2) BY DEF Exam!Fits
  <1>3. s2 # Exam!None /\ Exam!OfAttempt(job[s], s2) BY <1>1, <1>2 DEF Exam!Request
  <1> QED BY <1>3 DEF Exam!Fits

LEMMA RowWith ==
    ASSUME NEW a, Exam!Row(a)
    PROVE  /\ a # Exam!None
           /\ \A b : /\ b = [status |-> b.status, expires |-> a.expires, part1 |-> b.part1,
                             right |-> a.right, chosen |-> b.chosen, score |-> b.score]
                     /\ b.status \in {"IN_PROGRESS", "SUBMITTED", "EXPIRED"} /\ b.part1 \subseteq Fields
                     /\ b.chosen \in [DOMAIN a.right -> Exam!Chosen]
                     => Exam!Row(b) /\ b # Exam!None
  <1>1. a # Exam!None BY DEF Exam!Row, Exam!None
  <1>2. ASSUME NEW b, b = [status |-> b.status, expires |-> a.expires, part1 |-> b.part1,
                           right |-> a.right, chosen |-> b.chosen, score |-> b.score],
               b.status \in {"IN_PROGRESS", "SUBMITTED", "EXPIRED"}, b.part1 \subseteq Fields,
               b.chosen \in [DOMAIN a.right -> Exam!Chosen]
        PROVE  Exam!Row(b) /\ b # Exam!None
    <2>1. b.expires = a.expires /\ b.right = a.right BY <1>2
    <2>2. Exam!Row(b) BY <1>2, <2>1 DEF Exam!Row
    <2>3. b # Exam!None BY <1>2 DEF Exam!None
    <2> QED BY <2>2, <2>3
  <1> QED BY <1>1, <1>2

\* What a step of the test is judged by: whether two requests collide after it.
ExamSteps ==
    overlapped' = (overlapped \/ \E s, t \in Slots : s # t /\ Exam!Collide(job'[s], job'[t]))

LEMMA ExamApart ==
    ASSUME ExamSteps, ~overlapped'
    PROVE  ~overlapped /\ Exam!Apart'
  BY DEF ExamSteps, Exam!Apart

BankFits ==
    /\ s1.right \in [Questions -> Exam!Options] /\ s1.active \subseteq Questions
    /\ s1 = [right |-> s1.right, active |-> s1.active]

LEMMA BankStands ==
    ASSUME Exam!Fits, UNCHANGED s1 PROVE BankFits'
  BY DEF Exam!Fits, Exam!TypeOK, BankFits

\* Everything fits after a step when the row, the requests, the page and what is
\* entered do.
LEMMA ExamFits ==
    ASSUME Exam!Fits, DOMAIN job' = Slots, \A s \in Slots : Exam!Request(job'[s], s2'),
           now' \in 0..ExamTime, BankFits', s2' = Exam!None \/ Exam!Row(s2'),
           Exam!PageOfAttempt', s3'.phase \in {"login", "exam", "result"},
           s4' \in [Questions -> Exam!Chosen],
           s2' = Exam!None => \A q \in Questions : s4'[q] = Exam!Unanswered
    PROVE  Exam!Fits'
  <1>1. \A s \in Slots : job'[s].pc \in {"idle", "insert", "answer", "write_answer", "field",
                                         "write_field", "submit", "finalize"}
    BY RequestPlaces
  <1>2. /\ s1'.right \in [Questions -> Exam!Options] /\ s1'.active \subseteq Questions
        /\ s1' = [right |-> s1'.right, active |-> s1'.active]
    BY DEF BankFits
  <1>3. s2' # Exam!None =>
           /\ s2'.status \in {"IN_PROGRESS", "SUBMITTED", "EXPIRED"} /\ s2'.part1 \subseteq Fields
           /\ s2'.chosen \in [DOMAIN s2'.right -> Exam!Options \cup {Exam!Unanswered}]
    BY DEF Exam!Row, Exam!Chosen
  <1>4. Exam!TypeOK' BY <1>1, <1>2, <1>3 DEF Exam!TypeOK
  <1> QED BY <1>2, <1>4 DEF Exam!Fits

\* The attempt and what is entered stand; requests go on or begin.
LEMMA ExamAsks ==
    ASSUME Exam!ExamHolds, ExamSteps, DOMAIN job' = Slots,
           \A s \in Slots : Exam!Request(job'[s], s2),
           now' \in 0..ExamTime, BankFits', UNCHANGED <<s2, s4>>,
           Exam!PageOfAttempt', s3'.phase \in {"login", "exam", "result"}, s5 => s5',
           ~overlapped' => \A s \in Slots : Exam!Current(job'[s], s2, s4),
           ~s5' /\ Exam!Open(s2) => \A s \in Slots : \A q : Exam!Brings(job[s], q) => Exam!Brings(job'[s], q)
    PROVE  Exam!ExamHolds' /\ Exam!SittingKept
  <1>1. Exam!Fits BY DEF Exam!ExamHolds
  <1>2. Exam!Fits'
    <2>1. (s2 = Exam!None \/ Exam!Row(s2)) /\ s4 \in [Questions -> Exam!Chosen]
          /\ (s2 = Exam!None => \A q \in Questions : s4[q] = Exam!Unanswered)
      BY <1>1 DEF Exam!Fits
    <2> QED BY <1>1, <2>1, ExamFits
  <1>3. ASSUME ~overlapped' PROVE Exam!OneByOne'
    <2>1. Exam!OneByOne /\ Exam!Apart' BY <1>3, ExamApart DEF Exam!ExamHolds
    <2>2. Exam!Marked(s2)' BY <2>1 DEF Exam!OneByOne, Exam!Marked, Exam!Open, Exam!Score
    <2>3. \A s \in Slots : Exam!Current(job'[s], s2', s4') BY <1>3
    <2>4. ASSUME ~s5', Exam!Open(s2'), NEW q \in DOMAIN s2'.chosen
          PROVE  s2'.chosen[q] = s4'[q] \/ \E s \in Slots : Exam!Brings(job'[s], q)
      <3>1. s2.chosen[q] = s4[q] \/ \E s \in Slots : Exam!Brings(job[s], q)
        BY <2>1, <2>4 DEF Exam!OneByOne
      <3> QED BY <2>4, <3>1
    <2> QED BY <2>1, <2>2, <2>3, <2>4 DEF Exam!OneByOne
  <1> QED BY <1>2, <1>3 DEF Exam!ExamHolds, Exam!SittingKept

LEMMA ExamTakes ==
    ASSUME Exam!Fits, NEW s \in Slots, NEW j, job' = [job EXCEPT ![s] = j]
    PROVE  /\ DOMAIN job' = Slots /\ job'[s] = j
           /\ \A t \in Slots : t # s => job'[t] = job[t]
  BY DEF Exam!Fits

\* The same for one request, j, in the place of the one in slot s.
ExamAsked(s, j) ==
    /\ job' = [job EXCEPT ![s] = j] /\ Exam!Request(j, s2)
    /\ UNCHANGED <<now, s1, s2, s4>> /\ (s5 => s5')
    /\ Exam!PageOfAttempt' /\ s3'.phase \in {"login", "exam", "result"}
    /\ ~overlapped' => Exam!Current(j, s2, s4)
    /\ ~s5' /\ Exam!Open(s2) => \A q : Exam!Brings(job[s], q) => Exam!Brings(j, q)

LEMMA ExamAsksOne ==
    ASSUME Exam!ExamHolds, ExamSteps, NEW s \in Slots, NEW j, ExamAsked(s, j)
    PROVE  Exam!ExamHolds' /\ Exam!SittingKept
  <1>1. Exam!Fits BY DEF Exam!ExamHolds
  <1>2. /\ DOMAIN job' = Slots /\ job'[s] = j
        /\ \A t \in Slots : t # s => job'[t] = job[t]
    BY <1>1, ExamTakes DEF ExamAsked
  <1>3. \A t \in Slots : Exam!Request(job'[t], s2) BY <1>1, <1>2 DEF Exam!Fits, ExamAsked
  <1>4. now' \in 0..ExamTime BY <1>1 DEF Exam!Fits, Exam!TypeOK, ExamAsked
  <1>5. ASSUME ~overlapped' PROVE \A t \in Slots : Exam!Current(job'[t], s2, s4)
    <2>1. Exam!OneByOne BY <1>5, ExamApart DEF Exam!ExamHolds
    <2> QED BY <1>2, <1>5, <2>1 DEF Exam!OneByOne, ExamAsked
  <1>6. ~s5' /\ Exam!Open(s2) =>
           \A t \in Slots : \A q : Exam!Brings(job[t], q) => Exam!Brings(job'[t], q)
    BY <1>2 DEF ExamAsked
  <1>7. BankFits' BY <1>1, BankStands DEF ExamAsked
  <1> QED BY <1>2, <1>3, <1>4, <1>5, <1>6, <1>7, ExamAsks DEF ExamAsked

\* A page stays one of the attempt when nothing of it changes but how far it is.
LEMMA PageStands ==
    ASSUME Exam!Fits, UNCHANGED s2, s3' = s3 \/ s3' = [s3 EXCEPT !.phase = "result"]
    PROVE  Exam!PageOfAttempt' /\ s3'.phase \in {"login", "exam", "result"}
  <1>1. Exam!PageOfAttempt /\ s3.phase \in {"login", "exam", "result"}
    BY DEF Exam!Fits, Exam!TypeOK
  <1>2. CASE s3' = s3 BY <1>1, <1>2 DEF Exam!PageOfAttempt
  <1>3. CASE s3' = [s3 EXCEPT !.phase = "result"]
    <2>1. /\ s3'.phase = "result" /\ s3'.part1 = s3.part1 /\ s3'.chosen = s3.chosen
          /\ s3'.submitted = s3.submitted
          /\ s3' = [phase |-> s3'.phase, part1 |-> s3'.part1, chosen |-> s3'.chosen,
                    submitted |-> s3'.submitted]
      BY <1>1, <1>3 DEF Exam!PageOfAttempt
    <2> QED BY <1>1, <2>1 DEF Exam!PageOfAttempt
  <1> QED BY <1>2, <1>3

\* A request that is over, one that closes the attempt, and what comes after fields.
LEMMA RequestsOver ==
    /\ \A a : Exam!Request(Exam!IdleJob, a)
    /\ \A a, chosen : Exam!Current(Exam!IdleJob, a, chosen)
    /\ \A q : ~Exam!Brings(Exam!IdleJob, q)
  BY DEF Exam!Request, Exam!Current, Exam!Brings, Exam!IdleJob

LEMMA RequestCloses ==
    ASSUME NEW status \in {"SUBMITTED", "EXPIRED"}, NEW j, s2 # Exam!None,
           j = Exam!Finalizing(status)
    PROVE  /\ Exam!Request(j, s2) /\ (Exam!Open(s2) => Exam!Current(j, s2, s4))
           /\ \A q : Exam!Brings(j, q)
  <1>1. j = [pc |-> "finalize", status |-> status, row |-> s2] BY DEF Exam!Finalizing
  <1>2. j.pc = "finalize" /\ j.status = status /\ j.row = s2 /\ j = [pc |-> j.pc, status |-> j.status, row |-> j.row]
    BY <1>1
  <1>3. Exam!Request(j, s2) BY <1>2 DEF Exam!Request, Exam!OfAttempt
  <1> QED BY <1>2, <1>3 DEF Exam!Current, Exam!Brings

LEMMA RequestAfter ==
    ASSUME NEW k, NEW j, s2 # Exam!None, j = Exam!AfterField(k)
    PROVE  Exam!Request(j, s2) /\ Exam!Current(j, s2, s4) /\ \A q : ~Exam!Brings(j, q)
  <1>1. CASE j = Exam!IdleJob BY <1>1, RequestsOver
  <1>2. CASE j = [pc |-> "submit"]
    <2>1. j.pc = "submit" BY <1>2
    <2>2. Exam!Request(j, s2) BY <1>2 DEF Exam!Request, Exam!OfAttempt
    <2> QED BY <2>1, <2>2 DEF Exam!Current, Exam!Brings
  <1> QED BY <1>1, <1>2 DEF Exam!AfterField

LEMMA ExamLogsIn ==
    ASSUME Exam!ExamHolds, ExamSteps, NEW s \in Slots, Exam!Login(s)
    PROVE  Exam!ExamHolds' /\ Exam!SittingKept
  <1>1. PICK d \in Exam!Draws :
           /\ Exam!Idle(s) /\ UNCHANGED <<now, s1, s2, s3, s4, s5>>
           /\ job' = [job EXCEPT ![s] = [pc |-> "insert", right |-> [q \in d |-> s1.right[q]]]]
    BY DEF Exam!Login
  <1>2. Exam!Fits /\ s1.active \subseteq Questions BY DEF Exam!ExamHolds, Exam!Fits, Exam!TypeOK
  <1>3. d \subseteq Questions BY <1>2 DEF Exam!Draws
  <1>4. PICK right : right = [q \in d |-> s1.right[q]] OBVIOUS
  <1>5. PICK j : j = [pc |-> "insert", right |-> right] OBVIOUS
  <1>6. job' = [job EXCEPT ![s] = j] BY <1>1, <1>4, <1>5
  <1>7. DOMAIN right \subseteq Questions BY <1>3, <1>4
  <1>8. Exam!Request(j, s2) BY <1>5, <1>7 DEF Exam!Request
  <1>9. Exam!Current(j, s2, s4) BY <1>5 DEF Exam!Current
  <1>10. \A q : ~Exam!Brings(job[s], q) BY <1>1, RequestsOver DEF Exam!Idle
  <1>11. Exam!PageOfAttempt' /\ s3'.phase \in {"login", "exam", "result"}
    BY <1>1, <1>2, PageStands
  <1>12. ExamAsked(s, j) BY <1>1, <1>6, <1>8, <1>9, <1>10, <1>11 DEF ExamAsked
  <1> QED BY <1>12, ExamAsksOne

LEMMA ExamLoads ==
    ASSUME Exam!ExamHolds, ExamSteps, NEW s \in Slots, Exam!Load(s)
    PROVE  Exam!ExamHolds' /\ Exam!SittingKept
  <1>1. /\ job[s] = Exam!IdleJob /\ s2 # Exam!None
        /\ UNCHANGED <<now, s1, s2, s4, s5>>
    BY DEF Exam!Load, Exam!Idle
  <1>2. Exam!Fits /\ Exam!Row(s2) /\ DOMAIN job = Slots BY <1>1 DEF Exam!ExamHolds, Exam!Fits
  <1>3. \A q : ~Exam!Brings(job[s], q) BY <1>1, RequestsOver
  <1>4. CASE s2.status = "IN_PROGRESS" /\ ~Exam!Expired
    <2>1. /\ s3' = [phase |-> "exam", part1 |-> s2.part1, chosen |-> s2.chosen, submitted |-> FALSE]
          /\ job' = job
      BY <1>4 DEF Exam!Load
    <2>2. /\ s3'.phase = "exam" /\ s3'.part1 = s2.part1 /\ s3'.chosen = s2.chosen
          /\ s3' = [phase |-> s3'.phase, part1 |-> s3'.part1, chosen |-> s3'.chosen,
                    submitted |-> s3'.submitted]
      BY <2>1
    <2>3. Exam!PageOfAttempt' /\ s3'.phase \in {"login", "exam", "result"}
      BY <1>1, <1>2, <2>2 DEF Exam!PageOfAttempt, Exam!Row
    <2>4. \A t \in Slots : Exam!Request(job'[t], s2) BY <1>2, <2>1 DEF Exam!Fits
    <2>5. ASSUME ~overlapped' PROVE \A t \in Slots : Exam!Current(job'[t], s2, s4)
      BY <2>1, <2>5, ExamApart DEF Exam!ExamHolds, Exam!OneByOne
    <2>6. now' \in 0..ExamTime BY <1>1, <1>2 DEF Exam!Fits, Exam!TypeOK
    <2>7. BankFits' BY <1>1, <1>2, BankStands
    <2> QED BY <1>1, <1>2, <2>1, <2>3, <2>4, <2>5, <2>6, <2>7, ExamAsks
  <1>5. CASE ~(s2.status = "IN_PROGRESS" /\ ~Exam!Expired)
    <2>1. PICK j : j = IF s2.status = "IN_PROGRESS" THEN Exam!Finalizing("EXPIRED") ELSE Exam!IdleJob
      OBVIOUS
    <2>2. /\ s3' = [s3 EXCEPT !.phase = "result"]
          /\ job' = [job EXCEPT ![s] = j]
      BY <1>5, <2>1 DEF Exam!Load
    <2>3. Exam!PageOfAttempt' /\ s3'.phase \in {"login", "exam", "result"}
      BY <1>1, <1>2, <2>2, PageStands
    <2>4. Exam!Request(j, s2) /\ Exam!Current(j, s2, s4)
      BY <1>1, <2>1, RequestsOver, RequestCloses DEF Exam!Open
    <2>5. ExamAsked(s, j) BY <1>1, <1>3, <2>2, <2>3, <2>4 DEF ExamAsked
    <2> QED BY <2>5, ExamAsksOne
  <1> QED BY <1>4, <1>5

LEMMA ExamSavesFields ==
    ASSUME Exam!ExamHolds, ExamSteps, NEW s \in Slots, Exam!SaveField(s) \/ Exam!Submit(s)
    PROVE  Exam!ExamHolds' /\ Exam!SittingKept
  <1>1. PICK then :
           /\ job[s] = Exam!IdleJob /\ s3.phase = "exam"
           /\ s3' = s3 \/ s3' = [s3 EXCEPT !.submitted = TRUE]
           /\ job' = [job EXCEPT ![s] = [pc |-> "field", details |-> s3.part1, then |-> then]]
           /\ UNCHANGED <<now, s1, s2, s4, s5>>
    BY DEF Exam!SaveField, Exam!Submit, Exam!Idle
  <1>2. Exam!Fits /\ Exam!PageOfAttempt BY DEF Exam!ExamHolds, Exam!Fits
  <1>3. s2 # Exam!None /\ s3.part1 \subseteq Fields /\ DOMAIN s3.chosen = DOMAIN s2.right
    BY <1>1, <1>2 DEF Exam!PageOfAttempt
  <1>4. /\ s3'.phase = "exam" /\ s3'.part1 = s3.part1 /\ s3'.chosen = s3.chosen
        /\ s3' = [phase |-> s3'.phase, part1 |-> s3'.part1, chosen |-> s3'.chosen,
                  submitted |-> s3'.submitted]
    BY <1>1, <1>2 DEF Exam!PageOfAttempt
  <1>5. Exam!PageOfAttempt' /\ s3'.phase \in {"login", "exam", "result"}
    BY <1>1, <1>3, <1>4 DEF Exam!PageOfAttempt
  <1>6. PICK j : j = [pc |-> "field", details |-> s3.part1, then |-> then] OBVIOUS
  <1>7. j.pc = "field" /\ j.details = s3.part1 /\ j = [pc |-> j.pc, details |-> j.details, then |-> j.then]
    BY <1>6
  <1>8. Exam!Request(j, s2) BY <1>3, <1>7 DEF Exam!Request, Exam!OfAttempt
  <1>9. Exam!Current(j, s2, s4) BY <1>7 DEF Exam!Current
  <1>10. \A q : ~Exam!Brings(job[s], q) BY <1>1, RequestsOver
  <1>11. ExamAsked(s, j) BY <1>1, <1>5, <1>6, <1>8, <1>9, <1>10 DEF ExamAsked
  <1> QED BY <1>11, ExamAsksOne

LEMMA ExamReadsAnswer ==
    ASSUME Exam!ExamHolds, ExamSteps, NEW s \in Slots, Exam!ReadAnswer(s)
    PROVE  Exam!ExamHolds' /\ Exam!SittingKept
  <1>1. job[s].pc = "answer" /\ UNCHANGED <<now, s1, s2, s4, s5>> BY DEF Exam!ReadAnswer
  <1>2. Exam!Fits BY DEF Exam!ExamHolds
  <1>3. s2 # Exam!None /\ Exam!OfAttempt(job[s], s2) /\ Exam!Row(s2)
    BY <1>1, <1>2, RequestOfAttempt
  <1>4. job[s].question \in DOMAIN s2.right /\ job[s].option \in Exam!Options
    BY <1>1, <1>3 DEF Exam!OfAttempt
  <1>5. CASE Exam!Active
    <2>1. PICK chosen : chosen = [s2.chosen EXCEPT ![job[s].question] = job[s].option] OBVIOUS
    <2>2. PICK j : j = [pc |-> "write_answer", question |-> job[s].question, chosen |-> chosen]
      OBVIOUS
    <2>3. job' = [job EXCEPT ![s] = j] /\ s3' = s3
      BY <1>2, <1>5, <2>1, <2>2 DEF Exam!ReadAnswer, Exam!Fits
    <2>4. chosen \in [DOMAIN s2.right -> Exam!Chosen]
      BY <1>3, <1>4, <2>1 DEF Exam!Row, Exam!Chosen
    <2>5. /\ j.pc = "write_answer" /\ j.question = job[s].question /\ j.chosen = chosen
          /\ j = [pc |-> j.pc, question |-> j.question, chosen |-> j.chosen]
      BY <2>2
    <2>6. Exam!Request(j, s2) BY <1>3, <1>4, <2>4, <2>5 DEF Exam!Request, Exam!OfAttempt
    <2>7. ASSUME ~overlapped' PROVE Exam!Current(j, s2, s4)
      <3>1. Exam!Current(job[s], s2, s4) BY <2>7, ExamApart DEF Exam!ExamHolds, Exam!OneByOne
      <3>2. job[s].option = s4[job[s].question] BY <1>1, <3>1 DEF Exam!Current
      <3>3. Exam!Open(s2) BY <1>3, <1>5 DEF Exam!Open, Exam!Active
      <3> QED BY <2>1, <2>5, <3>2, <3>3 DEF Exam!Current
    <2>8. \A q : Exam!Brings(job[s], q) => Exam!Brings(j, q) BY <1>1, <2>5 DEF Exam!Brings
    <2>9. Exam!PageOfAttempt' /\ s3'.phase \in {"login", "exam", "result"}
      BY <1>1, <1>2, <2>3, PageStands
    <2>10. ExamAsked(s, j) BY <1>1, <2>3, <2>6, <2>7, <2>8, <2>9 DEF ExamAsked
    <2> QED BY <2>10, ExamAsksOne
  <1>6. CASE ~Exam!Active
    <2>1. PICK j : j = IF s2.status = "IN_PROGRESS" THEN Exam!Finalizing("EXPIRED") ELSE Exam!IdleJob
      OBVIOUS
    <2>2. /\ s3' = [s3 EXCEPT !.phase = "result"]
          /\ job' = [job EXCEPT ![s] = j]
      BY <1>6, <2>1 DEF Exam!ReadAnswer
    <2>3. Exam!PageOfAttempt' /\ s3'.phase \in {"login", "exam", "result"}
      BY <1>1, <1>2, <2>2, PageStands
    <2>4. Exam!Request(j, s2) /\ Exam!Current(j, s2, s4)
      BY <1>3, <2>1, RequestsOver, RequestCloses DEF Exam!Open
    <2>5. Exam!Open(s2) => \A q : Exam!Brings(j, q) BY <1>3, <2>1, RequestCloses DEF Exam!Open
    <2>6. ExamAsked(s, j) BY <1>1, <2>2, <2>3, <2>4, <2>5 DEF ExamAsked
    <2> QED BY <2>6, ExamAsksOne
  <1> QED BY <1>5, <1>6

LEMMA ExamReadsFields ==
    ASSUME Exam!ExamHolds, ExamSteps, NEW s \in Slots, Exam!ReadField(s)
    PROVE  Exam!ExamHolds' /\ Exam!SittingKept
  <1>1. job[s].pc = "field" /\ UNCHANGED <<now, s1, s2, s4, s5>> BY DEF Exam!ReadField
  <1>2. Exam!Fits BY DEF Exam!ExamHolds
  <1>3. s2 # Exam!None /\ Exam!OfAttempt(job[s], s2) /\ Exam!Row(s2)
    BY <1>1, <1>2, RequestOfAttempt
  <1>4. job[s].details \subseteq Fields BY <1>1, <1>3 DEF Exam!OfAttempt
  <1>5. \A q : ~Exam!Brings(job[s], q) BY <1>1 DEF Exam!Brings
  <1>6. CASE Exam!Active
    <2>1. PICK part1 : part1 = s2.part1 \cup job[s].details OBVIOUS
    <2>2. PICK j : j = [pc |-> "write_field", then |-> job[s].then, part1 |-> part1] OBVIOUS
    <2>3. job' = [job EXCEPT ![s] = j] /\ s3' = s3
      BY <1>2, <1>6, <2>1, <2>2 DEF Exam!ReadField, Exam!Fits
    <2>4. part1 \subseteq Fields BY <1>3, <1>4, <2>1 DEF Exam!Row
    <2>5. j.pc = "write_field" /\ j.part1 = part1 /\ j = [pc |-> j.pc, then |-> j.then, part1 |-> j.part1]
      BY <2>2
    <2>6. Exam!Request(j, s2) BY <1>3, <2>4, <2>5 DEF Exam!Request, Exam!OfAttempt
    <2>7. Exam!Open(s2) BY <1>3, <1>6 DEF Exam!Open, Exam!Active
    <2>8. Exam!Current(j, s2, s4) BY <2>5, <2>7 DEF Exam!Current
    <2>9. Exam!PageOfAttempt' /\ s3'.phase \in {"login", "exam", "result"}
      BY <1>1, <1>2, <2>3, PageStands
    <2>10. ExamAsked(s, j) BY <1>1, <1>5, <2>3, <2>6, <2>8, <2>9 DEF ExamAsked
    <2> QED BY <2>10, ExamAsksOne
  <1>7. CASE ~Exam!Active
    <2>1. PICK j : j = IF s2.status = "IN_PROGRESS" THEN Exam!Finalizing("EXPIRED")
                       ELSE Exam!AfterField(job[s])
      OBVIOUS
    <2>2. /\ s3' = [s3 EXCEPT !.phase = "result"]
          /\ job' = [job EXCEPT ![s] = j]
      BY <1>7, <2>1 DEF Exam!ReadField
    <2>3. Exam!PageOfAttempt' /\ s3'.phase \in {"login", "exam", "result"}
      BY <1>1, <1>2, <2>2, PageStands
    <2>4. Exam!Request(j, s2) /\ Exam!Current(j, s2, s4)
      BY <1>3, <2>1, RequestAfter, RequestCloses DEF Exam!Open
    <2>5. ExamAsked(s, j) BY <1>1, <1>5, <2>2, <2>3, <2>4 DEF ExamAsked
    <2> QED BY <2>5, ExamAsksOne
  <1> QED BY <1>6, <1>7

LEMMA ExamReadsSubmission ==
    ASSUME Exam!ExamHolds, ExamSteps, NEW s \in Slots, Exam!ReadSubmit(s)
    PROVE  Exam!ExamHolds' /\ Exam!SittingKept
  <1>1. PICK j : j = IF s2.status = "IN_PROGRESS" THEN Exam!Finalizing("SUBMITTED") ELSE Exam!IdleJob
    OBVIOUS
  <1>2. /\ job[s].pc = "submit" /\ UNCHANGED <<now, s1, s2, s4, s5>>
        /\ job' = [job EXCEPT ![s] = j] /\ s3' = [s3 EXCEPT !.phase = "result"]
    BY <1>1 DEF Exam!ReadSubmit
  <1>3. Exam!Fits BY DEF Exam!ExamHolds
  <1>4. s2 # Exam!None BY <1>2, <1>3, RequestOfAttempt
  <1>5. \A q : ~Exam!Brings(job[s], q) BY <1>2 DEF Exam!Brings
  <1>6. Exam!PageOfAttempt' /\ s3'.phase \in {"login", "exam", "result"}
    BY <1>2, <1>3, PageStands
  <1>7. Exam!Request(j, s2) /\ Exam!Current(j, s2, s4)
    BY <1>1, <1>4, RequestsOver, RequestCloses DEF Exam!Open
  <1>8. ExamAsked(s, j) BY <1>2, <1>5, <1>6, <1>7 DEF ExamAsked
  <1> QED BY <1>8, ExamAsksOne

LEMMA ExamLoses ==
    ASSUME Exam!ExamHolds, ExamSteps, NEW s \in Slots, Exam!Lose(s)
    PROVE  Exam!ExamHolds' /\ Exam!SittingKept
  <1>1. Exam!Fits /\ DOMAIN job = Slots BY DEF Exam!ExamHolds, Exam!Fits
  <1>2. PICK j : j = IF job[s].pc = "field" THEN Exam!AfterField(job[s]) ELSE Exam!IdleJob
    OBVIOUS
  <1>3. /\ job[s].pc \in {"answer", "field", "submit"} /\ UNCHANGED <<now, s1, s2, s3, s4>>
        /\ s5' = TRUE /\ job' = [job EXCEPT ![s] = j]
    BY <1>1, <1>2 DEF Exam!Lose
  <1>4. s2 # Exam!None BY <1>1, <1>3, RequestOfAttempt
  <1>5. Exam!PageOfAttempt' /\ s3'.phase \in {"login", "exam", "result"}
    BY <1>1, <1>3, PageStands
  <1>6. Exam!Request(j, s2) /\ Exam!Current(j, s2, s4)
    BY <1>2, <1>4, RequestsOver, RequestAfter
  <1>7. ExamAsked(s, j) BY <1>3, <1>5, <1>6 DEF ExamAsked
  <1> QED BY <1>7, ExamAsksOne

\* The clock, the candidate who types, and the administrator who revises the bank.
LEMMA ExamElsewhere ==
    ASSUME Exam!ExamHolds, ExamSteps, Exam!Type \/ Exam!Tick \/ Exam!Revise
    PROVE  Exam!ExamHolds' /\ Exam!SittingKept
  <1>1. UNCHANGED <<s2, job, s4, s5>> BY DEF Exam!Type, Exam!Tick, Exam!Revise
  <1>2. Exam!Fits /\ DOMAIN job = Slots BY DEF Exam!ExamHolds, Exam!Fits
  <1>3. DOMAIN job' = Slots /\ \A s \in Slots : Exam!Request(job'[s], s2)
    BY <1>1, <1>2 DEF Exam!Fits
  <1>4. ASSUME ~overlapped' PROVE \A s \in Slots : Exam!Current(job'[s], s2, s4)
    BY <1>1, <1>4, ExamApart DEF Exam!ExamHolds, Exam!OneByOne
  <1>5. /\ UNCHANGED <<s2, s4>> /\ (s5 => s5')
        /\ ~s5' /\ Exam!Open(s2) =>
              \A s \in Slots : \A q : Exam!Brings(job[s], q) => Exam!Brings(job'[s], q)
    BY <1>1
  <1>6. now \in 0..ExamTime /\ ExamTime \in Nat
    BY <1>2, ExamConstants DEF Exam!Fits, Exam!TypeOK, Exam!ExamAssumption
  <1>7. CASE Exam!Type
    <2>1. PICK f \in Fields \ s3.part1 : s3' = [s3 EXCEPT !.part1 = @ \cup {f}]
      BY <1>7 DEF Exam!Type
    <2>2. s3.phase = "exam" /\ UNCHANGED <<now, s1>> BY <1>7 DEF Exam!Type
    <2>3. Exam!PageOfAttempt BY <1>2 DEF Exam!Fits
    <2>4. /\ s3'.phase = "exam" /\ s3'.part1 = s3.part1 \cup {f} /\ s3'.chosen = s3.chosen
          /\ s3' = [phase |-> s3'.phase, part1 |-> s3'.part1, chosen |-> s3'.chosen,
                    submitted |-> s3'.submitted]
      BY <2>1, <2>2, <2>3 DEF Exam!PageOfAttempt
    <2>5. Exam!PageOfAttempt' /\ s3'.phase \in {"login", "exam", "result"}
      BY <1>1, <2>2, <2>3, <2>4 DEF Exam!PageOfAttempt
    <2>6. BankFits' BY <1>2, <2>2, BankStands
    <2> QED BY <1>1, <1>3, <1>4, <1>6, <2>2, <2>5, <2>6, ExamAsks
  <1>8. CASE Exam!Tick
    <2>1. now < ExamTime /\ now' = now + 1 /\ UNCHANGED <<s1, s3>> BY <1>8 DEF Exam!Tick
    <2>2. now' \in 0..ExamTime BY <1>6, <2>1
    <2>3. Exam!PageOfAttempt' /\ s3'.phase \in {"login", "exam", "result"}
      BY <1>1, <1>2, <2>1, PageStands
    <2>4. BankFits' BY <1>2, <2>1, BankStands
    <2> QED BY <1>3, <1>4, <1>5, <2>2, <2>3, <2>4, ExamAsks
  <1>9. CASE Exam!Revise
    <2>1. PICK q \in Revised :
             \/ s1' = [s1 EXCEPT !.right[q] = 1 - @]
             \/ s1' = [s1 EXCEPT !.active = IF q \in @ THEN @ \ {q} ELSE @ \cup {q}]
      BY <1>9 DEF Exam!Revise
    <2>2. UNCHANGED <<now, s3>> BY <1>9 DEF Exam!Revise
    <2>3. q \in Questions BY ExamConstants DEF Exam!ExamAssumption
    <2>4. /\ s1.right \in [Questions -> Exam!Options] /\ s1.active \subseteq Questions
          /\ s1 = [right |-> s1.right, active |-> s1.active]
      BY <1>2 DEF Exam!Fits, Exam!TypeOK
    <2>5. ASSUME s1' = [s1 EXCEPT !.right[q] = 1 - @] PROVE BankFits'
      <3>1. PICK right : right = [s1.right EXCEPT ![q] = 1 - s1.right[q]] OBVIOUS
      <3>2. 1 - s1.right[q] \in Exam!Options BY <2>3, <2>4 DEF Exam!Options
      <3>3. right \in [Questions -> Exam!Options] BY <2>3, <2>4, <3>1, <3>2
      <3>4. s1' = [s1 EXCEPT !.right = right] BY <2>4, <2>5, <3>1
      <3>5. s1'.right = right /\ s1'.active = s1.active /\ s1' = [right |-> right, active |-> s1.active]
        BY <2>4, <3>4
      <3> QED BY <2>4, <3>3, <3>5 DEF BankFits
    <2>6. ASSUME s1' = [s1 EXCEPT !.active = IF q \in @ THEN @ \ {q} ELSE @ \cup {q}]
          PROVE  BankFits'
      <3>1. PICK active : active = IF q \in s1.active THEN s1.active \ {q} ELSE s1.active \cup {q}
        OBVIOUS
      <3>2. active \subseteq Questions BY <2>3, <2>4, <3>1
      <3>3. s1' = [s1 EXCEPT !.active = active] BY <2>4, <2>6, <3>1
      <3>4. s1'.right = s1.right /\ s1'.active = active /\ s1' = [right |-> s1.right, active |-> active]
        BY <2>4, <3>3
      <3> QED BY <2>4, <3>2, <3>4 DEF BankFits
    <2>7. BankFits' BY <2>1, <2>5, <2>6
    <2>8. Exam!PageOfAttempt' /\ s3'.phase \in {"login", "exam", "result"}
      BY <1>1, <1>2, <2>2, PageStands
    <2>9. now' \in 0..ExamTime BY <1>6, <2>2
    <2> QED BY <1>3, <1>4, <1>5, <2>7, <2>8, <2>9, ExamAsks
  <1> QED BY <1>7, <1>8, <1>9

LEMMA ExamChooses ==
    ASSUME Exam!ExamHolds, ExamSteps, NEW s \in Slots, Exam!Choose(s)
    PROVE  Exam!ExamHolds' /\ Exam!SittingKept
  <1>1. PICK q \in DOMAIN s3.chosen, i \in Exam!Options :
           /\ job[s] = Exam!IdleJob /\ s3.phase = "exam"
           /\ s3' = [s3 EXCEPT !.chosen[q] = i]
           /\ job' = [job EXCEPT ![s] = [pc |-> "answer", question |-> q, option |-> i]]
           /\ s4' = [s4 EXCEPT ![q] = i]
           /\ UNCHANGED <<now, s1, s2, s5>>
    BY DEF Exam!Choose, Exam!Idle
  <1>2. Exam!Fits /\ Exam!PageOfAttempt /\ s4 \in [Questions -> Exam!Chosen]
    BY DEF Exam!ExamHolds, Exam!Fits
  <1>3. s2 # Exam!None /\ Exam!Row(s2) /\ DOMAIN s3.chosen = DOMAIN s2.right
    BY <1>1, <1>2 DEF Exam!Fits, Exam!PageOfAttempt
  <1>4. q \in DOMAIN s2.right /\ q \in Questions /\ i \in Exam!Chosen
    BY <1>3 DEF Exam!Row, Exam!Chosen
  <1>5. PICK j : j = [pc |-> "answer", question |-> q, option |-> i] OBVIOUS
  <1>6. /\ j.pc = "answer" /\ j.question = q /\ j.option = i
        /\ j = [pc |-> j.pc, question |-> j.question, option |-> j.option]
    BY <1>5
  <1>7. /\ DOMAIN job' = Slots /\ job'[s] = j
        /\ \A t \in Slots : t # s => job'[t] = job[t]
    BY <1>1, <1>2, <1>5, ExamTakes
  <1>8. Exam!Request(j, s2) BY <1>3, <1>4, <1>6 DEF Exam!Request, Exam!OfAttempt
  <1>9. \A t \in Slots : Exam!Request(job'[t], s2') BY <1>1, <1>2, <1>7, <1>8 DEF Exam!Fits
  <1>10. Exam!PageOfAttempt' /\ s3'.phase \in {"login", "exam", "result"}
    <2>1. PICK chosen : chosen = [s3.chosen EXCEPT ![q] = i] OBVIOUS
    <2>2. s3' = [s3 EXCEPT !.chosen = chosen] BY <1>1, <1>2, <2>1 DEF Exam!PageOfAttempt
    <2>3. /\ s3'.phase = "exam" /\ s3'.part1 = s3.part1 /\ s3'.chosen = chosen
          /\ s3' = [phase |-> s3'.phase, part1 |-> s3'.part1, chosen |-> s3'.chosen,
                    submitted |-> s3'.submitted]
      BY <1>1, <1>2, <2>2 DEF Exam!PageOfAttempt
    <2>4. DOMAIN chosen = DOMAIN s3.chosen BY <2>1
    <2> QED BY <1>1, <1>2, <1>3, <2>3, <2>4 DEF Exam!PageOfAttempt
  <1>11. /\ s4' \in [Questions -> Exam!Chosen] /\ s4'[q] = i
         /\ \A p \in Questions : p # q => s4'[p] = s4[p]
    BY <1>1, <1>2, <1>4
  <1>12. now' \in 0..ExamTime /\ BankFits'
    BY <1>1, <1>2, BankStands DEF Exam!Fits, Exam!TypeOK
  <1>13. Exam!Fits' BY <1>1, <1>2, <1>3, <1>7, <1>9, <1>10, <1>11, <1>12, ExamFits
  <1>14. ASSUME ~overlapped' PROVE Exam!OneByOne'
    <2>1. Exam!OneByOne /\ Exam!Apart' BY <1>14, ExamApart DEF Exam!ExamHolds
    <2>2. Exam!Marked(s2)' BY <1>1, <2>1 DEF Exam!OneByOne, Exam!Marked, Exam!Open, Exam!Score
    <2>3. ASSUME NEW t \in Slots PROVE Exam!Current(job'[t], s2', s4')
      <3>1. CASE t = s BY <1>6, <1>7, <1>11, <3>1 DEF Exam!Current
      <3>2. CASE t # s
        <4>1. job'[t] = job[t] /\ Exam!Current(job[t], s2, s4) BY <1>7, <2>1, <3>2 DEF Exam!OneByOne
        <4>2. CASE job[t].pc \in {"answer", "write_answer"}
          <5>1. ~Exam!Collide(job'[s], job'[t]) BY <2>1, <3>2 DEF Exam!Apart
          <5>2. job[t].question # q BY <1>6, <1>7, <4>1, <4>2, <5>1 DEF Exam!Collide
          <5>3. job[t].question \in Questions
            <6>1. job[t].pc \notin {"idle", "insert"} BY <4>2
            <6>2. Exam!OfAttempt(job[t], s2) BY <1>2, <6>1, RequestOfAttempt
            <6>3. job[t].question \in DOMAIN s2.right BY <4>2, <6>2 DEF Exam!OfAttempt
            <6> QED BY <1>3, <6>3 DEF Exam!Row
          <5>4. s4'[job[t].question] = s4[job[t].question] BY <1>11, <5>2, <5>3
          <5> QED BY <1>1, <4>1, <5>4 DEF Exam!Current, Exam!Open
        <4>3. CASE job[t].pc \notin {"answer", "write_answer"}
          BY <1>1, <4>1, <4>3 DEF Exam!Current, Exam!Open
        <4> QED BY <4>2, <4>3
      <3> QED BY <3>1, <3>2
    <2>4. ASSUME ~s5', Exam!Open(s2'), NEW p \in DOMAIN s2'.chosen
          PROVE  s2'.chosen[p] = s4'[p] \/ \E t \in Slots : Exam!Brings(job'[t], p)
      <3>1. CASE p = q
        <4>1. Exam!Brings(job'[s], p) BY <1>6, <1>7, <3>1 DEF Exam!Brings
        <4> QED BY <4>1
      <3>2. CASE p # q
        <4>1. p \in DOMAIN s2.right /\ p \in Questions BY <1>1, <1>3, <2>4 DEF Exam!Row
        <4>2. s4'[p] = s4[p] BY <1>11, <3>2, <4>1
        <4>3. s2.chosen[p] = s4[p] \/ \E t \in Slots : Exam!Brings(job[t], p)
          BY <1>1, <2>1, <2>4 DEF Exam!OneByOne
        <4>4. ~Exam!Brings(job[s], p) BY <1>1, RequestsOver
        <4> QED BY <1>1, <1>7, <4>2, <4>3, <4>4
      <3> QED BY <3>1, <3>2
    <2> QED BY <2>1, <2>2, <2>3, <2>4 DEF Exam!OneByOne
  <1> QED BY <1>1, <1>13, <1>14 DEF Exam!ExamHolds, Exam!SittingKept

\* The row is written, with the questions it has.
LEMMA ExamWrites ==
    ASSUME Exam!Fits, NEW s \in Slots, NEW j, NEW a, job' = [job EXCEPT ![s] = j], s2' = a,
           Exam!Row(a), Exam!Request(j, a), s2 = Exam!None \/ a.right = s2.right,
           UNCHANGED <<now, s1, s3, s4>>
    PROVE  Exam!Fits'
  <1>1. a # Exam!None BY RowWith
  <1>2. /\ DOMAIN job' = Slots /\ job'[s] = j
        /\ \A t \in Slots : t # s => job'[t] = job[t]
    BY ExamTakes
  <1>3. ASSUME NEW t \in Slots PROVE Exam!Request(job'[t], s2')
    <2>1. Exam!Request(job[t], s2) BY DEF Exam!Fits
    <2>2. Exam!Request(job[t], a) BY <1>1, <2>1, RequestStands
    <2> QED BY <1>2, <2>2
  <1>4. Exam!PageOfAttempt' /\ s3'.phase \in {"login", "exam", "result"}
    <2>1. Exam!PageOfAttempt /\ s3.phase \in {"login", "exam", "result"}
      BY DEF Exam!Fits, Exam!TypeOK
    <2> QED BY <1>1, <2>1 DEF Exam!PageOfAttempt
  <1>5. now' \in 0..ExamTime /\ BankFits' /\ s4' \in [Questions -> Exam!Chosen]
    BY BankStands DEF Exam!Fits, Exam!TypeOK
  <1> QED BY <1>1, <1>2, <1>3, <1>4, <1>5, ExamFits

LEMMA ExamInserts ==
    ASSUME Exam!ExamHolds, ExamSteps, NEW s \in Slots, Exam!Insert(s)
    PROVE  Exam!ExamHolds' /\ Exam!SittingKept
  <1>1. /\ job[s].pc = "insert" /\ Exam!InsertOnce(job[s].right)
        /\ job' = [job EXCEPT ![s] = Exam!IdleJob] /\ UNCHANGED <<now, s1, s3, s4, s5>>
    BY DEF Exam!Insert, Exam!Done
  <1>2. Exam!Fits BY DEF Exam!ExamHolds
  <1>3. Exam!Request(job[s], s2) BY <1>2 DEF Exam!Fits
  <1>4. \A q : ~Exam!Brings(job[s], q) BY <1>1 DEF Exam!Brings
  <1>5. CASE s2 # Exam!None
    <2>1. s2' = s2 BY <1>1, <1>5 DEF Exam!InsertOnce
    <2>2. Exam!PageOfAttempt' /\ s3'.phase \in {"login", "exam", "result"}
      BY <1>1, <1>2, <2>1, PageStands
    <2>3. ExamAsked(s, Exam!IdleJob) BY <1>1, <1>4, <2>1, <2>2, RequestsOver DEF ExamAsked
    <2> QED BY <2>3, ExamAsksOne
  <1>6. CASE s2 = Exam!None
    <2>1. DOMAIN job[s].right \subseteq Questions
      <3>1. job[s] # Exam!IdleJob BY <1>1 DEF Exam!IdleJob
      <3> QED BY <1>3, <1>6, <3>1 DEF Exam!Request
    <2>2. PICK chosen : chosen = [q \in DOMAIN job[s].right |-> Exam!Unanswered] OBVIOUS
    <2>3. PICK a : a = [status |-> "IN_PROGRESS", expires |-> now + Duration, part1 |-> {},
                        right |-> job[s].right, chosen |-> chosen, score |-> <<0, 0>>]
      OBVIOUS
    <2>4. s2' = a BY <1>1, <1>6, <2>2, <2>3 DEF Exam!InsertOnce
    <2>5. /\ a.status = "IN_PROGRESS" /\ a.part1 = {} /\ a.right = job[s].right /\ a.chosen = chosen
          /\ a = [status |-> a.status, expires |-> a.expires, part1 |-> a.part1,
                  right |-> a.right, chosen |-> a.chosen, score |-> a.score]
      BY <2>3
    <2>6. chosen \in [DOMAIN job[s].right -> Exam!Chosen] BY <2>2 DEF Exam!Chosen
    <2>7. Exam!Row(a) BY <2>1, <2>5, <2>6 DEF Exam!Row
    <2>8. Exam!Fits' BY <1>1, <1>2, <1>6, <2>4, <2>7, RequestsOver, ExamWrites
    <2>9. ASSUME ~overlapped' PROVE Exam!OneByOne'
      <3>1. Exam!Apart' BY <2>9, ExamApart
      <3>2. Exam!Marked(s2)' BY <2>4, <2>5, RowWith, <2>7 DEF Exam!Marked, Exam!Open
      <3>3. ASSUME NEW t \in Slots PROVE Exam!Current(job'[t], s2', s4')
        <4>1. CASE t = s BY <1>1, <1>2, <4>1, ExamTakes, RequestsOver
        <4>2. CASE t # s
          <5>1. job'[t] = job[t] BY <1>1, <1>2, <4>2, ExamTakes
          <5>2. job[t].pc \in {"idle", "insert"} BY <1>2, <1>6, RequestOfAttempt
          <5> QED BY <5>1, <5>2 DEF Exam!Current
        <4> QED BY <4>1, <4>2
      <3>4. ASSUME NEW q \in DOMAIN s2'.chosen PROVE s2'.chosen[q] = s4'[q]
        <4>1. q \in DOMAIN job[s].right /\ q \in Questions BY <2>1, <2>2, <2>4, <2>5, <3>4
        <4>2. s4[q] = Exam!Unanswered BY <1>2, <1>6, <4>1 DEF Exam!Fits
        <4> QED BY <1>1, <2>2, <2>4, <2>5, <4>1, <4>2
      <3> QED BY <3>1, <3>2, <3>3, <3>4 DEF Exam!OneByOne
    <2> QED BY <1>6, <2>8, <2>9 DEF Exam!ExamHolds, Exam!SittingKept
  <1> QED BY <1>5, <1>6

\* Whoever is about to write the row, or to close it, is the only one, and finds it
\* as it was read.
LEMMA ExamAlone ==
    ASSUME Exam!Fits, Exam!OneByOne, NEW s \in Slots,
           job[s].pc \in {"write_answer", "write_field", "finalize"}
    PROVE  /\ Exam!Open(s2) /\ Exam!Current(job[s], s2, s4)
           /\ \A t \in Slots : t # s => /\ Exam!Current(job[t], s2, s4)
                                        /\ ~Exam!Collide(job[s], job[t])
                                        /\ ~Exam!Collide(job[t], job[s])
  <1>1. Exam!Current(job[s], s2, s4) BY DEF Exam!OneByOne
  <1>2. Exam!Open(s2) BY <1>1 DEF Exam!Current
  <1> QED BY <1>1, <1>2 DEF Exam!OneByOne, Exam!Apart

LEMMA ExamWritesAnswer ==
    ASSUME Exam!ExamHolds, ExamSteps, NEW s \in Slots, Exam!WriteAnswer(s)
    PROVE  Exam!ExamHolds' /\ Exam!SittingKept
  <1>1. /\ job[s].pc = "write_answer" /\ s2' = [s2 EXCEPT !.chosen = job[s].chosen]
        /\ job' = [job EXCEPT ![s] = Exam!IdleJob] /\ UNCHANGED <<now, s1, s3, s4, s5>>
    BY DEF Exam!WriteAnswer, Exam!Done
  <1>2. Exam!Fits BY DEF Exam!ExamHolds
  <1>3. s2 # Exam!None /\ Exam!OfAttempt(job[s], s2) /\ Exam!Row(s2)
    BY <1>1, <1>2, RequestOfAttempt
  <1>4. job[s].question \in DOMAIN s2.right /\ job[s].chosen \in [DOMAIN s2.right -> Exam!Chosen]
    BY <1>1, <1>3 DEF Exam!OfAttempt
  <1>5. PICK a : a = [s2 EXCEPT !.chosen = job[s].chosen] OBVIOUS
  <1>6. /\ a.status = s2.status /\ a.expires = s2.expires /\ a.part1 = s2.part1
        /\ a.right = s2.right /\ a.chosen = job[s].chosen
        /\ a = [status |-> a.status, expires |-> a.expires, part1 |-> a.part1,
                right |-> a.right, chosen |-> a.chosen, score |-> a.score]
    BY <1>3, <1>5 DEF Exam!Row
  <1>7. Exam!Row(a) BY <1>3, <1>4, <1>6 DEF Exam!Row
  <1>8. a # Exam!None BY <1>7, RowWith
  <1>9. /\ DOMAIN job' = Slots /\ job'[s] = Exam!IdleJob
        /\ \A t \in Slots : t # s => job'[t] = job[t]
    BY <1>1, <1>2, ExamTakes
  <1>10. Exam!Fits' BY <1>1, <1>2, <1>5, <1>6, <1>7, RequestsOver, ExamWrites
  <1>11. ASSUME ~overlapped' PROVE Exam!OneByOne' /\ Exam!InProgress
    <2>1. Exam!OneByOne /\ Exam!Apart' BY <1>11, ExamApart DEF Exam!ExamHolds
    <2>2. /\ Exam!Open(s2) /\ Exam!Current(job[s], s2, s4)
          /\ \A t \in Slots : t # s => /\ Exam!Current(job[t], s2, s4)
                                       /\ ~Exam!Collide(job[s], job[t])
                                       /\ ~Exam!Collide(job[t], job[s])
      BY <1>1, <1>2, <2>1, ExamAlone
    <2>3. Exam!Open(a) BY <1>6, <1>8, <2>2 DEF Exam!Open
    <2>4. Exam!Marked(s2)' BY <1>1, <1>5, <2>3 DEF Exam!Marked, Exam!Open
    <2>5. ASSUME NEW t \in Slots PROVE Exam!Current(job'[t], s2', s4')
      <3>1. CASE t = s BY <1>9, <3>1, RequestsOver
      <3>2. CASE t # s
        <4>1. job'[t] = job[t] /\ Exam!Current(job[t], s2, s4) BY <1>9, <2>2, <3>2
        <4>2. job[t].pc \notin {"write_answer", "finalize"}
          BY <1>1, <2>2, <3>2 DEF Exam!Collide
        <4>3. Exam!Current(job[t], a, s4) BY <2>3, <4>1, <4>2 DEF Exam!Current
        <4> QED BY <1>1, <1>5, <4>1, <4>3
      <3> QED BY <3>1, <3>2
    <2>6. job[s].chosen = [s2.chosen EXCEPT ![job[s].question] = s4[job[s].question]]
      BY <1>1, <2>2 DEF Exam!Current
    <2>7. ASSUME ~s5', NEW q \in DOMAIN a.chosen
          PROVE  a.chosen[q] = s4[q] \/ \E t \in Slots : Exam!Brings(job'[t], q)
      <3>1. q \in DOMAIN s2.right /\ s2.chosen \in [DOMAIN s2.right -> Exam!Chosen]
        BY <1>3, <1>4, <1>6, <2>7 DEF Exam!Row
      <3>2. CASE q = job[s].question BY <1>6, <2>6, <3>1, <3>2
      <3>3. CASE q # job[s].question
        <4>1. a.chosen[q] = s2.chosen[q] BY <1>6, <2>6, <3>1, <3>3
        <4>2. s2.chosen[q] = s4[q] \/ \E t \in Slots : Exam!Brings(job[t], q)
          BY <1>1, <2>1, <2>2, <2>7, <3>1 DEF Exam!OneByOne
        <4>3. ~Exam!Brings(job[s], q) BY <1>1, <3>3 DEF Exam!Brings
        <4> QED BY <1>9, <4>1, <4>2, <4>3
      <3> QED BY <3>2, <3>3
    <2>8. \A q \in DOMAIN s2'.chosen :
             ~s5' => s2'.chosen[q] = s4'[q] \/ \E t \in Slots : Exam!Brings(job'[t], q)
      BY <1>1, <1>5, <2>7
    <2>9. Exam!InProgress BY <2>2 DEF Exam!InProgress, Exam!Open
    <2> QED BY <2>1, <2>4, <2>5, <2>8, <2>9 DEF Exam!OneByOne
  <1>12. Exam!SittingKept BY <1>1, <1>5, <1>6, <1>11 DEF Exam!SittingKept
  <1> QED BY <1>10, <1>11, <1>12 DEF Exam!ExamHolds

LEMMA ExamWritesFields ==
    ASSUME Exam!ExamHolds, ExamSteps, NEW s \in Slots, Exam!WriteField(s)
    PROVE  Exam!ExamHolds' /\ Exam!SittingKept
  <1>1. Exam!Fits /\ DOMAIN job = Slots BY DEF Exam!ExamHolds, Exam!Fits
  <1>2. PICK j : j = Exam!AfterField(job[s]) OBVIOUS
  <1>3. /\ job[s].pc = "write_field" /\ s2' = [s2 EXCEPT !.part1 = job[s].part1]
        /\ job' = [job EXCEPT ![s] = j] /\ UNCHANGED <<now, s1, s3, s4, s5>>
    BY <1>1, <1>2 DEF Exam!WriteField
  <1>4. s2 # Exam!None /\ Exam!OfAttempt(job[s], s2) /\ Exam!Row(s2)
    BY <1>1, <1>3, RequestOfAttempt
  <1>5. job[s].part1 \subseteq Fields BY <1>3, <1>4 DEF Exam!OfAttempt
  <1>6. PICK a : a = [s2 EXCEPT !.part1 = job[s].part1] OBVIOUS
  <1>7. /\ a.status = s2.status /\ a.expires = s2.expires /\ a.part1 = job[s].part1
        /\ a.right = s2.right /\ a.chosen = s2.chosen
        /\ a = [status |-> a.status, expires |-> a.expires, part1 |-> a.part1,
                right |-> a.right, chosen |-> a.chosen, score |-> a.score]
    BY <1>4, <1>6 DEF Exam!Row
  <1>8. Exam!Row(a) BY <1>4, <1>5, <1>7 DEF Exam!Row
  <1>9. a # Exam!None BY <1>8, RowWith
  <1>10. /\ DOMAIN job' = Slots /\ job'[s] = j
         /\ \A t \in Slots : t # s => job'[t] = job[t]
    BY <1>1, <1>3, ExamTakes
  <1>11. Exam!Request(j, s2) /\ Exam!Current(j, s2, s4) /\ \A q : ~Exam!Brings(j, q)
    BY <1>2, <1>4, RequestAfter
  <1>12. Exam!Request(j, a) BY <1>7, <1>9, <1>11, RequestStands
  <1>13. Exam!Fits' BY <1>1, <1>3, <1>6, <1>7, <1>8, <1>12, ExamWrites
  <1>14. j.pc \in {"idle", "submit"} BY <1>2 DEF Exam!AfterField, Exam!IdleJob
  <1>15. ASSUME ~overlapped' PROVE Exam!OneByOne' /\ Exam!InProgress
    <2>1. Exam!OneByOne /\ Exam!Apart' BY <1>15, ExamApart DEF Exam!ExamHolds
    <2>2. /\ Exam!Open(s2)
          /\ \A t \in Slots : t # s => /\ Exam!Current(job[t], s2, s4)
                                       /\ ~Exam!Collide(job[s], job[t])
                                       /\ ~Exam!Collide(job[t], job[s])
      BY <1>1, <1>3, <2>1, ExamAlone
    <2>3. Exam!Open(a) BY <1>7, <1>9, <2>2 DEF Exam!Open
    <2>4. Exam!Marked(s2)' BY <1>3, <1>6, <2>3 DEF Exam!Marked, Exam!Open
    <2>5. ASSUME NEW t \in Slots PROVE Exam!Current(job'[t], s2', s4')
      <3>1. CASE t = s BY <1>10, <1>14, <3>1 DEF Exam!Current
      <3>2. CASE t # s
        <4>1. job'[t] = job[t] /\ Exam!Current(job[t], s2, s4) BY <1>10, <2>2, <3>2
        <4>2. job[t].pc # "finalize" BY <1>3, <2>2, <3>2 DEF Exam!Collide
        <4>3. Exam!Current(job[t], a, s4) BY <1>7, <2>3, <4>1, <4>2 DEF Exam!Current
        <4> QED BY <1>3, <1>6, <4>1, <4>3
      <3> QED BY <3>1, <3>2
    <2>6. ASSUME ~s5', NEW q \in DOMAIN s2'.chosen
          PROVE  s2'.chosen[q] = s4'[q] \/ \E t \in Slots : Exam!Brings(job'[t], q)
      <3>1. s2'.chosen = s2.chosen BY <1>3, <1>6, <1>7
      <3>2. s2.chosen[q] = s4[q] \/ \E t \in Slots : Exam!Brings(job[t], q)
        BY <1>3, <2>1, <2>2, <2>6, <3>1 DEF Exam!OneByOne
      <3>3. ~Exam!Brings(job[s], q) BY <1>3 DEF Exam!Brings
      <3> QED BY <1>3, <1>10, <3>1, <3>2, <3>3
    <2>7. Exam!InProgress BY <2>2 DEF Exam!InProgress, Exam!Open
    <2> QED BY <2>1, <2>4, <2>5, <2>6, <2>7 DEF Exam!OneByOne
  <1>16. Exam!SittingKept BY <1>3, <1>6, <1>7, <1>15 DEF Exam!SittingKept
  <1> QED BY <1>13, <1>15, <1>16 DEF Exam!ExamHolds

LEMMA ExamFinalizes ==
    ASSUME Exam!ExamHolds, ExamSteps, NEW s \in Slots, Exam!Finalize(s)
    PROVE  Exam!ExamHolds' /\ Exam!SittingKept
  <1>1. PICK score : score = Exam!Score(job[s].row) OBVIOUS
  <1>2. /\ job[s].pc = "finalize" /\ s2' = [s2 EXCEPT !.status = job[s].status, !.score = score]
        /\ job' = [job EXCEPT ![s] = Exam!IdleJob] /\ UNCHANGED <<now, s1, s3, s4, s5>>
    BY <1>1 DEF Exam!Finalize, Exam!Done
  <1>3. Exam!Fits BY DEF Exam!ExamHolds
  <1>4. s2 # Exam!None /\ Exam!OfAttempt(job[s], s2) /\ Exam!Row(s2)
    BY <1>2, <1>3, RequestOfAttempt
  <1>5. job[s].status \in {"SUBMITTED", "EXPIRED"} BY <1>2, <1>4 DEF Exam!OfAttempt
  <1>6. PICK a : a = [s2 EXCEPT !.status = job[s].status, !.score = score] OBVIOUS
  <1>7. /\ a.status = job[s].status /\ a.expires = s2.expires /\ a.part1 = s2.part1
        /\ a.right = s2.right /\ a.chosen = s2.chosen /\ a.score = score
        /\ a = [status |-> a.status, expires |-> a.expires, part1 |-> a.part1,
                right |-> a.right, chosen |-> a.chosen, score |-> a.score]
    BY <1>4, <1>6 DEF Exam!Row
  <1>8. Exam!Row(a) BY <1>4, <1>5, <1>7 DEF Exam!Row
  <1>9. /\ DOMAIN job' = Slots /\ job'[s] = Exam!IdleJob
        /\ \A t \in Slots : t # s => job'[t] = job[t]
    BY <1>2, <1>3, ExamTakes
  <1>10. Exam!Fits' BY <1>2, <1>3, <1>6, <1>7, <1>8, RequestsOver, ExamWrites
  <1>11. ASSUME ~overlapped' PROVE Exam!OneByOne' /\ Exam!InProgress
    <2>1. Exam!OneByOne /\ Exam!Apart' BY <1>11, ExamApart DEF Exam!ExamHolds
    <2>2. /\ Exam!Open(s2) /\ Exam!Current(job[s], s2, s4)
          /\ \A t \in Slots : t # s => /\ Exam!Current(job[t], s2, s4)
                                       /\ ~Exam!Collide(job[s], job[t])
                                       /\ ~Exam!Collide(job[t], job[s])
      BY <1>2, <1>3, <2>1, ExamAlone
    <2>3. job[s].row = s2 BY <1>2, <2>2 DEF Exam!Current
    <2>4. a.score = Exam!Score(a) BY <1>1, <1>7, <2>3 DEF Exam!Score
    <2>5. Exam!Marked(s2)' BY <1>2, <1>6, <2>4 DEF Exam!Marked, Exam!Score
    <2>6. ASSUME NEW t \in Slots PROVE Exam!Current(job'[t], s2', s4')
      <3>1. CASE t = s BY <1>9, <3>1, RequestsOver
      <3>2. CASE t # s
        <4>1. job'[t] = job[t] /\ Exam!Current(job[t], s2, s4) BY <1>9, <2>2, <3>2
        <4>2. job[t].pc \notin {"write_answer", "write_field", "finalize"}
          BY <1>2, <2>2, <3>2 DEF Exam!Collide
        <4> QED BY <1>2, <4>1, <4>2 DEF Exam!Current
      <3> QED BY <3>1, <3>2
    <2>7. ~Exam!Open(s2') BY <1>2, <1>5, <1>6, <1>7 DEF Exam!Open
    <2>8. Exam!InProgress BY <2>2 DEF Exam!InProgress, Exam!Open
    <2> QED BY <2>1, <2>5, <2>6, <2>7, <2>8 DEF Exam!OneByOne
  <1>12. Exam!SittingKept BY <1>2, <1>6, <1>7, <1>11 DEF Exam!SittingKept
  <1> QED BY <1>10, <1>11, <1>12 DEF Exam!ExamHolds

LEMMA ExamNextKeeps ==
    ASSUME Exam!ExamHolds, Exam!Next
    PROVE  Exam!ExamHolds' /\ Exam!SittingKept
  <1>1. ExamSteps BY DEF Exam!Next, ExamSteps
  <1>2. Exam!Step BY DEF Exam!Next
  <1>3. CASE Exam!Type \/ Exam!Tick \/ Exam!Revise BY <1>1, <1>3, ExamElsewhere
  <1>4. ASSUME NEW s \in Slots,
               \/ Exam!Login(s) \/ Exam!Insert(s) \/ Exam!Load(s) \/ Exam!Choose(s)
               \/ Exam!SaveField(s) \/ Exam!Submit(s) \/ Exam!ReadAnswer(s) \/ Exam!WriteAnswer(s)
               \/ Exam!ReadField(s) \/ Exam!WriteField(s) \/ Exam!ReadSubmit(s)
               \/ Exam!Finalize(s) \/ Exam!Lose(s)
        PROVE  Exam!ExamHolds' /\ Exam!SittingKept
    <2>1. CASE Exam!Login(s) BY <1>1, <2>1, ExamLogsIn
    <2>2. CASE Exam!Insert(s) BY <1>1, <2>2, ExamInserts
    <2>3. CASE Exam!Load(s) BY <1>1, <2>3, ExamLoads
    <2>4. CASE Exam!Choose(s) BY <1>1, <2>4, ExamChooses
    <2>5. CASE Exam!SaveField(s) \/ Exam!Submit(s) BY <1>1, <2>5, ExamSavesFields
    <2>6. CASE Exam!ReadAnswer(s) BY <1>1, <2>6, ExamReadsAnswer
    <2>7. CASE Exam!WriteAnswer(s) BY <1>1, <2>7, ExamWritesAnswer
    <2>8. CASE Exam!ReadField(s) BY <1>1, <2>8, ExamReadsFields
    <2>9. CASE Exam!WriteField(s) BY <1>1, <2>9, ExamWritesFields
    <2>10. CASE Exam!ReadSubmit(s) BY <1>1, <2>10, ExamReadsSubmission
    <2>11. CASE Exam!Finalize(s) BY <1>1, <2>11, ExamFinalizes
    <2>12. CASE Exam!Lose(s) BY <1>1, <2>12, ExamLoses
    <2> QED BY <1>4, <2>1, <2>2, <2>3, <2>4, <2>5, <2>6, <2>7, <2>8, <2>9, <2>10, <2>11, <2>12
  <1> QED BY <1>2, <1>3, <1>4 DEF Exam!Step

LEMMA ExamInit ==
    ASSUME Exam!Init PROVE Exam!ExamHolds
  <1>1. /\ now = 0 /\ s2 = Exam!None /\ overlapped = FALSE
        /\ s3 = [phase |-> "login", part1 |-> {}, chosen |-> <<>>, submitted |-> FALSE]
        /\ job = [s \in Slots |-> Exam!IdleJob] /\ s4 = [q \in Questions |-> Exam!Unanswered]
    BY DEF Exam!Init
  <1>2. s1 \in [right : {[q \in Questions |-> 0]}, active : {Questions}] BY DEF Exam!Init
  <1>3. BankFits BY <1>2 DEF BankFits, Exam!Options
  <1>4. now \in 0..ExamTime BY <1>1, ExamConstants DEF Exam!ExamAssumption
  <1>5. /\ s3.phase = "login" /\ s3.part1 = {}
        /\ s3 = [phase |-> s3.phase, part1 |-> s3.part1, chosen |-> s3.chosen,
                 submitted |-> s3.submitted]
    BY <1>1
  <1>6. Exam!PageOfAttempt BY <1>5 DEF Exam!PageOfAttempt
  <1>7. \A s \in Slots : job[s] = Exam!IdleJob /\ job[s].pc = "idle" BY <1>1 DEF Exam!IdleJob
  <1>8. Exam!TypeOK BY <1>1, <1>3, <1>4, <1>5, <1>7 DEF Exam!TypeOK, BankFits
  <1>9. s4 \in [Questions -> Exam!Chosen] /\ \A q \in Questions : s4[q] = Exam!Unanswered
    BY <1>1 DEF Exam!Chosen
  <1>10. \A s \in Slots : Exam!Request(job[s], s2) /\ Exam!Current(job[s], s2, s4)
    BY <1>7, RequestsOver
  <1>11. Exam!Fits BY <1>1, <1>3, <1>6, <1>8, <1>9, <1>10 DEF Exam!Fits, BankFits
  <1>12. Exam!Apart BY <1>7 DEF Exam!Apart, Exam!Collide
  <1>13. Exam!OneByOne BY <1>1, <1>10, <1>12 DEF Exam!OneByOne, Exam!Marked, Exam!Open
  <1> QED BY <1>11, <1>13 DEF Exam!ExamHolds

LEMMA ExamTold ==
    ASSUME Exam!ExamHolds PROVE Exam!TypeOK /\ Exam!AnswersAreKept
  <1>1. Exam!Fits BY DEF Exam!ExamHolds
  <1>2. Exam!TypeOK BY <1>1 DEF Exam!Fits
  <1>3. ASSUME ~overlapped PROVE Exam!AnswersAreKept
    <2>1. Exam!OneByOne BY <1>3 DEF Exam!ExamHolds
    <2>2. ASSUME Exam!Quiet, ~s5, Exam!InProgress PROVE Exam!Kept
      <3>1. \A s \in Slots : job[s] = Exam!IdleJob BY <2>2 DEF Exam!Quiet, Exam!Idle
      <3>2. \A s \in Slots : \A q : ~Exam!Brings(job[s], q) BY <3>1, RequestsOver
      <3>3. Exam!Open(s2) BY <2>2 DEF Exam!Open, Exam!InProgress
      <3> QED BY <2>1, <2>2, <3>2, <3>3 DEF Exam!OneByOne, Exam!Kept
    <2>3. ASSUME s2 # Exam!None, ~Exam!InProgress PROVE s2.score = Exam!Score(s2)
      BY <2>1, <2>3 DEF Exam!OneByOne, Exam!Marked, Exam!Open, Exam!InProgress
    <2> QED BY <2>2, <2>3 DEF Exam!AnswersAreKept, Exam!Score
  <1> QED BY <1>2, <1>3 DEF Exam!AnswersAreKept

-----------------------------------------------------------------------------
(* Together.                                                                   *)

\* Of the part that is explored, what makes it so.
StaffHolds ==
    /\ focus \in {"credentials", "grants", "elevations", "factor", "idle", "chat", "exam"}
    /\ focus = "credentials" => LinksHold
    /\ focus # "credentials" => tokens = {}
    /\ focus = "grants" => GrantsHold
    /\ focus = "elevations" => EP!IInv
    /\ focus = "factor" => Factor!Whole
    /\ focus = "idle" => TabsHold
    /\ focus = "chat" => Chat!ChatHolds
    /\ focus = "exam" => Exam!ExamHolds

\* What a step may not do.
Decided ==
    CASE focus = "grants" -> /\ Grant!ShownHasGrant
                             /\ overlapped' \/ (Grant!SessionEndIsFixed /\ Grant!RevokeCutsAccess)
      [] focus = "elevations" -> overlapped' \/ Elevation!DecisionStands
      [] focus = "credentials" -> overlapped' \/ \A s \in Slots : LinkSpent(s)
      [] focus = "idle" -> Tabs!PastLimitUnlessWoken
      [] focus = "exam" -> Exam!SittingKept
      [] OTHER -> TRUE

LEMMA StaffInit == MCInit => StaffHolds
  <1> SUFFICES ASSUME MCInit PROVE StaffHolds OBVIOUS
  <1>0. focus # "credentials" => tokens = {} BY DEF MCInit, Blank
  <1>1. CASE focus = "credentials" BY <1>0, <1>1, LinksInit DEF MCInit, StaffHolds
  <1>2. CASE focus = "grants"
    <2>1. Grant!Init BY <1>2 DEF MCInit
    <2>2. GrantsHold BY <2>1, GrantsInit DEF GrantsHold
    <2> QED BY <1>0, <1>2, <2>2 DEF StaffHolds
  <1>3. CASE focus = "elevations" BY <1>0, <1>3, ElevationsInit DEF MCInit, StaffHolds
  <1>4. CASE focus = "factor" BY <1>0, <1>4, FactorInit DEF MCInit, StaffHolds
  <1>5. CASE focus = "idle" BY <1>0, <1>5, TabsInit DEF MCInit, StaffHolds
  <1>6. CASE focus = "chat" BY <1>0, <1>6, ChatInit DEF MCInit, StaffHolds
  <1>7. CASE focus = "exam" BY <1>0, <1>7, ExamInit DEF MCInit, StaffHolds
  <1> QED BY <1>1, <1>2, <1>3, <1>4, <1>5, <1>6, <1>7 DEF MCInit

LEMMA StaffNext ==
    ASSUME StaffHolds, MCNext PROVE StaffHolds' /\ Decided
  <1>1. focus' = focus BY DEF MCNext
  <1>0. focus # "credentials" => tokens' = {}
    BY DEF MCNext, StaffHolds, GrantNext, ElevationNext, FactorNext, IdleNext, ChatNext, ExamNext,
           own
  <1>2. CASE focus = "credentials"
    <2>1. LinksHold /\ Next BY <1>2 DEF StaffHolds, MCNext
    <2>2. LinksHold' /\ (overlapped' \/ \A s \in Slots : LinkSpent(s)) BY <2>1, LinksNext
    <2> QED BY <1>0, <1>1, <1>2, <2>2, Zenon DEF StaffHolds, Decided
  <1>3. CASE focus = "grants"
    <2>1. GrantsHold /\ GrantNext BY <1>3 DEF StaffHolds, MCNext
    <2>2. /\ GrantsHold' /\ Grant!ShownHasGrant
          /\ overlapped' \/ (Grant!SessionEndIsFixed /\ Grant!RevokeCutsAccess)
      BY <2>1, GrantsNext
    <2> QED BY <1>0, <1>1, <1>3, <2>2, Zenon DEF StaffHolds, Decided
  <1>4. CASE focus = "elevations"
    <2>1. EP!IInv /\ Elevation!Next BY <1>4 DEF StaffHolds, MCNext, ElevationNext
    <2>2. EP!IInv' /\ (overlapped' \/ Elevation!DecisionStands) BY <2>1, ElevationsNext
    <2> QED BY <1>0, <1>1, <1>4, <2>2, Zenon DEF StaffHolds, Decided
  <1>5. CASE focus = "factor"
    <2>1. Factor!Whole /\ ~overlapped /\ Factor!Next BY <1>5 DEF StaffHolds, MCNext, FactorNext
    <2>2. Factor!Whole' BY <2>1, FactorNextKeeps
    <2> QED BY <1>0, <1>1, <1>5, <2>2, Zenon DEF StaffHolds, Decided
  <1>6. CASE focus = "idle"
    <2>1. TabsHold /\ Tabs!Next BY <1>6 DEF StaffHolds, MCNext, IdleNext
    <2>2. TabsHold' /\ Tabs!PastLimitUnlessWoken BY <2>1, TabsNextKeeps
    <2> QED BY <1>0, <1>1, <1>6, <2>2, Zenon DEF StaffHolds, Decided
  <1>7. CASE focus = "chat"
    <2>1. Chat!ChatHolds /\ ~overlapped /\ Chat!Next BY <1>7 DEF StaffHolds, MCNext, ChatNext
    <2>2. Chat!ChatHolds' BY <2>1, ChatNextKeeps
    <2> QED BY <1>0, <1>1, <1>7, <2>2, Zenon DEF StaffHolds, Decided
  <1>8. CASE focus = "exam"
    <2>1. Exam!ExamHolds /\ Exam!Next BY <1>8 DEF StaffHolds, MCNext, ExamNext
    <2>2. Exam!ExamHolds' /\ Exam!SittingKept BY <2>1, ExamNextKeeps
    <2> QED BY <1>0, <1>1, <1>8, <2>2, Zenon DEF StaffHolds, Decided
  <1> QED BY <1>2, <1>3, <1>4, <1>5, <1>6, <1>7, <1>8 DEF MCNext

LEMMA StaffStutters ==
    ASSUME StaffHolds, UNCHANGED all PROVE StaffHolds'
  <1>1. /\ UNCHANGED vars /\ UNCHANGED slots /\ focus' = focus
        /\ now' = now /\ job' = job /\ overlapped' = overlapped
        /\ s1' = s1 /\ s2' = s2 /\ s3' = s3 /\ s4' = s4 /\ s5' = s5 /\ s6' = s6 /\ s7' = s7
        /\ tokens' = tokens /\ links' = links /\ kind' = kind /\ user' = user
    BY DEF all, vars, slots
  <1>2. focus = "credentials" => LinksHold'
    <2> SUFFICES ASSUME LinksHold PROVE LinksHold' BY DEF StaffHolds
    <2>1. IInv' BY <1>1, CredentialsAssumption, StepHolds DEF LinksHold
    <2>2. (overlapped \/ \A s \in Slots : LinkHeld(s))' BY <1>1 DEF LinksHold, LinkHeld
    <2> QED BY <2>1, <2>2 DEF LinksHold
  <1>3. focus = "grants" => GrantsHold'
    <2> SUFFICES ASSUME GrantsHold PROVE GrantsHold' BY DEF StaffHolds
    <2>1. Grant!InOrder'
      BY <1>1 DEF GrantsHold, Grant!InOrder, Grant!TypeOK, Grant!Dated, Grant!Entitled
    <2>2. overlapped' \/ Grant!OneByOne'
      BY <1>1 DEF GrantsHold, Grant!OneByOne, Grant!Alone, Grant!Free, Grant!OneAssignment,
             Grant!OneGrantPerOfficer, Grant!NotOpened, Grant!Current, Grant!HasAccess,
             Grant!Reusable, Grant!Usable, Grant!InSession
    <2> QED BY <2>1, <2>2 DEF GrantsHold
  <1>4. focus = "elevations" => EP!IInv'
    <2> SUFFICES ASSUME EP!IInv PROVE EP!IInv' BY DEF StaffHolds
    <2>1. EP!ElevationAssumption
      BY ElevationConstants DEF Elevation!ElevationAssumption, EP!ElevationAssumption
    <2>2. UNCHANGED EP!vars BY <1>1 DEF EP!vars
    <2> QED BY <2>1, <2>2, EP!NextHolds
  <1>5. focus = "factor" => Factor!Whole'
    <2> SUFFICES ASSUME Factor!Whole PROVE Factor!Whole' BY DEF StaffHolds
    <2>1. Factor!TypeOK' /\ Factor!CountsFromStepUp' /\ Factor!SpentAreMade'
      BY <1>1 DEF Factor!Whole, Factor!TypeOK, Factor!CountsFromStepUp, Factor!SpentAreMade,
             Factor!SessionEnds
    <2>2. overlapped' \/ Factor!OneByOne'
      BY <1>1 DEF Factor!Whole, Factor!OneByOne, Factor!Alone, Factor!Idle, Factor!FactorIsWhole,
             Factor!Current
    <2> QED BY <2>1, <2>2 DEF Factor!Whole
  <1>6. focus = "idle" => TabsHold'
    BY <1>1 DEF StaffHolds, TabsHold, Tabs!TypeOK, Tabs!ClockRuns, Tabs!InApp
  <1>7. focus = "chat" => Chat!ChatHolds'
    <2> SUFFICES ASSUME Chat!ChatHolds PROVE Chat!ChatHolds' BY DEF StaffHolds
    <2>1. Chat!TypeOK' /\ Chat!NamesToldAreHidden'
      BY <1>1 DEF Chat!ChatHolds, Chat!TypeOK, Chat!NamesToldAreHidden
    <2>2. overlapped' \/ Chat!KeptInOrder' BY <1>1 DEF Chat!ChatHolds, Chat!KeptInOrder
    <2> QED BY <1>1, <2>1, <2>2 DEF Chat!ChatHolds
  <1>8. focus = "exam" => Exam!ExamHolds'
    <2> SUFFICES ASSUME Exam!ExamHolds PROVE Exam!ExamHolds' BY DEF StaffHolds
    <2>1. Exam!Fits'
      BY <1>1 DEF Exam!ExamHolds, Exam!Fits, Exam!TypeOK, Exam!PageOfAttempt
    <2>2. overlapped' \/ Exam!OneByOne'
      BY <1>1 DEF Exam!ExamHolds, Exam!OneByOne, Exam!Apart
    <2> QED BY <2>1, <2>2 DEF Exam!ExamHolds
  <1> QED BY <1>1, <1>2, <1>3, <1>4, <1>5, <1>6, <1>7, <1>8 DEF StaffHolds

LEMMA StaffAlways == MCSpec => []StaffHolds
  <1>1. StaffHolds /\ [MCNext]_all => StaffHolds' BY StaffNext, StaffStutters
  <1> QED BY StaffInit, <1>1, PTL DEF MCSpec

\* Whatever the staff, the requests at a time and the limits, the variables have
\* their types.
THEOREM StaffKeepsItsTypes == MCSpec => []TypesOK
  <1>1. ASSUME StaffHolds PROVE TypesOK
    <2>1. CASE focus = "credentials"
      <3>1. TypeOK BY <1>1, <2>1 DEF StaffHolds, LinksHold, IInv
      <3> QED BY <2>1, <3>1, Zenon DEF TypesOK
    <2>2. CASE focus = "grants"
      <3>1. Grant!TypeOK BY <1>1, <2>2 DEF StaffHolds, GrantsHold, Grant!InOrder
      <3> QED BY <2>2, <3>1, Zenon DEF TypesOK
    <2>3. CASE focus = "elevations"
      <3>1. Elevation!TypeOK BY <1>1, <2>3, ElevationsShown DEF StaffHolds
      <3> QED BY <2>3, <3>1, Zenon DEF TypesOK
    <2>4. CASE focus = "factor"
      <3>1. Factor!TypeOK BY <1>1, <2>4 DEF StaffHolds, Factor!Whole
      <3> QED BY <2>4, <3>1, Zenon DEF TypesOK
    <2>5. CASE focus = "idle"
      <3>1. Tabs!TypeOK BY <1>1, <2>5 DEF StaffHolds, TabsHold
      <3> QED BY <2>5, <3>1, Zenon DEF TypesOK
    <2>6. CASE focus = "chat"
      <3>1. Chat!TypeOK BY <1>1, <2>6, ChatTold DEF StaffHolds
      <3> QED BY <2>6, <3>1, Zenon DEF TypesOK
    <2>7. CASE focus = "exam"
      <3>1. Exam!TypeOK BY <1>1, <2>7, ExamTold DEF StaffHolds
      <3> QED BY <2>7, <3>1, Zenon DEF TypesOK
    <2> QED BY <1>1, <2>1, <2>2, <2>3, <2>4, <2>5, <2>6, <2>7 DEF StaffHolds
  <1> QED BY <1>1, StaffAlways, PTL

\* As long as no two requests have overlapped, a session does not outlive the
\* password it was opened with, whatever part of the whole is explored.
THEOREM SessionsFollowThePassword == MCSpec => []EvictedByChange
  <1>1. ASSUME StaffHolds PROVE EvictedByChange
    <2>1. CASE focus = "credentials" BY <1>1, <2>1, InvEvicts DEF StaffHolds, LinksHold
    <2>2. CASE focus # "credentials" BY <1>1, <2>2 DEF StaffHolds, EvictedByChange
    <2> QED BY <2>1, <2>2
  <1> QED BY <1>1, StaffAlways, PTL

\* An officer has one usable grant as long as no two requests have overlapped, and
\* whoever is shown personal data in the clear was let through by another one.
THEOREM OnlyTheEntitledAreShown == MCSpec => []ShownByRight
  <1>1. ASSUME StaffHolds PROVE ShownByRight
    <2>1. CASE focus = "grants"
      <3>1. overlapped \/ Grant!OneGrantPerOfficer
        BY <1>1, <2>1 DEF StaffHolds, GrantsHold, Grant!OneByOne
      <3> QED BY <2>1, <3>1, Zenon DEF ShownByRight
    <2>2. CASE focus = "elevations"
      <3>1. Elevation!ShownByAnother BY <1>1, <2>2, ElevationsShown DEF StaffHolds
      <3> QED BY <2>2, <3>1, Zenon DEF ShownByRight
    <2>3. CASE focus \notin {"grants", "elevations"} BY <2>3, Zenon DEF ShownByRight
    <2> QED BY <2>1, <2>2, <2>3
  <1> QED BY <1>1, StaffAlways, PTL

\* The second factor is whole and a step-up session ends, no active user is signed
\* out early, a conversation pairs up and tells the model no name, and the test holds
\* and marks what was entered.
THEOREM SessionsStayWhole == MCSpec => []SessionsAreWhole
  <1>1. ASSUME StaffHolds PROVE SessionsAreWhole
    <2>1. CASE focus = "factor"
      <3>1. Factor!FactorIsWhole /\ Factor!SessionEnds
        BY <1>1, <2>1 DEF StaffHolds, Factor!Whole, Factor!OneByOne, Factor!CountsFromStepUp,
               Factor!FactorIsWhole
      <3> QED BY <2>1, <3>1, Zenon DEF SessionsAreWhole
    <2>2. CASE focus = "idle"
      <3>1. Tabs!NoEarlySignOut BY <1>1, <2>2, TabsNotEarly DEF StaffHolds
      <3> QED BY <2>2, <3>1, Zenon DEF SessionsAreWhole
    <2>3. CASE focus = "chat"
      <3>1. Chat!HistoryPairsUpUnlessCut /\ Chat!NamesToldAreHidden
        BY <1>1, <2>3, ChatTold DEF StaffHolds
      <3> QED BY <2>3, <3>1, Zenon DEF SessionsAreWhole
    <2>4. CASE focus = "exam"
      <3>1. Exam!AnswersAreKept BY <1>1, <2>4, ExamTold DEF StaffHolds
      <3> QED BY <2>4, <3>1, Zenon DEF SessionsAreWhole
    <2>5. CASE focus \notin {"factor", "idle", "chat", "exam"}
      BY <2>5, Zenon DEF SessionsAreWhole
    <2> QED BY <2>1, <2>2, <2>3, <2>4, <2>5
  <1> QED BY <1>1, StaffAlways, PTL

\* A record is shown under a live grant only; until two requests overlap a session's
\* end stands, a revoke cuts access, an elevation stays decided and a link sets one
\* password; a session past its limit and a closed test do not start again.
THEOREM AccessStaysAsDecided == MCSpec => AccessIsAsDecided
  <1>1. StaffHolds /\ [MCNext]_all => [Decided]_all BY StaffNext
  <1>2. MCSpec => [][Decided]_all BY <1>1, StaffAlways, PTL DEF MCSpec
  <1> QED BY <1>2 DEF AccessIsAsDecided, Decided
=============================================================================

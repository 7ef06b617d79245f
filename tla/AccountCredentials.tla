-------------------------- MODULE AccountCredentials --------------------------
(* The password of one account and the sessions that rest on it: logins,       *)
(* changes and reset links of auth.service.ts, the resets by an administrator  *)
(* of users.service.ts and provider-users.service.ts, and the check of the     *)
(* guards (jwt-staff.strategy.ts, jwt-provider.strategy.ts).  A password is    *)
(* the number of the change that set it; every await is a step of its own.     *)
EXTENDS Integers, Sequences

CONSTANTS
    Slots,       \* requests served at the same time
    ResetTtl,    \* RESET_TTL_MS
    InviteTtl,   \* INVITE_TTL_MS
    MaxTime,     \* bound on the clock
    MaxPassword, \* bounds on the passwords set and the links minted
    MaxLinks

ASSUME CredentialsAssumption ==
    {ResetTtl, InviteTtl, MaxTime, MaxPassword, MaxLinks} \subseteq Nat \ {0}

VARIABLES
    now,
    kind,       \* "STAFF" (User) or "PROVIDER" (DataProviderUser)
    user,       \* the row of the account
    links,      \* PasswordResetToken
    tokens,     \* access tokens signed; pwd is history
    job,        \* per slot: where its request is and what it has read
    passwords,  \* history: passwords chosen so far
    overlapped  \* history: two requests have been in flight together

vars == <<now, kind, user, links, tokens, job, passwords, overlapped>>

NoTime == 0
NoLink == 0
Users  == [password : Nat, changedAt : Nat, active : BOOLEAN, mustChange : BOOLEAN]
Tokens == [pwdIat : Nat, pwd : Nat]
Links  == [used : BOOLEAN, expiresAt : Nat]
Steps  == {"mint", "change", "admin", "reset", "stamped", "link", "invite"}
Jobs   == [pc : Steps \cup {"idle"}, at : Nat, link : Nat, admin : BOOLEAN, row : Tokens]

TypeOK ==
    /\ now \in 1 .. MaxTime /\ passwords \in 0 .. MaxPassword
    /\ kind \in {"STAFF", "PROVIDER"}
    /\ user \in Users /\ links \in Seq(Links) /\ tokens \subseteq Tokens
    /\ job \in [Slots -> Jobs]
    /\ overlapped \in BOOLEAN

NoRow   == [pwdIat |-> NoTime, pwd |-> 0]
IdleJob == [pc |-> "idle", at |-> NoTime, link |-> NoLink, admin |-> FALSE, row |-> NoRow]

\* An account as create leaves it: for a provider an unusable password, to be
\* replaced on the first login.
Init ==
    /\ now = 1 /\ passwords = 0 /\ overlapped = FALSE
    /\ kind \in {"STAFF", "PROVIDER"}
    /\ user = [password |-> 0, changedAt |-> NoTime, active |-> TRUE,
               mustChange |-> kind = "PROVIDER"]
    /\ links = <<>> /\ tokens = {}
    /\ job = [s \in Slots |-> IdleJob]

Idle(s) == job[s] = IdleJob
Goto(s, j) == job' = [job EXCEPT ![s] = j]
Done(s) == Goto(s, IdleJob)

-----------------------------------------------------------------------------
\* staffLogin and providerLogin: the password is compared with the row read, and
\* the token carries the epoch of that row.
ReadForLogin(s) ==
    /\ Idle(s)
    /\ user.active
    /\ Goto(s, [IdleJob EXCEPT !.pc = "mint", !.at = now,
                  !.row = [pwdIat |-> user.changedAt, pwd |-> user.password]])
    /\ UNCHANGED <<now, kind, user, links, tokens, passwords>>

\* Mutant: the token carries the time it was signed, not the password's epoch.
MintNow(s) ==
    /\ job[s].pc = "mint"
    /\ tokens' = tokens \cup {[job[s].row EXCEPT !.pwdIat = now]}
    /\ Done(s)
    /\ UNCHANGED <<now, kind, user, links, passwords>>

Mint(s) ==
    /\ job[s].pc = "mint"
    /\ tokens' = tokens \cup {job[s].row}
    /\ Done(s)
    /\ UNCHANGED <<now, kind, user, links, passwords>>

\* validate of the guards.
Accepts(t) == user.active /\ (user.changedAt # NoTime => t.pwdIat >= user.changedAt)

-----------------------------------------------------------------------------
\* changeStaffPassword, changeProviderPassword: a signed-in user who knows the
\* current password.
ReadForChange(s) ==
    /\ Idle(s)
    /\ \E t \in tokens : Accepts(t) /\ t.pwd = user.password
    /\ Goto(s, [IdleJob EXCEPT !.pc = "change", !.at = now])
    /\ UNCHANGED <<now, kind, user, links, tokens, passwords>>

\* resetPassword by an administrator.
AdminReset(s) ==
    /\ Idle(s)
    /\ Goto(s, [IdleJob EXCEPT !.pc = "admin", !.at = now, !.admin = TRUE])
    /\ UNCHANGED <<now, kind, user, links, tokens, passwords>>

\* Mutant: a link that has been used is taken again.
UnexpiredLink(i) == links[i].expiresAt >= now

Usable(i) == ~ links[i].used /\ links[i].expiresAt >= now

\* resetPassword with a link: the link is read.
ReadLink(s) == \E i \in DOMAIN links :
    /\ Idle(s)
    /\ Usable(i)
    /\ Goto(s, [IdleJob EXCEPT !.pc = "reset", !.at = now, !.link = i])
    /\ UNCHANGED <<now, kind, user, links, tokens, passwords>>

\* The new password is hashed, which takes a unit of the clock at least, and the
\* epoch is read off the clock; the statement is on its way.
Stamp(s) ==
    /\ job[s].pc \in {"change", "admin", "reset"}
    /\ now > job[s].at
    /\ Goto(s, [job[s] EXCEPT !.pc = "stamped", !.at = now])
    /\ UNCHANGED <<now, kind, user, links, tokens, passwords>>

\* Mutant: only the link that was used is burned.
BurnOne(i) == [links EXCEPT ![i].used = TRUE]

Burn(i) == [k \in DOMAIN links |-> [links[k] EXCEPT !.used = TRUE]]

\* Mutant: the epoch does not move.
WriteNoEpoch(s) ==
    /\ job[s].pc = "stamped"
    /\ passwords < MaxPassword
    /\ passwords' = passwords + 1
    /\ user' = [user EXCEPT !.password = passwords + 1, !.mustChange = job[s].admin]
    /\ links' = IF job[s].link = NoLink THEN links ELSE Burn(job[s].link)
    /\ Goto(s, IF job[s].admin /\ kind = "PROVIDER"
               THEN [IdleJob EXCEPT !.pc = "invite"] ELSE IdleJob)
    /\ UNCHANGED <<now, kind, tokens>>

\* The row is written; with a link, the transaction burns every link of the
\* account; a provider's administrator goes on to mint an invitation.
WritePassword(s) ==
    /\ job[s].pc = "stamped"
    /\ passwords < MaxPassword
    /\ passwords' = passwords + 1
    /\ user' = [user EXCEPT !.password = passwords + 1, !.changedAt = job[s].at,
                            !.mustChange = job[s].admin]
    /\ links' = IF job[s].link = NoLink THEN links ELSE Burn(job[s].link)
    /\ Goto(s, IF job[s].admin /\ kind = "PROVIDER"
               THEN [IdleJob EXCEPT !.pc = "invite"] ELSE IdleJob)
    /\ UNCHANGED <<now, kind, tokens>>

-----------------------------------------------------------------------------
\* requestPasswordReset: of an active account; older links stay.
RequestReset(s) ==
    /\ Idle(s)
    /\ user.active
    /\ Goto(s, [IdleJob EXCEPT !.pc = "link"])
    /\ UNCHANGED <<now, kind, user, links, tokens, passwords>>

\* The link of requestPasswordReset, or the invitation of handOff.
MintLink(s) ==
    /\ job[s].pc \in {"link", "invite"}
    /\ Len(links) < MaxLinks
    /\ links' = Append(links, [used |-> FALSE,
          expiresAt |-> now + (IF job[s].pc = "link" THEN ResetTtl ELSE InviteTtl)])
    /\ Done(s)
    /\ UNCHANGED <<now, kind, user, tokens, passwords>>

\* update of the account by an administrator.
SetActive == \E b \in BOOLEAN :
    /\ user.active # b
    /\ user' = [user EXCEPT !.active = b]
    /\ UNCHANGED <<now, kind, links, tokens, job, passwords>>

Tick ==
    /\ now < MaxTime
    /\ now' = now + 1
    /\ UNCHANGED <<kind, user, links, tokens, job, passwords>>

Serve(s) ==
    \/ ReadForLogin(s)  \/ Mint(s)
    \/ ReadForChange(s) \/ AdminReset(s) \/ ReadLink(s)
    \/ Stamp(s)         \/ WritePassword(s)
    \/ RequestReset(s)  \/ MintLink(s)

Step == Tick \/ SetActive \/ \E s \in Slots : Serve(s)

Next ==
    /\ Step
    /\ overlapped' = (overlapped \/ \E s, t \in Slots :
                         s # t /\ job'[s] # IdleJob /\ job'[t] # IdleJob)

Spec == Init /\ [][Next]_vars

-----------------------------------------------------------------------------
\* As long as no two requests have overlapped, a session does not outlive the
\* password it was opened with: what the guards accept was minted for the current
\* one.  (Two changes that overlap write their epochs in either order, and the
\* later password may carry the earlier epoch: auth.service.ts 197, 422, 427.)
EvictedByChange == overlapped \/ \A t \in tokens : Accepts(t) => t.pwd = user.password

\* As long as no two requests have overlapped, a link sets a password once, and
\* once a link has, no link that was minted before it does.  (The link is read
\* before the password is hashed, 391, and burned by id after, 430.)
LinkSpent(s) ==
    (job[s].pc = "stamped" /\ job[s].link # NoLink /\ passwords' # passwords /\ job'[s] = IdleJob)
        => ~ links[job[s].link].used /\ \A i \in DOMAIN links' : links'[i].used
LinksWorkOnce == [][overlapped' \/ \A s \in Slots : LinkSpent(s)]_vars
=============================================================================

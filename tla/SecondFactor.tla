----------------------------- MODULE SecondFactor -----------------------------
(* The second factor of a staff account (auth.service.ts): enrolment, the      *)
(* one-time recovery codes, the logins that use them, and the step-up session  *)
(* with its idle and hard limits.  A secret is the number of the set-up that   *)
(* made it; a recovery code is <<the number of its set, its place in the set>>. *)
(* Every await that can lose a race is a step of its own.                      *)
EXTENDS Integers

CONSTANTS
    Slots,    \* requests served at the same time
    CodesPer, \* recovery codes in a set (10 in the code)
    IdleTtl,  \* STEP_UP_IDLE_TTL
    Ceiling,  \* STEP_UP_HARD_CEILING
    MaxTime,  \* bound on the clock
    MaxMade   \* bound on the secrets and on the sets of codes made

\* What the constants must be; the instances checked assume it.
FactorAssumption ==
    {CodesPer, IdleTtl, Ceiling, MaxTime, MaxMade} \subseteq Nat \ {0}

VARIABLES
    now,
    mfa,        \* mfaEnabled
    secret,     \* mfaSecret, None when null
    codes,      \* mfaRecoveryCodes
    made,       \* history: secrets and sets of codes made so far
    spent,      \* history: codes a request has been let through with
    session,    \* the step-up token the browser holds
    authorised, \* history: when stepUp last let the officer through
    job,        \* per slot: where its request is and what it has read
    overlapped  \* history: two requests have been in flight together

vars == <<now, mfa, secret, codes, made, spent, session, authorised, job, overlapped>>

None    == 0
CodeSet(n) == {<<n, k>> : k \in 1 .. CodesPer}
Codes   == UNION {CodeSet(n) : n \in 1 .. MaxMade}
Session == [origIat : Nat, expires : Nat]
NoSession == [origIat |-> 0, expires |-> 0]
Steps   == {"enable", "codes", "disable", "consume"}
Jobs    == [pc : Steps \cup {"idle"}, codes : SUBSET Codes, code : Codes \cup {<<>>},
            disable : BOOLEAN]

TypeOK ==
    /\ now \in 0 .. MaxTime /\ mfa \in BOOLEAN /\ secret \in 0 .. MaxMade
    /\ codes \subseteq Codes /\ spent \subseteq Codes
    /\ made \in [secrets : 0 .. MaxMade, sets : 0 .. MaxMade]
    /\ session \in Session /\ authorised \in 0 .. MaxTime
    /\ job \in [Slots -> Jobs]
    /\ overlapped \in BOOLEAN

IdleJob == [pc |-> "idle", codes |-> {}, code |-> <<>>, disable |-> FALSE]

Init ==
    /\ now = 0 /\ mfa = FALSE /\ secret = None /\ codes = {} /\ spent = {}
    /\ made = [secrets |-> 0, sets |-> 0]
    /\ session = NoSession /\ authorised = 0
    /\ job = [s \in Slots |-> IdleJob]
    /\ overlapped = FALSE

Idle(s) == job[s] = IdleJob
Goto(s, j) == job' = [job EXCEPT ![s] = j]
Done(s) == Goto(s, IdleJob)

-----------------------------------------------------------------------------
\* mfaSetup: a fresh secret, not enabled until it is confirmed; the codes stay.
Setup(s) ==
    /\ Idle(s)
    /\ made.secrets < MaxMade
    /\ made' = [made EXCEPT !.secrets = @ + 1]
    /\ secret' = made.secrets + 1
    /\ mfa' = FALSE
    /\ UNCHANGED <<now, codes, spent, session, authorised, job>>

\* mfaEnable: a code of the secret read; ten codes are hashed before the write.
ReadToEnable(s) ==
    /\ Idle(s)
    /\ secret # None
    /\ Goto(s, [IdleJob EXCEPT !.pc = "enable"])
    /\ UNCHANGED <<now, mfa, secret, codes, made, spent, session, authorised>>

\* mfaRegenerateRecovery: a code of the secret read, then fresh codes.
ReadToRegenerate(s) ==
    /\ Idle(s)
    /\ mfa /\ secret # None
    /\ Goto(s, [IdleJob EXCEPT !.pc = "codes"])
    /\ UNCHANGED <<now, mfa, secret, codes, made, spent, session, authorised>>

\* Mutant: fresh codes are added to the old ones.
WriteCodesToo(s) ==
    /\ job[s].pc \in {"enable", "codes"}
    /\ made.sets < MaxMade
    /\ made' = [made EXCEPT !.sets = @ + 1]
    /\ codes' = codes \cup CodeSet(made.sets + 1)
    /\ mfa' = (mfa \/ job[s].pc = "enable")
    /\ Done(s)
    /\ UNCHANGED <<now, secret, spent, session, authorised>>

\* The write of mfaEnable and of mfaRegenerateRecovery.
WriteCodes(s) ==
    /\ job[s].pc \in {"enable", "codes"}
    /\ made.sets < MaxMade
    /\ made' = [made EXCEPT !.sets = @ + 1]
    /\ codes' = CodeSet(made.sets + 1)
    /\ mfa' = (mfa \/ job[s].pc = "enable")
    /\ Done(s)
    /\ UNCHANGED <<now, secret, spent, session, authorised>>

-----------------------------------------------------------------------------
\* A recovery code is presented to staffLogin or to mfaDisable: it matches one of
\* the codes read.
ReadToConsume(s) == \E c \in codes, d \in BOOLEAN :
    /\ Idle(s)
    /\ mfa
    /\ d => secret # None
    /\ Goto(s, [pc |-> "consume", codes |-> codes, code |-> c, disable |-> d])
    /\ UNCHANGED <<now, mfa, secret, codes, made, spent, session, authorised>>

\* Mutant: the code that matched is left in the list.
ConsumeNone(s) ==
    /\ job[s].pc = "consume"
    /\ codes' = job[s].codes
    /\ spent' = spent \cup {job[s].code}
    /\ Goto(s, IF job[s].disable THEN [IdleJob EXCEPT !.pc = "disable"] ELSE IdleJob)
    /\ UNCHANGED <<now, mfa, secret, made, session, authorised>>

\* consumeRecoveryCode: the list that was read is written back without the code.
Consume(s) ==
    /\ job[s].pc = "consume"
    /\ codes' = job[s].codes \ {job[s].code}
    /\ spent' = spent \cup {job[s].code}
    /\ Goto(s, IF job[s].disable THEN [IdleJob EXCEPT !.pc = "disable"] ELSE IdleJob)
    /\ UNCHANGED <<now, mfa, secret, made, session, authorised>>

\* mfaDisable with a code of the authenticator.
ReadToDisable(s) ==
    /\ Idle(s)
    /\ mfa /\ secret # None
    /\ Goto(s, [IdleJob EXCEPT !.pc = "disable"])
    /\ UNCHANGED <<now, mfa, secret, codes, made, spent, session, authorised>>

\* Mutant: the secret goes, the flag stays.
DisableSecretOnly(s) ==
    /\ job[s].pc = "disable"
    /\ secret' = None /\ codes' = {}
    /\ Done(s)
    /\ UNCHANGED <<now, mfa, made, spent, session, authorised>>

Disable(s) ==
    /\ job[s].pc = "disable"
    /\ mfa' = FALSE /\ secret' = None /\ codes' = {}
    /\ Done(s)
    /\ UNCHANGED <<now, made, spent, session, authorised>>

-----------------------------------------------------------------------------
\* stepUp: with MFA on, a code of the authenticator and no recovery code.
StepUp ==
    /\ mfa => secret # None
    /\ session' = [origIat |-> now, expires |-> now + IdleTtl]
    /\ authorised' = now
    /\ UNCHANGED <<now, mfa, secret, codes, made, spent, job>>

\* verifyStepUp, and the first check of renewStepUp.
Live == now < session.expires

\* Mutant: a renewal counts from itself.
RenewAfresh ==
    /\ Live
    /\ now - session.origIat < Ceiling
    /\ session' = [origIat |-> now, expires |-> now + IdleTtl]
    /\ UNCHANGED <<now, mfa, secret, codes, made, spent, authorised, job>>

\* renewStepUp: on use, as long as the first authorisation is not too old.
Renew ==
    /\ Live
    /\ now - session.origIat < Ceiling
    /\ session' = [session EXCEPT !.expires = now + IdleTtl]
    /\ UNCHANGED <<now, mfa, secret, codes, made, spent, authorised, job>>

Tick ==
    /\ now < MaxTime
    /\ now' = now + 1
    /\ UNCHANGED <<mfa, secret, codes, made, spent, session, authorised, job>>

Serve(s) ==
    \/ Setup(s)         \/ ReadToEnable(s) \/ ReadToRegenerate(s) \/ WriteCodes(s)
    \/ ReadToConsume(s) \/ Consume(s)      \/ ReadToDisable(s)    \/ Disable(s)

Step == Tick \/ StepUp \/ Renew \/ \E s \in Slots : Serve(s)

Next ==
    /\ Step
    /\ overlapped' = (overlapped \/ \E s, t \in Slots :
                         s # t /\ job'[s] # IdleJob /\ job'[t] # IdleJob)

Spec == Init /\ [][Next]_vars

-----------------------------------------------------------------------------
\* As long as no two requests have overlapped, the factor is whole: what is enabled
\* has a secret to check against, and the codes that work are unspent ones of the
\* last set made.  (consumeRecoveryCode writes back the list the caller read, 535:
\* overlapped with a login it revives a spent code, with a regeneration or a
\* disabling the whole old set; and an enabling that overlaps a disabling, 482 and
\* 497, leaves the factor on with no secret.)
FactorIsWhole == overlapped \/
    /\ mfa => secret # None
    /\ codes \subseteq CodeSet(made.sets) \ spent

\* However often it is renewed, a step-up session is over an idle limit after the
\* ceiling at the latest, counted from the password that opened it (renewStepUp
\* keeps origIat, 273; the ceiling is checked at a renewal, not at a use).
SessionEnds == session.expires < authorised + Ceiling + IdleTtl

-----------------------------------------------------------------------------
(* What makes it so: a session counts from the password that opened it, and no *)
(* code of a set that is still to be made is spent; and, as long as no two     *)
(* requests have overlapped, whoever enables has a secret and whoever presents *)
(* a code holds the codes there are, and one of them.                          *)
CountsFromStepUp == session.origIat = authorised /\ SessionEnds
SpentAreMade == \A c \in spent : \E n \in 1 .. made.sets : c \in CodeSet(n)
Alone == \A s, t \in Slots : s # t => Idle(s) \/ Idle(t)
Current(j) ==
    /\ j.pc = "enable" => secret # None
    /\ j.pc = "consume" => j.codes = codes /\ j.code \in codes
OneByOne == Alone /\ FactorIsWhole /\ \A s \in Slots : Current(job[s])
Whole == TypeOK /\ CountsFromStepUp /\ SpentAreMade /\ (overlapped \/ OneByOne)
=============================================================================

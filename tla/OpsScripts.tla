------------------------------ MODULE OpsScripts ------------------------------
(***************************************************************************)
(* Three scripts an operator runs against a database in use                *)
(* (src/backend/scripts): the reset links issued to every login of a       *)
(* provider, the logins carried over from erev, and the demo tenant.  Each *)
(* goes through its list one item at a time, may be cut off between any    *)
(* two steps and is then run again.                                        *)
(***************************************************************************)
EXTENDS Naturals, FiniteSets

CONSTANTS
    Logins,      \* the accounts
    Authorities, \* the profiles of demo-authorities.ts
    Databases,   \* the databases of the server, the live one among them
    DatabaseOf,  \* [Authorities -> Databases], the one a profile may write to
    Within,      \* pairs <<name, url>>: the name occurs in the other's address
    Tables,      \* tables the demo fills, in number
    MaxRuns

ScriptAssumption ==
    /\ DatabaseOf \in [Authorities -> Databases]
    /\ \A d \in Databases : <<d, d>> \in Within
    /\ Within \subseteq Databases \X Databases
    /\ Tables \in Nat \ {0} /\ MaxRuns \in Nat

VARIABLES
    script,   \* links, logins or demo
    run,      \* the run under way: the accounts left, the one in hand, its rows
    runs,
    accts,    \* the accounts: who knows the password, the links that work
    full,     \* rows of the full runs' file: a login, its link or 0 for FAILED
    partial,  \* rows of the files of runs with --only
    dbs,      \* the databases: whose tenant, whose staff, tables filled
    cut       \* a run was cut off, and none has come to its end since

ovars == <<script, run, runs, accts, full, partial, dbs, cut>>

Before == "before"   \* what a database held before any demo was put there
NoRun == [at |-> "idle", only |-> {}, todo |-> {}, hand |-> {}, rows |-> {}, url |-> Before, of |-> Before]

Init ==
    /\ script \in {"links", "logins", "demo"}
    /\ run = NoRun /\ runs = 0 /\ full = {} /\ partial = {} /\ cut = FALSE
    /\ accts = [u \in Logins |-> [knows |-> IF script = "logins" THEN "none" ELSE "owner", links |-> {}]]
    /\ dbs = [d \in Databases |->
                [tenant |-> Before, staff |-> {Before}, filled |-> Tables, rows |-> Before]]

Begin(r) == /\ run.at = "idle" /\ runs < MaxRuns /\ runs' = runs + 1
            /\ run' = r
----------------------------------------------------------------------------
(* issue-provider-reset-links.ts, with --commit.                            *)

Issue(only) ==
    /\ script = "links"
    /\ Begin([NoRun EXCEPT !.at = "loop", !.only = only, !.todo = IF only = {} THEN Logins ELSE only])
    /\ UNCHANGED <<script, accts, full, partial, dbs, cut>>

\* resetPassword: the account is parked, the reset audited, the link minted.
Park(u) ==
    /\ script = "links" /\ run.at = "loop" /\ run.hand = {} /\ u \in run.todo
    /\ run' = [run EXCEPT !.todo = @ \ {u}, !.hand = {u}]
    /\ accts' = [accts EXCEPT ![u].knows = "nobody"]
    /\ UNCHANGED <<script, runs, full, partial, dbs, cut>>
MintLink(u) ==
    /\ run.at = "loop" /\ u \in run.hand
    /\ run' = [run EXCEPT !.hand = {}, !.rows = @ \cup {[login |-> u, link |-> runs]}]
    /\ accts' = [accts EXCEPT ![u].links = @ \cup {runs}]
    /\ UNCHANGED <<script, runs, full, partial, dbs, cut>>

\* A reset that fails, before or after the account was parked, gets a row too.
Failed(u) ==
    /\ script = "links" /\ run.at = "loop" /\ (u \in run.hand \/ (run.hand = {} /\ u \in run.todo))
    /\ run' = [run EXCEPT !.todo = @ \ {u}, !.hand = {}, !.rows = @ \cup {[login |-> u, link |-> 0]}]
    /\ UNCHANGED <<script, runs, accts, full, partial, dbs, cut>>

\* Mutant: a filtered run writes the full run's file.
SaveOver(sameDay) ==
    /\ script = "links" /\ run.at = "loop" /\ run.todo = {} /\ run.hand = {}
    /\ full' = (IF sameDay THEN {} ELSE full) \cup run.rows /\ partial' = partial
    /\ run' = NoRun /\ cut' = (cut /\ run.only # {})
    /\ UNCHANGED <<script, runs, accts, dbs>>

\* The file is written when every reset is done; its name holds the day, and
\* for a filtered run the millisecond.
Save(sameDay) ==
    /\ script = "links" /\ run.at = "loop" /\ run.todo = {} /\ run.hand = {}
    /\ IF run.only = {} THEN full' = (IF sameDay THEN {} ELSE full) \cup run.rows /\ partial' = partial
                        ELSE full' = full /\ partial' = partial \cup run.rows
    /\ run' = NoRun /\ cut' = (cut /\ run.only # {})
    /\ UNCHANGED <<script, runs, accts, dbs>>

\* A person hands the link over and the owner sets a password: every other link
\* of the account dies (auth.service.ts resetPassword).
Redeem(u) ==
    /\ \E x \in full \cup partial : x.login = u /\ x.link \in accts[u].links
    /\ accts' = [accts EXCEPT ![u] = [knows |-> "owner", links |-> {}]]
    /\ UNCHANGED <<script, run, runs, full, partial, dbs, cut>>

----------------------------------------------------------------------------
(* import-erev-staff.ts, and the logins of migrate-erev.ts.                 *)

Carry ==
    /\ script = "logins" /\ Begin([NoRun EXCEPT !.at = "loop", !.todo = Logins])
    /\ UNCHANGED <<script, accts, full, partial, dbs, cut>>

\* A login that exists is never overwritten.
CarryOver(u) ==
    /\ script = "logins" /\ u \in run.todo
    /\ run' = IF run.todo = {u} THEN NoRun ELSE [run EXCEPT !.todo = @ \ {u}]
    /\ accts' = IF accts[u].knows = "none" THEN [accts EXCEPT ![u].knows = "imported"] ELSE accts
    /\ UNCHANGED <<script, runs, full, partial, dbs, cut>>

\* The owner signs in with the old password and must choose another.
Choose(u) ==
    /\ accts[u].knows = "imported"
    /\ accts' = [accts EXCEPT ![u].knows = "owner"]
    /\ UNCHANGED <<script, run, runs, full, partial, dbs, cut>>

----------------------------------------------------------------------------
(* seed-demo-tenant.ts: refused when the address does not contain the name of *)
(* the profile's database, then everything of an earlier seed is cleared.     *)

Seed(a, url) ==
    /\ script = "demo" /\ <<DatabaseOf[a], url>> \in Within
    /\ Begin([NoRun EXCEPT !.at = "seed", !.url = url, !.of = a])
    /\ dbs' = [dbs EXCEPT ![url].filled = 0, ![url].rows = a]
    /\ UNCHANGED <<script, accts, full, partial, cut>>

\* The tenant is renamed and the staff added, then the tables are filled in turn.
Rename ==
    /\ run.at = "seed" /\ run' = [run EXCEPT !.at = "fill"]
    /\ dbs' = [dbs EXCEPT ![run.url].tenant = run.of, ![run.url].staff = @ \cup {run.of}]
    /\ UNCHANGED <<script, runs, accts, full, partial, cut>>
Fill ==
    /\ run.at = "fill"
    /\ dbs' = [dbs EXCEPT ![run.url].filled = @ + 1]
    /\ run' = IF dbs'[run.url].filled = Tables THEN NoRun ELSE run
    /\ UNCHANGED <<script, runs, accts, full, partial, cut>>

\* The process ends.
Cut ==
    /\ run # NoRun /\ run' = NoRun /\ cut' = TRUE
    /\ UNCHANGED <<script, runs, accts, full, partial, dbs>>

Next == \/ Carry \/ Rename \/ Fill \/ Cut
        \/ \E only \in SUBSET Logins : Issue(only)
        \/ \E u \in Logins : Park(u) \/ MintLink(u) \/ Failed(u) \/ Redeem(u) \/ CarryOver(u) \/ Choose(u)
        \/ \E sameDay \in BOOLEAN : Save(sameDay)
        \/ \E a \in Authorities, url \in Databases : Seed(a, url)

Spec == Init /\ [][Next]_ovars

----------------------------------------------------------------------------
TypeOK ==
    /\ script \in {"links", "logins", "demo"} /\ runs \in 0..MaxRuns /\ cut \in BOOLEAN
    /\ {run.only, run.todo, run.hand} \subseteq SUBSET Logins
    /\ accts \in [Logins -> [knows : {"none", "owner", "nobody", "imported"}, links : SUBSET (1..MaxRuns)]]
    /\ full \cup partial \subseteq [login : Logins, link : 0..MaxRuns]
    /\ \A d \in Databases : dbs[d].filled \in 0..Tables

\* No provider is locked out unseen: once a run has come to its end, everyone
\* whose password was parked has in one of the files a link that works, or a row
\* that says the reset failed.  A run that is cut off leaves no file at all, and
\* whoever it parked waits for the next full run.
NobodyIsStranded ==
    script = "links" /\ run.at = "idle" /\ ~cut =>
        \A u \in Logins : accts[u].knows = "nobody" =>
            \E x \in full \cup partial : x.login = u /\ x.link \in accts[u].links \cup {0}

\* A password its owner chose is not put back by another run of the import.
ChosenStays ==
    script = "logins" => \A u \in Logins : accts[u].knows = "owner" => accts'[u].knows = "owner"

\* The live database is never cleared or renamed, and no authority's demo by
\* another's -- but by one whose database's name begins the other's name.
Clashes(d) == \E a \in Authorities : DatabaseOf[a] # d /\ <<DatabaseOf[a], d>> \in Within
OnlyItsDemo ==
    \A d \in Databases : ~Clashes(d) => dbs[d].rows = Before \/ DatabaseOf[dbs[d].rows] = d

\* A demo whose tables are all filled is one authority's, whatever seeds of
\* others were cut off before it.
SeedIsWhole ==
    \A d \in Databases : dbs[d].filled = Tables => dbs[d].tenant = dbs[d].rows

----------------------------------------------------------------------------
(* What makes it so: the fields of the run, one account in hand of those it *)
(* is for, ...                                                              *)
Scope == IF run.only = {} THEN Logins ELSE run.only
Places ==
    /\ run = [at |-> run.at, only |-> run.only, todo |-> run.todo, hand |-> run.hand,
             rows |-> run.rows, url |-> run.url, of |-> run.of]
    /\ run.at \in {"idle", "loop", "seed", "fill"}
    /\ run.rows \subseteq [login : Logins, link : 0..MaxRuns]
    /\ run.at = "loop" => run.todo \cup run.hand \subseteq Scope
    /\ \A u, v \in run.hand : u = v
    /\ run.at = "idle" => run = NoRun
    /\ run # NoRun => runs \in 1..MaxRuns
    /\ run.at \in {"seed", "fill"} => run.url \in Databases
    /\ \A d \in Databases : dbs[d] = [tenant |-> dbs[d].tenant, staff |-> dbs[d].staff,
                                      filled |-> dbs[d].filled, rows |-> dbs[d].rows]
    /\ DOMAIN dbs = Databases

\* ... whoever a run of the links is through with has a row in its file or in
\* memory, and whoever it has not come to has the row of an earlier run,
Behind == IF run.at = "loop" THEN Scope \ (run.todo \cup run.hand) ELSE {}
Tells(x, u) == x.login = u /\ x.link \in accts[u].links \cup {0}
EveryoneIsTold ==
    script = "links" =>
        /\ \A u \in Behind : accts[u].knows = "nobody" => \E x \in run.rows : Tells(x, u)
        /\ ~cut => \A u \in Logins \ (IF run.at = "loop" THEN Scope ELSE {}) :
                       accts[u].knows = "nobody" => \E x \in full \cup partial : Tells(x, u)

\* ... and a demo that is being filled is its seed's.
SeedUnderWay ==
    /\ run.at = "seed" => dbs[run.url].filled = 0 /\ dbs[run.url].rows = run.of
    /\ run.at = "fill" => /\ dbs[run.url].filled < Tables
                          /\ dbs[run.url].tenant = run.of /\ dbs[run.url].rows = run.of

Orderly == TypeOK /\ Places /\ EveryoneIsTold /\ SeedUnderWay /\ OnlyItsDemo /\ SeedIsWhole
=============================================================================

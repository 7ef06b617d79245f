------------------------------ MODULE FieldVault ------------------------------
(* Identifiers encrypted at rest: the keys a process starts with              *)
(* (key-provider.ts), encryption under the active key and the blind index      *)
(* (crypto.service.ts), and the three jobs that rewrite stored rows while the  *)
(* application goes on storing: re-encryption after a rotation                 *)
(* (governance.service.ts), the back-fill of indexes and the re-keying of rows *)
(* written under the development key (scripts).                                *)
EXTENDS Integers, FiniteSets

CONSTANTS
    Ids,     \* the rows there can be, in the order of their ids
    Values,  \* identifiers in the clear
    KeyIds,  \* the numbers of the keys that may be configured
    Batch    \* rows of a page

VaultAssumption ==
    /\ Ids \subseteq Nat \ {0} /\ IsFiniteSet(Ids)
    /\ 1 \in KeyIds /\ KeyIds \subseteq Nat \ {0} /\ Batch \in Nat \ {0}

VARIABLES
    keys,        \* the keys of the process; none when it refused to start
    active,      \* the key that new ciphertext carries
    rows,        \* the rows stored: ciphertext and blind index, or None
    job,         \* the re-encryption, as far as it has come
    script,      \* a maintenance script, as far as it has come
    truth,       \* history: what the application last stored in a row
    erased,      \* history: the re-encryption met a row whose key is not there
    overlapped   \* history: a row changed that a job held, or under its pages
vars == <<keys, active, rows, job, script, truth, erased, overlapped>>

None == [form |-> "none"]
Dev  == 0    \* the key derived from the secret published in the repository

\* encrypt and blindIndex: what a value becomes.
Sealed(k, v)  == [form |-> "v2", key |-> k, value |-> v]
Encrypt(v)    == Sealed(active, v)
BlindIndex(v) == [by |-> "real", value |-> v]

Absent  == [enc |-> None, index |-> None]
Present == {r \in Ids : rows[r] # Absent}

\* The rows that earlier releases, imports and scripts have left.
Legacy(v) ==
    {[enc |-> [form |-> "plain", value |-> v], index |-> None],
     [enc |-> [form |-> "v1", value |-> v], index |-> BlindIndex(v)],
     [enc |-> Sealed(Dev, v), index |-> [by |-> "dev", value |-> v]]}

NoJob == [pc |-> "idle"]
TypeOK ==
    /\ keys \subseteq KeyIds
    /\ keys # {} => active \in keys
    /\ \A r \in Ids : rows[r] = Absent \/ rows[r].enc.form \in {"none", "plain", "v1", "v2"}
    /\ job.pc \in {"idle", "page", "rows", "done", "failed"}
    /\ script.pc \in {"idle", "page", "write"}

Init ==
    /\ keys = {1} /\ active = 1
    /\ truth \in [Ids -> Values]
    /\ rows \in {f \in [Ids -> {Absent} \cup UNION {Legacy(v) : v \in Values}] :
          \A r \in Ids : f[r] # Absent => f[r] \in Legacy(truth[r])}
    /\ job = NoJob
    /\ script = NoJob
    /\ erased = FALSE
    /\ overlapped = FALSE

-----------------------------------------------------------------------------
\* decrypt: v2 by the key it names, v1 by the first key, and what is no ciphertext
\* is taken for the value; None when the key is not there.
Readable(c) == CASE c.form = "plain" -> TRUE
                 [] c.form = "v1"    -> 1 \in keys
                 [] c.form = "v2"    -> c.key \in keys
                 [] OTHER            -> FALSE
Decrypt(c) == IF Readable(c) THEN [form |-> "plain", value |-> c.value] ELSE None

NeedsReencrypt(c) == c.form = "v1" \/ (c.form = "v2" /\ c.key # active)

\* Mutant: what is written is the ciphertext, encrypted once more.
SealAgain(c) == IF NeedsReencrypt(c) THEN Sealed(active, c.form) ELSE c

\* reencrypt: encrypt(decrypt(payload)), and encrypt(null) is null.
Reencrypt(c) ==
    IF ~ NeedsReencrypt(c) THEN c
    ELSE IF Decrypt(c) = None THEN None ELSE Encrypt(Decrypt(c).value)

\* The active key is the one named, else the last; without a key there is none.
ActiveOf(present, named) ==
    IF named \in present THEN {named}
    ELSE IF present = {} THEN {Dev} ELSE {k \in present : \A j \in present : j <= k}

\* A restart, with the keys that are configured now (EnvKeyProvider,
\* KmsKeyProvider.create); without a key the process does not start.  What it was
\* doing is gone.
Boot == \E present \in SUBSET KeyIds, named \in KeyIds \cup {Dev} :
    /\ keys' = present
    /\ active' \in ActiveOf(present, named)
    /\ job' = NoJob
    /\ UNCHANGED <<rows, script, truth>>

\* The application stores an identifier with its index (encodeIdentifiers, and the
\* rows of a return), in a row that may be new.
Store == keys # {} /\ \E r \in Ids, v \in Values :
    /\ rows' = [rows EXCEPT ![r] = [enc |-> Encrypt(v), index |-> BlindIndex(v)]]
    /\ truth' = [truth EXCEPT ![r] = v]
    /\ UNCHANGED <<keys, active, job, script>>

\* purgeExpired: a row whose retention is over is deleted.
Purge == \E r \in Present :
    /\ rows' = [rows EXCEPT ![r] = Absent]
    /\ UNCHANGED <<keys, active, job, script, truth>>

-----------------------------------------------------------------------------
\* The first n of some rows, by id.
FirstOf(S, n) == {r \in S : Cardinality({x \in S : x < r}) < n}

\* reencryptPii
StartJob ==
    /\ keys # {}
    /\ job.pc \in {"idle", "done", "failed"}
    /\ job' = [pc |-> "page", skip |-> 0]
    /\ UNCHANGED <<keys, active, rows, script, truth>>

\* Mutant: only the rows that are still to do are paged through.
PendingRows(skip) ==
    LET pending == {r \in Present : NeedsReencrypt(rows[r].enc)}
    IN pending \ FirstOf(pending, skip)

\* The rows after the first `skip`, by id.
RowsAfter(skip) == Present \ FirstOf(Present, skip)

\* One page: its rows are read.
Page ==
    /\ job.pc = "page"
    /\ LET page == FirstOf(RowsAfter(job.skip), Batch)
       IN job' = IF page = {} THEN [pc |-> "done"]
                 ELSE [pc |-> "rows", skip |-> job.skip, size |-> Cardinality(page),
                       held |-> [r \in page |-> rows[r].enc]]
    /\ UNCHANGED <<keys, active, rows, script, truth>>

Held == DOMAIN job.held
AfterRow(r) ==
    IF Held # {r} THEN [job EXCEPT !.held = [x \in Held \ {r} |-> job.held[x]]]
    ELSE IF job.size < Batch THEN [pc |-> "done"]
    ELSE [pc |-> "page", skip |-> job.skip + Batch]

\* The next row of the page: rewritten from what was read; a row that is gone makes
\* the job fail.
Row ==
    /\ job.pc = "rows"
    /\ \E r \in Held :
          /\ \A x \in Held : r <= x
          /\ \/ /\ ~ NeedsReencrypt(job.held[r])
                /\ rows' = rows /\ job' = AfterRow(r)
             \/ /\ NeedsReencrypt(job.held[r]) /\ rows[r] = Absent
                /\ rows' = rows /\ job' = [pc |-> "failed"]
             \/ /\ NeedsReencrypt(job.held[r]) /\ rows[r] # Absent
                /\ rows' = [rows EXCEPT ![r].enc = Reencrypt(job.held[r])]
                /\ job' = AfterRow(r)
    /\ UNCHANGED <<keys, active, script, truth>>

-----------------------------------------------------------------------------
\* What a script still has to do with a row: an index or ciphertext is missing
\* (back-fill, PENDING_SQL), or the row is under the development key (re-key).
IsDev(c) == c.form = "v2" /\ c.key = Dev
ToDo(kind, row) ==
    IF kind = "backfill" THEN row.enc # None /\ (row.index = None \/ row.enc.form = "plain")
    ELSE IsDev(row.enc)

\* Mutant: the index is taken of what is stored.
PatchStored(kind, row) ==
    [enc |-> None, index |-> IF row.index = None THEN BlindIndex(row.enc.form) ELSE None]

\* The columns it writes, None for one it leaves; what cannot be decrypted is left.
Patch(kind, row) ==
    IF kind = "backfill"
    THEN IF Decrypt(row.enc) = None THEN Absent
         ELSE [enc   |-> IF row.enc.form = "plain" THEN Encrypt(row.enc.value) ELSE None,
               index |-> IF row.index = None THEN BlindIndex(Decrypt(row.enc).value) ELSE None]
    ELSE [enc |-> Encrypt(row.enc.value), index |-> BlindIndex(row.enc.value)]

\* A script starts, or goes on with the next page, by id.
ScriptPage == keys # {} /\ \E kind \in {"backfill", "rekey"} :
    LET after == IF script.pc = "idle" THEN 0 ELSE script.after
        page  == FirstOf({r \in Present : after < r /\ ToDo(kind, rows[r])}, Batch)
    IN /\ script.pc = "idle" \/ (script.pc = "page" /\ script.kind = kind)
       /\ \/ page = {} /\ script.pc = "page" /\ script' = NoJob
          \/ \E last \in page :
                /\ \A r \in page : r <= last
                /\ script' = [pc |-> "write", kind |-> kind, after |-> last,
                              new |-> [r \in page |-> Patch(kind, rows[r])]]
       /\ UNCHANGED <<keys, active, rows, job, truth>>

\* One UPDATE for the page: rows that are gone stay gone, and COALESCE keeps the
\* columns it has nothing for.
Coalesce(new, old) == [enc   |-> IF new.enc = None THEN old.enc ELSE new.enc,
                       index |-> IF new.index = None THEN old.index ELSE new.index]
ScriptWrite ==
    /\ script.pc = "write"
    /\ rows' = [r \in Ids |->
          IF r \in DOMAIN script.new /\ rows[r] # Absent
          THEN Coalesce(script.new[r], rows[r]) ELSE rows[r]]
    /\ script' = [pc |-> "page", kind |-> script.kind, after |-> script.after]
    /\ UNCHANGED <<keys, active, job, truth>>

-----------------------------------------------------------------------------
Step == Boot \/ Store \/ Purge \/ StartJob \/ Page \/ Row \/ ScriptPage \/ ScriptWrite

\* A job is disturbed when a row it holds is changed by somebody else, the
\* re-encryption when a row appears or goes while it pages, and a script when the
\* active key changes under it.
Changed(r) == rows'[r] # rows[r]
Disturbed ==
    \/ job.pc = "rows" /\ job' = job /\ \E r \in Held : Changed(r)
    \/ script.pc = "write" /\ script' = script /\ \E r \in DOMAIN script.new : Changed(r)
    \/ script.pc = "write" /\ active' # active
    \/ job.pc \in {"page", "rows"} /\ \E r \in Ids : (rows[r] = Absent) # (rows'[r] = Absent)

\* A row that stays loses its value.
Erases == \E r \in Ids : rows[r].enc # None /\ rows'[r].enc = None /\ rows'[r] # Absent

Next ==
    /\ Step
    /\ overlapped' = (overlapped \/ Disturbed)
    /\ erased' = (erased \/ Erases)

Spec == Init /\ [][Next]_vars

-----------------------------------------------------------------------------
\* What is stored is what the application stored last, and its index is of the same
\* value, whatever rotations, re-encryptions, back-fills and re-keyings a row has
\* been through: as long as no job was disturbed and the re-encryption has met no
\* row whose key is gone (reencryptPii, governance.service.ts 33; both scripts).
StoredIsTruth == overlapped \/ erased \/ \A r \in Present :
    rows[r].enc.value = truth[r] /\ (rows[r].index = None \/ rows[r].index.value = truth[r])

-----------------------------------------------------------------------------
(* What makes it so: as long as no job was disturbed and nothing erased, ...   *)

\* ... a row holds the value of its owner, with its index once it is ciphertext,
Ciphers(v) == {[form |-> "plain", value |-> v], [form |-> "v1", value |-> v]}
              \cup {Sealed(k, v) : k \in KeyIds \cup {Dev}}
IndexesOf(v) == {[by |-> b, value |-> v] : b \in {"real", "dev"}}
Holds(row, v) ==
    /\ row.enc \in Ciphers(v) /\ row = [enc |-> row.enc, index |-> row.index]
    /\ row.index \in IndexesOf(v) \/ (row.index = None /\ row.enc.form = "plain")
RowsHold == \A r \in Ids : rows[r] = Absent \/ Holds(rows[r], truth[r])

\* ... what the re-encryption has read is still what is stored,
HeldIsStored ==
    job.pc = "rows" =>
        /\ Held \subseteq Ids
        /\ \A r \in Held : rows[r] # Absent /\ job.held[r] = rows[r].enc

\* ... and what a script is about to write is of the same value.
NewIsOwned ==
    script.pc = "write" =>
        \A r \in DOMAIN script.new :
            /\ r \in Ids /\ rows[r] # Absent
            /\ script.new[r].enc \in Ciphers(truth[r]) \cup {None}
            /\ script.new[r].index \in IndexesOf(truth[r]) \cup {None}
            /\ script.new[r].enc # None => script.new[r].index # None \/ rows[r].index # None

\* The jobs have the fields their place calls for.
Places ==
    /\ active \in KeyIds \cup {Dev} /\ truth \in [Ids -> Values] /\ DOMAIN rows = Ids
    /\ job \in {NoJob, [pc |-> "done"], [pc |-> "failed"]}
       \/ job = [pc |-> "page", skip |-> job.skip]
       \/ job = [pc |-> "rows", skip |-> job.skip, size |-> job.size, held |-> job.held]
    /\ script = NoJob \/ script = [pc |-> "page", kind |-> script.kind, after |-> script.after]
       \/ script = [pc |-> "write", kind |-> script.kind, after |-> script.after, new |-> script.new]

Truthful == RowsHold /\ HeldIsStored /\ NewIsOwned

\* And why a re-encryption that ends has been everywhere: the rows it is past, and
\* what a script is about to write, need none.
Past == FirstOf(Present, job.skip)
Here == FirstOf(RowsAfter(job.skip), Batch)
Ahead ==
    /\ job.pc \in {"page", "rows"} =>
          /\ job.skip \in Nat
          /\ \A r \in Past : ~ NeedsReencrypt(rows[r].enc)
    /\ job.pc = "rows" =>
          /\ job.size = Cardinality(Here)
          /\ \A r \in Here \ Held : ~ NeedsReencrypt(rows[r].enc)
    /\ script.pc = "write" => \A r \in DOMAIN script.new : ~ NeedsReencrypt(script.new[r].enc)
-----------------------------------------------------------------------------

\* When a re-encryption that nobody disturbed is through, no row is under an old key,
\* so that the old key can be taken away ("Idempotent", governance.service.ts 28).
RotationCompletes ==
    [][job'.pc = "done" /\ job.pc # "done" /\ ~ overlapped' =>
          \A r \in Ids : ~ NeedsReencrypt(rows'[r].enc)]_vars

\* "Complete a key rotation by re-encrypting any PII still stored under an old (or
\* legacy) key so it moves to the active key" (governance.service.ts 28): a row that
\* the job rewrites still holds its value.
RotationMoves == [][Row => \A r \in Ids : Changed(r) => rows'[r].enc # None]_vars
=============================================================================

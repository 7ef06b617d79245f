------------------------------ MODULE AuditChain ------------------------------
(* The hash-chained audit log: common/services/audit.service.ts log, what       *)
(* modules/audit/audit.service.ts verify checks of it, and the anchor           *)
(* cases.service.ts evidence reads back.  A call of log runs a transaction that *)
(* takes the advisory lock, reads the head and inserts an entry linked to it;   *)
(* its steps interleave with those of every other backend instance, and now is  *)
(* whatever that instance's clock says.                                         *)
EXTENDS Integers, FiniteSets

CONSTANTS
    Writers,      \* the calls of log, one entry each at most
    Bodies,       \* what callers pass as the details of an entry
    Undefined,    \* a key whose value is undefined in memory
    Null,         \* JSON null
    NoWriter,     \* no holder of the lock
    MaxClock,     \* bound on what a clock may say
    MaxFailures   \* bound on transactions that fail

ASSUME AuditAssumption ==
    /\ NoWriter \notin Writers
    /\ {MaxClock, MaxFailures} \subseteq Nat

VARIABLES
    rows,     \* the committed AuditLog rows
    lock,     \* the holder of pg_advisory_xact_lock
    pc, body, \* per writer: where it is, and the details it was given
    head,     \* per writer: the newest row it read
    entry,    \* per writer: the row its transaction inserted
    anchor,   \* per writer: the head hash read back after log returned
    failures

vars == <<rows, lock, pc, body, head, entry, anchor, failures>>

-----------------------------------------------------------------------------
(* Hashing and verification.                                                   *)

Genesis == << >>

\* A hash without collisions: what was hashed.
Hash(prev, payload) == <<prev, payload>>

\* findFirst's null: earlier than any clock, and what the first row is linked to.
NoRow == [at |-> -1, body |-> Null, prev |-> Genesis, curr |-> Genesis]

\* stableStringify writes an undefined value as null, and keeps its key.
Canonical(b) == [k \in DOMAIN b |-> IF b[k] = Undefined THEN Null ELSE b[k]]

\* A jsonb column never receives the keys whose value is undefined.
Stored(b) == [k \in {x \in DOMAIN b : b[x] # Undefined} |-> b[k]]

\* Mutant: the time is not part of what is hashed.
PayloadUntimed(b, at) == [body |-> Canonical(b), ts |-> 0]

Payload(b, at) == [body |-> Canonical(b), ts |-> at]

Newest(h, R) == h \in R /\ \A x \in R : x.at <= h.at

\* r is what verify() expects to find after the rows R: later than all of them,
\* linked to the newest, and with the hash of its stored fields.
Follows(r, R) ==
    /\ \A x \in R : x.at < r.at
    /\ R = {} => r.prev = Genesis
    /\ R # {} => \E h \in R : Newest(h, R) /\ r.prev = h.curr
    /\ r.curr = Hash(r.prev, Payload(r.body, r.at))

Before(r, R) == {x \in R : x.at < r.at}

\* verify() walks the rows by createdAt and reports the chain as intact.
Verifies(R) ==
    \A r \in R : /\ Follows(r, Before(r, R))
                 /\ \A x \in R \ {r} : x.at # r.at

-----------------------------------------------------------------------------
InTx == {"read", "insert", "commit"}

TypeOK ==
    /\ lock \in Writers \cup {NoWriter}
    /\ pc \in [Writers -> InTx \cup {"idle", "lock", "anchor", "done", "lost"}]
    /\ body \in [Writers -> Bodies]
    /\ \A r \in rows : r.at \in Nat
    /\ \A w \in Writers : head[w].at \in Nat \cup {-1}
    /\ \A w \in Writers : pc[w] = "commit" => entry[w].at \in Nat
    /\ failures \in Nat

Init ==
    /\ rows = {}
    /\ lock = NoWriter
    /\ pc = [w \in Writers |-> "idle"]
    /\ body \in [Writers -> Bodies]
    /\ head = [w \in Writers |-> NoRow]
    /\ entry = [w \in Writers |-> NoRow]
    /\ anchor = [w \in Writers |-> NoRow]
    /\ failures = 0

Log(w) ==
    /\ pc[w] = "idle"
    /\ pc' = [pc EXCEPT ![w] = "lock"]
    /\ UNCHANGED <<rows, lock, body, head, entry, anchor, failures>>

\* Mutant: the transaction starts without the advisory lock.
LockNothing(w) ==
    /\ pc[w] = "lock"
    /\ lock' = w
    /\ pc' = [pc EXCEPT ![w] = "read"]
    /\ UNCHANGED <<rows, body, head, entry, anchor, failures>>

Lock(w) ==
    /\ pc[w] = "lock"
    /\ lock = NoWriter
    /\ lock' = w
    /\ pc' = [pc EXCEPT ![w] = "read"]
    /\ UNCHANGED <<rows, body, head, entry, anchor, failures>>

\* findFirst by createdAt, newest first.
ReadHead(w) ==
    /\ pc[w] = "read"
    /\ \/ rows = {} /\ head' = [head EXCEPT ![w] = NoRow]
       \/ \E h \in rows : Newest(h, rows) /\ head' = [head EXCEPT ![w] = h]
    /\ pc' = [pc EXCEPT ![w] = "insert"]
    /\ UNCHANGED <<rows, lock, body, entry, anchor, failures>>

\* Mutant: the entry is stamped with the clock as it is.
StampNow(h, now) == now

\* Mutant: the step past the head goes the wrong way.
StampBefore(h, now) == IF h.at >= now THEN h.at - 1 ELSE now

\* Strictly after the head, even when the clock is not.
Stamp(h, now) == IF h.at >= now THEN h.at + 1 ELSE now

Entry(w, now) ==
    LET at   == Stamp(head[w], now)
        prev == head[w].curr
    IN  [at |-> at, body |-> Stored(body[w]), prev |-> prev,
         curr |-> Hash(prev, Payload(body[w], at))]

Insert(w) ==
    /\ pc[w] = "insert"
    /\ \E now \in 0..MaxClock : entry' = [entry EXCEPT ![w] = Entry(w, now)]
    /\ pc' = [pc EXCEPT ![w] = "commit"]
    /\ UNCHANGED <<rows, lock, body, head, anchor, failures>>

\* The row becomes visible and the lock is released; the call returns.
Commit(w) ==
    /\ pc[w] = "commit"
    /\ rows' = rows \cup {entry[w]}
    /\ lock' = NoWriter
    /\ pc' = [pc EXCEPT ![w] = "anchor"]
    /\ UNCHANGED <<body, head, entry, anchor, failures>>

\* Mutant: a failed transaction keeps the lock.
FailLocked(w) ==
    /\ failures < MaxFailures
    /\ pc[w] \in InTx
    /\ pc' = [pc EXCEPT ![w] = "lost"]
    /\ failures' = failures + 1
    /\ UNCHANGED <<rows, lock, body, head, entry, anchor>>

\* The transaction rolls back; the error is swallowed and the entry is lost.
Fail(w) ==
    /\ failures < MaxFailures
    /\ pc[w] \in InTx
    /\ lock' = NoWriter
    /\ pc' = [pc EXCEPT ![w] = "lost"]
    /\ failures' = failures + 1
    /\ UNCHANGED <<rows, body, head, entry, anchor>>

\* Mutant: the anchor is the head the entry was linked to.
AnchorOnPrevious(w) ==
    /\ pc[w] = "anchor"
    /\ anchor' = [anchor EXCEPT ![w] = head[w]]
    /\ pc' = [pc EXCEPT ![w] = "done"]
    /\ UNCHANGED <<rows, lock, body, head, entry, failures>>

\* evidence: after log returned, the newest row is read as the export's anchor.
Anchor(w) ==
    /\ pc[w] = "anchor"
    /\ \E h \in rows : Newest(h, rows) /\ anchor' = [anchor EXCEPT ![w] = h]
    /\ pc' = [pc EXCEPT ![w] = "done"]
    /\ UNCHANGED <<rows, lock, body, head, entry, failures>>

Step(w) == Lock(w) \/ ReadHead(w) \/ Insert(w) \/ Commit(w) \/ Anchor(w)
Next == \E w \in Writers : Log(w) \/ Step(w) \/ Fail(w)

Spec     == Init /\ [][Next]_vars
FairSpec == Spec /\ \A w \in Writers : WF_vars(Step(w))

-----------------------------------------------------------------------------
(* Properties.                                                                 *)

\* Concurrent instances with any clocks never fork or break the chain: what
\* verify() walks always verifies, so a report of tampering means tampering.
ChainVerifies == Verifies(rows)

\* The log only grows, and only at its end by createdAt: no row is changed,
\* removed or slipped in before one that was visible already.
AppendsAtTheEnd ==
    [][/\ rows \subseteq rows'
       /\ \A n \in rows' \ rows, r \in rows : r.at < n.at]_vars

\* verify() notices what it is for: changing the details or the time of a row,
\* or dropping a row that another one follows, never leaves a chain that
\* verifies.
ChangesAreNoticed ==
    \A r \in rows :
        /\ \A b \in Bodies : Stored(b) # r.body =>
              ~Verifies((rows \ {r}) \cup {[r EXCEPT !.body = Stored(b)]})
        /\ \A t \in 0..MaxClock : t # r.at =>
              ~Verifies((rows \ {r}) \cup {[r EXCEPT !.at = t]})
        /\ ~Newest(r, rows) => ~Verifies(rows \ {r})

\* The anchor printed on an evidence bundle covers the bundle's own entry: it is
\* that entry's hash or that of a later one chained onto it.
AnchorCoversEntry ==
    \A w \in Writers : anchor[w] # NoRow =>
        entry[w] \in rows /\ entry[w].at <= anchor[w].at

\* A call of log always comes back: a transaction that fails gives the lock up,
\* so no request waits for ever on the audit log.
EveryCallReturns ==
    \A w \in Writers : pc[w] = "lock" ~> pc[w] \in {"anchor", "done", "lost"}
=============================================================================

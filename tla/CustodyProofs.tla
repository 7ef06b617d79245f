--------------------------- MODULE CustodyProofs ---------------------------
(* The audit chain never breaks, for any number of instances, any clocks and    *)
(* any failures.  The argument has two layers.  Safe holds of any details: the  *)
(* advisory lock makes the read head the newest row until the entry linked to   *)
(* it commits, so the log grows at its end only.  Chained adds that the entry   *)
(* follows that head, and needs what verify() needs: details that hash alike    *)
(* before and after the jsonb column (BodiesDefined).                           *)
EXTENDS MCCustody, SequenceTheorems, FiniteSetTheorems, WellFoundedInduction, TLAPS

\* Whoever is in the transaction holds the lock.
LockHeld == \A w \in Writers : pc[w] \in InTx => lock = w

\* Between the read of the head and the commit no other row appears.
HeadIsNewest ==
    \A w \in Writers : pc[w] = "insert" =>
        /\ rows = {} => head[w] = NoRow
        /\ rows # {} => Newest(head[w], rows)

\* The inserted row is later than every visible one.
EntryIsLater ==
    \A w \in Writers : pc[w] = "commit" => \A x \in rows : x.at < entry[w].at

\* A call that returned has its entry in the log.
EntryIsLogged == \A w \in Writers : pc[w] = "anchor" => entry[w] \in rows

\* The per-writer tables cover the writers.
TablesFull == DOMAIN head = Writers /\ DOMAIN entry = Writers /\ DOMAIN anchor = Writers

\* Only a call that is over has read an anchor.
NotAnchored == \A w \in Writers : anchor[w] # NoRow => pc[w] = "done"

Safe == TypeOK /\ TablesFull /\ LockHeld /\ HeadIsNewest /\ EntryIsLater /\ EntryIsLogged
        /\ AnchorCoversEntry /\ NotAnchored

\* Details without an undefined value anywhere.
BodiesDefined == \A b \in Bodies : Canonical(Stored(b)) = Canonical(b)

\* The inserted row is what verify() expects after the visible ones.
EntryFollows == \A w \in Writers : pc[w] = "commit" => Follows(entry[w], rows)

Chained == Safe /\ EntryFollows /\ ChainVerifies

-----------------------------------------------------------------------------
(* Facts about rows.                                                           *)

LEMMA NoRowFields == NoRow.at = -1 /\ NoRow.curr = Genesis
  BY DEF NoRow

\* The stamp is a time, past the head's.
LEMMA StampIsLater ==
    ASSUME NEW h, h.at \in Nat \cup {-1}, NEW now \in Nat
    PROVE  Stamp(h, now) \in Nat /\ h.at < Stamp(h, now)
  BY DEF Stamp

LEMMA EntryFields ==
    ASSUME NEW w \in Writers, NEW now \in Nat
    PROVE  /\ Entry(w, now).at = Stamp(head[w], now)
           /\ Entry(w, now).body = Stored(body[w])
           /\ Entry(w, now).prev = head[w].curr
           /\ Entry(w, now).curr = Hash(head[w].curr,
                                        Payload(body[w], Stamp(head[w], now)))
  BY DEF Entry

\* A chain that verifies still does with one more row that follows it.
LEMMA ChainGrows ==
    ASSUME NEW R, NEW n, Verifies(R), Follows(n, R),
           \A x \in R \cup {n} : x.at \in Int
    PROVE  Verifies(R \cup {n})
  <1> DEFINE S == R \cup {n}
  <1>1. \A x \in R : x.at < n.at BY DEF Follows
  <1>2. n \notin R BY <1>1
  <1>3. ASSUME NEW r \in R
        PROVE  Follows(r, Before(r, S)) /\ \A x \in S \ {r} : x.at # r.at
    <2>1. r.at < n.at BY <1>1, <1>3
    <2>2. Before(r, S) = Before(r, R) BY <2>1, <1>3 DEF Before
    <2>3. Follows(r, Before(r, R)) BY <1>3 DEF Verifies
    <2>4. \A x \in R \ {r} : x.at # r.at BY <1>3 DEF Verifies
    <2>5. \A x \in S \ {r} : x.at # r.at BY <2>1, <2>4
    <2> QED BY <2>2, <2>3, <2>5
  <1>4. Before(n, S) = R BY <1>1, <1>2 DEF Before
  <1>5. \A x \in S \ {n} : x.at # n.at BY <1>1
  <1>6. Follows(n, Before(n, S)) BY <1>4
  <1>7. ASSUME NEW r \in S
        PROVE  Follows(r, Before(r, S)) /\ \A x \in S \ {r} : x.at # r.at
    <2>1. CASE r \in R BY <2>1, <1>3
    <2>2. CASE r = n BY <2>2, <1>5, <1>6
    <2> QED BY <1>7, <2>1, <2>2
  <1> HIDE DEF S
  <1>8. Verifies(S) BY <1>7 DEF Verifies
  <1> QED BY <1>8 DEF S

-----------------------------------------------------------------------------
(* The invariant that needs nothing of the details.                            *)

LEMMA InitSafe == Init => Safe
  <1> SUFFICES ASSUME Init PROVE Safe OBVIOUS
  <1>1. TypeOK /\ TablesFull BY NoRowFields DEF Init, TypeOK, TablesFull
  <1>2. LockHeld BY DEF Init, LockHeld, InTx
  <1>3. HeadIsNewest /\ EntryIsLater /\ EntryIsLogged
    BY DEF Init, HeadIsNewest, EntryIsLater, EntryIsLogged
  <1>4. AnchorCoversEntry /\ NotAnchored BY DEF Init, AnchorCoversEntry, NotAnchored
  <1> QED BY <1>1, <1>2, <1>3, <1>4 DEF Safe

LEMMA NextSafe == Safe /\ [Next]_vars => Safe'
  <1> SUFFICES ASSUME Safe, [Next]_vars PROVE Safe' OBVIOUS
  <1> USE DEF Safe
  <1>t. /\ pc \in [Writers -> InTx \cup {"idle", "lock", "anchor", "done", "lost"}]
        /\ body \in [Writers -> Bodies]
        /\ \A r \in rows : r.at \in Nat
        /\ failures \in Nat
    BY DEF TypeOK
  <1>1. ASSUME NEW w \in Writers, Log(w) PROVE Safe'
    <2>1. TypeOK' /\ TablesFull' BY <1>1 DEF Log, TypeOK, TablesFull
    <2>2. LockHeld' BY <1>1, <1>t DEF Log, LockHeld, InTx
    <2>3. (HeadIsNewest /\ EntryIsLater /\ EntryIsLogged)'
      BY <1>1, <1>t DEF Log, HeadIsNewest, EntryIsLater, EntryIsLogged
    <2>4. (AnchorCoversEntry /\ NotAnchored)'
      BY <1>1, <1>t DEF Log, AnchorCoversEntry, NotAnchored
    <2> QED BY <2>1, <2>2, <2>3, <2>4
  <1>2. ASSUME NEW w \in Writers, Lock(w) PROVE Safe'
    <2>1. TypeOK' /\ TablesFull' BY <1>2 DEF Lock, TypeOK, InTx, TablesFull
    <2>2. LockHeld' BY <1>2, <1>t, AuditAssumption DEF Lock, LockHeld
    <2>3. (HeadIsNewest /\ EntryIsLater /\ EntryIsLogged)'
      BY <1>2, <1>t DEF Lock, HeadIsNewest, EntryIsLater, EntryIsLogged
    <2>4. (AnchorCoversEntry /\ NotAnchored)'
      BY <1>2, <1>t DEF Lock, AnchorCoversEntry, NotAnchored
    <2> QED BY <2>1, <2>2, <2>3, <2>4
  <1>3. ASSUME NEW w \in Writers, ReadHead(w) PROVE Safe'
    <2>1. UNCHANGED <<rows, lock, body, entry, anchor, failures>>
          /\ pc[w] = "read" /\ pc' = [pc EXCEPT ![w] = "insert"]
      BY <1>3 DEF ReadHead
    <2>2. PICK h : /\ head' = [head EXCEPT ![w] = h]
                   /\ (rows = {} /\ h = NoRow) \/ Newest(h, rows)
      BY <1>3 DEF ReadHead
    <2>3. h.at \in Nat \cup {-1} BY <2>2, <1>t, NoRowFields DEF Newest
    <2>4. \A v \in Writers : head'[v] = head[v] \/ head'[v] = h BY <2>2
    <2>5. \A v \in Writers : head'[v].at \in Nat \cup {-1}
      BY <2>3, <2>4 DEF TypeOK
    <2>6. \A v \in Writers : pc'[v] = "commit" => pc[v] = "commit"
      BY <2>1, <1>t
    <2>7. pc' \in [Writers -> InTx \cup {"idle", "lock", "anchor", "done", "lost"}]
      BY <2>1, <1>t DEF InTx
    <2>8. TypeOK' /\ TablesFull' BY <2>1, <2>2, <2>5, <2>6, <2>7 DEF TypeOK, TablesFull
    <2>9. LockHeld' BY <2>1, <1>t DEF LockHeld, InTx
    <2>10. HeadIsNewest'
      <3> SUFFICES ASSUME NEW v \in Writers, pc'[v] = "insert"
                   PROVE  /\ rows' = {} => head'[v] = NoRow
                          /\ rows' # {} => Newest(head'[v], rows')
        BY DEF HeadIsNewest
      <3>1. CASE v = w
        <4>1. head'[v] = h BY <2>2, <3>1 DEF TablesFull
        <4>2. rows = {} => ~Newest(h, rows) BY DEF Newest
        <4> QED BY <4>1, <4>2, <2>1, <2>2
      <3>2. CASE v # w
        <4>1. pc[v] = "insert" /\ head'[v] = head[v] BY <2>1, <2>2, <3>2, <1>t
        <4> QED BY <4>1, <2>1 DEF HeadIsNewest
      <3> QED BY <3>1, <3>2
    <2>11. (EntryIsLater /\ EntryIsLogged)'
      BY <2>1, <1>t DEF EntryIsLater, EntryIsLogged
    <2>12. (AnchorCoversEntry /\ NotAnchored)'
      BY <2>1, <1>t DEF AnchorCoversEntry, NotAnchored
    <2> QED BY <2>8, <2>9, <2>10, <2>11, <2>12
  <1>4. ASSUME NEW w \in Writers, Insert(w) PROVE Safe'
    <2>1. UNCHANGED <<rows, lock, body, head, anchor, failures>>
          /\ pc[w] = "insert" /\ pc' = [pc EXCEPT ![w] = "commit"]
      BY <1>4 DEF Insert
    <2>2. PICK now \in 0..MaxClock : entry' = [entry EXCEPT ![w] = Entry(w, now)]
      BY <1>4 DEF Insert
    <2>3. now \in Nat BY AuditAssumption
    <2>4. head[w].at \in Nat \cup {-1} BY DEF TypeOK
    <2>5. Entry(w, now).at \in Nat /\ head[w].at < Entry(w, now).at
      BY <2>3, <2>4, StampIsLater, EntryFields
    <2>6. entry'[w].at = Entry(w, now).at
          /\ \A v \in Writers \ {w} : entry'[v] = entry[v] /\ pc'[v] = pc[v]
      BY <2>1, <2>2, <1>t DEF TablesFull
    <2>7. pc' \in [Writers -> InTx \cup {"idle", "lock", "anchor", "done", "lost"}]
      BY <2>1, <1>t DEF InTx
    <2>8. \A v \in Writers : pc'[v] = "commit" => entry'[v].at \in Nat
      BY <2>5, <2>6 DEF TypeOK
    <2>9. TypeOK' /\ TablesFull' BY <2>1, <2>2, <2>7, <2>8 DEF TypeOK, TablesFull
    <2>10. LockHeld' BY <2>1, <1>t DEF LockHeld, InTx
    <2>11. \A x \in rows : x.at <= head[w].at
      BY <2>1 DEF HeadIsNewest, Newest
    <2>12. \A x \in rows : x.at < entry'[w].at
      BY <2>4, <2>5, <2>6, <2>11, <1>t
    <2>13. EntryIsLater' BY <2>1, <2>6, <2>12 DEF EntryIsLater
    <2>14. (HeadIsNewest /\ EntryIsLogged)'
      BY <2>1, <2>6, <1>t DEF HeadIsNewest, EntryIsLogged
    <2>15. \A v \in Writers : anchor[v] # NoRow => v # w
      BY <2>1, <1>t DEF NotAnchored
    <2>16. (AnchorCoversEntry /\ NotAnchored)'
      BY <2>1, <2>6, <2>15 DEF AnchorCoversEntry, NotAnchored
    <2> QED BY <2>9, <2>10, <2>13, <2>14, <2>16
  <1>5. ASSUME NEW w \in Writers, Commit(w) PROVE Safe'
    <2>1. /\ rows' = rows \cup {entry[w]} /\ lock' = NoWriter
          /\ UNCHANGED <<body, head, entry, anchor, failures>>
          /\ pc[w] = "commit" /\ pc' = [pc EXCEPT ![w] = "anchor"]
      BY <1>5 DEF Commit
    <2>2. \A v \in Writers \ {w} : pc'[v] = pc[v] /\ pc[v] \notin InTx
      BY <2>1, <1>t DEF LockHeld, InTx
    <2>3. pc'[w] = "anchor" BY <2>1, <1>t
    <2>4. entry[w].at \in Nat BY <2>1 DEF TypeOK
    <2>5. pc' \in [Writers -> InTx \cup {"idle", "lock", "anchor", "done", "lost"}]
      BY <2>1, <1>t
    <2>6. TypeOK' /\ TablesFull' BY <2>1, <2>2, <2>3, <2>4, <2>5, <1>t DEF TypeOK, TablesFull
    <2>7. (LockHeld /\ HeadIsNewest /\ EntryIsLater)'
      BY <2>2, <2>3 DEF LockHeld, HeadIsNewest, EntryIsLater, InTx
    <2>8. (EntryIsLogged /\ AnchorCoversEntry /\ NotAnchored)'
      BY <2>1, <2>2 DEF EntryIsLogged, AnchorCoversEntry, NotAnchored
    <2> QED BY <2>6, <2>7, <2>8
  <1>6. ASSUME NEW w \in Writers, Fail(w) PROVE Safe'
    <2>1. /\ UNCHANGED <<rows, body, head, entry, anchor>> /\ lock' = NoWriter
          /\ pc[w] \in InTx /\ pc' = [pc EXCEPT ![w] = "lost"]
          /\ failures' = failures + 1
      BY <1>6 DEF Fail
    <2>2. \A v \in Writers \ {w} : pc'[v] = pc[v] /\ pc[v] \notin InTx
      BY <2>1, <1>t DEF LockHeld, InTx
    <2>3. pc'[w] = "lost" BY <2>1, <1>t
    <2>4. pc' \in [Writers -> InTx \cup {"idle", "lock", "anchor", "done", "lost"}]
      BY <2>1, <1>t
    <2>5. TypeOK' /\ TablesFull' BY <2>1, <2>2, <2>3, <2>4, <1>t DEF TypeOK, TablesFull
    <2>6. (LockHeld /\ HeadIsNewest /\ EntryIsLater)'
      BY <2>2, <2>3 DEF LockHeld, HeadIsNewest, EntryIsLater, InTx
    <2>7. (EntryIsLogged /\ AnchorCoversEntry /\ NotAnchored)'
      BY <2>1, <2>2, <2>3 DEF EntryIsLogged, AnchorCoversEntry, NotAnchored, InTx
    <2> QED BY <2>5, <2>6, <2>7
  <1>7. ASSUME NEW w \in Writers, Anchor(w) PROVE Safe'
    <2>1. /\ UNCHANGED <<rows, lock, body, head, entry, failures>>
          /\ pc[w] = "anchor" /\ pc' = [pc EXCEPT ![w] = "done"]
      BY <1>7 DEF Anchor
    <2>2. PICK h : Newest(h, rows) /\ anchor' = [anchor EXCEPT ![w] = h]
      BY <1>7 DEF Anchor
    <2>3. pc' \in [Writers -> InTx \cup {"idle", "lock", "anchor", "done", "lost"}]
      BY <2>1, <1>t
    <2>4. \A v \in Writers : pc'[v] = pc[v] \/ pc'[v] = "done" BY <2>1, <1>t
    <2>5. TypeOK' /\ TablesFull' BY <2>1, <2>2, <2>3, <2>4 DEF TypeOK, TablesFull
    <2>6. (LockHeld /\ HeadIsNewest /\ EntryIsLater /\ EntryIsLogged)'
      BY <2>1, <2>4 DEF LockHeld, HeadIsNewest, EntryIsLater, EntryIsLogged, InTx
    <2>7. entry[w] \in rows /\ entry[w].at <= h.at
      BY <2>1, <2>2 DEF EntryIsLogged, Newest
    <2>8. anchor'[w] = h /\ \A v \in Writers \ {w} : anchor'[v] = anchor[v]
      BY <2>2 DEF TablesFull
    <2>9. AnchorCoversEntry' BY <2>1, <2>7, <2>8 DEF AnchorCoversEntry
    <2>10. NotAnchored' BY <2>1, <2>8, <1>t DEF NotAnchored
    <2> QED BY <2>5, <2>6, <2>9, <2>10
  <1>8. CASE UNCHANGED vars
    BY <1>8 DEF vars, TypeOK, TablesFull, LockHeld, HeadIsNewest, EntryIsLater,
                EntryIsLogged, AnchorCoversEntry, NotAnchored
  <1> QED
    BY <1>1, <1>2, <1>3, <1>4, <1>5, <1>6, <1>7, <1>8 DEF Next, Step

-----------------------------------------------------------------------------
(* The chain.                                                                  *)

LEMMA InitChained == Init => Chained
  <1>1. Init => EntryFollows BY DEF Init, EntryFollows
  <1>2. Init => ChainVerifies BY DEF Init, ChainVerifies, Verifies
  <1> QED BY <1>1, <1>2, InitSafe DEF Chained

LEMMA NextChained ==
    ASSUME BodiesDefined
    PROVE  Chained /\ [Next]_vars => Chained'
  <1> SUFFICES ASSUME Chained, [Next]_vars PROVE Chained' OBVIOUS
  <1>s. Safe /\ Safe' BY NextSafe DEF Chained
  <1>t. /\ pc \in [Writers -> InTx \cup {"idle", "lock", "anchor", "done", "lost"}]
        /\ body \in [Writers -> Bodies]
        /\ \A r \in rows : r.at \in Nat
    BY <1>s DEF Safe, TypeOK
  <1> USE DEF Chained
  <1>1. ASSUME NEW w \in Writers, Insert(w) PROVE Chained'
    <2>1. UNCHANGED <<rows, head>> /\ pc[w] = "insert"
          /\ pc' = [pc EXCEPT ![w] = "commit"]
      BY <1>1 DEF Insert
    <2>2. PICK now \in 0..MaxClock : entry' = [entry EXCEPT ![w] = Entry(w, now)]
      BY <1>1 DEF Insert
    <2> DEFINE e == Entry(w, now)
    <2>3. entry'[w] = e
          /\ \A v \in Writers \ {w} : entry'[v] = entry[v] /\ pc'[v] = pc[v]
      BY <2>1, <2>2, <1>s, <1>t DEF Safe, TablesFull
    <2>4. now \in Nat BY AuditAssumption
    <2>5. Canonical(e.body) = Canonical(body[w])
      BY <1>t, <2>4, EntryFields DEF BodiesDefined
    <2>6. e.curr = Hash(e.prev, Payload(e.body, e.at))
      <3> HIDE DEF e
      <3>1. Payload(e.body, e.at) = Payload(body[w], e.at) BY <2>5 DEF Payload
      <3> QED BY <3>1, <2>4, EntryFields DEF e
    <2>7. e.prev = head[w].curr BY <2>4, EntryFields
    <2>8. \A x \in rows : x.at < e.at
      <3> HIDE DEF e
      <3>1. pc'[w] = "commit" BY <2>1, <1>t
      <3>2. \A x \in rows' : x.at < entry'[w].at BY <3>1, <1>s DEF Safe, EntryIsLater
      <3> QED BY <3>2, <2>1, <2>3
    <2>9. rows = {} => e.prev = Genesis
      BY <2>1, <2>7, <1>s, NoRowFields DEF Safe, HeadIsNewest
    <2>10. rows # {} => Newest(head[w], rows)
      BY <2>1, <1>s DEF Safe, HeadIsNewest
    <2>11. rows # {} => \E h \in rows : Newest(h, rows) /\ e.prev = h.curr
      <3> HIDE DEF e
      <3> QED BY <2>7, <2>10 DEF Newest
    <2> HIDE DEF e
    <2>12. Follows(e, rows) BY <2>6, <2>8, <2>9, <2>11 DEF Follows
    <2>13. EntryFollows' BY <2>1, <2>3, <2>12 DEF EntryFollows
    <2>14. ChainVerifies' BY <2>1 DEF ChainVerifies
    <2> QED BY <1>s, <2>13, <2>14
  <1>2. ASSUME NEW w \in Writers, Commit(w) PROVE Chained'
    <2>1. /\ rows' = rows \cup {entry[w]} /\ entry' = entry
          /\ pc[w] = "commit" /\ pc' = [pc EXCEPT ![w] = "anchor"]
      BY <1>2 DEF Commit
    <2>2. \A v \in Writers : pc'[v] # "commit"
      BY <2>1, <1>s, <1>t DEF Safe, LockHeld, InTx
    <2>3. EntryFollows' BY <2>2 DEF EntryFollows
    <2>4. Follows(entry[w], rows) BY <2>1 DEF EntryFollows
    <2>5. entry[w].at \in Nat BY <2>1, <1>s DEF Safe, TypeOK
    <2>6. Verifies(rows) BY DEF ChainVerifies
    <2>7. \A x \in rows \cup {entry[w]} : x.at \in Int BY <2>5, <1>t
    <2>8. Verifies(rows \cup {entry[w]}) BY <2>4, <2>6, <2>7, ChainGrows
    <2>9. ChainVerifies' BY <2>1, <2>8 DEF ChainVerifies
    <2> QED BY <1>s, <2>3, <2>9
  <1>3. ASSUME UNCHANGED <<rows, entry>>,
               \A v \in Writers : pc'[v] = "commit" => pc[v] = "commit"
        PROVE  Chained'
    BY <1>s, <1>3 DEF EntryFollows, ChainVerifies
  <1>4. ASSUME NEW w \in Writers,
               Log(w) \/ Lock(w) \/ ReadHead(w) \/ Anchor(w) \/ Fail(w)
        PROVE  Chained'
    BY <1>3, <1>4, <1>t DEF Log, Lock, ReadHead, Anchor, Fail
  <1>5. CASE UNCHANGED vars BY <1>3, <1>5 DEF vars
  <1> QED BY <1>1, <1>2, <1>4, <1>5 DEF Next, Step

-----------------------------------------------------------------------------

\* The log and its writers keep their types: every row has a time.
THEOREM AuditTypeCorrect == Spec => []TypeOK
  <1>1. Safe => TypeOK BY DEF Safe
  <1> QED BY InitSafe, NextSafe, <1>1, PTL DEF Spec

\* Whatever the clocks of the instances say, the log only grows at its end.
THEOREM LogAppendsAtTheEnd == Spec => AppendsAtTheEnd
  <1> DEFINE Grows == /\ rows \subseteq rows'
                      /\ \A n \in rows' \ rows, r \in rows : r.at < n.at
  <1>1. ASSUME Safe, [Next]_vars PROVE [Grows]_vars
    <2>1. ASSUME NEW w \in Writers, Commit(w) PROVE Grows
      <3>1. rows' = rows \cup {entry[w]} /\ pc[w] = "commit" BY <2>1 DEF Commit
      <3>2. \A x \in rows : x.at < entry[w].at BY <1>1, <3>1 DEF Safe, EntryIsLater
      <3> QED BY <3>1, <3>2
    <2>2. ASSUME NEW w \in Writers,
                 Log(w) \/ Lock(w) \/ ReadHead(w) \/ Insert(w) \/ Anchor(w) \/ Fail(w)
          PROVE  Grows
      BY <2>2 DEF Log, Lock, ReadHead, Insert, Anchor, Fail
    <2> QED BY <1>1, <2>1, <2>2 DEF Next, Step
  <1> QED BY InitSafe, NextSafe, <1>1, PTL DEF Spec, AppendsAtTheEnd

\* The anchor of an evidence bundle is never older than the bundle's own entry.
THEOREM AnchorNeverPrecedesEntry == Spec => []AnchorCoversEntry
  <1>1. Safe => AnchorCoversEntry BY DEF Safe
  <1> QED BY InitSafe, NextSafe, <1>1, PTL DEF Spec

\* With details that have no undefined value, verify() accepts the log in every
\* reachable state: the code alone never makes it report tampering.
THEOREM ChainNeverBreaks ==
    ASSUME BodiesDefined
    PROVE  Spec => []ChainVerifies
  <1>1. Chained => ChainVerifies BY DEF Chained
  <1> QED BY InitChained, NextChained, <1>1, PTL DEF Spec

-----------------------------------------------------------------------------
(* Changes are noticed.                                                        *)

\* A row holds what one of the details became, and the hash of that.
Recorded(r) ==
    \E b \in Bodies : r = [at |-> r.at, body |-> Stored(b), prev |-> r.prev,
                           curr |-> Hash(r.prev, Payload(b, r.at))]

\* Every row but the newest has another one linked to it.
Linked ==
    /\ \A r \in rows : Recorded(r)
    /\ \A w \in Writers : pc[w] = "commit" => Recorded(entry[w])
    /\ \A r \in rows : Newest(r, rows) \/ \E n \in rows : r.at < n.at /\ n.prev = r.curr

Noticed == Chained /\ Linked

\* What the jsonb column gives back is canonical already.
LEMMA StoredIsCanonical ==
    ASSUME NEW b
    PROVE  Canonical(Stored(b)) = Stored(b)
  <1> DEFINE c == Stored(b)
  <1>1. c = [k \in {x \in DOMAIN b : b[x] # Undefined} |-> b[k]] BY DEF Stored
  <1>2. \A k \in DOMAIN c : c[k] # Undefined BY <1>1
  <1>3. DOMAIN c = {x \in DOMAIN b : b[x] # Undefined} BY <1>1
  <1> HIDE DEF c
  <1>4. c = [k \in DOMAIN c |-> c[k]] BY <1>1, <1>3
  <1>5. Canonical(c) = [k \in DOMAIN c |-> c[k]] BY <1>2 DEF Canonical
  <1> QED BY <1>4, <1>5 DEF c

\* Payloads differ when the time does or the canonical details do.
LEMMA HashesDiffer ==
    ASSUME NEW p, NEW q, NEW b, NEW c, NEW t, NEW u,
           Hash(p, Payload(b, t)) = Hash(q, Payload(c, u))
    PROVE  p = q /\ t = u /\ Canonical(b) = Canonical(c)
  BY DEF Hash, Payload

\* A change to the details or the time of a row no longer fits its hash.
LEMMA EditsAreNoticed ==
    ASSUME Noticed, BodiesDefined, NEW r \in rows
    PROVE  /\ \A b \in Bodies : Stored(b) # r.body =>
                 ~Verifies((rows \ {r}) \cup {[r EXCEPT !.body = Stored(b)]})
           /\ \A t \in 0..MaxClock : t # r.at =>
                 ~Verifies((rows \ {r}) \cup {[r EXCEPT !.at = t]})
  <1>1. PICK a \in Bodies : r = [at |-> r.at, body |-> Stored(a), prev |-> r.prev,
                                 curr |-> Hash(r.prev, Payload(a, r.at))]
    BY DEF Noticed, Linked, Recorded
  <1>2. r.body = Stored(a) /\ r.curr = Hash(r.prev, Payload(a, r.at)) BY <1>1
  <1>3. Canonical(a) = Stored(a) BY StoredIsCanonical DEF BodiesDefined
  <1>4. ASSUME NEW b \in Bodies, Stored(b) # r.body,
               Verifies((rows \ {r}) \cup {[r EXCEPT !.body = Stored(b)]})
        PROVE  FALSE
    <2> DEFINE e == [r EXCEPT !.body = Stored(b)]
    <2>1. e.body = Stored(b) /\ e.prev = r.prev /\ e.curr = r.curr /\ e.at = r.at BY <1>1
    <2> HIDE DEF e
    <2>2. Verifies((rows \ {r}) \cup {e}) BY <1>4 DEF e
    <2>3. e.curr = Hash(e.prev, Payload(e.body, e.at)) BY <2>2 DEF Verifies, Follows
    <2>4. Hash(r.prev, Payload(Stored(b), r.at)) = Hash(r.prev, Payload(a, r.at))
      BY <1>2, <2>1, <2>3
    <2>5. Canonical(Stored(b)) = Canonical(a) BY ONLY <2>4, HashesDiffer
    <2> QED BY <1>2, <1>3, <1>4, <2>5, StoredIsCanonical
  <1>5. ASSUME NEW t \in 0..MaxClock, t # r.at,
               Verifies((rows \ {r}) \cup {[r EXCEPT !.at = t]})
        PROVE  FALSE
    <2> DEFINE e == [r EXCEPT !.at = t]
    <2>1. e.at = t /\ e.prev = r.prev /\ e.curr = r.curr BY <1>1
    <2> HIDE DEF e
    <2>2. Verifies((rows \ {r}) \cup {e}) BY <1>5 DEF e
    <2>3. e.curr = Hash(e.prev, Payload(e.body, e.at)) BY <2>2 DEF Verifies, Follows
    <2>4. Hash(r.prev, Payload(e.body, t)) = Hash(r.prev, Payload(a, r.at))
      BY <1>2, <2>1, <2>3
    <2>5. t = r.at BY ONLY <2>4, HashesDiffer
    <2> QED BY <1>5, <2>5
  <1> QED BY <1>4, <1>5

\* The row that followed a dropped one is linked to nothing that is left.
LEMMA DropsAreNoticed ==
    ASSUME Noticed, NEW r \in rows, ~Newest(r, rows)
    PROVE  ~Verifies(rows \ {r})
  <1> SUFFICES ASSUME Verifies(rows \ {r}) PROVE FALSE OBVIOUS
  <1>1. PICK n \in rows : r.at < n.at /\ n.prev = r.curr BY DEF Noticed, Linked
  <1>2. \A x \in rows : \E a \in Bodies : x.curr = Hash(x.prev, Payload(a, x.at))
    <2> SUFFICES ASSUME NEW x \in rows
                 PROVE  \E a \in Bodies : x.curr = Hash(x.prev, Payload(a, x.at))
      OBVIOUS
    <2>1. PICK a \in Bodies : x = [at |-> x.at, body |-> Stored(a), prev |-> x.prev,
                                   curr |-> Hash(x.prev, Payload(a, x.at))]
      BY DEF Noticed, Linked, Recorded
    <2> QED BY <2>1
  <1>3. PICK a \in Bodies : r.curr = Hash(r.prev, Payload(a, r.at)) BY <1>2
  <1>4. \A x \in rows : x.at \in Nat BY DEF Noticed, Chained, Safe, TypeOK
  <1>5. n \in rows \ {r} BY <1>1, <1>4
  <1>6. Follows(n, Before(n, rows \ {r})) BY <1>5 DEF Verifies
  <1>7. r.curr # Genesis BY <1>3 DEF Hash, Genesis
  <1>8. PICK h \in rows \ {r} : n.prev = h.curr
    BY <1>1, <1>6, <1>7 DEF Follows, Before
  <1>9. PICK c \in Bodies : h.curr = Hash(h.prev, Payload(c, h.at)) BY <1>2
  <1>10. h.at = r.at BY <1>1, <1>3, <1>8, <1>9, HashesDiffer
  <1>11. h.at # r.at BY <1>8 DEF Noticed, Chained, ChainVerifies, Verifies
  <1> QED BY <1>10, <1>11

LEMMA InitNoticed == Init => Noticed
  <1> SUFFICES ASSUME Init PROVE Noticed OBVIOUS
  <1>1. Linked BY DEF Init, Linked
  <1> QED BY <1>1, InitChained DEF Noticed

LEMMA NextNoticed ==
    ASSUME BodiesDefined
    PROVE  Noticed /\ [Next]_vars => Noticed'
  <1> SUFFICES ASSUME Noticed, [Next]_vars PROVE Noticed' OBVIOUS
  <1>s. Chained /\ Chained' /\ Linked BY NextChained DEF Noticed
  <1>t. /\ pc \in [Writers -> InTx \cup {"idle", "lock", "anchor", "done", "lost"}]
        /\ body \in [Writers -> Bodies] /\ DOMAIN entry = Writers
        /\ \A r \in rows : r.at \in Nat
    BY <1>s DEF Chained, Safe, TypeOK, TablesFull
  <1>1. ASSUME NEW w \in Writers, Insert(w) PROVE Linked'
    <2>1. UNCHANGED <<rows, head>> /\ pc[w] = "insert"
          /\ pc' = [pc EXCEPT ![w] = "commit"]
      BY <1>1 DEF Insert
    <2>2. PICK now \in 0..MaxClock : entry' = [entry EXCEPT ![w] = Entry(w, now)]
      BY <1>1 DEF Insert
    <2> DEFINE e == Entry(w, now)
    <2>3. Recorded(e)
      <3>1. e = [at |-> e.at, body |-> Stored(body[w]), prev |-> e.prev,
                 curr |-> Hash(e.prev, Payload(body[w], e.at))]
        BY DEF Entry
      <3>2. body[w] \in Bodies BY <1>t
      <3> HIDE DEF e
      <3> QED BY <3>1, <3>2 DEF Recorded
    <2> HIDE DEF e
    <2>4. entry'[w] = e BY <2>2, <1>t DEF e
    <2>5. \A v \in Writers \ {w} : entry'[v] = entry[v] /\ pc'[v] = pc[v] BY <2>1, <2>2, <1>t
    <2>6. \A v \in Writers : pc'[v] = "commit" => Recorded(entry'[v])
      BY <2>3, <2>4, <2>5, <1>s DEF Linked
    <2> QED BY <2>1, <2>6, <1>s DEF Linked
  <1>2. ASSUME NEW w \in Writers, Commit(w) PROVE Linked'
    <2>1. /\ rows' = rows \cup {entry[w]} /\ entry' = entry
          /\ pc[w] = "commit" /\ pc' = [pc EXCEPT ![w] = "anchor"]
      BY <1>2 DEF Commit
    <2>2. Recorded(entry[w]) BY <2>1, <1>s DEF Linked
    <2>3. Follows(entry[w], rows) BY <2>1, <1>s DEF Chained, EntryFollows
    <2>4. entry[w].at \in Nat BY <2>1, <1>s DEF Chained, Safe, TypeOK
    <2>5. \A x \in rows : x.at < entry[w].at BY <2>3 DEF Follows
    <2>6. Newest(entry[w], rows') BY <2>1, <2>4, <2>5, <1>t DEF Newest
    <2>7. ASSUME NEW r \in rows
          PROVE  \E n \in rows' : r.at < n.at /\ n.prev = r.curr
      <3>1. CASE Newest(r, rows)
        <4>1. PICK h \in rows : Newest(h, rows) /\ entry[w].prev = h.curr
          BY <2>3, <2>7 DEF Follows
        <4>2. h.at = r.at BY <3>1, <4>1, <1>t DEF Newest
        <4>3. h = r BY <4>2, <2>7, <1>s DEF Chained, ChainVerifies, Verifies
        <4> QED BY <2>1, <2>5, <4>1, <4>3
      <3>2. CASE ~Newest(r, rows) BY <2>1, <3>2, <2>7, <1>s DEF Linked
      <3> QED BY <3>1, <3>2
    <2>8. \A r \in rows' : Newest(r, rows') \/ \E n \in rows' : r.at < n.at /\ n.prev = r.curr
      BY <2>1, <2>6, <2>7
    <2>9. \A r \in rows' : Recorded(r) BY <2>1, <2>2, <1>s DEF Linked
    <2>10. \A v \in Writers : pc'[v] = "commit" => pc[v] = "commit" BY <2>1, <1>t
    <2>11. \A v \in Writers : pc'[v] = "commit" => Recorded(entry'[v])
      BY <2>1, <2>10, <1>s DEF Linked
    <2> QED BY <2>8, <2>9, <2>11 DEF Linked
  <1>3. ASSUME UNCHANGED <<rows, entry>>,
               \A v \in Writers : pc'[v] = "commit" => pc[v] = "commit"
        PROVE  Linked'
    BY <1>s, <1>3 DEF Linked
  <1>4. ASSUME NEW w \in Writers,
               Log(w) \/ Lock(w) \/ ReadHead(w) \/ Anchor(w) \/ Fail(w)
        PROVE  Linked'
    BY <1>3, <1>4, <1>t DEF Log, Lock, ReadHead, Anchor, Fail
  <1>5. ASSUME UNCHANGED vars PROVE Linked' BY <1>3, <1>5 DEF vars
  <1>6. Linked' BY <1>1, <1>2, <1>4, <1>5 DEF Next, Step
  <1> QED BY <1>s, <1>6 DEF Noticed

-----------------------------------------------------------------------------
(* The vault.  As long as no job was disturbed and nothing erased, a row holds *)
(* its owner's value, and what the jobs hold is of the same value.             *)

LEMMA CiphersOfOne ==
    ASSUME NEW v, NEW c \in Vault!Ciphers(v)
    PROVE  /\ c.value = v /\ c.form \in {"plain", "v1", "v2"} /\ c # Vault!None
           /\ c.form = "plain" => c = [form |-> "plain", value |-> v]
           /\ c.form = "v1" => c = [form |-> "v1", value |-> v]
           /\ c.form = "v2" => c.key \in KeyIds \cup {Vault!Dev} /\ c = Vault!Sealed(c.key, v)
  BY DEF Vault!Ciphers, Vault!Sealed, Vault!None

LEMMA SealedIsCipher ==
    ASSUME NEW v, NEW k \in KeyIds \cup {Vault!Dev}
    PROVE  /\ Vault!Sealed(k, v) \in Vault!Ciphers(v) /\ Vault!Sealed(k, v).form = "v2"
           /\ Vault!BlindIndex(v) \in Vault!IndexesOf(v)
  BY DEF Vault!Ciphers, Vault!Sealed, Vault!BlindIndex, Vault!IndexesOf

LEMMA IndexesOfOne ==
    ASSUME NEW v, NEW i \in Vault!IndexesOf(v)
    PROVE  i.value = v /\ i # Vault!None
  BY DEF Vault!IndexesOf, Vault!None

LEMMA HoldsValue ==
    ASSUME NEW row, NEW v, Vault!Holds(row, v)
    PROVE  /\ row.enc.value = v /\ row.enc.form \in {"plain", "v1", "v2"}
           /\ row.enc # Vault!None /\ row # Vault!Absent
           /\ row.index = Vault!None \/ row.index.value = v
           /\ row.index = Vault!None => row.enc.form = "plain"
  <1>1. row.enc \in Vault!Ciphers(v) BY DEF Vault!Holds
  <1>2. row.enc.value = v /\ row.enc.form \in {"plain", "v1", "v2"} /\ row.enc # Vault!None
    BY <1>1, CiphersOfOne
  <1>3. row # Vault!Absent BY <1>2 DEF Vault!Absent
  <1>4. row.index \in Vault!IndexesOf(v) \/ (row.index = Vault!None /\ row.enc.form = "plain")
    BY DEF Vault!Holds
  <1> QED BY <1>2, <1>3, <1>4, IndexesOfOne

\* A row of two columns that are each as they should be holds its value.
LEMMA HoldsWhen ==
    ASSUME NEW v, NEW e \in Vault!Ciphers(v), NEW i,
           i \in Vault!IndexesOf(v) \/ (i = Vault!None /\ e.form = "plain")
    PROVE  Vault!Holds([enc |-> e, index |-> i], v)
  BY DEF Vault!Holds

LEMMA RowsHaveTypes ==
    ASSUME DOMAIN s3 = Ids, NEW r \in Ids, Vault!RowsHold
    PROVE  s3[r] = Vault!Absent \/ s3[r].enc.form \in {"none", "plain", "v1", "v2"}
  BY HoldsValue DEF Vault!RowsHold

\* What is stored is the truth while the rows hold.
LEMMA HoldingIsTruth == Vault!RowsHold => Vault!StoredIsTruth
  <1> SUFFICES ASSUME Vault!RowsHold, NEW r \in Vault!Present
               PROVE  s3[r].enc.value = s6[r] /\ (s3[r].index = Vault!None \/ s3[r].index.value = s6[r])
    BY DEF Vault!StoredIsTruth
  <1>1. r \in Ids /\ s3[r] # Vault!Absent BY DEF Vault!Present
  <1>2. Vault!Holds(s3[r], s6[r]) BY <1>1 DEF Vault!RowsHold
  <1> QED BY <1>2, HoldsValue

VaultInv == /\ Vault!TypeOK /\ Vault!Places
            /\ overlapped \/ s7 \/ Vault!Truthful

LEMMA VaultStarts == Vault!Init => VaultInv
  <1> SUFFICES ASSUME Vault!Init PROVE VaultInv OBVIOUS
  <1>1. /\ s1 = {1} /\ s2 = 1 /\ s6 \in [Ids -> Values] /\ s4 = Vault!NoJob /\ s5 = Vault!NoJob
        /\ s3 \in [Ids -> {Vault!Absent} \cup UNION {Vault!Legacy(v) : v \in Values}]
        /\ \A r \in Ids : s3[r] # Vault!Absent => s3[r] \in Vault!Legacy(s6[r])
    BY DEF Vault!Init
  <1>2. 1 \in KeyIds BY VaultConstants DEF Vault!VaultAssumption
  <1>3. ASSUME NEW v, NEW row \in Vault!Legacy(v) PROVE Vault!Holds(row, v)
    <2>1. [form |-> "plain", value |-> v] \in Vault!Ciphers(v)
          /\ [form |-> "v1", value |-> v] \in Vault!Ciphers(v)
          /\ Vault!Sealed(Vault!Dev, v) \in Vault!Ciphers(v)
      BY DEF Vault!Ciphers
    <2>2. Vault!BlindIndex(v) \in Vault!IndexesOf(v)
          /\ [by |-> "dev", value |-> v] \in Vault!IndexesOf(v)
      BY DEF Vault!BlindIndex, Vault!IndexesOf
    <2>3. \/ row = [enc |-> [form |-> "plain", value |-> v], index |-> Vault!None]
          \/ row = [enc |-> [form |-> "v1", value |-> v], index |-> Vault!BlindIndex(v)]
          \/ row = [enc |-> Vault!Sealed(Vault!Dev, v), index |-> [by |-> "dev", value |-> v]]
      BY <1>3 DEF Vault!Legacy
    <2>4. [form |-> "plain", value |-> v].form = "plain" OBVIOUS
    <2> QED BY <2>1, <2>2, <2>3, <2>4, HoldsWhen
  <1>4. Vault!RowsHold BY <1>1, <1>3 DEF Vault!RowsHold
  <1>5. s4.pc = "idle" /\ s5.pc = "idle" BY <1>1 DEF Vault!NoJob
  <1>6. Vault!Truthful BY <1>4, <1>5 DEF Vault!Truthful, Vault!HeldIsStored, Vault!NewIsOwned
  <1>7. DOMAIN s3 = Ids BY <1>1
  <1>8. \A r \in Ids : s3[r] = Vault!Absent \/ s3[r].enc.form \in {"none", "plain", "v1", "v2"}
    BY <1>4, <1>7, RowsHaveTypes
  <1>9. Vault!TypeOK BY <1>1, <1>2, <1>5, <1>8 DEF Vault!TypeOK
  <1>10. Vault!Places BY <1>1, <1>2, <1>7 DEF Vault!Places
  <1> QED BY <1>6, <1>9, <1>10 DEF VaultInv

\* The fields of the jobs, by place.
LEMMA VaultFields ==
    ASSUME Vault!Places, Vault!TypeOK
    PROVE  /\ s2 \in KeyIds \cup {Vault!Dev} /\ s6 \in [Ids -> Values] /\ DOMAIN s3 = Ids
           /\ s4.pc = "page" => s4 = [pc |-> "page", skip |-> s4.skip]
           /\ s4.pc = "rows" => s4 = [pc |-> "rows", skip |-> s4.skip, size |-> s4.size, held |-> s4.held]
           /\ s5.pc = "page" => s5 = [pc |-> "page", kind |-> s5.kind, after |-> s5.after]
           /\ s5.pc = "write" => s5 = [pc |-> "write", kind |-> s5.kind, after |-> s5.after, new |-> s5.new]
  BY DEF Vault!Places, Vault!TypeOK, Vault!NoJob

\* As long as the rows a job holds are not touched, it holds what is stored.
LEMMA StillHeld ==
    ASSUME Vault!Truthful, s4' = s4, ~Vault!Disturbed
    PROVE  Vault!HeldIsStored'
  <1> SUFFICES ASSUME s4.pc = "rows"
               PROVE  /\ Vault!Held \subseteq Ids
                      /\ \A r \in Vault!Held : s3'[r] # Vault!Absent /\ s4.held[r] = s3'[r].enc
    BY DEF Vault!HeldIsStored, Vault!Held, Vault!Absent, Vault!None
  <1>1. \A r \in Vault!Held : s3'[r] = s3[r] BY DEF Vault!Disturbed, Vault!Changed
  <1>2. /\ Vault!Held \subseteq Ids
        /\ \A r \in Vault!Held : s3[r] # Vault!Absent /\ s4.held[r] = s3[r].enc
    BY DEF Vault!Truthful, Vault!HeldIsStored
  <1> QED BY <1>1, <1>2

\* And a script what is of the value of the row, wherever that has not moved.
LEMMA StillOwned ==
    ASSUME Vault!Truthful, s5' = s5, ~Vault!Disturbed, Vault!RowsHold',
           \A r \in Ids : s6'[r] = s6[r] \/ s3'[r] # Vault!Absent
    PROVE  Vault!NewIsOwned'
  <1> SUFFICES ASSUME s5.pc = "write", NEW r \in DOMAIN s5.new
               PROVE  /\ r \in Ids /\ s3'[r] # Vault!Absent
                      /\ s5.new[r].enc \in Vault!Ciphers(s6'[r]) \cup {Vault!None}
                      /\ s5.new[r].index \in Vault!IndexesOf(s6'[r]) \cup {Vault!None}
                      /\ s5.new[r].enc # Vault!None =>
                            s5.new[r].index # Vault!None \/ s3'[r].index # Vault!None
    BY DEF Vault!NewIsOwned, Vault!Absent, Vault!None, Vault!Ciphers, Vault!IndexesOf, Vault!Sealed, Vault!Dev
  <1>1. s3'[r] = s3[r] BY DEF Vault!Disturbed, Vault!Changed
  <1>2. /\ r \in Ids /\ s3[r] # Vault!Absent
        /\ s5.new[r].enc \in Vault!Ciphers(s6[r]) \cup {Vault!None}
        /\ s5.new[r].index \in Vault!IndexesOf(s6[r]) \cup {Vault!None}
        /\ s5.new[r].enc # Vault!None =>
              s5.new[r].index # Vault!None \/ s3[r].index # Vault!None
    BY DEF Vault!Truthful, Vault!NewIsOwned
  <1>3. s3[r].enc.value = s6[r]
    BY <1>2, HoldsValue DEF Vault!Truthful, Vault!RowsHold
  <1>4. Vault!Holds(s3'[r], s6'[r])
    BY <1>1, <1>2 DEF Vault!RowsHold, Vault!Absent, Vault!None, Vault!Holds, Vault!Ciphers,
                      Vault!IndexesOf, Vault!Sealed, Vault!Dev
  <1>5. s6'[r] = s6[r] BY <1>1, <1>3, <1>4, HoldsValue
  <1> QED BY <1>1, <1>2, <1>5

\* A step keeps the vault when the rows hold, and the jobs' holdings with them.
VaultKept == /\ Vault!TypeOK' /\ Vault!Places'
             /\ Vault!Disturbed \/ Vault!Erases \/ Vault!Truthful'

\* The application and its restarts.
LEMMA ApplicationKeeps ==
    ASSUME Vault!TypeOK, Vault!Places, Vault!Truthful,
           Vault!Boot \/ Vault!Store \/ Vault!Purge
    PROVE  VaultKept
  <1>f. /\ s2 \in KeyIds \cup {Vault!Dev} /\ s6 \in [Ids -> Values] /\ DOMAIN s3 = Ids
    BY VaultFields
  <1>t. /\ s1 \subseteq KeyIds /\ (s1 # {} => s2 \in s1)
        /\ s4.pc \in {"idle", "page", "rows", "done", "failed"}
        /\ s5.pc \in {"idle", "page", "write"}
        /\ \A r \in Ids : s3[r] = Vault!Absent \/ s3[r].enc.form \in {"none", "plain", "v1", "v2"}
    BY DEF Vault!TypeOK
  <1>h. Vault!RowsHold BY DEF Vault!Truthful
  <1>1. CASE Vault!Boot
    <2>1. PICK present \in SUBSET KeyIds, named \in KeyIds \cup {Vault!Dev} :
             /\ s1' = present /\ s2' \in Vault!ActiveOf(present, named)
             /\ s4' = Vault!NoJob /\ s3' = s3 /\ s5' = s5 /\ s6' = s6
      BY <1>1 DEF Vault!Boot
    <2>2. s2' \in KeyIds \cup {Vault!Dev} /\ (s1' # {} => s2' \in s1')
      BY <2>1 DEF Vault!ActiveOf
    <2>3. s4'.pc = "idle" BY <2>1 DEF Vault!NoJob
    <2>4. Vault!TypeOK' BY <1>t, <2>1, <2>2, <2>3 DEF Vault!TypeOK, Vault!Absent, Vault!None
    <2>5. Vault!Places' BY <2>1, <2>2 DEF Vault!Places, Vault!NoJob, Vault!Dev
    <2>6. Vault!RowsHold'
      BY <1>h, <2>1 DEF Vault!RowsHold, Vault!Absent, Vault!None, Vault!Holds, Vault!Ciphers,
                        Vault!IndexesOf, Vault!Sealed, Vault!Dev
    <2>7. Vault!HeldIsStored' BY <2>3 DEF Vault!HeldIsStored
    <2>8. ~Vault!Disturbed => Vault!NewIsOwned' BY <2>1, <2>6, StillOwned
    <2> QED BY <2>4, <2>5, <2>6, <2>7, <2>8 DEF VaultKept, Vault!Truthful
  <1>2. CASE Vault!Store
    <2>1. PICK r \in Ids, v \in Values :
             /\ s3' = [s3 EXCEPT ![r] = [enc |-> Vault!Encrypt(v), index |-> Vault!BlindIndex(v)]]
             /\ s6' = [s6 EXCEPT ![r] = v]
             /\ s1' = s1 /\ s2' = s2 /\ s4' = s4 /\ s5' = s5
      BY <1>2 DEF Vault!Store
    <2> DEFINE row == [enc |-> Vault!Encrypt(v), index |-> Vault!BlindIndex(v)]
    <2>2. Vault!Holds(row, v) /\ row.enc.form = "v2"
      BY <1>f, SealedIsCipher, HoldsWhen DEF Vault!Encrypt
    <2>3. row # Vault!Absent BY <2>2, HoldsValue
    <2> HIDE DEF row
    <2>4. s3'[r] = row /\ s6'[r] = v /\ \A x \in Ids \ {r} : s3'[x] = s3[x] /\ s6'[x] = s6[x]
      BY <1>f, <2>1 DEF row
    <2>5. s6' \in [Ids -> Values] /\ DOMAIN s3' = Ids BY <1>f, <2>1
    <2>6. \A x \in Ids : s3'[x] = Vault!Absent \/ Vault!Holds(s3'[x], s6'[x])
      BY <1>h, <2>2, <2>4 DEF Vault!RowsHold
    <2>7. Vault!RowsHold'
      BY <2>6 DEF Vault!RowsHold, Vault!Absent, Vault!None, Vault!Holds, Vault!Ciphers,
                  Vault!IndexesOf, Vault!Sealed, Vault!Dev
    <2>8. \A x \in Ids : s3'[x] = Vault!Absent \/ s3'[x].enc.form \in {"none", "plain", "v1", "v2"}
      BY <1>t, <2>2, <2>4
    <2>9. Vault!TypeOK' BY <1>t, <2>1, <2>8 DEF Vault!TypeOK, Vault!Absent, Vault!None
    <2>10. Vault!Places' BY <1>f, <2>1, <2>5 DEF Vault!Places, Vault!NoJob, Vault!Dev
    <2>11. \A x \in Ids : s6'[x] = s6[x] \/ s3'[x] # Vault!Absent BY <2>3, <2>4
    <2>12. ~Vault!Disturbed => Vault!HeldIsStored' /\ Vault!NewIsOwned'
      BY <2>1, <2>7, <2>11, StillHeld, StillOwned
    <2> QED BY <2>7, <2>9, <2>10, <2>12 DEF VaultKept, Vault!Truthful
  <1>3. CASE Vault!Purge
    <2>1. PICK r \in Vault!Present :
             /\ s3' = [s3 EXCEPT ![r] = Vault!Absent]
             /\ s1' = s1 /\ s2' = s2 /\ s4' = s4 /\ s5' = s5 /\ s6' = s6
      BY <1>3 DEF Vault!Purge
    <2>2. \A x \in Ids : s3'[x] = s3[x] \/ s3'[x] = Vault!Absent BY <1>f, <2>1
    <2>3. DOMAIN s3' = Ids BY <1>f, <2>1
    <2>4. Vault!RowsHold'
      BY <1>h, <2>1, <2>2 DEF Vault!RowsHold, Vault!Absent, Vault!None, Vault!Holds, Vault!Ciphers,
                        Vault!IndexesOf, Vault!Sealed, Vault!Dev
    <2>5. \A x \in Ids : s3'[x] = Vault!Absent \/ s3'[x].enc.form \in {"none", "plain", "v1", "v2"}
      BY <1>t, <2>2
    <2>6. Vault!TypeOK' BY <1>t, <2>1, <2>5 DEF Vault!TypeOK, Vault!Absent, Vault!None
    <2>7. Vault!Places' BY <1>f, <2>1, <2>3 DEF Vault!Places, Vault!NoJob, Vault!Dev
    <2>8. ~Vault!Disturbed => Vault!HeldIsStored' /\ Vault!NewIsOwned'
      BY <2>1, <2>4, StillHeld, StillOwned
    <2> QED BY <2>4, <2>6, <2>7, <2>8 DEF VaultKept, Vault!Truthful
  <1> QED BY <1>1, <1>2, <1>3

\* The re-encryption reads.
LEMMA PagingKeeps ==
    ASSUME Vault!TypeOK, Vault!Places, Vault!Truthful, Vault!StartJob \/ Vault!Page
    PROVE  VaultKept
  <1>f. /\ s2 \in KeyIds \cup {Vault!Dev} /\ s6 \in [Ids -> Values] /\ DOMAIN s3 = Ids
    BY VaultFields
  <1>t. /\ s1 \subseteq KeyIds /\ (s1 # {} => s2 \in s1)
        /\ s4.pc \in {"idle", "page", "rows", "done", "failed"}
        /\ s5.pc \in {"idle", "page", "write"}
        /\ \A r \in Ids : s3[r] = Vault!Absent \/ s3[r].enc.form \in {"none", "plain", "v1", "v2"}
    BY DEF Vault!TypeOK
  <1>h. Vault!RowsHold BY DEF Vault!Truthful
  <1>1. UNCHANGED <<s1, s2, s3, s5, s6>> BY DEF Vault!StartJob, Vault!Page
  <1>2. Vault!RowsHold'
    BY <1>h, <1>1 DEF Vault!RowsHold, Vault!Absent, Vault!None, Vault!Holds, Vault!Ciphers,
                      Vault!IndexesOf, Vault!Sealed, Vault!Dev
  <1>3. ~Vault!Disturbed => Vault!NewIsOwned' BY <1>1, <1>2, StillOwned
  <1>4. ASSUME s4'.pc \in {"page", "rows", "done"}, Vault!HeldIsStored',
               \/ s4' = [pc |-> "done"]
               \/ s4' = [pc |-> "page", skip |-> s4'.skip]
               \/ s4' = [pc |-> "rows", skip |-> s4'.skip, size |-> s4'.size, held |-> s4'.held]
        PROVE  VaultKept
    <2>1. Vault!TypeOK' BY <1>t, <1>1, <1>4 DEF Vault!TypeOK, Vault!Absent, Vault!None
    <2>2. Vault!Places' BY <1>f, <1>1, <1>4 DEF Vault!Places, Vault!NoJob, Vault!Dev
    <2> QED BY <1>2, <1>3, <1>4, <2>1, <2>2 DEF VaultKept, Vault!Truthful
  <1>5. CASE Vault!StartJob
    <2>1. s4' = [pc |-> "page", skip |-> 0] BY <1>5 DEF Vault!StartJob
    <2>2. s4'.pc = "page" /\ s4'.skip = 0 BY <2>1
    <2>3. Vault!HeldIsStored' BY <2>2 DEF Vault!HeldIsStored
    <2> QED BY <1>4, <2>1, <2>2, <2>3
  <1>6. CASE Vault!Page
    <2>1. PICK page : page = Vault!FirstOf(Vault!RowsAfter(s4.skip), PageSize) OBVIOUS
    <2>2. /\ page = {} => s4' = [pc |-> "done"]
          /\ page # {} => \E n : s4' = [pc |-> "rows", skip |-> s4.skip, size |-> n,
                                      held |-> [r \in page |-> s3[r].enc]]
      <3>1. s4' = IF page = {} THEN [pc |-> "done"]
                  ELSE [pc |-> "rows", skip |-> s4.skip, size |-> Vault!Cardinality(page),
                        held |-> [r \in page |-> s3[r].enc]]
        BY <1>6, <2>1, Zenon DEF Vault!Page
      <3> QED BY <3>1
    <2>3. page \subseteq Vault!Present BY <2>1 DEF Vault!FirstOf, Vault!RowsAfter
    <2>4. CASE page = {}
      <3>1. s4' = [pc |-> "done"] /\ s4'.pc = "done" BY <2>2, <2>4
      <3>2. Vault!HeldIsStored' BY <3>1 DEF Vault!HeldIsStored
      <3> QED BY <1>4, <3>1, <3>2
    <2>5. CASE page # {}
      <3>1. /\ s4' = [pc |-> "rows", skip |-> s4'.skip, size |-> s4'.size, held |-> s4'.held]
            /\ s4'.pc = "rows" /\ s4'.held = [r \in page |-> s3[r].enc]
        BY <2>2, <2>5
      <3>2. DOMAIN s4'.held = page /\ \A r \in page : s4'.held[r] = s3[r].enc BY <3>1
      <3>3. \A r \in page : r \in Ids /\ s3'[r] = s3[r] /\ s3[r] # Vault!Absent
        BY <1>1, <2>3 DEF Vault!Present
      <3>4. Vault!HeldIsStored' BY <3>2, <3>3 DEF Vault!HeldIsStored, Vault!Held, Vault!Absent, Vault!None
      <3> QED BY <1>4, <3>1, <3>4
    <2> QED BY <2>4, <2>5
  <1> QED BY <1>5, <1>6

\* What the re-encryption makes of a value that its key opens.
LEMMA ReencryptKeeps ==
    ASSUME NEW v, NEW c \in Vault!Ciphers(v), s2 \in KeyIds \cup {Vault!Dev},
           Vault!NeedsReencrypt(c)
    PROVE  /\ c.form \in {"v1", "v2"}
           /\ Vault!Reencrypt(c) \in Vault!Ciphers(v) \cup {Vault!None}
           /\ Vault!Reencrypt(c).form \in {"none", "v2"}
  <1>1. c.value = v /\ c.form \in {"v1", "v2"} BY CiphersOfOne DEF Vault!NeedsReencrypt
  <1>2. CASE Vault!Decrypt(c) = Vault!None BY <1>1, <1>2 DEF Vault!Reencrypt, Vault!None
  <1>3. CASE Vault!Decrypt(c) # Vault!None
    <2>1. Vault!Decrypt(c) = [form |-> "plain", value |-> c.value] BY <1>3 DEF Vault!Decrypt
    <2>2. Vault!Decrypt(c).value = v BY <2>1, <1>1
    <2>3. Vault!Reencrypt(c) = Vault!Sealed(s2, v) BY <1>3, <2>2 DEF Vault!Reencrypt, Vault!Encrypt
    <2> QED BY <1>1, <2>3, SealedIsCipher
  <1> QED BY <1>2, <1>3

\* The re-encryption writes a row, or passes it by.
LEMMA RowKeeps ==
    ASSUME Vault!TypeOK, Vault!Places, Vault!Truthful, Vault!Row
    PROVE  VaultKept
  <1>f. /\ s2 \in KeyIds \cup {Vault!Dev} /\ s6 \in [Ids -> Values] /\ DOMAIN s3 = Ids
        /\ s4 = [pc |-> "rows", skip |-> s4.skip, size |-> s4.size, held |-> s4.held]
    BY VaultFields DEF Vault!Row
  <1>t. /\ s1 \subseteq KeyIds /\ (s1 # {} => s2 \in s1)
        /\ s5.pc \in {"idle", "page", "write"}
        /\ \A r \in Ids : s3[r] = Vault!Absent \/ s3[r].enc.form \in {"none", "plain", "v1", "v2"}
    BY DEF Vault!TypeOK
  <1>h. Vault!RowsHold BY DEF Vault!Truthful
  <1>g. /\ s4.pc = "rows" /\ Vault!Held = DOMAIN s4.held /\ Vault!Held \subseteq Ids
        /\ \A x \in Vault!Held : s3[x] # Vault!Absent /\ s4.held[x] = s3[x].enc
    BY DEF Vault!Truthful, Vault!HeldIsStored, Vault!Row, Vault!Held
  <1>1. UNCHANGED <<s1, s2, s5, s6>> BY DEF Vault!Row
  <1>2. PICK r \in Vault!Held :
          \/ ~Vault!NeedsReencrypt(s4.held[r]) /\ s3' = s3 /\ s4' = Vault!AfterRow(r)
          \/ s3[r] = Vault!Absent /\ s3' = s3 /\ s4' = [pc |-> "failed"]
          \/ /\ Vault!NeedsReencrypt(s4.held[r])
             /\ s3' = [s3 EXCEPT ![r].enc = Vault!Reencrypt(s4.held[r])] /\ s4' = Vault!AfterRow(r)
    BY DEF Vault!Row
  <1>3. r \in Ids /\ s3[r] # Vault!Absent /\ s4.held[r] = s3[r].enc /\ Vault!Holds(s3[r], s6[r])
    BY <1>g, <1>h DEF Vault!RowsHold
  <1>4. s4' = Vault!AfterRow(r) BY <1>2, <1>3
  \* what is left to do
  <1>5. \/ s4' = [pc |-> "done"] /\ s4'.pc = "done"
        \/ s4' = [pc |-> "page", skip |-> s4'.skip] /\ s4'.pc = "page"
        \/ /\ s4' = [pc |-> "rows", skip |-> s4'.skip, size |-> s4'.size, held |-> s4'.held]
           /\ s4'.pc = "rows" /\ s4'.held = [x \in Vault!Held \ {r} |-> s4.held[x]]
    <2>1. CASE Vault!Held # {r}
      <3>1. s4' = [s4 EXCEPT !.held = [x \in Vault!Held \ {r} |-> s4.held[x]]]
        BY <1>4, <2>1 DEF Vault!AfterRow
      <3> QED BY <1>f, <3>1
    <2>2. CASE Vault!Held = {r} BY <1>4, <2>2 DEF Vault!AfterRow
    <2> QED BY <2>1, <2>2
  \* what is stored
  <1>6. /\ DOMAIN s3' = Ids /\ \A x \in Ids \ {r} : s3'[x] = s3[x]
        /\ s3'[r] = s3[r] \/ s3'[r] = [s3[r] EXCEPT !.enc = Vault!Reencrypt(s3[r].enc)]
    BY <1>f, <1>2, <1>3
  <1>7. \/ Vault!Holds(s3'[r], s6[r])
        \/ s3'[r].enc = Vault!None /\ s3'[r] # Vault!Absent /\ s3[r].enc # Vault!None
    <2>1. CASE s3'[r] = s3[r] BY <1>3, <2>1
    <2>2. CASE s3'[r] # s3[r]
      <3> DEFINE e == Vault!Reencrypt(s3[r].enc)
      <3>1. Vault!NeedsReencrypt(s3[r].enc) BY <1>2, <1>3, <2>2
      <3>2. s3[r].enc \in Vault!Ciphers(s6[r]) /\ s3[r] = [enc |-> s3[r].enc, index |-> s3[r].index]
        BY <1>3 DEF Vault!Holds
      <3>3. s3[r].enc.form \in {"v1", "v2"} /\ e \in Vault!Ciphers(s6[r]) \cup {Vault!None}
        BY <1>f, <3>1, <3>2, ReencryptKeeps
      <3>4. s3[r].index # Vault!None /\ s3[r].enc # Vault!None BY <1>3, <3>3, HoldsValue
      <3>5. s3[r].index \in Vault!IndexesOf(s6[r]) BY <1>3, <3>4 DEF Vault!Holds
      <3>6. s3'[r] = [enc |-> e, index |-> s3[r].index] BY <1>6, <2>2, <3>2
      <3> HIDE DEF e
      <3>7. s3'[r].enc = e /\ s3'[r].index = s3[r].index BY <3>6
      <3>8. s3'[r] # Vault!Absent BY <3>4, <3>7 DEF Vault!Absent
      <3>9. CASE e = Vault!None BY <3>4, <3>7, <3>8, <3>9
      <3>10. CASE e \in Vault!Ciphers(s6[r]) BY <3>5, <3>6, <3>10, HoldsWhen
      <3> QED BY <3>3, <3>9, <3>10
    <2> QED BY <2>1, <2>2
  <1>8. s3'[r].enc.form \in {"none", "plain", "v1", "v2"}
    BY <1>7, HoldsValue DEF Vault!None
  <1>9. \A x \in Ids : s3'[x] = Vault!Absent \/ s3'[x].enc.form \in {"none", "plain", "v1", "v2"}
    BY <1>t, <1>6, <1>8
  <1>10. Vault!TypeOK' BY <1>t, <1>1, <1>5, <1>9 DEF Vault!TypeOK, Vault!Absent, Vault!None
  <1>11. Vault!Places' BY <1>f, <1>1, <1>5, <1>6 DEF Vault!Places, Vault!NoJob, Vault!Dev
  <1>12. CASE Vault!Holds(s3'[r], s6[r])
    <2>1. \A x \in Ids : s3'[x] = Vault!Absent \/ Vault!Holds(s3'[x], s6'[x])
      BY <1>h, <1>1, <1>6, <1>12 DEF Vault!RowsHold
    <2>2. Vault!RowsHold'
      BY <2>1 DEF Vault!RowsHold, Vault!Absent, Vault!None, Vault!Holds, Vault!Ciphers,
                  Vault!IndexesOf, Vault!Sealed, Vault!Dev
    <2>3. Vault!HeldIsStored'
      <3> SUFFICES ASSUME s4'.pc = "rows", NEW x \in DOMAIN s4'.held
                   PROVE  x \in Ids /\ s3'[x] # Vault!Absent /\ s4'.held[x] = s3'[x].enc
        BY DEF Vault!HeldIsStored, Vault!Held, Vault!Absent, Vault!None
      <3>1. s4'.held = [y \in Vault!Held \ {r} |-> s4.held[y]] BY <1>5
      <3>2. x \in Vault!Held \ {r} /\ s4'.held[x] = s4.held[x] BY <3>1
      <3>3. s3'[x] = s3[x] BY <1>6, <1>g, <3>2
      <3> QED BY <1>g, <3>2, <3>3
    <2>4. ~Vault!Disturbed => Vault!NewIsOwned' BY <1>1, <2>2, StillOwned
    <2> QED BY <1>10, <1>11, <2>2, <2>3, <2>4 DEF VaultKept, Vault!Truthful
  <1>13. CASE s3'[r].enc = Vault!None /\ s3'[r] # Vault!Absent /\ s3[r].enc # Vault!None
    <2>1. Vault!Erases BY <1>3, <1>13 DEF Vault!Erases
    <2> QED BY <1>10, <1>11, <2>1 DEF VaultKept
  <1> QED BY <1>7, <1>12, <1>13

\* What a script makes of a row is of the same value.
LEMMA PatchKeeps ==
    ASSUME NEW v, NEW row, Vault!Holds(row, v), s2 \in KeyIds \cup {Vault!Dev},
           NEW kind \in {"backfill", "rekey"}, Vault!ToDo(kind, row)
    PROVE  LET p == Vault!Patch(kind, row)
           IN  /\ p.enc \in Vault!Ciphers(v) \cup {Vault!None}
               /\ p.index \in Vault!IndexesOf(v) \cup {Vault!None}
               /\ p.enc # Vault!None => p.index # Vault!None \/ row.index # Vault!None
  <1> DEFINE p == Vault!Patch(kind, row)
  <1>1. row.enc.value = v BY HoldsValue
  <1>2. Vault!Encrypt(v) \in Vault!Ciphers(v) /\ Vault!BlindIndex(v) \in Vault!IndexesOf(v)
    BY SealedIsCipher DEF Vault!Encrypt
  <1>3. Vault!BlindIndex(v) # Vault!None BY <1>2, IndexesOfOne
  <1>4. CASE kind = "rekey"
    <2>1. p = [enc |-> Vault!Encrypt(v), index |-> Vault!BlindIndex(v)] BY <1>1, <1>4 DEF Vault!Patch
    <2>2. p.enc = Vault!Encrypt(v) /\ p.index = Vault!BlindIndex(v) BY <2>1
    <2> QED BY <1>2, <1>3, <2>2
  <1>5. CASE kind = "backfill" /\ Vault!Decrypt(row.enc) = Vault!None
    <2>1. p = [enc |-> Vault!None, index |-> Vault!None] BY <1>5 DEF Vault!Patch, Vault!Absent
    <2> QED BY <2>1
  <1>6. CASE kind = "backfill" /\ Vault!Decrypt(row.enc) # Vault!None
    <2>1. Vault!Decrypt(row.enc) = [form |-> "plain", value |-> row.enc.value] BY <1>6 DEF Vault!Decrypt
    <2>2. Vault!Decrypt(row.enc).value = v BY <1>1, <2>1
    <2>3. p = [enc   |-> IF row.enc.form = "plain" THEN Vault!Encrypt(v) ELSE Vault!None,
               index |-> IF row.index = Vault!None THEN Vault!BlindIndex(v) ELSE Vault!None]
      BY <1>1, <1>6, <2>2 DEF Vault!Patch
    <2>4. /\ p.enc = IF row.enc.form = "plain" THEN Vault!Encrypt(v) ELSE Vault!None
          /\ p.index = IF row.index = Vault!None THEN Vault!BlindIndex(v) ELSE Vault!None
      BY <2>3
    <2> QED BY <1>2, <1>3, <2>4
  <1> QED BY <1>4, <1>5, <1>6

\* A script reads a page, and writes what it has made of it.
LEMMA ScriptKeeps ==
    ASSUME Vault!TypeOK, Vault!Places, Vault!Truthful, Vault!ScriptPage \/ Vault!ScriptWrite
    PROVE  VaultKept
  <1>f. /\ s2 \in KeyIds \cup {Vault!Dev} /\ s6 \in [Ids -> Values] /\ DOMAIN s3 = Ids
    BY VaultFields
  <1>t. /\ s1 \subseteq KeyIds /\ (s1 # {} => s2 \in s1)
        /\ s4.pc \in {"idle", "page", "rows", "done", "failed"}
        /\ s5.pc \in {"idle", "page", "write"}
        /\ \A r \in Ids : s3[r] = Vault!Absent \/ s3[r].enc.form \in {"none", "plain", "v1", "v2"}
    BY DEF Vault!TypeOK
  <1>h. Vault!RowsHold BY DEF Vault!Truthful
  <1>1. CASE Vault!ScriptPage
    <2>1. UNCHANGED <<s1, s2, s3, s4, s6>> BY <1>1 DEF Vault!ScriptPage
    <2>2. PICK kind \in {"backfill", "rekey"}, page \in SUBSET Vault!Present :
             /\ \A r \in page : r \in Vault!Present /\ Vault!ToDo(kind, s3[r])
             /\ \/ s5' = Vault!NoJob
                \/ \E last \in page :
                     s5' = [pc |-> "write", kind |-> kind, after |-> last,
                            new |-> [r \in page |-> Vault!Patch(kind, s3[r])]]
      BY <1>1 DEF Vault!ScriptPage, Vault!FirstOf
    <2>3. Vault!RowsHold'
      BY <1>h, <2>1 DEF Vault!RowsHold, Vault!Absent, Vault!None, Vault!Holds, Vault!Ciphers,
                        Vault!IndexesOf, Vault!Sealed, Vault!Dev
    <2>4. ~Vault!Disturbed => Vault!HeldIsStored' BY <2>1, StillHeld
    <2>5. ASSUME s5'.pc \in {"idle", "write"}, Vault!NewIsOwned',
                 \/ s5' = Vault!NoJob
                 \/ s5' = [pc |-> "write", kind |-> s5'.kind, after |-> s5'.after, new |-> s5'.new]
          PROVE  VaultKept
      <3>1. Vault!TypeOK' BY <1>t, <2>1, <2>5 DEF Vault!TypeOK, Vault!Absent, Vault!None
      <3>2. s4' = s4 /\ Vault!Places BY <2>1
      <3>3. Vault!Places' BY <1>f, <2>1, <2>5, <3>2 DEF Vault!Places, Vault!NoJob, Vault!Dev
      <3> QED BY <2>3, <2>4, <2>5, <3>1, <3>3 DEF VaultKept, Vault!Truthful
    <2>6. CASE s5' = Vault!NoJob
      <3>1. s5'.pc = "idle" BY <2>6 DEF Vault!NoJob
      <3>2. Vault!NewIsOwned' BY <3>1 DEF Vault!NewIsOwned
      <3> QED BY <2>5, <2>6, <3>1, <3>2
    <2>7. CASE s5' # Vault!NoJob
      <3>1. PICK last \in page :
               s5' = [pc |-> "write", kind |-> kind, after |-> last,
                      new |-> [r \in page |-> Vault!Patch(kind, s3[r])]]
        BY <2>2, <2>7
      <3> DEFINE new == [r \in page |-> Vault!Patch(kind, s3[r])]
      <3>2. DOMAIN new = page /\ \A r \in page : new[r] = Vault!Patch(kind, s3[r]) OBVIOUS
      <3> HIDE DEF new
      <3>3. s5' = [pc |-> "write", kind |-> kind, after |-> last, new |-> new] BY <3>1 DEF new
      <3>4. /\ s5'.pc = "write" /\ s5'.new = new
            /\ s5' = [pc |-> "write", kind |-> s5'.kind, after |-> s5'.after, new |-> s5'.new]
        BY <3>3
      <3>5. ASSUME NEW r \in page
            PROVE  /\ r \in Ids /\ s3'[r] # Vault!Absent
                   /\ new[r].enc \in Vault!Ciphers(s6'[r]) \cup {Vault!None}
                   /\ new[r].index \in Vault!IndexesOf(s6'[r]) \cup {Vault!None}
                   /\ new[r].enc # Vault!None => new[r].index # Vault!None \/ s3'[r].index # Vault!None
        <4>1. r \in Ids /\ s3[r] # Vault!Absent /\ Vault!ToDo(kind, s3[r]) BY <2>2 DEF Vault!Present
        <4>2. Vault!Holds(s3[r], s6[r]) BY <1>h, <4>1 DEF Vault!RowsHold
        <4> QED BY <1>f, <2>1, <3>2, <4>1, <4>2, PatchKeeps
      <3>6. Vault!NewIsOwned'
        BY <3>2, <3>4, <3>5 DEF Vault!NewIsOwned, Vault!Absent, Vault!None, Vault!Ciphers,
                                Vault!IndexesOf, Vault!Sealed, Vault!Dev
      <3> QED BY <2>5, <3>4, <3>6
    <2> QED BY <2>6, <2>7
  <1>2. CASE Vault!ScriptWrite
    <2>1. /\ UNCHANGED <<s1, s2, s4, s6>> /\ s5.pc = "write"
          /\ s5' = [pc |-> "page", kind |-> s5.kind, after |-> s5.after]
          /\ s3' = [r \in Ids |-> IF r \in DOMAIN s5.new /\ s3[r] # Vault!Absent
                                  THEN Vault!Coalesce(s5.new[r], s3[r]) ELSE s3[r]]
      BY <1>2 DEF Vault!ScriptWrite
    <2>2. s5'.pc = "page" /\ s5' = [pc |-> "page", kind |-> s5'.kind, after |-> s5'.after] BY <2>1
    <2>3. ASSUME NEW r \in Ids
          PROVE  s3'[r] = Vault!Absent \/ Vault!Holds(s3'[r], s6'[r])
      <3>1. s3[r] = Vault!Absent \/ Vault!Holds(s3[r], s6[r]) BY <1>h DEF Vault!RowsHold
      <3>2. CASE r \in DOMAIN s5.new /\ s3[r] # Vault!Absent
        <4> DEFINE p == s5.new[r]
                   e == IF p.enc = Vault!None THEN s3[r].enc ELSE p.enc
                   i == IF p.index = Vault!None THEN s3[r].index ELSE p.index
        <4>1. s3'[r] = [enc |-> e, index |-> i] BY <2>1, <3>2 DEF Vault!Coalesce
        <4>2. /\ p.enc \in Vault!Ciphers(s6[r]) \cup {Vault!None}
              /\ p.index \in Vault!IndexesOf(s6[r]) \cup {Vault!None}
              /\ p.enc # Vault!None => p.index # Vault!None \/ s3[r].index # Vault!None
          BY <2>1, <3>2 DEF Vault!Truthful, Vault!NewIsOwned
        <4>3. /\ s3[r].enc \in Vault!Ciphers(s6[r])
              /\ s3[r].index \in Vault!IndexesOf(s6[r])
                 \/ (s3[r].index = Vault!None /\ s3[r].enc.form = "plain")
          BY <3>1, <3>2 DEF Vault!Holds
        <4> HIDE DEF p
        <4>4. e \in Vault!Ciphers(s6[r]) BY <4>2, <4>3
        <4>5. i \in Vault!IndexesOf(s6[r]) \/ (i = Vault!None /\ e.form = "plain")
          BY <4>2, <4>3
        <4> HIDE DEF e, i
        <4>6. Vault!Holds([enc |-> e, index |-> i], s6[r]) BY <4>4, <4>5, HoldsWhen
        <4> QED BY <2>1, <4>1, <4>6
      <3>3. CASE ~(r \in DOMAIN s5.new /\ s3[r] # Vault!Absent) BY <2>1, <3>1, <3>3
      <3> QED BY <3>2, <3>3
    <2>4. Vault!RowsHold'
      BY <2>3 DEF Vault!RowsHold, Vault!Absent, Vault!None, Vault!Holds, Vault!Ciphers,
                  Vault!IndexesOf, Vault!Sealed, Vault!Dev
    <2>5. \A r \in Ids : s3'[r] = Vault!Absent \/ s3'[r].enc.form \in {"none", "plain", "v1", "v2"}
      BY <2>3, HoldsValue
    <2>6. Vault!TypeOK' BY <1>t, <2>1, <2>2, <2>5 DEF Vault!TypeOK, Vault!Absent, Vault!None
    <2>7. DOMAIN s3' = Ids BY <2>1
    <2>8. Vault!Places' BY <1>f, <2>1, <2>2, <2>7 DEF Vault!Places, Vault!NoJob, Vault!Dev
    <2>9. ~Vault!Disturbed => Vault!HeldIsStored' BY <2>1, StillHeld
    <2>10. Vault!NewIsOwned' BY <2>2 DEF Vault!NewIsOwned
    <2> QED BY <2>4, <2>6, <2>8, <2>9, <2>10 DEF VaultKept, Vault!Truthful
  <1> QED BY <1>1, <1>2

LEMMA VaultNextKeeps ==
    ASSUME VaultInv, VaultNext
    PROVE  VaultInv'
  <1>1. Vault!TypeOK /\ Vault!Places /\ Vault!Truthful BY DEF VaultInv, VaultNext
  <1>2. Vault!Step /\ overlapped' = (overlapped \/ Vault!Disturbed) /\ s7' = (s7 \/ Vault!Erases)
    BY DEF VaultNext, Vault!Next
  <1>3. VaultKept
    BY <1>1, <1>2, ApplicationKeeps, PagingKeeps, RowKeeps, ScriptKeeps DEF Vault!Step
  <1> QED BY <1>2, <1>3 DEF VaultKept, VaultInv

-----------------------------------------------------------------------------
(* The imports.                                                                *)

LEMMA ImportSets ==
    \A S : /\ Import!IsFiniteSet(S) = IsFiniteSet(S)
           /\ Import!Cardinality(S) = Cardinality(S)
  <1>1. \A S : Import!IsFiniteSet(S) = IsFiniteSet(S)
    BY DEF IsFiniteSet, Import!IsFiniteSet
  <1>2. \A S : Import!Cardinality(S) = Cardinality(S)
    BY DEF Cardinality, Import!Cardinality
  <1> QED BY <1>1, <1>2

\* The first of some numbers is one of them.
LEMMA FirstIsOne ==
    ASSUME NEW S \in SUBSET Nat, S # {}
    PROVE  Import!First(S) \in S
  <1>1. PICK m \in S : \A k \in S : <<k, m>> \notin OpToRel(<, Nat)
    BY NatLessThanWellFounded, WFMin, Zenon
  <1>2. \A k \in S : ~(k < m) BY <1>1 DEF OpToRel
  <1>3. \E r \in S : \A s \in S : r <= s BY <1>2
  <1> QED BY <1>3 DEF Import!First

\* A taxpayer that is found by a row's identifiers carries one of them.
LEMMA FoundCarries ==
    ASSUME s6 \in Seq(SUBSET Kinds), NEW ids \in SUBSET Kinds, NEW order,
           order \in {Import!AllKinds, Import!Fallback}
    PROVE  LET t == Import!FoundBy(ids, order)
           IN  t = 0 \/ (t \in DOMAIN s6 /\ ids \cap s6[t] # {})
  <1> DEFINE hits == {i \in DOMAIN order : order[i] \in ids /\ Import!Holder(order[i]) # {}}
  <1>1. DOMAIN order \in SUBSET Nat
    BY DEF Import!AllKinds, Import!Fallback
  <1>2. CASE hits = {} BY <1>2 DEF Import!FoundBy
  <1>3. CASE hits # {}
    <2>1. hits \in SUBSET Nat BY <1>1
    <2>2. PICK i \in hits : i = Import!First(hits) BY <1>3, <2>1, FirstIsOne
    <2>3. order[i] \in ids /\ Import!Holder(order[i]) # {} OBVIOUS
    <2>4. DOMAIN s6 \in SUBSET Nat BY LenProperties
    <2>5. Import!Holder(order[i]) \in SUBSET DOMAIN s6 BY DEF Import!Holder
    <2>6. Import!First(Import!Holder(order[i])) \in Import!Holder(order[i])
      BY <2>3, <2>4, <2>5, FirstIsOne
    <2>7. Import!FoundBy(ids, order) = Import!First(Import!Holder(order[i]))
      BY <1>3, <2>2 DEF Import!FoundBy
    <2> QED BY <2>3, <2>6, <2>7 DEF Import!Holder
  <1> QED BY <1>2, <1>3

\* The second look finds nobody only where it leaves the NIN out.
LEMMA FallbackFinds ==
    ASSUME NEW ids \in SUBSET Kinds, NEW k \in ids, Import!Holder(k) # {},
           s6 \in Seq(SUBSET Kinds),
           s1 \in {"erev", "templates", "filings", "tagged"},
           Import!FoundBy(ids, Import!Fallback) = 0
    PROVE  s1 \in {"erev", "templates"} /\ "nin" \in ids
  <1> DEFINE order == Import!Fallback
             hits == {i \in DOMAIN order : order[i] \in ids /\ Import!Holder(order[i]) # {}}
  <1>1. DOMAIN order \in SUBSET Nat BY DEF Import!AllKinds, Import!Fallback
  <1>2. hits = {}
    <2> SUFFICES ASSUME hits # {} PROVE FALSE OBVIOUS
    <2>1. PICK i \in hits : i = Import!First(hits) BY <1>1, FirstIsOne
    <2>2. Import!Holder(order[i]) # {} OBVIOUS
    <2>3. Import!Holder(order[i]) \in SUBSET DOMAIN s6 /\ DOMAIN s6 \in SUBSET Nat /\ 0 \notin DOMAIN s6
      BY LenProperties DEF Import!Holder
    <2>4. Import!First(Import!Holder(order[i])) \in DOMAIN s6 BY <2>2, <2>3, FirstIsOne
    <2>5. Import!FoundBy(ids, order) = Import!First(Import!Holder(order[i]))
      BY <2>1 DEF Import!FoundBy
    <2> QED BY <2>3, <2>4, <2>5
  <1>3. k \in {"bvn", "tin", "nin"} BY ImportConstants DEF Import!ImportAssumption
  <1>4. CASE s1 \in {"erev", "templates"}
    <2>1. order = <<"bvn", "tin">> BY <1>4 DEF Import!Fallback
    <2>2. 1 \in DOMAIN order /\ 2 \in DOMAIN order /\ order[1] = "bvn" /\ order[2] = "tin"
      BY <2>1
    <2>3. k \notin {"bvn", "tin"} BY <1>2, <2>2
    <2> QED BY <1>3, <1>4, <2>3
  <1>5. CASE s1 \notin {"erev", "templates"}
    <2>1. order = <<"bvn", "tin", "nin">> BY <1>5 DEF Import!Fallback, Import!AllKinds
    <2>2. 1 \in DOMAIN order /\ 2 \in DOMAIN order /\ 3 \in DOMAIN order
          /\ order[1] = "bvn" /\ order[2] = "tin" /\ order[3] = "nin"
      BY <2>1
    <2> QED BY <1>2, <1>3, <2>2
  <1> QED BY <1>4, <1>5

\* The counters of a submission that is counted.
LEMMA TalliedCounts ==
    ASSUME NEW s, Import!IsFiniteSet(s5), s4[s] \in [pair : Pair, count : Nat, accepted : Nat]
    PROVE  /\ Import!Tallied(s) \in [pair : Pair, count : Nat, accepted : Nat]
           /\ Import!Tallied(s).pair = s4[s].pair
           /\ Import!Tallied(s).count = Import!Cardinality(Import!RowsOf(s))
           /\ Import!Tallied(s).accepted <= Import!Tallied(s).count
  <1>1. Import!RowsOf(s) \subseteq s5 /\ Import!Accepted(s) \subseteq Import!RowsOf(s)
    BY DEF Import!RowsOf, Import!Accepted
  <1>2. IsFiniteSet(Import!RowsOf(s)) BY <1>1, ImportSets, FS_Subset
  <1>3. /\ IsFiniteSet(Import!Accepted(s))
        /\ Cardinality(Import!Accepted(s)) <= Cardinality(Import!RowsOf(s))
    BY <1>1, <1>2, FS_Subset
  <1>4. Cardinality(Import!Accepted(s)) \in Nat /\ Cardinality(Import!RowsOf(s)) \in Nat
    BY <1>2, <1>3, FS_CardinalityType
  <1> DEFINE c == Import!Cardinality(Import!RowsOf(s))
             a == Import!Cardinality(Import!Accepted(s))
  <1>5. c \in Nat /\ a \in Nat /\ a <= c BY <1>3, <1>4, ImportSets
  <1>6. Import!Tallied(s) = [s4[s] EXCEPT !.count = c, !.accepted = a] BY DEF Import!Tallied
  <1> HIDE DEF c, a
  <1>7. /\ Import!Tallied(s) \in [pair : Pair, count : Nat, accepted : Nat]
        /\ Import!Tallied(s).pair = s4[s].pair /\ Import!Tallied(s).count = c
        /\ Import!Tallied(s).accepted = a
    BY <1>5, <1>6
  <1> QED BY <1>5, <1>7 DEF c

LEMMA ImportFields ==
    ASSUME Import!Kept
    PROVE  /\ s1 \in {"erev", "templates", "filings", "tagged"} /\ s3 \in BOOLEAN
           /\ s2 \in [FileRows -> [pair : Pair, ids : SUBSET Kinds]]
           /\ \A r \in FileRows : s2[r].pair \in Pair /\ s2[r].ids \in SUBSET Kinds
           /\ s4 \in Seq([pair : Pair, count : Nat, accepted : Nat])
           /\ Len(s4) \in Nat /\ Len(s4) # 0 /\ DOMAIN s4 = 1..Len(s4)
           /\ \A s \in DOMAIN s4 : s4[s] \in [pair : Pair, count : Nat, accepted : Nat]
           /\ s6 \in Seq(SUBSET Kinds) /\ Len(s6) \in Nat /\ DOMAIN s6 = 1..Len(s6)
           /\ \A x \in s5 : x.sub \in DOMAIN s4 /\ x.owner \in 0..Len(s6)
           /\ s7 \in Import!Jobs /\ s7.subOf \in [Pair -> Nat] /\ s7.owner \in [FileRows -> Nat]
           /\ s7.pc \in [FileRows -> {"wait", "create", "write", "done", "skipped"}]
           /\ s7.at \in {"idle", "open", "rows", "count", "done"} /\ s7.from \in Nat
           /\ s8 \in 0..MaxImports /\ s9 \in 0..MaxSpoils
           /\ MaxImports \in Nat /\ MaxSpoils \in Nat /\ FileRows \subseteq Nat \ {0}
           /\ Batch \in Nat \ {0}
  <1>1. Import!TypeOK /\ Import!Places BY DEF Import!Kept
  <1>2. s4 \in Seq([pair : Pair, count : Nat, accepted : Nat]) /\ s6 \in Seq(SUBSET Kinds)
    BY <1>1 DEF Import!TypeOK
  <1>3. /\ Len(s4) \in Nat /\ DOMAIN s4 = 1..Len(s4)
        /\ \A s \in DOMAIN s4 : s4[s] \in [pair : Pair, count : Nat, accepted : Nat]
        /\ Len(s6) \in Nat /\ DOMAIN s6 = 1..Len(s6)
    BY <1>2, LenProperties, ElementOfSeq
  <1>4. /\ MaxImports \in Nat /\ MaxSpoils \in Nat /\ FileRows \subseteq Nat \ {0}
        /\ Batch \in Nat \ {0}
    BY ImportConstants DEF Import!ImportAssumption
  <1>5. s7 \in Import!Jobs /\ s2 \in [FileRows -> [pair : Pair, ids : SUBSET Kinds]] /\ Len(s4) # 0
    BY <1>1 DEF Import!Places
  <1>6. /\ s7.subOf \in [Pair -> Nat] /\ s7.owner \in [FileRows -> Nat]
        /\ s7.pc \in [FileRows -> {"wait", "create", "write", "done", "skipped"}]
        /\ s7.at \in {"idle", "open", "rows", "count", "done"} /\ s7.from \in Nat
    BY <1>5 DEF Import!Jobs
  <1>7. \A r \in FileRows : s2[r].pair \in Pair /\ s2[r].ids \in SUBSET Kinds BY <1>5
  <1>8. s1 \in {"erev", "templates", "filings", "tagged"} /\ s3 \in BOOLEAN
        /\ s8 \in 0..MaxImports /\ s9 \in 0..MaxSpoils
        /\ \A x \in s5 : x.sub \in DOMAIN s4 /\ x.owner \in 0..Len(s6)
    BY <1>1 DEF Import!TypeOK
  <1> QED BY <1>2, <1>3, <1>4, <1>5, <1>6, <1>7, <1>8

\* A step that leaves the rows there are as they are, and moves only the run.
LEMMA RunMoves ==
    ASSUME Import!Kept, s1' = s1, s2' = s2, s4' = s4, s5' = s5, s6' = s6,
           s3' = s3 \/ s3' = TRUE, ~s3' => s7'.at = "idle",
           s7' \in Import!Jobs, s8' \in 0..MaxImports, s9' \in 0..MaxSpoils,
           \A p \in Pair : s7'.subOf[p] # 0 =>
               s7'.subOf[p] \in DOMAIN s4 /\ s4[s7'.subOf[p]].pair = p,
           s7'.at = "open" => \A r \in FileRows : s7'.pc[r] = "wait",
           s7'.at = "rows" => \A r \in FileRows : s7'.subOf[s2[r].pair] # 0,
           s7'.at \in {"rows", "count", "done"} =>
               /\ s7.at \in {"rows", "count", "done"}
               /\ \A r \in FileRows : s7'.pc[r] = "done" <=> s7.pc[r] = "done",
           s7'.at \in {"count", "done"} =>
               s7'.subOf = s7.subOf /\ (s7'.at = s7.at \/ (s7'.at = "count" /\ s7.at = "rows")),
           \A r \in FileRows : s7'.pc[r] = "write" => Import!MayOwn(r, s7'.owner[r])
    PROVE  Import!Kept'
  <1>f. /\ s1 \in {"erev", "templates", "filings", "tagged"} /\ s3 \in BOOLEAN
        /\ s2 \in [FileRows -> [pair : Pair, ids : SUBSET Kinds]]
        /\ \A r \in FileRows : s2[r].pair \in Pair
        /\ s7.at \in {"idle", "open", "rows", "count", "done"}
    BY ImportFields
  <1>k. /\ Import!TypeOK /\ Import!Places /\ Import!SubOfPeriod /\ Import!RowsOfImport
        /\ Import!WrittenOnce /\ Import!CountedOrWaiting /\ Import!OwnersFound
        /\ Import!OneUploadPerPeriod /\ Import!OthersRowsStay /\ Import!NothingUnlessResolved
    BY DEF Import!Kept
  <1>a. s7'.at \in {"idle", "open", "rows", "count", "done"} BY DEF Import!Jobs
  <1>1. Import!TypeOK' BY <1>k, <1>a DEF Import!TypeOK
  <1>2. Import!Places' BY <1>k DEF Import!Places, Import!Jobs
  <1>3. Import!SubOfPeriod' BY DEF Import!SubOfPeriod
  <1>4. Import!RowsOfImport' BY <1>k DEF Import!RowsOfImport
  <1>5. Import!WrittenOnce' BY <1>k DEF Import!WrittenOnce, Import!Copies
  <1>6. Import!CountedOrWaiting'
    <2> SUFFICES ASSUME s7'.at \in {"count", "done"}, NEW r \in FileRows, NEW s \in DOMAIN s4,
                        s4[s].pair = s2[r].pair
                 PROVE  Import!Counted(s) \/ (s7'.at = "count" /\ s7'.subOf[s2[r].pair] = s)
      BY DEF Import!CountedOrWaiting, Import!Counted, Import!RowsOf
    <2>1. CASE s7.at \in {"count", "done"} /\ s7'.at = s7.at
      BY <1>k, <2>1 DEF Import!CountedOrWaiting
    <2>2. CASE s7'.at = "count" /\ s7.at = "rows"
      <3>1. s7.subOf[s2[r].pair] # 0 BY <1>k, <2>2 DEF Import!SubOfPeriod
      <3>2. s7.subOf[s2[r].pair] \in DOMAIN s4 /\ s4[s7.subOf[s2[r].pair]].pair = s2[r].pair
        BY <1>f, <1>k, <3>1 DEF Import!SubOfPeriod
      <3>3. s7.subOf[s2[r].pair] = s BY <1>k, <3>2 DEF Import!OneUploadPerPeriod
      <3> QED BY <2>2, <3>3
    <2> QED BY <2>1, <2>2
  <1>7. Import!OwnersFound' BY <1>k DEF Import!OwnersFound, Import!MayOwn
  <1>8. Import!OneUploadPerPeriod' BY <1>k DEF Import!OneUploadPerPeriod
  <1>9. Import!OthersRowsStay' BY <1>k DEF Import!OthersRowsStay, Import!Archive
  <1>10. Import!NothingUnlessResolved' BY <1>k DEF Import!NothingUnlessResolved, Import!Archive
  <1> QED BY <1>1, <1>2, <1>3, <1>4, <1>5, <1>6, <1>7, <1>8, <1>9, <1>10 DEF Import!Kept

\* A run starts, is cut off, or goes on to the next rows or to the count.
LEMMA RunsKeep ==
    ASSUME Import!Kept, Import!Start \/ Import!Crash \/ Import!Flush
    PROVE  Import!Kept'
  <1>f. /\ s7 \in Import!Jobs /\ s7.subOf \in [Pair -> Nat] /\ s7.owner \in [FileRows -> Nat]
        /\ s7.pc \in [FileRows -> {"wait", "create", "write", "done", "skipped"}]
        /\ s7.from \in Nat /\ Batch \in Nat \ {0} /\ s3 \in BOOLEAN
        /\ s8 \in 0..MaxImports /\ s9 \in 0..MaxSpoils /\ MaxImports \in Nat
    BY ImportFields
  <1>k. /\ Import!SubOfPeriod /\ Import!OwnersFound /\ (~s3 => s7.at = "idle")
    BY DEF Import!Kept, Import!Places
  <1>i. /\ Import!Idle \in Import!Jobs /\ Import!Idle.at = "idle"
        /\ \A p \in Pair : Import!Idle.subOf[p] = 0
        /\ \A r \in FileRows : Import!Idle.pc[r] = "wait"
    BY DEF Import!Idle, Import!Jobs
  <1>1. CASE Import!Crash
    <2>1. s7' = Import!Idle /\ UNCHANGED <<s1, s2, s3, s4, s5, s6, s8, s9>>
      BY <1>1 DEF Import!Crash, Import!db
    <2> QED BY <1>f, <1>i, <2>1, RunMoves
  <1>2. CASE Import!Start
    <2>1. /\ s7' = [Import!Idle EXCEPT !.at = "open"] /\ s3' = TRUE /\ s8' = s8 + 1
          /\ s8 < MaxImports /\ UNCHANGED <<s1, s2, s4, s5, s6, s9>>
      BY <1>2 DEF Import!Start, Import!db
    <2>2. /\ s7' \in Import!Jobs /\ s7'.at = "open"
          /\ s7'.subOf = Import!Idle.subOf /\ s7'.pc = Import!Idle.pc
      BY <1>i, <2>1 DEF Import!Jobs
    <2>3. s8' \in 0..MaxImports BY <1>f, <2>1
    <2> QED BY <1>f, <1>i, <2>1, <2>2, <2>3, RunMoves
  <1>3. CASE Import!Flush
    <2>1. UNCHANGED <<s1, s2, s3, s4, s5, s6, s8, s9>> /\ s7.at = "rows"
      BY <1>3 DEF Import!Flush, Import!db
    <2>2. \/ s7' = [s7 EXCEPT !.from = s7.from + Batch]
          \/ s7' = [s7 EXCEPT !.at = "count"]
      BY <1>3 DEF Import!Flush
    <2>3. /\ s7' \in Import!Jobs /\ s7'.at \in {"rows", "count"}
          /\ s7'.subOf = s7.subOf /\ s7'.pc = s7.pc /\ s7'.owner = s7.owner
      BY <1>f, <2>1, <2>2 DEF Import!Jobs
    <2>4. s3 BY <1>k, <2>1
    <2>5. /\ \A p \in Pair : s7'.subOf[p] # 0 =>
               s7'.subOf[p] \in DOMAIN s4 /\ s4[s7'.subOf[p]].pair = p
          /\ \A r \in FileRows : s7'.subOf[s2[r].pair] # 0
          /\ \A r \in FileRows : s7'.pc[r] = "write" => Import!MayOwn(r, s7'.owner[r])
      BY <1>k, <2>1, <2>3 DEF Import!SubOfPeriod, Import!OwnersFound
    <2> QED BY <1>f, <2>1, <2>3, <2>4, <2>5, RunMoves
  <1> QED BY <1>1, <1>2, <1>3

\* A row looks for its owner, or fails.
LEMMA LookKeeps ==
    ASSUME Import!Kept, NEW r \in FileRows, Import!Look(r) \/ Import!Spoil(r)
    PROVE  Import!Kept'
  <1>f. /\ s7 \in Import!Jobs /\ s7.subOf \in [Pair -> Nat] /\ s7.owner \in [FileRows -> Nat]
        /\ s7.pc \in [FileRows -> {"wait", "create", "write", "done", "skipped"}]
        /\ s3 \in BOOLEAN /\ s8 \in 0..MaxImports /\ s9 \in 0..MaxSpoils /\ MaxSpoils \in Nat
        /\ s2[r].ids \in SUBSET Kinds /\ s6 \in Seq(SUBSET Kinds)
    BY ImportFields
  <1>d. DOMAIN s6 \subseteq Nat BY ImportFields
  <1>k. /\ Import!SubOfPeriod /\ Import!OwnersFound /\ (~s3 => s7.at = "idle")
    BY DEF Import!Kept, Import!Places
  <1>1. /\ UNCHANGED <<s1, s2, s3, s4, s5, s6, s8>> /\ s7.at = "rows" /\ s9' \in 0..MaxSpoils
        /\ s7.pc[r] # "done"
    BY <1>f DEF Import!Look, Import!Spoil, Import!db, Import!InBatch, Import!Settled
  <1>2. \E q \in {"create", "write", "skipped"}, o \in Nat :
          /\ s7' = [s7 EXCEPT !.pc[r] = q, !.owner[r] = o]
          /\ q = "write" => Import!MayOwn(r, o)
    <2>1. CASE Import!Look(r)
      <3> DEFINE t == Import!FoundBy(s2[r].ids, Import!AllKinds)
      <3>1. s7' = [s7 EXCEPT !.pc[r] = IF t = 0 THEN "create" ELSE "write", !.owner[r] = t]
        BY <2>1 DEF Import!Look
      <3>2. t = 0 \/ (t \in DOMAIN s6 /\ s2[r].ids \cap s6[t] # {}) BY <1>f, FoundCarries
      <3> HIDE DEF t
      <3>3. t \in Nat /\ (t # 0 => Import!MayOwn(r, t)) BY <1>d, <3>2 DEF Import!MayOwn
      <3> QED BY <3>1, <3>3
    <2>2. CASE Import!Spoil(r)
      <3>1. s7' = [s7 EXCEPT !.pc[r] = "skipped"] BY <2>2 DEF Import!Spoil
      <3>2. s7' = [s7 EXCEPT !.pc[r] = "skipped", !.owner[r] = s7.owner[r]]
        BY <1>f, <3>1 DEF Import!Jobs
      <3> QED BY <1>f, <3>2
    <2> QED BY <2>1, <2>2
  <1>3. PICK q \in {"create", "write", "skipped"}, o \in Nat :
          /\ s7' = [s7 EXCEPT !.pc[r] = q, !.owner[r] = o]
          /\ q = "write" => Import!MayOwn(r, o)
    BY <1>2
  <1>4. /\ s7' \in Import!Jobs /\ s7'.at = "rows" /\ s7'.subOf = s7.subOf
        /\ s7'.pc = [s7.pc EXCEPT ![r] = q] /\ s7'.owner = [s7.owner EXCEPT ![r] = o]
    BY <1>f, <1>1, <1>3 DEF Import!Jobs
  <1>5. s3 BY <1>k, <1>1
  <1>6. /\ \A p \in Pair : s7'.subOf[p] # 0 =>
               s7'.subOf[p] \in DOMAIN s4 /\ s4[s7'.subOf[p]].pair = p
        /\ \A x \in FileRows : s7'.subOf[s2[x].pair] # 0
    BY <1>k, <1>1, <1>4 DEF Import!SubOfPeriod
  <1>7. \A x \in FileRows : s7'.pc[x] = "done" <=> s7.pc[x] = "done" BY <1>f, <1>1, <1>4
  <1>8. \A x \in FileRows : s7'.pc[x] = "write" => Import!MayOwn(x, s7'.owner[x])
    BY <1>f, <1>k, <1>3, <1>4 DEF Import!OwnersFound
  <1> QED BY <1>f, <1>1, <1>4, <1>5, <1>6, <1>7, <1>8, RunMoves

\* A period's submission is found, or made.
LEMMA OpenKeeps ==
    ASSUME Import!Kept, Import!Open
    PROVE  Import!Kept'
  <1>f. /\ s1 \in {"erev", "templates", "filings", "tagged"} /\ s3 \in BOOLEAN
        /\ s2 \in [FileRows -> [pair : Pair, ids : SUBSET Kinds]]
        /\ \A r \in FileRows : s2[r].pair \in Pair
        /\ s4 \in Seq([pair : Pair, count : Nat, accepted : Nat]) /\ Len(s4) \in Nat /\ Len(s4) # 0
        /\ DOMAIN s4 = 1..Len(s4)
        /\ s7 \in Import!Jobs /\ s7.subOf \in [Pair -> Nat] /\ s7.owner \in [FileRows -> Nat]
        /\ s7.pc \in [FileRows -> {"wait", "create", "write", "done", "skipped"}]
        /\ s8 \in 0..MaxImports /\ s9 \in 0..MaxSpoils /\ FileRows \subseteq Nat
    BY ImportFields
  <1>k. /\ Import!TypeOK /\ Import!Places /\ Import!SubOfPeriod /\ Import!RowsOfImport
        /\ Import!OwnersFound /\ Import!OneUploadPerPeriod /\ Import!OthersRowsStay
    BY DEF Import!Kept
  <1>1. UNCHANGED <<s1, s2, s3, s5, s6, s8, s9>> /\ s7.at = "open" /\ Import!Wanted # {}
    BY DEF Import!Open
  <1>2. s3 BY <1>k, <1>1 DEF Import!Places
  <1>3. PICK p : p = s2[Import!First(Import!Wanted)].pair OBVIOUS
  <1>4. p \in Pair
    <2>1. Import!Wanted \subseteq FileRows BY DEF Import!Wanted
    <2>2. Import!First(Import!Wanted) \in FileRows BY <1>f, <1>1, <2>1, FirstIsOne
    <2> QED BY <1>f, <1>3, <2>2
  <1>5. CASE Import!OldestOf(p) # {}
    <2>1. PICK s : s = Import!First(Import!OldestOf(p)) OBVIOUS
    <2>2. s4' = s4 /\ s7' = [s7 EXCEPT !.subOf[p] = s]
      BY <1>3, <1>5, <2>1 DEF Import!Open
    <2>3. Import!OldestOf(p) \subseteq DOMAIN s4 /\ Import!OldestOf(p) \in SUBSET Nat
      BY <1>f DEF Import!OldestOf
    <2>4. s \in Import!OldestOf(p) BY <1>5, <2>1, <2>3, FirstIsOne
    <2>5. s \in DOMAIN s4 /\ s \in Nat /\ s4[s].pair = p BY <2>3, <2>4 DEF Import!OldestOf
    <2>6. /\ s7' \in Import!Jobs /\ s7'.at = "open" /\ s7'.pc = s7.pc /\ s7'.owner = s7.owner
          /\ s7'.subOf = [s7.subOf EXCEPT ![p] = s]
      BY <1>f, <1>1, <1>4, <2>2, <2>5 DEF Import!Jobs
    <2>7. \A q \in Pair : s7'.subOf[q] # 0 =>
               s7'.subOf[q] \in DOMAIN s4 /\ s4[s7'.subOf[q]].pair = q
      BY <1>f, <1>k, <2>5, <2>6 DEF Import!SubOfPeriod
    <2>8. \A r \in FileRows : s7'.pc[r] = "write" => Import!MayOwn(r, s7'.owner[r])
      BY <1>k, <2>6 DEF Import!OwnersFound
    <2>9. \A r \in FileRows : s7'.pc[r] = "wait" BY <1>k, <1>1, <2>6 DEF Import!Places
    <2> QED BY <1>f, <1>1, <1>2, <2>2, <2>6, <2>7, <2>8, <2>9, RunMoves
  <1>6. CASE Import!OldestOf(p) = {}
    <2> DEFINE new == [pair |-> p, count |-> 0, accepted |-> 0]
               n == Len(s4) + 1
    <2>1. s4' = Append(s4, new) /\ s7' = [s7 EXCEPT !.subOf[p] = Len(s4')]
      BY <1>3, <1>6 DEF Import!Open
    <2>2. new \in [pair : Pair, count : Nat, accepted : Nat] /\ new.pair = p BY <1>4
    <2> HIDE DEF new
    <2>a. s4 \in Seq([pair : Pair, count : Nat, accepted : Nat]) BY <1>f
    <2>b. /\ Append(s4, new) \in Seq([pair : Pair, count : Nat, accepted : Nat])
          /\ Len(Append(s4, new)) = n /\ Append(s4, new)[n] = new
          /\ \A i \in 1..Len(s4) : Append(s4, new)[i] = s4[i]
      BY <2>2, <2>a, AppendProperties
    <2>c. DOMAIN Append(s4, new) = 1..n BY <2>b, LenProperties
    <2> HIDE DEF n
    <2>3. /\ s4' \in Seq([pair : Pair, count : Nat, accepted : Nat]) /\ Len(s4') = n
          /\ DOMAIN s4' = 1..n /\ s4'[n] = new /\ \A i \in 1..Len(s4) : s4'[i] = s4[i]
      BY <2>1, <2>b, <2>c
    <2> USE DEF n
    <2>d. DOMAIN s4 = 1..Len(s4) /\ Len(s4) \in Nat BY <1>f
    <2>e. DOMAIN s4' = 1..n BY <2>3
    <2>4. n \in Nat /\ n # 0 /\ DOMAIN s4 \subseteq DOMAIN s4' /\ n \notin DOMAIN s4 BY <2>d, <2>e
    <2>5. \A i \in DOMAIN s4' : i = n \/ i \in DOMAIN s4 BY <2>d, <2>e
    <2>6. \A i \in DOMAIN s4 : s4'[i] = s4[i] BY <2>d, <2>3
    <2>7. \A i \in DOMAIN s4 : s4[i].pair # p BY <1>6 DEF Import!OldestOf
    <2> HIDE DEF n
    <2>8. s7' = [s7 EXCEPT !.subOf[p] = n] BY <2>1, <2>3
    <2>9. /\ s7' \in Import!Jobs /\ s7'.at = "open" /\ s7'.pc = s7.pc /\ s7'.owner = s7.owner
          /\ s7'.subOf = [s7.subOf EXCEPT ![p] = n]
      BY <1>f, <1>1, <1>4, <2>4, <2>8 DEF Import!Jobs
    <2>10. Import!TypeOK' BY <1>k, <1>1, <2>3, <2>4, <2>9 DEF Import!TypeOK
    <2>11. Import!Places' BY <1>k, <1>1, <1>2, <2>3, <2>4, <2>9 DEF Import!Places, Import!Jobs
    <2>12. Import!SubOfPeriod'
      <3> SUFFICES ASSUME NEW q \in Pair, s7'.subOf[q] # 0
                   PROVE  s7'.subOf[q] \in DOMAIN s4' /\ s4'[s7'.subOf[q]].pair = q
        BY <2>9 DEF Import!SubOfPeriod
      <3>1. CASE q = p BY <1>f, <1>4, <2>2, <2>3, <2>9, <3>1
      <3>2. CASE q # p
        <4>1. s7'.subOf[q] = s7.subOf[q] BY <1>f, <2>9, <3>2
        <4> QED BY <1>k, <2>4, <2>6, <4>1 DEF Import!SubOfPeriod
      <3> QED BY <3>1, <3>2
    <2>13. Import!RowsOfImport'
      BY <1>k, <1>1, <2>6 DEF Import!RowsOfImport, Import!TypeOK
    <2>14. Import!WrittenOnce' /\ Import!CountedOrWaiting'
      BY <2>9 DEF Import!WrittenOnce, Import!CountedOrWaiting
    <2>15. Import!OwnersFound' BY <1>k, <1>1, <2>9 DEF Import!OwnersFound, Import!MayOwn
    <2>16. Import!OneUploadPerPeriod'
      <3> SUFFICES ASSUME NEW q \in DOMAIN s4', NEW r \in DOMAIN s4', s4'[q].pair = s4'[r].pair
                   PROVE  q = r
        BY Zenon DEF Import!OneUploadPerPeriod
      <3>1. \A i \in DOMAIN s4 : s4'[i].pair # p BY <2>6, <2>7, Zenon
      <3>2. s4'[n].pair = p BY <2>2, <2>3, Zenon
      <3>3. q = n <=> r = n BY <2>5, <3>1, <3>2, Zenon
      <3>4. CASE q # n
        <4>1. q \in DOMAIN s4 /\ r \in DOMAIN s4 BY <2>5, <3>3, <3>4, Zenon
        <4>2. s4[q].pair = s4[r].pair BY <2>6, <4>1, Zenon
        <4> QED BY <1>k, <4>1, <4>2, Zenon DEF Import!OneUploadPerPeriod
      <3> QED BY <3>3, <3>4, Zenon
    <2>17. Import!OthersRowsStay' /\ Import!NothingUnlessResolved'
      BY <1>k, <1>1, <1>2 DEF Import!OthersRowsStay, Import!NothingUnlessResolved, Import!Archive
    <2> QED BY <2>10, <2>11, <2>12, <2>13, <2>14, <2>15, <2>16, <2>17 DEF Import!Kept
  <1> QED BY <1>5, <1>6

\* The rows of an earlier run with the tag go, and no others.
LEMMA ClearKeeps ==
    ASSUME Import!Kept, Import!Clear
    PROVE  Import!Kept'
  <1>f. /\ s2 \in [FileRows -> [pair : Pair, ids : SUBSET Kinds]]
        /\ \A r \in FileRows : s2[r].pair \in Pair
        /\ s7 \in Import!Jobs /\ s7.pc \in [FileRows -> {"wait", "create", "write", "done", "skipped"}]
        /\ FileRows \subseteq Nat \ {0}
    BY ImportFields
  <1>k. /\ Import!TypeOK /\ Import!Places /\ Import!SubOfPeriod /\ Import!RowsOfImport
        /\ Import!OwnersFound /\ Import!OneUploadPerPeriod /\ Import!OthersRowsStay
    BY DEF Import!Kept
  <1>1. /\ UNCHANGED <<s1, s2, s3, s4, s6, s8, s9>> /\ s7.at = "open" /\ Import!Wanted = {}
        /\ s7' = [s7 EXCEPT !.at = "rows"]
        /\ s5' = IF s1 = "tagged" THEN {x \in s5 : ~Import!Stale(x)} ELSE s5
    BY DEF Import!Clear
  <1>2. s3 BY <1>k, <1>1 DEF Import!Places
  <1>3. /\ s7' \in Import!Jobs /\ s7'.at = "rows" /\ s7'.pc = s7.pc /\ s7'.owner = s7.owner
        /\ s7'.subOf = s7.subOf
    BY <1>f, <1>1 DEF Import!Jobs
  <1>4. \A r \in FileRows : s7.subOf[s2[r].pair] # 0 BY <1>1 DEF Import!Wanted
  <1>5. s5' \subseteq s5 BY <1>1
  <1>6. Import!TypeOK' BY <1>k, <1>1, <1>3, <1>5 DEF Import!TypeOK
  <1>7. Import!IsFiniteSet(s5') BY <1>k, <1>5, ImportSets, FS_Subset DEF Import!Places
  <1>8. Import!Places' BY <1>k, <1>1, <1>2, <1>3, <1>7 DEF Import!Places, Import!Jobs, Import!IsFiniteSet
  <1>9. Import!SubOfPeriod' BY <1>k, <1>1, <1>3, <1>4 DEF Import!SubOfPeriod
  <1>10. Import!RowsOfImport' BY <1>k, <1>1, <1>5 DEF Import!RowsOfImport
  <1>11. Import!WrittenOnce'
    <2> SUFFICES ASSUME s1 = "tagged", NEW r \in FileRows
                 PROVE  {x \in s5' : x.row = r} = {} /\ s7'.pc[r] # "done"
      BY <1>1 DEF Import!WrittenOnce, Import!Copies
    <2>1. s7'.pc[r] # "done" BY <1>3, <1>k, <1>1 DEF Import!Places
    <2>2. ASSUME NEW x \in s5, x.row = r PROVE Import!Stale(x)
      <3>1. x.tagged /\ s4[x.sub].pair = s2[r].pair /\ x.sub \in DOMAIN s4
        BY <1>f, <1>k, <2>2 DEF Import!RowsOfImport, Import!TypeOK
      <3>2. /\ s7.subOf[s2[r].pair] \in DOMAIN s4
            /\ s4[s7.subOf[s2[r].pair]].pair = s2[r].pair
        BY <1>f, <1>k, <1>4 DEF Import!SubOfPeriod
      <3>3. x.sub = s7.subOf[s2[r].pair] BY <1>k, <3>1, <3>2 DEF Import!OneUploadPerPeriod
      <3> QED BY <1>f, <3>1, <3>3 DEF Import!Stale
    <2> QED BY <1>1, <2>1, <2>2
  <1>12. Import!CountedOrWaiting' BY <1>3 DEF Import!CountedOrWaiting
  <1>13. Import!OwnersFound' BY <1>k, <1>1, <1>3, <1>5 DEF Import!OwnersFound, Import!MayOwn
  <1>14. Import!OneUploadPerPeriod' BY <1>k, <1>1 DEF Import!OneUploadPerPeriod
  <1>15. Import!OthersRowsStay'
    <2>1. Import!Archive \in s5 /\ ~Import!Archive.tagged
      BY <1>k DEF Import!OthersRowsStay, Import!Archive
    <2>2. Import!Archive \in s5' BY <1>1, <2>1 DEF Import!Stale
    <2> QED BY <2>2 DEF Import!OthersRowsStay, Import!Archive
  <1>16. Import!NothingUnlessResolved' BY <1>1, <1>2 DEF Import!NothingUnlessResolved
  <1> QED BY <1>6, <1>8, <1>9, <1>10, <1>11, <1>12, <1>13, <1>14, <1>15, <1>16 DEF Import!Kept

\* The owner of a row is found by the one who came first, or made.
LEMMA MakeKeeps ==
    ASSUME Import!Kept, NEW r \in FileRows, Import!Make(r)
    PROVE  Import!Kept'
  <1>f. /\ s1 \in {"erev", "templates", "filings", "tagged"} /\ s3 \in BOOLEAN
        /\ s7 \in Import!Jobs /\ s7.subOf \in [Pair -> Nat] /\ s7.owner \in [FileRows -> Nat]
        /\ s7.pc \in [FileRows -> {"wait", "create", "write", "done", "skipped"}]
        /\ s8 \in 0..MaxImports /\ s9 \in 0..MaxSpoils
        /\ s2[r].ids \in SUBSET Kinds /\ s6 \in Seq(SUBSET Kinds)
        /\ Len(s6) \in Nat /\ DOMAIN s6 = 1..Len(s6)
    BY ImportFields
  <1>d. DOMAIN s6 \subseteq Nat BY <1>f
  <1>k. /\ Import!TypeOK /\ Import!Places /\ Import!SubOfPeriod /\ Import!RowsOfImport
        /\ Import!WrittenOnce /\ Import!OwnersFound /\ Import!OneUploadPerPeriod
        /\ Import!OthersRowsStay
    BY DEF Import!Kept
  <1>1. UNCHANGED <<s1, s2, s3, s4, s5, s8, s9>> /\ s7.at = "rows" /\ s7.pc[r] = "create"
    BY DEF Import!Make, Import!InBatch
  <1>2. s3 BY <1>k, <1>1 DEF Import!Places
  <1>3. ASSUME NEW o \in Nat, s7' = [s7 EXCEPT !.pc[r] = "write", !.owner[r] = o]
        PROVE  /\ s7' \in Import!Jobs /\ s7'.at = "rows" /\ s7'.subOf = s7.subOf
               /\ s7'.pc = [s7.pc EXCEPT ![r] = "write"]
               /\ s7'.owner = [s7.owner EXCEPT ![r] = o]
               /\ \A x \in FileRows : s7'.pc[x] = "done" <=> s7.pc[x] = "done"
    <2>1. /\ s7' \in Import!Jobs /\ s7'.at = "rows" /\ s7'.subOf = s7.subOf
          /\ s7'.pc = [s7.pc EXCEPT ![r] = "write"]
          /\ s7'.owner = [s7.owner EXCEPT ![r] = o]
      BY <1>f, <1>1, <1>3 DEF Import!Jobs
    <2>2. \A x \in FileRows : s7'.pc[x] = "done" <=> s7.pc[x] = "done" BY <1>f, <1>1, <2>1
    <2> QED BY <2>1, <2>2
  <1>4. CASE \E k \in s2[r].ids : Import!Holder(k) # {}
    <2> DEFINE t == Import!FoundBy(s2[r].ids, Import!Fallback)
    <2>1. s6' = s6 /\ s7' = [s7 EXCEPT !.pc[r] = "write", !.owner[r] = t]
      BY <1>4 DEF Import!Make
    <2>2. t = 0 \/ (t \in DOMAIN s6 /\ s2[r].ids \cap s6[t] # {}) BY <1>f, FoundCarries
    <2>3. t = 0 => s1 \in {"erev", "templates"} /\ "nin" \in s2[r].ids
      <3>1. PICK k \in s2[r].ids : Import!Holder(k) # {} BY <1>4
      <3> QED BY <1>f, <3>1, FallbackFinds
    <2> HIDE DEF t
    <2>4. t \in Nat /\ Import!MayOwn(r, t) BY <1>d, <2>2, <2>3 DEF Import!MayOwn
    <2>5. /\ s7' \in Import!Jobs /\ s7'.at = "rows" /\ s7'.subOf = s7.subOf
          /\ s7'.pc = [s7.pc EXCEPT ![r] = "write"]
          /\ s7'.owner = [s7.owner EXCEPT ![r] = t]
          /\ \A x \in FileRows : s7'.pc[x] = "done" <=> s7.pc[x] = "done"
      BY <1>3, <2>1, <2>4
    <2>6. /\ \A p \in Pair : s7'.subOf[p] # 0 =>
                 s7'.subOf[p] \in DOMAIN s4 /\ s4[s7'.subOf[p]].pair = p
          /\ \A x \in FileRows : s7'.subOf[s2[x].pair] # 0
      BY <1>k, <1>1, <2>5 DEF Import!SubOfPeriod
    <2>7. \A x \in FileRows : s7'.pc[x] = "write" => Import!MayOwn(x, s7'.owner[x])
      BY <1>f, <1>k, <2>4, <2>5 DEF Import!OwnersFound
    <2> QED BY <1>f, <1>1, <1>2, <2>1, <2>5, <2>6, <2>7, RunMoves
  <1>5. CASE ~\E k \in s2[r].ids : Import!Holder(k) # {}
    <2>0. PICK n : n = Len(s6) + 1 OBVIOUS
    <2> DEFINE May(x, o) ==
          \/ o \in DOMAIN s6' /\ (s2[x].ids \cap s6'[o] # {} \/ s2[x].ids = {})
          \/ o = 0 /\ s1 \in {"erev", "templates"} /\ "nin" \in s2[x].ids
    <2>1. s6' = Append(s6, s2[r].ids)
          /\ s7' = [s7 EXCEPT !.pc[r] = "write", !.owner[r] = Len(s6')]
      BY <1>5 DEF Import!Make
    <2>2. /\ s6' \in Seq(SUBSET Kinds) /\ Len(s6') = n /\ DOMAIN s6' = 1..n
          /\ s6'[n] = s2[r].ids /\ \A i \in 1..Len(s6) : s6'[i] = s6[i]
      BY <1>f, <2>0, <2>1, AppendProperties, LenProperties
    <2>3. /\ n \in Nat /\ n \in DOMAIN s6' /\ DOMAIN s6 \subseteq DOMAIN s6'
          /\ 0..Len(s6) \subseteq 0..Len(s6') /\ \A i \in DOMAIN s6 : s6'[i] = s6[i]
      BY <1>f, <2>0, <2>2
    <2>4. s7' = [s7 EXCEPT !.pc[r] = "write", !.owner[r] = n] BY <2>1, <2>2
    <2>5. /\ s7' \in Import!Jobs /\ s7'.at = "rows" /\ s7'.subOf = s7.subOf
          /\ s7'.pc = [s7.pc EXCEPT ![r] = "write"]
          /\ s7'.owner = [s7.owner EXCEPT ![r] = n]
          /\ \A x \in FileRows : s7'.pc[x] = "done" <=> s7.pc[x] = "done"
      BY <1>3, <2>3, <2>4
    <2>6. \A x, o : Import!MayOwn(x, o) => May(x, o) BY <2>3 DEF Import!MayOwn
    <2>7. May(r, n) BY <2>2, <2>3
    <2>8. Import!OwnersFound'
      <3>1. \A x \in FileRows : s7'.pc[x] = "write" => May(x, s7'.owner[x])
        <4> SUFFICES ASSUME NEW x \in FileRows, s7'.pc[x] = "write"
                     PROVE  May(x, s7'.owner[x])
          OBVIOUS
        <4> HIDE DEF May
        <4>1. CASE x = r
          <5>1. s7'.owner[r] = n BY <1>f, <2>5
          <5> QED BY <2>7, <4>1, <5>1
        <4>2. CASE x # r
          <5>1. s7.pc[x] = "write" /\ s7'.owner[x] = s7.owner[x] BY <1>f, <2>5, <4>2
          <5>2. Import!MayOwn(x, s7.owner[x]) BY <1>k, <5>1 DEF Import!OwnersFound
          <5> QED BY <2>6, <5>1, <5>2
        <4> QED BY <4>1, <4>2
      <3>2. \A x \in s5' : x.row # 0 => May(x.row, x.owner)
        <4> HIDE DEF May
        <4> QED BY <1>1, <1>k, <2>6 DEF Import!OwnersFound, Import!RowsOfImport
      <3> QED BY <1>1, <3>1, <3>2 DEF Import!OwnersFound, Import!MayOwn
    <2>9. Import!TypeOK' BY <1>k, <1>1, <2>2, <2>3, <2>5 DEF Import!TypeOK
    <2>10. Import!Places' BY <1>k, <1>1, <1>2, <2>5 DEF Import!Places, Import!Jobs
    <2>11. Import!SubOfPeriod' BY <1>k, <1>1, <2>5 DEF Import!SubOfPeriod
    <2>12. Import!RowsOfImport' BY <1>k, <1>1 DEF Import!RowsOfImport
    <2>13. Import!WrittenOnce' BY <1>k, <1>1, <2>5 DEF Import!WrittenOnce, Import!Copies
    <2>14. Import!CountedOrWaiting' BY <2>5 DEF Import!CountedOrWaiting
    <2>15. Import!OneUploadPerPeriod' BY <1>k, <1>1 DEF Import!OneUploadPerPeriod
    <2>16. Import!OthersRowsStay' BY <1>k, <1>1 DEF Import!OthersRowsStay, Import!Archive
    <2>17. Import!NothingUnlessResolved' BY <1>1, <1>2 DEF Import!NothingUnlessResolved
    <2> QED BY <2>8, <2>9, <2>10, <2>11, <2>12, <2>13, <2>14, <2>15, <2>16, <2>17
            DEF Import!Kept
  <1> QED BY <1>4, <1>5

\* A row is written, once in a run.
LEMMA WriteKeeps ==
    ASSUME Import!Kept, NEW r \in FileRows, Import!Write(r)
    PROVE  Import!Kept'
  <1>f. /\ s1 \in {"erev", "templates", "filings", "tagged"} /\ s3 \in BOOLEAN
        /\ s7 \in Import!Jobs /\ s7.subOf \in [Pair -> Nat] /\ s7.owner \in [FileRows -> Nat]
        /\ s7.pc \in [FileRows -> {"wait", "create", "write", "done", "skipped"}]
        /\ s2[r].pair \in Pair /\ r # 0
        /\ s6 \in Seq(SUBSET Kinds) /\ Len(s6) \in Nat /\ DOMAIN s6 = 1..Len(s6)
    BY ImportFields
  <1>k. /\ Import!TypeOK /\ Import!Places /\ Import!SubOfPeriod /\ Import!RowsOfImport
        /\ Import!WrittenOnce /\ Import!OwnersFound /\ Import!OneUploadPerPeriod
        /\ Import!OthersRowsStay
    BY DEF Import!Kept
  <1> DEFINE y == [n |-> s8, row |-> r, sub |-> s7.subOf[s2[r].pair],
                   owner |-> s7.owner[r], tagged |-> s1 = "tagged"]
  <1>1. /\ UNCHANGED <<s1, s2, s3, s4, s6, s8, s9>> /\ s7.at = "rows" /\ s7.pc[r] = "write"
        /\ s7' = [s7 EXCEPT !.pc[r] = "done"] /\ s5' = s5 \cup {y}
    BY DEF Import!Write, Import!InBatch
  <1>2. s3 BY <1>k, <1>1 DEF Import!Places
  <1>3. /\ s7' \in Import!Jobs /\ s7'.at = "rows" /\ s7'.owner = s7.owner
        /\ s7'.subOf = s7.subOf /\ s7'.pc = [s7.pc EXCEPT ![r] = "done"]
    BY <1>f, <1>1 DEF Import!Jobs
  <1>4. /\ y.sub \in DOMAIN s4 /\ s4[y.sub].pair = s2[r].pair
    BY <1>f, <1>k, <1>1 DEF Import!SubOfPeriod
  <1>5. Import!MayOwn(r, y.owner) BY <1>k, <1>1 DEF Import!OwnersFound
  <1>6. y.owner \in 0..Len(s6) BY <1>f, <1>5 DEF Import!MayOwn
  <1>7. y.row = r /\ y.tagged = (s1 = "tagged") OBVIOUS
  <1> HIDE DEF y
  <1>8. Import!TypeOK' BY <1>k, <1>1, <1>3, <1>4, <1>6 DEF Import!TypeOK
  <1>9. Import!IsFiniteSet(s5')
    BY <1>k, <1>1, ImportSets, FS_AddElement DEF Import!Places
  <1>10. Import!Places' BY <1>k, <1>1, <1>2, <1>3, <1>9 DEF Import!Places, Import!Jobs, Import!IsFiniteSet
  <1>11. Import!SubOfPeriod' BY <1>k, <1>1, <1>3 DEF Import!SubOfPeriod
  <1>12. Import!RowsOfImport' BY <1>f, <1>k, <1>1, <1>4, <1>7 DEF Import!RowsOfImport
  <1>13. Import!WrittenOnce'
    <2> SUFFICES ASSUME s1 = "tagged", NEW x \in FileRows
                 PROVE  IF s7'.pc[x] = "done" THEN \E z \in s5' : {v \in s5' : v.row = x} = {z}
                        ELSE {v \in s5' : v.row = x} = {}
      BY <1>1 DEF Import!WrittenOnce, Import!Copies
    <2>1. IF s7.pc[x] = "done" THEN \E z \in s5 : {v \in s5 : v.row = x} = {z}
          ELSE {v \in s5 : v.row = x} = {}
      BY <1>k, <1>1 DEF Import!WrittenOnce, Import!Copies
    <2>2. CASE x = r
      <3>1. {v \in s5 : v.row = r} = {} BY <1>1, <2>1, <2>2
      <3>2. {v \in s5' : v.row = r} = {y} BY <1>1, <1>7, <3>1
      <3>3. s7'.pc[r] = "done" /\ y \in s5' BY <1>f, <1>1, <1>3
      <3> QED BY <2>2, <3>2, <3>3
    <2>3. CASE x # r
      <3>1. {v \in s5' : v.row = x} = {v \in s5 : v.row = x} BY <1>1, <1>7, <2>3
      <3>2. s7'.pc[x] = s7.pc[x] BY <1>f, <1>3, <2>3
      <3> QED BY <1>1, <2>1, <3>1, <3>2
    <2> QED BY <2>2, <2>3
  <1>14. Import!CountedOrWaiting' BY <1>3 DEF Import!CountedOrWaiting
  <1>15. Import!OwnersFound'
    <2>1. \A x \in FileRows : s7'.pc[x] = "write" => s7.pc[x] = "write" BY <1>f, <1>3
    <2> QED BY <1>k, <1>1, <1>3, <1>5, <1>7, <2>1 DEF Import!OwnersFound, Import!MayOwn
  <1>16. Import!OneUploadPerPeriod' BY <1>k, <1>1 DEF Import!OneUploadPerPeriod
  <1>17. Import!OthersRowsStay' BY <1>k, <1>1 DEF Import!OthersRowsStay, Import!Archive
  <1>18. Import!NothingUnlessResolved' BY <1>1, <1>2 DEF Import!NothingUnlessResolved
  <1> QED BY <1>8, <1>10, <1>11, <1>12, <1>13, <1>14, <1>15, <1>16, <1>17, <1>18
          DEF Import!Kept

\* The counters of a submission are those of its rows when the run is through.
LEMMA CountKeeps ==
    ASSUME Import!Kept, Import!Count
    PROVE  Import!Kept'
  <1>f. /\ s1 \in {"erev", "templates", "filings", "tagged"} /\ s3 \in BOOLEAN
        /\ s2 \in [FileRows -> [pair : Pair, ids : SUBSET Kinds]]
        /\ \A r \in FileRows : s2[r].pair \in Pair
        /\ s4 \in Seq([pair : Pair, count : Nat, accepted : Nat])
        /\ Len(s4) \in Nat /\ Len(s4) # 0 /\ DOMAIN s4 = 1..Len(s4)
        /\ \A s \in DOMAIN s4 : s4[s] \in [pair : Pair, count : Nat, accepted : Nat]
        /\ s7 \in Import!Jobs /\ s7.subOf \in [Pair -> Nat]
    BY ImportFields
  <1>k. /\ Import!TypeOK /\ Import!Places /\ Import!SubOfPeriod /\ Import!RowsOfImport
        /\ Import!WrittenOnce /\ Import!CountedOrWaiting /\ Import!OwnersFound
        /\ Import!OneUploadPerPeriod /\ Import!OthersRowsStay
    BY DEF Import!Kept
  <1>1. UNCHANGED <<s1, s2, s3, s5, s6, s8, s9>> /\ s7.at = "count" BY DEF Import!Count
  <1>2. s3 BY <1>k, <1>1 DEF Import!Places
  <1>3. PICK p \in Pair :
          /\ s7.subOf[p] # 0
          /\ s4' = [s4 EXCEPT ![s7.subOf[p]] = Import!Tallied(s7.subOf[p])]
          /\ s7' = [s7 EXCEPT !.subOf[p] = 0,
                      !.at = IF \A q \in Pair \ {p} : s7.subOf[q] = 0 THEN "done" ELSE "count"]
    BY DEF Import!Count
  <1>4. PICK t : t = s7.subOf[p] OBVIOUS
  <1>5. t \in DOMAIN s4 /\ t # 0 /\ s4[t].pair = p BY <1>k, <1>3, <1>4 DEF Import!SubOfPeriod
  <1>6. PICK e : e = Import!Tallied(t) OBVIOUS
  <1>7. /\ e \in [pair : Pair, count : Nat, accepted : Nat] /\ e.pair = p
        /\ e.count = Import!Cardinality(Import!RowsOf(t)) /\ e.accepted <= e.count
    <2>1. Import!IsFiniteSet(s5) BY <1>k DEF Import!Places
    <2>2. s4[t] \in [pair : Pair, count : Nat, accepted : Nat] BY <1>f, <1>5
    <2> QED BY <1>5, <1>6, <2>1, <2>2, TalliedCounts
  <1>8. s4' = [s4 EXCEPT ![t] = e] BY <1>3, <1>4, <1>6
  <1>9. /\ s4' \in Seq([pair : Pair, count : Nat, accepted : Nat]) /\ Len(s4') = Len(s4)
        /\ DOMAIN s4' = DOMAIN s4 /\ s4'[t] = e
        /\ \A s \in DOMAIN s4 : s # t => s4'[s] = s4[s]
    <2>1. t \in 1..Len(s4) BY <1>f, <1>5
    <2>2. s4' \in Seq([pair : Pair, count : Nat, accepted : Nat]) /\ Len(s4') = Len(s4)
      BY <1>f, <1>7, <1>8, <2>1, ExceptSeq
    <2>3. /\ DOMAIN s4' = DOMAIN s4 /\ s4'[t] = e
          /\ \A s \in DOMAIN s4 : s # t => s4'[s] = s4[s]
      BY <1>5, <1>8
    <2> QED BY <2>2, <2>3
  <1>10. \A s \in DOMAIN s4 : s4'[s].pair = s4[s].pair BY <1>5, <1>7, <1>9
  <1>11. PICK a \in {"count", "done"} :
           /\ a = "done" => \A q \in Pair \ {p} : s7.subOf[q] = 0
           /\ s7' = [s7 EXCEPT !.subOf[p] = 0, !.at = a]
    BY <1>3
  <1>12. /\ s7' \in Import!Jobs /\ s7'.at = a /\ s7'.pc = s7.pc /\ s7'.owner = s7.owner
         /\ s7'.subOf = [s7.subOf EXCEPT ![p] = 0]
    BY <1>f, <1>11 DEF Import!Jobs
  <1>13. Import!TypeOK' BY <1>k, <1>1, <1>9, <1>11, <1>12 DEF Import!TypeOK
  <1>14. Import!Places' BY <1>k, <1>1, <1>2, <1>9, <1>11, <1>12 DEF Import!Places, Import!Jobs
  <1>15. Import!SubOfPeriod'
    <2> SUFFICES ASSUME NEW q \in Pair, s7'.subOf[q] # 0
                 PROVE  s7'.subOf[q] \in DOMAIN s4' /\ s4'[s7'.subOf[q]].pair = q
      BY <1>11, <1>12 DEF Import!SubOfPeriod
    <2>1. s7'.subOf[q] = s7.subOf[q] BY <1>f, <1>12
    <2>2. s7.subOf[q] \in DOMAIN s4 /\ s4[s7.subOf[q]].pair = q
      BY <1>k, <2>1 DEF Import!SubOfPeriod
    <2> QED BY <1>9, <1>10, <2>1, <2>2
  <1>16. Import!RowsOfImport'
    BY <1>k, <1>1, <1>10 DEF Import!RowsOfImport, Import!TypeOK
  <1>17. Import!WrittenOnce' BY <1>k, <1>1, <1>12 DEF Import!WrittenOnce, Import!Copies
  <1>18. Import!CountedOrWaiting'
    <2> SUFFICES ASSUME NEW r \in FileRows, NEW s \in DOMAIN s4, s4'[s].pair = s2[r].pair
                 PROVE  \/ /\ s4'[s].count = Import!Cardinality(Import!RowsOf(s))
                           /\ s4'[s].accepted <= s4'[s].count
                        \/ a = "count" /\ s7'.subOf[s2[r].pair] = s
      BY <1>1, <1>9, <1>12, ZenonT(60) DEF Import!CountedOrWaiting, Import!Counted, Import!RowsOf
    <2>1. CASE s = t BY <1>7, <1>9, <2>1
    <2>2. CASE s # t
      <3>1. s4'[s] = s4[s] BY <1>9, <2>2
      <3>2. Import!Counted(s) \/ s7.subOf[s2[r].pair] = s
        BY <1>k, <1>1, <3>1 DEF Import!CountedOrWaiting
      <3>3. CASE Import!Counted(s) BY <3>1, <3>3 DEF Import!Counted
      <3>4. CASE s7.subOf[s2[r].pair] = s
        <4>1. s2[r].pair # p /\ s2[r].pair \in Pair BY <1>f, <1>4, <2>2, <3>4
        <4>2. s7'.subOf[s2[r].pair] = s BY <1>f, <1>12, <3>4, <4>1
        <4>3. s # 0 BY <1>f
        <4>4. a # "done" BY <1>11, <3>4, <4>1, <4>3
        <4> QED BY <4>2, <4>4
      <3> QED BY <3>2, <3>3, <3>4
    <2> QED BY <2>1, <2>2
  <1>19. Import!OwnersFound' BY <1>k, <1>1, <1>12 DEF Import!OwnersFound, Import!MayOwn
  <1>20. Import!OneUploadPerPeriod' BY <1>k, <1>9, <1>10 DEF Import!OneUploadPerPeriod
  <1>21. Import!OthersRowsStay' BY <1>k, <1>1 DEF Import!OthersRowsStay, Import!Archive
  <1>22. Import!NothingUnlessResolved' BY <1>1, <1>2 DEF Import!NothingUnlessResolved
  <1> QED BY <1>13, <1>14, <1>15, <1>16, <1>17, <1>18, <1>19, <1>20, <1>21, <1>22
          DEF Import!Kept

LEMMA ImportNextKeeps ==
    ASSUME Import!Kept, [Import!Next]_(Import!bvars)
    PROVE  Import!Kept'
  <1>1. CASE UNCHANGED Import!bvars
    <2>1. UNCHANGED <<s1, s2, s3, s4, s5, s6, s7, s8, s9>> BY <1>1 DEF Import!bvars
    <2>2. /\ s7 \in Import!Jobs /\ s8 \in 0..MaxImports /\ s9 \in 0..MaxSpoils
          /\ (~s3 => s7.at = "idle") /\ s3 \in BOOLEAN
          /\ (s7.at = "open" => \A r \in FileRows : s7.pc[r] = "wait")
          /\ Import!SubOfPeriod /\ Import!OwnersFound
      BY ImportFields DEF Import!Kept, Import!Places
    <2>3. /\ \A p \in Pair : s7.subOf[p] # 0 =>
               s7.subOf[p] \in DOMAIN s4 /\ s4[s7.subOf[p]].pair = p
          /\ s7.at = "rows" => \A r \in FileRows : s7.subOf[s2[r].pair] # 0
          /\ \A r \in FileRows : s7.pc[r] = "write" => Import!MayOwn(r, s7.owner[r])
      BY <2>2 DEF Import!SubOfPeriod, Import!OwnersFound
    <2>4. s7' \in Import!Jobs BY <2>1, <2>2
    <2> QED BY <2>1, <2>2, <2>3, <2>4, RunMoves
  <1>2. CASE Import!Next
    BY <1>2, RunsKeep, OpenKeeps, ClearKeeps, CountKeeps, LookKeeps, MakeKeeps, WriteKeeps
    DEF Import!Next, Import!Step
  <1> QED BY <1>1, <1>2

LEMMA ImportStarts ==
    ASSUME Import!Init
    PROVE  Import!Kept
  <1>1. PICK p \in Pair : s4 = <<[pair |-> p, count |-> 1, accepted |-> 1]>> BY DEF Import!Init
  <1>2. /\ s1 \in {"erev", "templates", "filings", "tagged"} /\ s3 \in BOOLEAN
        /\ s2 \in [FileRows -> [pair : Pair, ids : SUBSET Kinds]]
        /\ s5 = {Import!Archive} /\ s6 = <<>> /\ s7 = Import!Idle /\ s8 = 0 /\ s9 = 0
    BY DEF Import!Init
  <1>3. /\ Import!Idle \in Import!Jobs /\ Import!Idle.at = "idle"
        /\ \A q \in Pair : Import!Idle.subOf[q] = 0
        /\ \A r \in FileRows : Import!Idle.pc[r] = "wait"
    BY DEF Import!Idle, Import!Jobs
  <1>4. /\ Import!Archive.sub = 1 /\ Import!Archive.owner = 0 /\ Import!Archive.row = 0
        /\ ~Import!Archive.tagged
    BY DEF Import!Archive
  <1>5. /\ s4 \in Seq([pair : Pair, count : Nat, accepted : Nat]) /\ Len(s4) = 1
        /\ DOMAIN s4 = {1} /\ s6 \in Seq(SUBSET Kinds) /\ Len(s6) = 0
    BY <1>1, <1>2
  <1>6. Import!TypeOK
    BY <1>2, <1>3, <1>4, <1>5, ImportConstants DEF Import!TypeOK, Import!ImportAssumption
  <1>7. Import!Places
    <2>1. Import!IsFiniteSet(s5) BY <1>2, ImportSets, FS_Singleton
    <2> QED BY <1>2, <1>3, <1>5, <2>1 DEF Import!Places
  <1>8. Import!SubOfPeriod /\ Import!WrittenOnce /\ Import!CountedOrWaiting
    BY <1>2, <1>3 DEF Import!SubOfPeriod, Import!WrittenOnce, Import!CountedOrWaiting
  <1>9. Import!RowsOfImport BY <1>2, <1>4 DEF Import!RowsOfImport
  <1>10. Import!OwnersFound BY <1>2, <1>3, <1>4 DEF Import!OwnersFound
  <1>11. Import!OneUploadPerPeriod BY <1>5 DEF Import!OneUploadPerPeriod
  <1>12. Import!OthersRowsStay /\ Import!NothingUnlessResolved
    BY <1>2, <1>5 DEF Import!OthersRowsStay, Import!NothingUnlessResolved
  <1> QED BY <1>6, <1>7, <1>8, <1>9, <1>10, <1>11, <1>12 DEF Import!Kept

\* What an import promises follows from what it keeps.
LEMMA KeptIsConverged ==
    ASSUME Import!Kept
    PROVE  /\ Import!OneUploadPerPeriod /\ Import!RerunConverges /\ Import!OthersRowsStay
           /\ Import!NothingUnlessResolved /\ Import!CountsAddUp /\ Import!LinkedToItsOwner
  <1>k. /\ Import!Places /\ Import!WrittenOnce /\ Import!CountedOrWaiting /\ Import!OwnersFound
        /\ Import!OneUploadPerPeriod /\ Import!OthersRowsStay /\ Import!NothingUnlessResolved
    BY DEF Import!Kept
  <1>1. Import!RerunConverges
    <2> SUFFICES ASSUME s7.at = "done", s1 = "tagged", NEW r \in FileRows
                 PROVE  Cardinality(Import!Copies(r)) = IF s7.pc[r] = "done" THEN 1 ELSE 0
      BY ImportSets DEF Import!RerunConverges, Import!Done
    <2>1. IF s7.pc[r] = "done" THEN \E x \in s5 : Import!Copies(r) = {x}
          ELSE Import!Copies(r) = {}
      BY <1>k DEF Import!WrittenOnce
    <2> QED BY <2>1, FS_Singleton, FS_EmptySet
  <1>2. Import!CountsAddUp
    BY <1>k DEF Import!CountsAddUp, Import!Done, Import!CountedOrWaiting, Import!Counted
  <1>3. Import!LinkedToItsOwner
    <2>1. 0 \notin DOMAIN s6 BY ImportFields
    <2> QED BY <1>k, <2>1 DEF Import!LinkedToItsOwner, Import!OwnersFound, Import!MayOwn
  <1> QED BY <1>k, <1>1, <1>2, <1>3

-----------------------------------------------------------------------------
(* The scripts.                                                                *)

LEMMA ScriptFields ==
    ASSUME Scripts!Orderly
    PROVE  /\ s1 \in {"links", "logins", "demo"} /\ s3 \in 0..MaxOps /\ s8 \in BOOLEAN
           /\ s2 = [at |-> s2.at, only |-> s2.only, todo |-> s2.todo, hand |-> s2.hand,
                    rows |-> s2.rows, url |-> s2.url, of |-> s2.of]
           /\ s2.at \in {"idle", "loop", "seed", "fill"}
           /\ s2.only \in SUBSET Logins
           /\ s2.todo \in SUBSET Logins /\ s2.hand \in SUBSET Logins
           /\ \A u, v \in s2.hand : u = v
           /\ s2.rows \subseteq [login : Logins, link : 0..MaxOps]
           /\ (s2 # Scripts!NoRun => s3 \in 1..MaxOps)
           /\ s4 \in [Logins -> [knows : {"none", "owner", "nobody", "imported"},
                                 links : SUBSET (1..MaxOps)]]
           /\ s5 \subseteq [login : Logins, link : 0..MaxOps]
           /\ s6 \subseteq [login : Logins, link : 0..MaxOps]
           /\ DOMAIN s7 = Databases /\ \A d \in Databases : s7[d].filled \in 0..Tables
           /\ \A d \in Databases : s7[d] = [tenant |-> s7[d].tenant, staff |-> s7[d].staff,
                                            filled |-> s7[d].filled, rows |-> s7[d].rows]
           /\ MaxOps \in Nat /\ Tables \in Nat \ {0}
  <1>1. Scripts!TypeOK /\ Scripts!Places BY DEF Scripts!Orderly
  <1>2. MaxOps \in Nat /\ Tables \in Nat \ {0} BY ScriptConstants DEF Scripts!ScriptAssumption
  <1> QED BY <1>1, <1>2 DEF Scripts!TypeOK, Scripts!Places

LEMMA NoRunFields ==
    /\ Scripts!NoRun.at = "idle" /\ Scripts!NoRun.only = {} /\ Scripts!NoRun.todo = {}
    /\ Scripts!NoRun.hand = {} /\ Scripts!NoRun.rows = {}
    /\ Scripts!NoRun = [at |-> Scripts!NoRun.at, only |-> Scripts!NoRun.only,
                        todo |-> Scripts!NoRun.todo, hand |-> Scripts!NoRun.hand,
                        rows |-> Scripts!NoRun.rows, url |-> Scripts!NoRun.url,
                        of |-> Scripts!NoRun.of]
  BY DEF Scripts!NoRun

\* A step that leaves the databases alone, and its run with them or ended.
LEMMA DemosStay ==
    ASSUME Scripts!Orderly, s7' = s7,
           s2'.at \in {"seed", "fill"} => s2'.at = s2.at /\ s2'.url = s2.url /\ s2'.of = s2.of
    PROVE  Scripts!SeedUnderWay' /\ Scripts!OnlyItsDemo' /\ Scripts!SeedIsWhole'
  BY DEF Scripts!Orderly, Scripts!SeedUnderWay, Scripts!OnlyItsDemo, Scripts!SeedIsWhole,
         Scripts!Clashes, Scripts!Before

LEMMA ScriptStarts ==
    ASSUME Scripts!Init
    PROVE  Scripts!Orderly
  <1>1. /\ s1 \in {"links", "logins", "demo"} /\ s2 = Scripts!NoRun /\ s3 = 0 /\ s5 = {}
        /\ s6 = {} /\ s8 = FALSE
        /\ s4 = [u \in Logins |-> [knows |-> IF s1 = "logins" THEN "none" ELSE "owner", links |-> {}]]
        /\ s7 = [d \in Databases |-> [tenant |-> Scripts!Before, staff |-> {Scripts!Before},
                                      filled |-> Tables, rows |-> Scripts!Before]]
    BY DEF Scripts!Init
  <1>2. MaxOps \in Nat /\ Tables \in Nat \ {0} BY ScriptConstants DEF Scripts!ScriptAssumption
  <1>3. Scripts!TypeOK
    <2>1. s4 \in [Logins -> [knows : {"none", "owner", "nobody", "imported"},
                             links : SUBSET (1..MaxOps)]]
      BY <1>1
    <2>2. \A d \in Databases : s7[d].filled \in 0..Tables BY <1>1, <1>2
    <2>3. s3 \in 0..MaxOps /\ s5 \cup s6 = {}
      <3>1. s3 = 0 /\ s5 = {} /\ s6 = {} BY <1>1
      <3> QED BY <1>2, <3>1
    <2>5. s8 \in BOOLEAN BY <1>1
    <2>4. s2.only = {} /\ s2.todo = {} /\ s2.hand = {} BY <1>1, NoRunFields
    <2> QED BY <1>1, <2>1, <2>2, <2>3, <2>4, <2>5 DEF Scripts!TypeOK
  <1>4. Scripts!Places BY <1>1, NoRunFields DEF Scripts!Places
  <1>5. Scripts!EveryoneIsTold BY <1>1, NoRunFields DEF Scripts!EveryoneIsTold, Scripts!Behind
  <1>6. Scripts!SeedUnderWay /\ Scripts!OnlyItsDemo /\ Scripts!SeedIsWhole
    BY <1>1, NoRunFields DEF Scripts!SeedUnderWay, Scripts!OnlyItsDemo, Scripts!SeedIsWhole
  <1> QED BY <1>3, <1>4, <1>5, <1>6 DEF Scripts!Orderly

\* The runs that begin, end or are cut off.
LEMMA RunsStayOrderly ==
    ASSUME Scripts!Orderly,
           (\E only \in SUBSET Logins : Scripts!Issue(only)) \/ Scripts!Carry \/ Scripts!Cut
    PROVE  Scripts!Orderly'
  <1>f. /\ s3 \in 0..MaxOps /\ MaxOps \in Nat /\ s8 \in BOOLEAN BY ScriptFields
  <1>k. /\ Scripts!TypeOK /\ Scripts!Places /\ Scripts!EveryoneIsTold BY DEF Scripts!Orderly
  <1>1. CASE Scripts!Cut
    <2>1. /\ s2' = Scripts!NoRun /\ s8' = TRUE /\ UNCHANGED <<s1, s3, s4, s5, s6, s7>>
      BY <1>1 DEF Scripts!Cut
    <2>2. Scripts!TypeOK' BY <1>k, <2>1, NoRunFields DEF Scripts!TypeOK
    <2>3. Scripts!Places' BY <1>k, <2>1, NoRunFields DEF Scripts!Places, Scripts!NoRun, Scripts!Before
    <2>4. Scripts!EveryoneIsTold'
      BY <2>1, NoRunFields DEF Scripts!EveryoneIsTold, Scripts!Behind
    <2>5. Scripts!SeedUnderWay' /\ Scripts!OnlyItsDemo' /\ Scripts!SeedIsWhole'
      BY <2>1, NoRunFields, DemosStay
    <2> QED BY <2>2, <2>3, <2>4, <2>5 DEF Scripts!Orderly
  <1>2. ASSUME NEW only \in SUBSET Logins, NEW todo,
               todo = (IF only = {} THEN Logins ELSE only),
               s2' = [at |-> s2'.at, only |-> s2'.only, todo |-> s2'.todo, hand |-> s2'.hand,
                      rows |-> s2'.rows, url |-> s2'.url, of |-> s2'.of],
               s2'.at = "loop", s2'.only = only, s2'.todo = todo, s2'.hand = {}, s2'.rows = {},
               s2.at = "idle", s3 < MaxOps, s3' = s3 + 1,
               UNCHANGED <<s1, s4, s5, s6, s7, s8>>
        PROVE  Scripts!Orderly'
    <2>2. s3' \in 1..MaxOps BY <1>f, <1>2
    <2>3. todo \in SUBSET Logins BY <1>2
    <2>4. Scripts!TypeOK' BY <1>k, <1>2, <2>2, <2>3 DEF Scripts!TypeOK
    <2>5. Scripts!Places'
      BY <1>k, <1>2, <2>2, <2>3 DEF Scripts!Places, Scripts!NoRun, Scripts!Before, Scripts!Scope
    <2>6. Scripts!EveryoneIsTold'
      BY <1>k, <1>2 DEF Scripts!EveryoneIsTold, Scripts!Behind, Scripts!Scope, Scripts!Tells
    <2>7. Scripts!SeedUnderWay' /\ Scripts!OnlyItsDemo' /\ Scripts!SeedIsWhole'
      BY <1>2, DemosStay
    <2> QED BY <2>4, <2>5, <2>6, <2>7 DEF Scripts!Orderly
  <1>3. CASE \E only \in SUBSET Logins : Scripts!Issue(only)
    <2>1. PICK only \in SUBSET Logins : Scripts!Issue(only) BY <1>3
    <2>2. PICK todo : todo = IF only = {} THEN Logins ELSE only OBVIOUS
    <2>3. /\ s2' = [Scripts!NoRun EXCEPT !.at = "loop", !.only = only, !.todo = todo]
          /\ s2.at = "idle" /\ s3 < MaxOps /\ s3' = s3 + 1 /\ UNCHANGED <<s1, s4, s5, s6, s7, s8>>
      BY <2>1, <2>2 DEF Scripts!Issue, Scripts!Begin
    <2>4. /\ s2' = [at |-> s2'.at, only |-> s2'.only, todo |-> s2'.todo, hand |-> s2'.hand,
                    rows |-> s2'.rows, url |-> s2'.url, of |-> s2'.of]
          /\ s2'.at = "loop" /\ s2'.only = only /\ s2'.todo = todo /\ s2'.hand = {} /\ s2'.rows = {}
      BY <2>3 DEF Scripts!NoRun
    <2> QED BY <1>2, <2>2, <2>3, <2>4
  <1>4. CASE Scripts!Carry
    <2>1. /\ s2' = [Scripts!NoRun EXCEPT !.at = "loop", !.todo = Logins]
          /\ s2.at = "idle" /\ s3 < MaxOps /\ s3' = s3 + 1 /\ UNCHANGED <<s1, s4, s5, s6, s7, s8>>
      BY <1>4 DEF Scripts!Carry, Scripts!Begin
    <2>2. /\ s2' = [at |-> s2'.at, only |-> s2'.only, todo |-> s2'.todo, hand |-> s2'.hand,
                    rows |-> s2'.rows, url |-> s2'.url, of |-> s2'.of]
          /\ s2'.at = "loop" /\ s2'.only = {} /\ s2'.todo = Logins /\ s2'.hand = {} /\ s2'.rows = {}
      BY <2>1 DEF Scripts!NoRun
    <2> QED BY <1>2, <2>1, <2>2
  <1> QED BY <1>1, <1>3, <1>4

\* The links: an account is parked, its link minted, or its reset reported failed.
LEMMA LinksStayOrderly ==
    ASSUME Scripts!Orderly, NEW u \in Logins,
           Scripts!Park(u) \/ Scripts!MintLink(u) \/ Scripts!Failed(u)
    PROVE  Scripts!Orderly'
  <1>f. /\ s2 = [at |-> s2.at, only |-> s2.only, todo |-> s2.todo, hand |-> s2.hand,
                 rows |-> s2.rows, url |-> s2.url, of |-> s2.of]
        /\ s2.todo \in SUBSET Logins /\ s2.hand \in SUBSET Logins /\ s2.only \in SUBSET Logins
        /\ \A w, v \in s2.hand : w = v
        /\ s2.rows \subseteq [login : Logins, link : 0..MaxOps]
        /\ s4 \in [Logins -> [knows : {"none", "owner", "nobody", "imported"},
                              links : SUBSET (1..MaxOps)]]
        /\ MaxOps \in Nat
    BY ScriptFields
  <1>k. /\ Scripts!TypeOK /\ Scripts!Places /\ Scripts!EveryoneIsTold BY DEF Scripts!Orderly
  <1>1. s2.at = "loop" /\ UNCHANGED <<s1, s3, s5, s6, s7, s8>>
    BY DEF Scripts!Park, Scripts!MintLink, Scripts!Failed
  <1>2. s3 \in 1..MaxOps /\ s2.todo \cup s2.hand \subseteq Scripts!Scope
    BY <1>1, <1>k, NoRunFields DEF Scripts!Places
  <1>3. /\ s2' = [at |-> s2'.at, only |-> s2'.only, todo |-> s2'.todo, hand |-> s2'.hand,
                  rows |-> s2'.rows, url |-> s2'.url, of |-> s2'.of]
        /\ s2'.at = "loop" /\ s2'.only = s2.only /\ s2.rows \subseteq s2'.rows
        /\ s2'.rows \subseteq [login : Logins, link : 0..MaxOps]
        /\ s2'.todo \cup s2'.hand \subseteq s2.todo \cup s2.hand
        /\ \A w, v \in s2'.hand : w = v
        /\ \A v \in s2.todo \cup s2.hand : v # u => v \in s2'.todo \cup s2'.hand
        /\ \/ u \in s2'.hand
           \/ \E x \in s2'.rows : x.login = u /\ ((x.link = s3 /\ Scripts!MintLink(u)) \/ x.link = 0)
    <2>1. CASE Scripts!Park(u)
      <3>1. /\ s2' = [s2 EXCEPT !.todo = s2.todo \ {u}, !.hand = {u}]
            /\ s2.hand = {} /\ u \in s2.todo
        BY <2>1 DEF Scripts!Park
      <3> QED BY <1>f, <1>1, <3>1
    <2>2. CASE Scripts!MintLink(u)
      <3>1. PICK y : y = [login |-> u, link |-> s3] OBVIOUS
      <3>2. s2' = [s2 EXCEPT !.hand = {}, !.rows = s2.rows \cup {y}] /\ u \in s2.hand
        BY <2>2, <3>1 DEF Scripts!MintLink
      <3>3. y \in [login : Logins, link : 0..MaxOps] /\ y.login = u /\ y.link = s3
        BY <1>2, <3>1
      <3>4. /\ s2'.rows = s2.rows \cup {y} /\ s2'.hand = {} /\ s2'.todo = s2.todo
            /\ s2'.only = s2.only /\ s2'.at = "loop"
            /\ s2' = [at |-> s2'.at, only |-> s2'.only, todo |-> s2'.todo, hand |-> s2'.hand,
                      rows |-> s2'.rows, url |-> s2'.url, of |-> s2'.of]
        BY <1>f, <1>1, <3>2
      <3>5. \A v \in s2.hand : v = u BY <1>f, <3>2
      <3> QED BY <1>f, <2>2, <3>3, <3>4, <3>5
    <2>3. CASE Scripts!Failed(u)
      <3>1. PICK y : y = [login |-> u, link |-> 0] OBVIOUS
      <3>2. /\ s2' = [s2 EXCEPT !.todo = s2.todo \ {u}, !.hand = {}, !.rows = s2.rows \cup {y}]
            /\ u \in s2.hand \/ s2.hand = {}
        BY <2>3, <3>1 DEF Scripts!Failed
      <3>3. y \in [login : Logins, link : 0..MaxOps] /\ y.login = u /\ y.link = 0
        BY <1>f, <3>1
      <3>4. /\ s2'.rows = s2.rows \cup {y} /\ s2'.hand = {} /\ s2'.todo = s2.todo \ {u}
            /\ s2'.only = s2.only /\ s2'.at = "loop"
            /\ s2' = [at |-> s2'.at, only |-> s2'.only, todo |-> s2'.todo, hand |-> s2'.hand,
                      rows |-> s2'.rows, url |-> s2'.url, of |-> s2'.of]
        BY <1>f, <1>1, <3>2
      <3>5. \A v \in s2.hand : v = u BY <1>f, <3>2
      <3> QED BY <1>f, <3>3, <3>4, <3>5
    <2> QED BY <2>1, <2>2, <2>3
  <1>4. /\ s4' \in [Logins -> [knows : {"none", "owner", "nobody", "imported"},
                               links : SUBSET (1..MaxOps)]]
        /\ \A v \in Logins : v # u => s4'[v] = s4[v]
        /\ s4[u].links \subseteq s4'[u].links
        /\ s4'[u].knows = "nobody" => s4[u].knows = "nobody" \/ Scripts!Park(u)
        /\ Scripts!MintLink(u) => s3 \in s4'[u].links
    <2>1. CASE Scripts!Park(u)
      <3>1. s4' = [s4 EXCEPT ![u].knows = "nobody"] BY <2>1 DEF Scripts!Park
      <3>2. ~Scripts!MintLink(u)
        BY <2>1 DEF Scripts!Park, Scripts!MintLink
      <3> QED BY <1>f, <2>1, <3>1, <3>2
    <2>2. CASE Scripts!MintLink(u)
      <3>1. s4' = [s4 EXCEPT ![u].links = s4[u].links \cup {s3}] BY <2>2 DEF Scripts!MintLink
      <3> QED BY <1>f, <1>2, <3>1
    <2>3. CASE Scripts!Failed(u) /\ ~Scripts!MintLink(u)
      <3>1. s4' = s4 BY <2>3 DEF Scripts!Failed
      <3> QED BY <1>f, <2>3, <3>1
    <2> QED BY <2>1, <2>2, <2>3
  <1>5. s2'.only \in SUBSET Logins /\ s2'.todo \in SUBSET Logins /\ s2'.hand \in SUBSET Logins
    BY <1>f, <1>3
  <1>6. Scripts!TypeOK' BY <1>k, <1>1, <1>4, <1>5 DEF Scripts!TypeOK
  <1>7. Scripts!Places'
    BY <1>f, <1>k, <1>1, <1>2, <1>3, <1>5 DEF Scripts!Places, Scripts!NoRun, Scripts!Before, Scripts!Scope
  <1>8. Scripts!EveryoneIsTold'
    <2> SUFFICES ASSUME s1 = "links"
                 PROVE  Scripts!EveryoneIsTold'
      BY <1>1 DEF Scripts!EveryoneIsTold
    <2> DEFINE Told(x, v) == x.login = v /\ x.link \in s4'[v].links \cup {0}
    <2>1. \A v \in Logins : v # u /\ s4'[v].knows = "nobody" => s4[v].knows = "nobody"
      BY <1>4
    <2>2. \A x, v : v \in Logins /\ Scripts!Tells(x, v) => Told(x, v)
      BY <1>4 DEF Scripts!Tells
    <2>3. Scripts!Behind = Scripts!Scope \ (s2.todo \cup s2.hand) BY <1>1 DEF Scripts!Behind
    <2>5. ASSUME NEW v \in Logins, v \in Scripts!Scope \ (s2'.todo \cup s2'.hand), s4'[v].knows = "nobody"
          PROVE  \E x \in s2'.rows : Told(x, v)
      <3>1. CASE v # u
        <4>1. v \in Scripts!Behind /\ s4[v].knows = "nobody" BY <1>3, <2>1, <2>3, <2>5, <3>1
        <4>2. PICK x \in s2.rows : Scripts!Tells(x, v)
          BY <1>k, <4>1 DEF Scripts!EveryoneIsTold
        <4> QED BY <1>3, <2>2, <4>2
      <3>2. CASE v = u
        <4>1. PICK x \in s2'.rows : x.login = u /\ ((x.link = s3 /\ Scripts!MintLink(u)) \/ x.link = 0)
          BY <1>3, <2>5, <3>2
        <4> QED BY <1>4, <3>2, <4>1
      <3> QED BY <3>1, <3>2
    <2>6. ASSUME ~s8, NEW v \in Logins, v \notin Scripts!Scope, s4'[v].knows = "nobody"
          PROVE  \E x \in s5 \cup s6 : Told(x, v)
      <3>1. v # u
        BY <1>2, <2>6 DEF Scripts!Park, Scripts!MintLink, Scripts!Failed
      <3>2. s4[v].knows = "nobody" BY <2>1, <2>6, <3>1
      <3>3. PICK x \in s5 \cup s6 : Scripts!Tells(x, v)
        BY <1>k, <1>1, <2>6, <3>2 DEF Scripts!EveryoneIsTold
      <3> QED BY <2>2, <3>3
    <2>7. Scripts!Behind' = Scripts!Scope \ (s2'.todo \cup s2'.hand) /\ Scripts!Scope' = Scripts!Scope
      BY <1>3 DEF Scripts!Behind, Scripts!Scope
    <2>8. Scripts!Scope \subseteq Logins BY <1>f DEF Scripts!Scope
    <2> QED BY <1>1, <1>3, <2>5, <2>6, <2>7, <2>8 DEF Scripts!EveryoneIsTold, Scripts!Tells
  <1>9. Scripts!SeedUnderWay' /\ Scripts!OnlyItsDemo' /\ Scripts!SeedIsWhole'
    BY <1>1, <1>3, DemosStay
  <1> QED BY <1>6, <1>7, <1>8, <1>9 DEF Scripts!Orderly

\* The file of the links is written.
LEMMA SaveStaysOrderly ==
    ASSUME Scripts!Orderly, NEW sameDay \in BOOLEAN, Scripts!Save(sameDay)
    PROVE  Scripts!Orderly'
  <1>f. /\ s2.rows \subseteq [login : Logins, link : 0..MaxOps] /\ s8 \in BOOLEAN
        /\ s2.only \in SUBSET Logins
        /\ s5 \subseteq [login : Logins, link : 0..MaxOps]
        /\ s6 \subseteq [login : Logins, link : 0..MaxOps]
    BY ScriptFields
  <1>k. /\ Scripts!TypeOK /\ Scripts!Places /\ Scripts!EveryoneIsTold BY DEF Scripts!Orderly
  <1>1. /\ s1 = "links" /\ s2.at = "loop" /\ s2.todo = {} /\ s2.hand = {}
        /\ s2' = Scripts!NoRun /\ s8' = (s8 /\ s2.only # {}) /\ UNCHANGED <<s1, s3, s4, s7>>
    BY DEF Scripts!Save
  <1>2. \/ s2.only = {} /\ s2.rows \subseteq s5' /\ s5' \subseteq s5 \cup s2.rows /\ s6' = s6
        \/ s2.only # {} /\ s5' = s5 /\ s6' = s6 \cup s2.rows
    BY DEF Scripts!Save
  <1>3. /\ s2'.at = "idle" /\ s2'.only = {} /\ s2'.todo = {} /\ s2'.hand = {}
    BY <1>1, NoRunFields
  <1>4. Scripts!TypeOK'
    <2>1. s5' \cup s6' \subseteq [login : Logins, link : 0..MaxOps] BY <1>f, <1>2
    <2>2. s8' \in BOOLEAN BY <1>1
    <2> QED BY <1>k, <1>1, <1>3, <2>1, <2>2 DEF Scripts!TypeOK
  <1>5. Scripts!Places'
    BY <1>k, <1>1, NoRunFields DEF Scripts!Places, Scripts!NoRun, Scripts!Before
  <1>6. Scripts!EveryoneIsTold'
    <2> DEFINE Told(x, v) == x.login = v /\ x.link \in s4[v].links \cup {0}
    <2>1. Scripts!Behind = Scripts!Scope BY <1>1 DEF Scripts!Behind
    <2>2. ASSUME ~s8', NEW v \in Logins, s4[v].knows = "nobody"
          PROVE  \E x \in s5' \cup s6' : Told(x, v)
      <3>1. CASE v \in Scripts!Scope
        <4>1. PICK x \in s2.rows : Scripts!Tells(x, v)
          BY <1>k, <1>1, <2>1, <2>2, <3>1 DEF Scripts!EveryoneIsTold
        <4> QED BY <1>2, <4>1 DEF Scripts!Tells
      <3>2. CASE v \notin Scripts!Scope
        <4>1. s2.only # {} /\ ~s8 BY <1>1, <2>2, <3>2 DEF Scripts!Scope
        <4>2. PICK x \in s5 \cup s6 : Scripts!Tells(x, v)
          BY <1>k, <1>1, <2>2, <3>2, <4>1 DEF Scripts!EveryoneIsTold
        <4> QED BY <1>2, <4>1, <4>2 DEF Scripts!Tells
      <3> QED BY <3>1, <3>2
    <2>3. Scripts!Behind' = {} BY <1>3 DEF Scripts!Behind
    <2> QED BY <1>1, <1>3, <2>2, <2>3 DEF Scripts!EveryoneIsTold, Scripts!Tells
  <1>7. Scripts!SeedUnderWay' /\ Scripts!OnlyItsDemo' /\ Scripts!SeedIsWhole'
    BY <1>1, <1>3, DemosStay
  <1> QED BY <1>4, <1>5, <1>6, <1>7 DEF Scripts!Orderly

\* An owner sets a password, by a link or at the first sign-in; a login is
\* carried over.
LEMMA OwnersStayOrderly ==
    ASSUME Scripts!Orderly, NEW u \in Logins,
           Scripts!Redeem(u) \/ Scripts!Choose(u) \/ Scripts!CarryOver(u)
    PROVE  Scripts!Orderly'
  <1>f. /\ s2 = [at |-> s2.at, only |-> s2.only, todo |-> s2.todo, hand |-> s2.hand,
                 rows |-> s2.rows, url |-> s2.url, of |-> s2.of]
        /\ s2.only \in SUBSET Logins /\ s2.todo \in SUBSET Logins /\ s2.hand \in SUBSET Logins
        /\ s4 \in [Logins -> [knows : {"none", "owner", "nobody", "imported"},
                              links : SUBSET (1..MaxOps)]]
    BY ScriptFields
  <1>k. /\ Scripts!TypeOK /\ Scripts!Places /\ Scripts!EveryoneIsTold BY DEF Scripts!Orderly
  <1>1. CASE Scripts!Redeem(u) \/ Scripts!Choose(u)
    <2>1. UNCHANGED <<s1, s2, s3, s5, s6, s7, s8>>
      BY <1>1 DEF Scripts!Redeem, Scripts!Choose
    <2>2. \/ s4' = [s4 EXCEPT ![u] = [knows |-> "owner", links |-> {}]]
          \/ s4' = [s4 EXCEPT ![u].knows = "owner"]
      BY <1>1 DEF Scripts!Redeem, Scripts!Choose
    <2>3. /\ s4' \in [Logins -> [knows : {"none", "owner", "nobody", "imported"},
                                 links : SUBSET (1..MaxOps)]]
          /\ s4'[u].knows = "owner" /\ \A v \in Logins : v # u => s4'[v] = s4[v]
      BY <1>f, <2>2
    <2>4. \A v \in Logins : s4'[v].knows = "nobody" => s4'[v] = s4[v] BY <2>3
    <2>5. Scripts!TypeOK' BY <1>k, <2>1, <2>3 DEF Scripts!TypeOK
    <2>6. Scripts!Places'
      BY <1>k, <2>1 DEF Scripts!Places, Scripts!NoRun, Scripts!Before, Scripts!Scope
    <2>7. Scripts!EveryoneIsTold'
      <3>1. Scripts!Behind' = Scripts!Behind /\ Scripts!Scope' = Scripts!Scope
            /\ Scripts!Behind \subseteq Logins
        BY <1>f, <2>1 DEF Scripts!Behind, Scripts!Scope
      <3> QED BY <1>k, <2>1, <2>4, <3>1 DEF Scripts!EveryoneIsTold, Scripts!Tells
    <2>8. Scripts!SeedUnderWay' /\ Scripts!OnlyItsDemo' /\ Scripts!SeedIsWhole'
      BY <2>1, DemosStay
    <2> QED BY <2>5, <2>6, <2>7, <2>8 DEF Scripts!Orderly
  <1>2. CASE Scripts!CarryOver(u)
    <2>1. s1 = "logins" /\ UNCHANGED <<s1, s3, s5, s6, s7, s8>> BY <1>2 DEF Scripts!CarryOver
    <2>2. s2' = Scripts!NoRun \/ s2' = [s2 EXCEPT !.todo = s2.todo \ {u}]
      BY <1>2 DEF Scripts!CarryOver
    <2>3. s4' = s4 \/ s4' = [s4 EXCEPT ![u].knows = "imported"] BY <1>2 DEF Scripts!CarryOver
    <2>4. s4' \in [Logins -> [knows : {"none", "owner", "nobody", "imported"},
                              links : SUBSET (1..MaxOps)]]
      BY <1>f, <2>3
    <2>5. CASE s2' = Scripts!NoRun
      <3>1. Scripts!TypeOK' BY <1>k, <2>1, <2>4, <2>5, NoRunFields DEF Scripts!TypeOK
      <3>2. Scripts!Places'
        BY <1>k, <2>1, <2>5, NoRunFields DEF Scripts!Places, Scripts!NoRun, Scripts!Before
      <3>3. Scripts!SeedUnderWay' /\ Scripts!OnlyItsDemo' /\ Scripts!SeedIsWhole'
        BY <2>1, <2>5, NoRunFields, DemosStay
      <3>4. Scripts!EveryoneIsTold' BY <2>1 DEF Scripts!EveryoneIsTold
      <3> QED BY <3>1, <3>2, <3>3, <3>4 DEF Scripts!Orderly
    <2>6. CASE s2' = [s2 EXCEPT !.todo = s2.todo \ {u}]
      <3>1. /\ s2' = [at |-> s2'.at, only |-> s2'.only, todo |-> s2'.todo, hand |-> s2'.hand,
                      rows |-> s2'.rows, url |-> s2'.url, of |-> s2'.of]
            /\ s2'.at = s2.at /\ s2'.only = s2.only /\ s2'.todo = s2.todo \ {u}
            /\ s2'.hand = s2.hand /\ s2'.rows = s2.rows /\ s2'.url = s2.url /\ s2'.of = s2.of
        BY <1>f, <2>6
      <3>2. Scripts!TypeOK' BY <1>k, <2>1, <2>4, <3>1 DEF Scripts!TypeOK
      <3>3. s2 # Scripts!NoRun /\ s2.at # "idle"
        BY <1>2, <1>k, NoRunFields DEF Scripts!CarryOver, Scripts!Places
      <3>4. Scripts!Places'
        BY <1>k, <2>1, <3>1, <3>3 DEF Scripts!Places, Scripts!Scope, Scripts!NoRun, Scripts!Before
      <3>5. Scripts!SeedUnderWay' /\ Scripts!OnlyItsDemo' /\ Scripts!SeedIsWhole'
        BY <2>1, <3>1, DemosStay
      <3>6. Scripts!EveryoneIsTold' BY <2>1 DEF Scripts!EveryoneIsTold
      <3> QED BY <3>2, <3>4, <3>5, <3>6 DEF Scripts!Orderly
    <2> QED BY <2>2, <2>5, <2>6
  <1> QED BY <1>1, <1>2

\* A demo is cleared, renamed and filled.
LEMMA SeedsStayOrderly ==
    ASSUME Scripts!Orderly,
           \/ \E a \in Authorities, url \in Databases : Scripts!Seed(a, url)
           \/ Scripts!Rename \/ Scripts!Fill
    PROVE  Scripts!Orderly'
  <1>f. /\ s3 \in 0..MaxOps /\ MaxOps \in Nat /\ Tables \in Nat \ {0}
        /\ s2 = [at |-> s2.at, only |-> s2.only, todo |-> s2.todo, hand |-> s2.hand,
                 rows |-> s2.rows, url |-> s2.url, of |-> s2.of]
        /\ s2.only \in SUBSET Logins /\ s2.todo \in SUBSET Logins /\ s2.hand \in SUBSET Logins
        /\ \A u, v \in s2.hand : u = v
        /\ s2.rows \subseteq [login : Logins, link : 0..MaxOps]
        /\ (s2 # Scripts!NoRun => s3 \in 1..MaxOps)
        /\ DOMAIN s7 = Databases /\ \A d \in Databases : s7[d].filled \in 0..Tables
        /\ \A d \in Databases : s7[d] = [tenant |-> s7[d].tenant, staff |-> s7[d].staff,
                                         filled |-> s7[d].filled, rows |-> s7[d].rows]
    BY ScriptFields
  <1>k. /\ Scripts!TypeOK /\ Scripts!Places /\ Scripts!EveryoneIsTold /\ Scripts!SeedUnderWay
        /\ Scripts!OnlyItsDemo /\ Scripts!SeedIsWhole
    BY DEF Scripts!Orderly
  <1>1. UNCHANGED <<s1, s4, s5, s6, s8>>
    BY DEF Scripts!Seed, Scripts!Rename, Scripts!Fill
  <1>2. /\ s2'.at # "loop" /\ s2.at # "loop"
        /\ s2' = [at |-> s2'.at, only |-> s2'.only, todo |-> s2'.todo, hand |-> s2'.hand,
                  rows |-> s2'.rows, url |-> s2'.url, of |-> s2'.of]
        /\ s2'.only \in SUBSET Logins /\ s2'.todo \in SUBSET Logins /\ s2'.hand \in SUBSET Logins
        /\ \A u, v \in s2'.hand : u = v
        /\ s2'.rows \subseteq [login : Logins, link : 0..MaxOps]
        /\ s2'.at \in {"idle", "seed", "fill"} /\ (s2'.at = "idle" => s2' = Scripts!NoRun)
        /\ s3' \in 0..MaxOps /\ (s2' # Scripts!NoRun => s3' \in 1..MaxOps)
    <2>1. CASE \E a \in Authorities, url \in Databases : Scripts!Seed(a, url)
      <3>1. PICK a \in Authorities, url \in Databases : Scripts!Seed(a, url) BY <2>1
      <3>2. /\ s2' = [Scripts!NoRun EXCEPT !.at = "seed", !.url = url, !.of = a]
            /\ s2.at = "idle" /\ s3 < MaxOps /\ s3' = s3 + 1
        BY <3>1 DEF Scripts!Seed, Scripts!Begin
      <3>3. /\ s2' = [at |-> s2'.at, only |-> s2'.only, todo |-> s2'.todo, hand |-> s2'.hand,
                      rows |-> s2'.rows, url |-> s2'.url, of |-> s2'.of]
            /\ s2'.at = "seed" /\ s2'.only = {} /\ s2'.todo = {} /\ s2'.hand = {} /\ s2'.rows = {}
        BY <3>2 DEF Scripts!NoRun
      <3>4. s3' \in 1..MaxOps BY <1>f, <3>2
      <3> QED BY <3>2, <3>3, <3>4
    <2>2. CASE Scripts!Rename
      <3>1. s2.at = "seed" /\ s2' = [s2 EXCEPT !.at = "fill"] /\ s3' = s3
        BY <2>2 DEF Scripts!Rename
      <3>2. s2 # Scripts!NoRun BY <3>1, NoRunFields
      <3> QED BY <1>f, <3>1, <3>2
    <2>3. CASE Scripts!Fill
      <3>1. s2.at = "fill" /\ (s2' = Scripts!NoRun \/ s2' = s2) /\ s3' = s3
        BY <2>3 DEF Scripts!Fill
      <3>2. s2 # Scripts!NoRun BY <3>1, NoRunFields
      <3> QED BY <1>f, <3>1, <3>2, NoRunFields
    <2> QED BY <2>1, <2>2, <2>3
  <1>3. PICK d \in Databases :
          /\ DOMAIN s7' = Databases /\ \A e \in Databases : e # d => s7'[e] = s7[e]
          /\ s7'[d] = [tenant |-> s7'[d].tenant, staff |-> s7'[d].staff,
                       filled |-> s7'[d].filled, rows |-> s7'[d].rows]
          /\ s7'[d].filled \in 0..Tables
          /\ s2'.at \in {"seed", "fill"} => s2'.url = d /\ s2'.of = s7'[d].rows
          /\ s2'.at = "seed" => s7'[d].filled = 0
          /\ s2'.at = "fill" => s7'[d].filled < Tables /\ s7'[d].tenant = s7'[d].rows
          /\ s7'[d].filled = Tables => s7'[d].tenant = s7'[d].rows
          /\ ~Scripts!Clashes(d) =>
                s7'[d].rows = Scripts!Before \/ DatabaseOf[s7'[d].rows] = d
    <2>1. CASE \E a \in Authorities, url \in Databases : Scripts!Seed(a, url)
      <3>1. PICK a \in Authorities, url \in Databases : Scripts!Seed(a, url) BY <2>1
      <3>2. /\ s2' = [Scripts!NoRun EXCEPT !.at = "seed", !.url = url, !.of = a]
            /\ <<DatabaseOf[a], url>> \in Within
            /\ s7' = [s7 EXCEPT ![url].filled = 0, ![url].rows = a]
        BY <3>1 DEF Scripts!Seed, Scripts!Begin
      <3>3. s2'.at = "seed" /\ s2'.url = url /\ s2'.of = a BY <3>2 DEF Scripts!NoRun
      <3>4. /\ DOMAIN s7' = Databases /\ \A e \in Databases : e # url => s7'[e] = s7[e]
            /\ s7'[url] = [s7[url] EXCEPT !.filled = 0, !.rows = a]
        BY <1>f, <3>2
      <3>5. /\ s7'[url] = [tenant |-> s7'[url].tenant, staff |-> s7'[url].staff,
                           filled |-> s7'[url].filled, rows |-> s7'[url].rows]
            /\ s7'[url].filled = 0 /\ s7'[url].rows = a
        BY <1>f, <3>4
      <3>6. ~Scripts!Clashes(url) => DatabaseOf[a] = url BY <3>2 DEF Scripts!Clashes
      <3>7. 0 \in 0..Tables /\ 0 # Tables BY <1>f
      <3> QED BY <3>3, <3>4, <3>5, <3>6, <3>7
    <2>2. CASE Scripts!Rename
      <3>1. /\ s2.at = "seed" /\ s2' = [s2 EXCEPT !.at = "fill"]
            /\ s7' = [s7 EXCEPT ![s2.url].tenant = s2.of, ![s2.url].staff = s7[s2.url].staff \cup {s2.of}]
        BY <2>2 DEF Scripts!Rename
      <3>2. /\ s2.url \in Databases /\ s7[s2.url].filled = 0 /\ s7[s2.url].rows = s2.of
        BY <1>k, <3>1 DEF Scripts!Places, Scripts!SeedUnderWay
      <3>3. PICK url \in Databases : url = s2.url BY <3>2
      <3>4. PICK a : a = s2.of OBVIOUS
      <3>5. /\ DOMAIN s7' = Databases /\ \A e \in Databases : e # url => s7'[e] = s7[e]
            /\ s7'[url] = [s7[url] EXCEPT !.tenant = a, !.staff = s7[url].staff \cup {a}]
        BY <1>f, <3>1, <3>3, <3>4
      <3>6. /\ s7'[url] = [tenant |-> s7'[url].tenant, staff |-> s7'[url].staff,
                           filled |-> s7'[url].filled, rows |-> s7'[url].rows]
            /\ s7'[url].filled = 0 /\ s7'[url].rows = a /\ s7'[url].tenant = a
        BY <1>f, <3>2, <3>3, <3>4, <3>5
      <3>7. s2'.at = "fill" /\ s2'.url = url /\ s2'.of = a BY <1>f, <3>1, <3>3, <3>4
      <3>8. ~Scripts!Clashes(url) => a = Scripts!Before \/ DatabaseOf[a] = url
        BY <1>k, <3>2, <3>3, <3>4 DEF Scripts!OnlyItsDemo
      <3>9. 0 \in 0..Tables /\ 0 < Tables BY <1>f
      <3> QED BY <3>5, <3>6, <3>7, <3>8, <3>9
    <2>3. CASE Scripts!Fill
      <3>1. /\ s2.at = "fill" /\ s7' = [s7 EXCEPT ![s2.url].filled = s7[s2.url].filled + 1]
            /\ s2' = IF s7'[s2.url].filled = Tables THEN Scripts!NoRun ELSE s2
        BY <2>3 DEF Scripts!Fill
      <3>2. /\ s2.url \in Databases /\ s7[s2.url].filled < Tables
            /\ s7[s2.url].tenant = s2.of /\ s7[s2.url].rows = s2.of
        BY <1>k, <3>1 DEF Scripts!Places, Scripts!SeedUnderWay
      <3>3. PICK url \in Databases : url = s2.url BY <3>2
      <3>4. PICK a : a = s2.of OBVIOUS
      <3>5. PICK n \in 0..Tables : n = s7[url].filled + 1 BY <1>f, <3>2, <3>3
      <3>6. /\ DOMAIN s7' = Databases /\ \A e \in Databases : e # url => s7'[e] = s7[e]
            /\ s7'[url] = [s7[url] EXCEPT !.filled = n]
        BY <1>f, <3>1, <3>3, <3>5
      <3>7. /\ s7'[url] = [tenant |-> s7'[url].tenant, staff |-> s7'[url].staff,
                           filled |-> s7'[url].filled, rows |-> s7'[url].rows]
            /\ s7'[url].filled = n /\ s7'[url].rows = a /\ s7'[url].tenant = a
        BY <1>f, <3>2, <3>3, <3>4, <3>6
      <3>8. s2' = IF n = Tables THEN Scripts!NoRun ELSE s2 BY <3>1, <3>3, <3>7
      <3>9. n # Tables => n < Tables BY <1>f
      <3>10. ~Scripts!Clashes(url) => a = Scripts!Before \/ DatabaseOf[a] = url
        BY <1>k, <3>2, <3>3, <3>4 DEF Scripts!OnlyItsDemo
      <3>11. /\ s2'.at \in {"seed", "fill"} => s2'.url = url /\ s2'.of = a /\ n < Tables
             /\ s2'.at # "seed"
        BY <3>1, <3>3, <3>4, <3>8, <3>9, NoRunFields
      <3> QED BY <3>6, <3>7, <3>10, <3>11
    <2> QED BY <2>1, <2>2, <2>3
  <1>5. Scripts!TypeOK'
    <2>1. \A e \in Databases : s7'[e].filled \in 0..Tables BY <1>f, <1>3
    <2> QED BY <1>k, <1>1, <1>2, <2>1 DEF Scripts!TypeOK
  <1>6. Scripts!Places'
    <2>1. \A e \in Databases : s7'[e] = [tenant |-> s7'[e].tenant, staff |-> s7'[e].staff,
                                         filled |-> s7'[e].filled, rows |-> s7'[e].rows]
      BY <1>f, <1>3
    <2>2. s2'.at \in {"seed", "fill"} => s2'.url \in Databases BY <1>3
    <2> QED BY <1>2, <1>3, <2>1, <2>2 DEF Scripts!Places, Scripts!NoRun, Scripts!Before
  <1>7. Scripts!EveryoneIsTold'
    <2>1. Scripts!Behind' = {} /\ Scripts!Behind = {} BY <1>2 DEF Scripts!Behind
    <2> QED BY <1>k, <1>1, <1>2, <2>1 DEF Scripts!EveryoneIsTold, Scripts!Tells
  <1>8. Scripts!SeedUnderWay' BY <1>3 DEF Scripts!SeedUnderWay
  <1>9. Scripts!SeedIsWhole' BY <1>k, <1>3 DEF Scripts!SeedIsWhole
  <1>10. Scripts!OnlyItsDemo'
    BY <1>k, <1>3 DEF Scripts!OnlyItsDemo, Scripts!Clashes, Scripts!Before
  <1> QED BY <1>5, <1>6, <1>7, <1>8, <1>9, <1>10 DEF Scripts!Orderly

LEMMA ScriptsStayOrderly ==
    ASSUME Scripts!Orderly, Scripts!Next
    PROVE  Scripts!Orderly'
  BY RunsStayOrderly, LinksStayOrderly, SaveStaysOrderly, OwnersStayOrderly, SeedsStayOrderly
  DEF Scripts!Next

LEMMA OrderlyIsConverged ==
    ASSUME Scripts!Orderly
    PROVE  Scripts!NobodyIsStranded /\ Scripts!OnlyItsDemo /\ Scripts!SeedIsWhole
  <1>1. Scripts!NobodyIsStranded
    <2> SUFFICES ASSUME s1 = "links", s2.at = "idle", ~s8
                 PROVE  Scripts!NobodyIsStranded
      BY DEF Scripts!NobodyIsStranded
    <2> QED BY DEF Scripts!Orderly, Scripts!EveryoneIsTold, Scripts!Tells, Scripts!NobodyIsStranded
  <1> QED BY <1>1 DEF Scripts!Orderly

-----------------------------------------------------------------------------
(* The parts together.  An instance explores one of them; the others are at    *)
(* rest, and the audit log is safe whichever it is.                            *)

Custodial ==
    /\ focus \in {"audit", "vault", "import", "scripts"} /\ Safe
    /\ focus = "vault" => VaultInv
    /\ focus = "import" => Import!Kept
    /\ focus = "scripts" => Scripts!Orderly

LEMMA CustodyStarts == MCInit => Custodial
  <1> SUFFICES ASSUME MCInit PROVE Custodial OBVIOUS
  <1>1. Init BY DEF MCInit, AuditAtRest
  <1>2. Safe BY <1>1, InitSafe
  <1>3. focus \in {"audit", "vault", "import", "scripts"} BY DEF MCInit
  <1>4. /\ focus = "vault" => Vault!Init
        /\ focus = "import" => Import!Init
        /\ focus = "scripts" => Scripts!Init
    BY DEF MCInit
  <1> QED BY <1>2, <1>3, <1>4, VaultStarts, ImportStarts, ScriptStarts DEF Custodial

LEMMA VaultRests ==
    ASSUME VaultInv, UNCHANGED <<slots, overlapped>>
    PROVE  VaultInv'
  <1>1. UNCHANGED <<s1, s2, s3, s4, s5, s6, s7, overlapped>> BY DEF slots
  <1>2. Vault!TypeOK' BY <1>1 DEF VaultInv, Vault!TypeOK, Vault!None
  <1>3. Vault!Places' BY <1>1 DEF VaultInv, Vault!Places, Vault!Held
  <1>4. Vault!Truthful => Vault!Truthful'
    BY <1>1 DEF Vault!Truthful, Vault!RowsHold, Vault!HeldIsStored, Vault!NewIsOwned,
                Vault!Holds, Vault!Ciphers, Vault!IndexesOf, Vault!Held, Vault!None,
                Vault!Absent, Vault!Dev, Vault!Sealed
  <1> QED BY <1>1, <1>2, <1>3, <1>4 DEF VaultInv

LEMMA ScriptsRest ==
    ASSUME Scripts!Orderly, UNCHANGED slots
    PROVE  Scripts!Orderly'
  <1>1. UNCHANGED <<s1, s2, s3, s4, s5, s6, s7, s8>> BY DEF slots
  <1>2. Scripts!TypeOK' BY <1>1 DEF Scripts!Orderly, Scripts!TypeOK
  <1>3. Scripts!Places'
    BY <1>1 DEF Scripts!Orderly, Scripts!Places, Scripts!Scope, Scripts!NoRun, Scripts!Before
  <1>4. Scripts!EveryoneIsTold'
    BY <1>1 DEF Scripts!Orderly, Scripts!EveryoneIsTold, Scripts!Behind, Scripts!Scope, Scripts!Tells
  <1>5. Scripts!SeedUnderWay' /\ Scripts!OnlyItsDemo' /\ Scripts!SeedIsWhole' BY <1>1, DemosStay
  <1> QED BY <1>2, <1>3, <1>4, <1>5 DEF Scripts!Orderly

LEMMA CustodyNextKeeps == Custodial /\ [MCNext]_all => Custodial'
  <1> SUFFICES ASSUME Custodial, [MCNext]_all PROVE Custodial' OBVIOUS
  <1>1. focus' = focus BY DEF MCNext, all
  <1>2. [Next]_vars
    BY DEF MCNext, all, AuditNext, VaultNext, ImportNext, ScriptsNext
  <1>3. Safe' BY <1>2, NextSafe DEF Custodial
  <1>4. focus = "vault" => VaultNext \/ UNCHANGED <<slots, overlapped>>
    BY DEF MCNext, all
  <1>5. focus = "import" => Import!Next \/ UNCHANGED slots
    BY DEF MCNext, all, ImportNext
  <1>6. focus = "scripts" => Scripts!Next \/ UNCHANGED slots
    BY DEF MCNext, all, ScriptsNext
  <1>7. focus = "vault" => VaultInv' BY <1>4, VaultNextKeeps, VaultRests DEF Custodial
  <1>8. focus = "import" => Import!Kept'
    BY <1>5, ImportNextKeeps DEF Custodial, slots, Import!bvars
  <1>9. focus = "scripts" => Scripts!Orderly' BY <1>6, ScriptsStayOrderly, ScriptsRest DEF Custodial
  <1> QED BY <1>1, <1>3, <1>7, <1>8, <1>9 DEF Custodial

\* Audit log, vault, imports and scripts keep their types: the submission and the
\* owner of every imported row exist, every link is one of a run, and what a job of
\* the vault holds is a cipher text of a row.
THEOREM CustodyKeepsItsTypes == MCSpec => []TypesOK
  <1>1. Custodial => TypesOK
    BY DEF Custodial, TypesOK, Safe, VaultInv, Import!Kept, Scripts!Orderly
  <1> QED BY CustodyStarts, CustodyNextKeeps, <1>1, PTL DEF MCSpec

\* Wherever a script is cut off and however often it is run, for any file, any
\* batch and any bound on the runs: an import leaves one submission per period, a
\* tagged one every row once, true counters, the rows of others and rows linked to
\* their owners; nobody whose password was parked is left without a word; and only
\* a demo's own database is cleared and filled (src/backend/scripts).
THEOREM ScriptsAlwaysConverge == MCSpec => []ScriptsConverge
  <1>1. Custodial => ScriptsConverge
    BY KeptIsConverged, OrderlyIsConverged DEF Custodial, ScriptsConverge
  <1> QED BY CustodyStarts, CustodyNextKeeps, <1>1, PTL DEF MCSpec

\* With details that have no undefined value, verify() notices a change of the
\* details or the time of any row and the loss of any but the newest; and while no
\* job was disturbed and no key lost, every stored identifier and index is of the
\* value last stored, under any number of keys, rows and rotations.
THEOREM WhatIsKeptIsTrue ==
    ASSUME BodiesDefined
    PROVE  MCSpec => []KeptIsTrue
  <1>1. MCInit => Custodial /\ Noticed
    BY CustodyStarts, InitNoticed DEF MCInit, AuditAtRest
  <1>2. Custodial /\ Noticed /\ [MCNext]_all => (Custodial /\ Noticed)'
    <2>1. [MCNext]_all => [Next]_vars
      BY DEF MCNext, all, AuditNext, VaultNext, ImportNext, ScriptsNext
    <2> QED BY <2>1, CustodyNextKeeps, NextNoticed
  <1>3. Custodial /\ Noticed => KeptIsTrue
    <2> SUFFICES ASSUME Custodial, Noticed PROVE KeptIsTrue OBVIOUS
    <2>1. ChangesAreNoticed BY EditsAreNoticed, DropsAreNoticed DEF ChangesAreNoticed
    <2>2. focus = "vault" => Vault!StoredIsTruth
      <3>1. overlapped \/ s7 => Vault!StoredIsTruth BY DEF Vault!StoredIsTruth
      <3> QED BY <3>1, HoldingIsTruth DEF Custodial, VaultInv, Vault!Truthful
    <2> QED BY <2>1, <2>2 DEF Custodial, KeptIsTrue
  <1> QED BY <1>1, <1>2, <1>3, PTL DEF MCSpec

\* A password its owner chose is not taken back by any run of the login import.
THEOREM ChosenPasswordsStay ==
    MCSpec => [][focus = "scripts" => Scripts!ChosenStays]_all
  <1>1. ASSUME Custodial, [MCNext]_all
        PROVE  [focus = "scripts" => Scripts!ChosenStays]_all
    <2> SUFFICES ASSUME focus = "scripts", s1 = "logins", Scripts!Next,
                        NEW u \in Logins, s4[u].knows = "owner"
                 PROVE  s4'[u].knows = "owner"
      BY <1>1 DEF MCNext, ScriptsNext, Scripts!ChosenStays
    <2>f. s4 \in [Logins -> [knows : {"none", "owner", "nobody", "imported"},
                             links : SUBSET (1..MaxOps)]]
      BY <1>1, ScriptFields DEF Custodial
    <2>1. \/ s4' = s4
          \/ \E v \in Logins : \/ Scripts!MintLink(v) \/ Scripts!Redeem(v)
                               \/ Scripts!CarryOver(v) \/ Scripts!Choose(v)
      BY DEF Scripts!Next, Scripts!Carry, Scripts!Rename, Scripts!Fill, Scripts!Cut,
             Scripts!Issue, Scripts!Park, Scripts!Failed, Scripts!Save, Scripts!Seed
    <2>2. ASSUME NEW v \in Logins,
                 \/ Scripts!MintLink(v) \/ Scripts!Redeem(v)
                 \/ Scripts!CarryOver(v) \/ Scripts!Choose(v)
          PROVE  s4'[u].knows = "owner"
      <3>1. \/ s4' = [s4 EXCEPT ![v].links = s4[v].links \cup {s3}]
            \/ s4' = [s4 EXCEPT ![v] = [knows |-> "owner", links |-> {}]]
            \/ s4' = s4
            \/ s4[v].knows = "none" /\ s4' = [s4 EXCEPT ![v].knows = "imported"]
            \/ s4' = [s4 EXCEPT ![v].knows = "owner"]
        BY <2>2 DEF Scripts!MintLink, Scripts!Redeem, Scripts!CarryOver, Scripts!Choose
      <3> QED BY <2>f, <3>1
    <2> QED BY <2>1, <2>2
  <1> QED BY CustodyStarts, CustodyNextKeeps, <1>1, PTL DEF MCSpec

-----------------------------------------------------------------------------
(* The pages of the re-encryption.  A page is the first of the rows that are   *)
(* left, by id; nothing is left out between two pages or after a short one.    *)

LEMMA VaultSets ==
    ASSUME NEW S, NEW n
    PROVE  Vault!FirstOf(S, n) = {r \in S : Cardinality({x \in S : x < r}) < n}
  <1>1. \A T : Vault!Cardinality(T) = Cardinality(T) BY DEF Cardinality, Vault!Cardinality
  <1> QED BY <1>1 DEF Vault!FirstOf

\* Who is not among the first n comes after them, and they are n.
LEMMA FirstComeFirst ==
    ASSUME NEW S \in SUBSET Nat, IsFiniteSet(S), NEW n \in Nat,
           NEW r \in S, r \notin Vault!FirstOf(S, n)
    PROVE  /\ IsFiniteSet(Vault!FirstOf(S, n)) /\ Vault!FirstOf(S, n) \subseteq S
           /\ Cardinality(Vault!FirstOf(S, n)) >= n
           /\ \A x \in Vault!FirstOf(S, n) : x < r
  <1> DEFINE Below(x) == {y \in S : y < x}
             F == {x \in S : Cardinality(Below(x)) < n}
  <1>f. Vault!FirstOf(S, n) = F BY VaultSets
  <1>1. \A x \in S : IsFiniteSet(Below(x)) /\ Cardinality(Below(x)) \in Nat
    <2> TAKE x \in S
    <2>1. Below(x) \subseteq S OBVIOUS
    <2> HIDE DEF Below
    <2> QED BY <2>1, FS_Subset, FS_CardinalityType
  <1>2. F \subseteq S /\ IsFiniteSet(F) /\ Cardinality(F) \in Nat
    <2>1. F \subseteq S OBVIOUS
    <2> HIDE DEF F
    <2> QED BY <2>1, FS_Subset, FS_CardinalityType
  <1>3. \A x \in F : x < r
    <2> SUFFICES ASSUME NEW x \in F, ~(x < r) PROVE FALSE OBVIOUS
    <2>1. Below(r) \subseteq Below(x)
      <3>1. x \in Nat /\ r \in Nat /\ r <= x OBVIOUS
      <3>2. \A y \in S : y < r => y < x
        <4> TAKE y \in S
        <4>1. y \in Nat OBVIOUS
        <4> QED BY <3>1, <4>1
      <3> QED BY <3>2
    <2>2. x \in S /\ Cardinality(Below(x)) < n /\ ~(Cardinality(Below(r)) < n) BY <1>f
    <2>3. Cardinality(Below(r)) <= Cardinality(Below(x))
      <3> HIDE DEF Below
      <3> QED BY <1>1, <2>1, <2>2, FS_Subset
    <2> HIDE DEF Below
    <2> QED BY <1>1, <2>2, <2>3
  <1>4. PICK m \in S \ F : \A k \in S \ F : <<k, m>> \notin OpToRel(<, Nat)
    <2>1. S \ F \in SUBSET Nat /\ S \ F # {} BY <1>f
    <2> QED BY <2>1, NatLessThanWellFounded, WFMin, Zenon
  <1>5. \A k \in S \ F : ~(k < m) BY <1>4 DEF OpToRel
  <1>6. Below(m) \subseteq F
    <2> SUFFICES ASSUME NEW y \in S, y < m PROVE y \in F OBVIOUS
    <2> HIDE DEF F
    <2> QED BY <1>5
  <1>7. m \in S /\ ~(Cardinality(Below(m)) < n) OBVIOUS
  <1> HIDE DEF Below, F
  <1>8. Cardinality(Below(m)) <= Cardinality(F) BY <1>2, <1>6, FS_Subset
  <1>9. Cardinality(F) >= n BY <1>1, <1>2, <1>7, <1>8
  <1> QED BY <1>f, <1>2, <1>3, <1>9

\* A page that is not full is the last.
LEMMA ShortPageIsLast ==
    ASSUME NEW S \in SUBSET Nat, IsFiniteSet(S), NEW n \in Nat,
           Cardinality(Vault!FirstOf(S, n)) < n
    PROVE  \A r \in S : r \in Vault!FirstOf(S, n)
  <1> SUFFICES ASSUME NEW r \in S, r \notin Vault!FirstOf(S, n) PROVE FALSE OBVIOUS
  <1>1. /\ IsFiniteSet(Vault!FirstOf(S, n)) /\ Cardinality(Vault!FirstOf(S, n)) >= n
    BY FirstComeFirst
  <1>2. Cardinality(Vault!FirstOf(S, n)) \in Nat BY <1>1, FS_CardinalityType
  <1> QED BY <1>1, <1>2

\* The next page begins where this one ends.
LEMMA PagesMeet ==
    ASSUME NEW S \in SUBSET Nat, IsFiniteSet(S), NEW skip \in Nat, NEW n \in Nat,
           NEW r \in Vault!FirstOf(S, skip + n), r \notin Vault!FirstOf(S, skip)
    PROVE  r \in Vault!FirstOf(S \ Vault!FirstOf(S, skip), n)
  <1>1. r \in S /\ Cardinality({x \in S : x < r}) < skip + n BY VaultSets
  <1> DEFINE F == Vault!FirstOf(S, skip)
             B == {x \in S : x < r}
             C == {x \in S \ F : x < r}
  <1>2. /\ IsFiniteSet(F) /\ F \subseteq S /\ Cardinality(F) >= skip /\ \A x \in F : x < r
    BY <1>1, FirstComeFirst
  <1> HIDE DEF F
  <1>3. B = F \cup C /\ F \cap C = {} /\ C \subseteq S /\ Cardinality(B) < skip + n
    BY <1>1, <1>2
  <1>4. r \in S \ F BY <1>1 DEF F
  <1>5. Vault!FirstOf(S \ F, n) = {x \in S \ F : Cardinality({y \in S \ F : y < x}) < n}
    BY VaultSets
  <1> HIDE DEF B, C
  <1>6. IsFiniteSet(C) /\ Cardinality(F) \in Nat /\ Cardinality(C) \in Nat
    BY <1>2, <1>3, FS_Subset, FS_CardinalityType
  <1>7. Cardinality(B) = Cardinality(F) + Cardinality(C)
    <2>1. Cardinality(F \cup C) = Cardinality(F) + Cardinality(C) - Cardinality(F \cap C)
      BY <1>2, <1>6, FS_Union
    <2>2. Cardinality(F \cap C) = 0 BY <1>3, FS_EmptySet
    <2> QED BY <1>3, <1>6, <2>1, <2>2
  <1>8. Cardinality(C) < n BY <1>2, <1>3, <1>6, <1>7
  <1> QED BY <1>4, <1>5, <1>8 DEF C, F

\* The rows that stay are passed as they were, wherever what is written is fresh.
LEMMA PassedStays ==
    ASSUME Vault!Ahead, s4' = s4, s2' = s2, ~Vault!Disturbed,
           s4.pc \in {"page", "rows"} =>
               \A r \in Ids : s3'[r].enc = s3[r].enc \/ ~Vault!NeedsReencrypt(s3'[r].enc),
           s5'.pc = "write" =>
               \A r \in DOMAIN s5'.new : ~Vault!NeedsReencrypt(s5'.new[r].enc)
    PROVE  Vault!Ahead'
  <1>n. \A c : Vault!NeedsReencrypt(c)' = Vault!NeedsReencrypt(c)
    BY DEF Vault!NeedsReencrypt
  <1>1. CASE s4.pc \notin {"page", "rows"}
    BY <1>1 DEF Vault!Ahead, Vault!NeedsReencrypt
  <1>2. CASE s4.pc \in {"page", "rows"}
    <2>1. \A r \in Ids : (s3[r] = Vault!Absent) = (s3'[r] = Vault!Absent)
      BY <1>2 DEF Vault!Disturbed, Vault!Absent, Vault!None
    <2>2. Vault!Present' = Vault!Present BY <2>1 DEF Vault!Present, Vault!Absent, Vault!None
    <2>3. /\ Vault!Past' = Vault!Past /\ Vault!Here' = Vault!Here /\ Vault!Held' = Vault!Held
          /\ Vault!Past \subseteq Ids /\ Vault!Here \subseteq Ids
      BY <2>2 DEF Vault!Past, Vault!Here, Vault!RowsAfter, Vault!FirstOf, Vault!Held, Vault!Present
    <2>4. \A r \in Ids : ~Vault!NeedsReencrypt(s3[r].enc) => ~Vault!NeedsReencrypt(s3'[r].enc)
      BY <1>2
    <2>5. /\ \A r \in Vault!Past : ~Vault!NeedsReencrypt(s3[r].enc)
          /\ s4.skip \in Nat
          /\ s4.pc = "rows" => /\ s4.size = Vault!Cardinality(Vault!Here)
                               /\ \A r \in Vault!Here \ Vault!Held : ~Vault!NeedsReencrypt(s3[r].enc)
      BY <1>2 DEF Vault!Ahead
    <2>6. /\ \A r \in Vault!Past : ~Vault!NeedsReencrypt(s3'[r].enc)
          /\ s4.pc = "rows" => \A r \in Vault!Here \ Vault!Held : ~Vault!NeedsReencrypt(s3'[r].enc)
      BY <2>3, <2>4, <2>5
    <2>7. Vault!Cardinality(Vault!Here)' = Vault!Cardinality(Vault!Here) BY <2>3
    <2> QED BY <2>3, <2>5, <2>6, <2>7 DEF Vault!Ahead, Vault!NeedsReencrypt
  <1> QED BY <1>1, <1>2

LEMMA FreshSeals ==
    /\ \A v : ~Vault!NeedsReencrypt(Vault!Encrypt(v))
    /\ ~Vault!NeedsReencrypt(Vault!None)
    /\ \A c : ~Vault!NeedsReencrypt(Vault!Reencrypt(c))
    /\ \A kind, row : ~Vault!NeedsReencrypt(Vault!Patch(kind, row).enc)
  <1>1. \A v : ~Vault!NeedsReencrypt(Vault!Encrypt(v))
    BY DEF Vault!NeedsReencrypt, Vault!Encrypt, Vault!Sealed
  <1>2. ~Vault!NeedsReencrypt(Vault!None) BY DEF Vault!NeedsReencrypt, Vault!None
  <1>3. \A c : ~Vault!NeedsReencrypt(Vault!Reencrypt(c)) BY <1>1, <1>2 DEF Vault!Reencrypt
  <1>4. \A kind, row : Vault!Patch(kind, row).enc = Vault!None
                       \/ \E v : Vault!Patch(kind, row).enc = Vault!Encrypt(v)
    BY DEF Vault!Patch, Vault!Absent
  <1> QED BY <1>1, <1>2, <1>3, <1>4

\* The application, its restarts, and the scripts.
LEMMA OthersPass ==
    ASSUME Vault!TypeOK, Vault!Places, Vault!Ahead, ~Vault!Disturbed,
           \/ Vault!Boot \/ Vault!Store \/ Vault!Purge
           \/ Vault!ScriptPage \/ Vault!ScriptWrite
    PROVE  Vault!Ahead'
  <1>f. DOMAIN s3 = Ids BY VaultFields
  <1>1. CASE Vault!Boot
    <2>1. s4' = Vault!NoJob /\ s5' = s5 BY <1>1 DEF Vault!Boot
    <2>2. s4'.pc = "idle" BY <2>1 DEF Vault!NoJob
    <2>3. s5.pc = "write" => s2' = s2 BY <2>1 DEF Vault!Disturbed
    <2> QED BY <2>1, <2>2, <2>3 DEF Vault!Ahead, Vault!NeedsReencrypt
  <1>2. CASE Vault!Store
    <2>1. PICK r \in Ids, v \in Values :
            s3' = [s3 EXCEPT ![r] = [enc |-> Vault!Encrypt(v), index |-> Vault!BlindIndex(v)]]
      BY <1>2 DEF Vault!Store
    <2>2. s2' = s2 /\ s4' = s4 /\ s5' = s5 BY <1>2 DEF Vault!Store
    <2>3. \A x \in Ids : s3'[x].enc = s3[x].enc \/ ~Vault!NeedsReencrypt(s3'[x].enc)
      <3>1. \A x \in Ids : x # r => s3'[x] = s3[x] BY <1>f, <2>1
      <3>2. s3'[r].enc = Vault!Encrypt(v) BY <1>f, <2>1
      <3> QED BY <3>1, <3>2, FreshSeals
    <2> QED BY <2>2, <2>3, PassedStays DEF Vault!Ahead
  <1>3. CASE Vault!Purge
    <2>1. PICK r \in Vault!Present : s3' = [s3 EXCEPT ![r] = Vault!Absent] BY <1>3 DEF Vault!Purge
    <2>2. s2' = s2 /\ s4' = s4 /\ s5' = s5 BY <1>3 DEF Vault!Purge
    <2>3. \A x \in Ids : s3'[x].enc = s3[x].enc \/ ~Vault!NeedsReencrypt(s3'[x].enc)
      <3>1. \A x \in Ids : x # r => s3'[x] = s3[x] BY <1>f, <2>1
      <3>2. r \in Ids => s3'[r].enc = Vault!None BY <1>f, <2>1 DEF Vault!Absent
      <3> QED BY <3>1, <3>2, FreshSeals
    <2> QED BY <2>2, <2>3, PassedStays DEF Vault!Ahead
  <1>4. CASE Vault!ScriptPage
    <2>1. UNCHANGED <<s1, s2, s3, s4, s6>> BY <1>4 DEF Vault!ScriptPage
    <2>2. PICK kind \in {"backfill", "rekey"}, page \in SUBSET Vault!Present :
             \/ s5' = Vault!NoJob
             \/ \E last \in page :
                  s5' = [pc |-> "write", kind |-> kind, after |-> last,
                         new |-> [r \in page |-> Vault!Patch(kind, s3[r])]]
      BY <1>4 DEF Vault!ScriptPage, Vault!FirstOf
    <2>3. s5'.pc = "write" => \A r \in DOMAIN s5'.new : ~Vault!NeedsReencrypt(s5'.new[r].enc)
      <3>1. CASE s5' = Vault!NoJob BY <3>1 DEF Vault!NoJob
      <3>2. CASE \E last \in page :
                   s5' = [pc |-> "write", kind |-> kind, after |-> last,
                          new |-> [r \in page |-> Vault!Patch(kind, s3[r])]]
        <4>1. s5'.new = [r \in page |-> Vault!Patch(kind, s3[r])] BY <3>2
        <4> QED BY <4>1, FreshSeals
      <3> QED BY <2>2, <3>1, <3>2
    <2> QED BY <2>1, <2>3, PassedStays
  <1>5. CASE Vault!ScriptWrite
    <2>1. /\ s5.pc = "write" /\ UNCHANGED <<s2, s4>>
          /\ s5' = [pc |-> "page", kind |-> s5.kind, after |-> s5.after]
          /\ s3' = [r \in Ids |-> IF r \in DOMAIN s5.new /\ s3[r] # Vault!Absent
                                  THEN Vault!Coalesce(s5.new[r], s3[r]) ELSE s3[r]]
      BY <1>5 DEF Vault!ScriptWrite
    <2>2. \A r \in Ids : s3'[r].enc = s3[r].enc \/ ~Vault!NeedsReencrypt(s3'[r].enc)
      <3> SUFFICES ASSUME NEW r \in Ids, r \in DOMAIN s5.new, s3[r] # Vault!Absent
                   PROVE  s3'[r].enc = s3[r].enc \/ ~Vault!NeedsReencrypt(s3'[r].enc)
        BY <2>1
      <3>1. s3'[r] = Vault!Coalesce(s5.new[r], s3[r]) BY <2>1
      <3>2. s3'[r].enc = s3[r].enc \/ s3'[r].enc = s5.new[r].enc BY <3>1 DEF Vault!Coalesce
      <3> QED BY <2>1, <3>2 DEF Vault!Ahead
    <2> QED BY <2>1, <2>2, PassedStays
  <1> QED BY <1>1, <1>2, <1>3, <1>4, <1>5

\* When the re-encryption has been everywhere, no row is left to do.
NoneLeft == \A r \in Ids : ~Vault!NeedsReencrypt(s3[r].enc)

LEMMA PresentAreIds ==
    /\ Vault!Present \in SUBSET Nat /\ IsFiniteSet(Vault!Present)
    /\ Vault!Past \subseteq Vault!Present
    /\ \A S : Vault!Cardinality(S) = Cardinality(S)
  <1>1. Vault!IsFiniteSet(Ids) /\ Ids \subseteq Nat BY VaultConstants DEF Vault!VaultAssumption
  <1>2. \A S : Vault!IsFiniteSet(S) = IsFiniteSet(S) BY DEF IsFiniteSet, Vault!IsFiniteSet
  <1>3. Vault!Present \subseteq Ids BY DEF Vault!Present
  <1>4. IsFiniteSet(Vault!Present) BY <1>1, <1>2, <1>3, FS_Subset
  <1>5. Vault!Past \subseteq Vault!Present BY DEF Vault!Past, Vault!FirstOf
  <1>6. \A S : Vault!Cardinality(S) = Cardinality(S) BY DEF Cardinality, Vault!Cardinality
  <1> QED BY <1>1, <1>3, <1>4, <1>5, <1>6

LEMMA StartPasses ==
    ASSUME Vault!Ahead, Vault!StartJob
    PROVE  Vault!Ahead'
  <1>1. s4' = [pc |-> "page", skip |-> 0] /\ UNCHANGED <<s2, s3, s5>> BY DEF Vault!StartJob
  <1>2. s4'.pc = "page" /\ s4'.skip = 0 BY <1>1
  <1>3. Vault!FirstOf(Vault!Present, 0) = {}
    <2> SUFFICES ASSUME NEW r \in Vault!Present, Cardinality({x \in Vault!Present : x < r}) < 0
                 PROVE  FALSE
      BY VaultSets
    <2>1. {x \in Vault!Present : x < r} \subseteq Vault!Present OBVIOUS
    <2>2. Cardinality({x \in Vault!Present : x < r}) \in Nat
      BY <2>1, PresentAreIds, FS_Subset, FS_CardinalityType
    <2> QED BY <2>2
  <1>4. Vault!Past' = {}
    BY <1>1, <1>2, <1>3
    DEF Vault!Past, Vault!FirstOf, Vault!Present, Vault!Absent, Vault!None
  <1> QED BY <1>1, <1>2, <1>4 DEF Vault!Ahead, Vault!NeedsReencrypt

LEMMA PagePasses ==
    ASSUME Vault!Ahead, Vault!Page
    PROVE  Vault!Ahead' /\ (s4'.pc = "done" => NoneLeft')
  <1>1. UNCHANGED <<s1, s2, s3, s5>> /\ s4.pc = "page" BY DEF Vault!Page
  <1>2. s4.skip \in Nat /\ \A r \in Vault!Past : ~Vault!NeedsReencrypt(s3[r].enc)
    BY <1>1 DEF Vault!Ahead
  <1>3. PICK page : page = Vault!Here OBVIOUS
  <1>4. s4' = IF page = {} THEN [pc |-> "done"]
              ELSE [pc |-> "rows", skip |-> s4.skip, size |-> Vault!Cardinality(page),
                    held |-> [r \in page |-> s3[r].enc]]
    BY <1>3 DEF Vault!Page, Vault!Here
  <1>5. CASE page = {}
    <2>1. s4'.pc = "done" BY <1>4, <1>5
    <2>2. Vault!Ahead' BY <1>1, <2>1 DEF Vault!Ahead, Vault!NeedsReencrypt
    <2>3. PICK rest : rest = Vault!RowsAfter(s4.skip) OBVIOUS
    <2>4. rest \in SUBSET Nat /\ IsFiniteSet(rest) /\ rest = Vault!Present \ Vault!Past
      BY <2>3, PresentAreIds, FS_Subset DEF Vault!RowsAfter, Vault!Past
    <2>6. PageSize \in Nat \ {0} BY VaultConstants DEF Vault!VaultAssumption
    <2>7. Vault!FirstOf(rest, PageSize) = {} BY <1>3, <1>5, <2>3 DEF Vault!Here
    <2>8. Cardinality(Vault!FirstOf(rest, PageSize)) < PageSize
      BY <2>6, <2>7, FS_EmptySet
    <2>9. rest = {} BY <2>4, <2>6, <2>7, <2>8, ShortPageIsLast
    <2>10. \A r \in Vault!Present : ~Vault!NeedsReencrypt(s3[r].enc) BY <1>2, <2>4, <2>9
    <2>11. NoneLeft BY <2>10, FreshSeals DEF NoneLeft, Vault!Present, Vault!Absent
    <2>12. NoneLeft' BY <1>1, <2>11 DEF NoneLeft, Vault!NeedsReencrypt
    <2> QED BY <2>2, <2>12
  <1>6. CASE page # {}
    <2>1. /\ s4'.pc = "rows" /\ s4'.skip = s4.skip /\ s4'.size = Vault!Cardinality(page)
          /\ s4'.held = [r \in page |-> s3[r].enc]
      BY <1>4, <1>6
    <2>2. Vault!Past' = Vault!Past /\ Vault!Here' = page /\ Vault!Held' = page
      BY <1>1, <1>3, <2>1
      DEF Vault!Past, Vault!Here, Vault!Held, Vault!RowsAfter, Vault!FirstOf, Vault!Present,
          Vault!Absent, Vault!None
    <2>3. Vault!Cardinality(Vault!Here)' = Vault!Cardinality(page) BY <2>2
    <2> QED BY <1>1, <1>2, <2>1, <2>2, <2>3 DEF Vault!Ahead, Vault!NeedsReencrypt
  <1> QED BY <1>5, <1>6

LEMMA RowPasses ==
    ASSUME Vault!TypeOK, Vault!Places, Vault!Truthful, Vault!Ahead, ~Vault!Disturbed, Vault!Row
    PROVE  Vault!Ahead' /\ (s4'.pc = "done" => NoneLeft')
  <1>f. /\ DOMAIN s3 = Ids
        /\ s4.pc = "rows" => s4 = [pc |-> "rows", skip |-> s4.skip, size |-> s4.size, held |-> s4.held]
    BY VaultFields
  <1>1. UNCHANGED <<s1, s2, s5>> /\ s4.pc = "rows" BY DEF Vault!Row
  <1>p. PageSize \in Nat \ {0} BY VaultConstants DEF Vault!VaultAssumption
  <1>2. /\ s4.skip \in Nat /\ s4.size = Vault!Cardinality(Vault!Here)
        /\ \A r \in Vault!Past : ~Vault!NeedsReencrypt(s3[r].enc)
        /\ \A r \in Vault!Here \ Vault!Held : ~Vault!NeedsReencrypt(s3[r].enc)
        /\ s5.pc = "write" => \A r \in DOMAIN s5.new : ~Vault!NeedsReencrypt(s5.new[r].enc)
    BY <1>1 DEF Vault!Ahead
  <1>3. Vault!Held \subseteq Ids /\ \A r \in Vault!Held : s4.held[r] = s3[r].enc
    BY <1>1 DEF Vault!Truthful, Vault!HeldIsStored
  <1>4. \A r \in Ids : (s3[r] = Vault!Absent) = (s3'[r] = Vault!Absent)
    BY <1>1 DEF Vault!Disturbed, Vault!Absent, Vault!None
  <1>5. Vault!Present' = Vault!Present BY <1>4 DEF Vault!Present, Vault!Absent, Vault!None
  <1>6. PICK r \in Vault!Held :
          \/ s4' = [pc |-> "failed"]
          \/ /\ s4' = Vault!AfterRow(r) /\ ~Vault!NeedsReencrypt(s3'[r].enc)
             /\ \A x \in Ids : x # r => s3'[x] = s3[x]
    <2>1. PICK r \in Vault!Held :
             \/ ~Vault!NeedsReencrypt(s4.held[r]) /\ s3' = s3 /\ s4' = Vault!AfterRow(r)
             \/ s4' = [pc |-> "failed"]
             \/ /\ s3' = [s3 EXCEPT ![r].enc = Vault!Reencrypt(s4.held[r])]
                /\ s4' = Vault!AfterRow(r) /\ s3[r] # Vault!Absent
      BY DEF Vault!Row
    <2>2. CASE ~Vault!NeedsReencrypt(s4.held[r]) /\ s3' = s3 /\ s4' = Vault!AfterRow(r)
      BY <1>3, <2>2
    <2>3. CASE /\ s3' = [s3 EXCEPT ![r].enc = Vault!Reencrypt(s4.held[r])]
               /\ s4' = Vault!AfterRow(r) /\ s3[r] # Vault!Absent
      <3>1. s3[r] = [enc |-> s3[r].enc, index |-> s3[r].index]
        BY <1>3, <2>3 DEF Vault!Truthful, Vault!RowsHold, Vault!Holds
      <3>2. s3'[r].enc = Vault!Reencrypt(s4.held[r]) BY <1>f, <1>3, <2>3, <3>1
      <3>3. \A x \in Ids : x # r => s3'[x] = s3[x] BY <1>f, <2>3
      <3> QED BY <2>3, <3>2, <3>3, FreshSeals
    <2> QED BY <2>1, <2>2, <2>3
  <1>7. CASE s4' = [pc |-> "failed"]
    BY <1>1, <1>2, <1>7 DEF Vault!Ahead, Vault!NeedsReencrypt
  <1>8. CASE /\ s4' = Vault!AfterRow(r) /\ ~Vault!NeedsReencrypt(s3'[r].enc)
             /\ \A x \in Ids : x # r => s3'[x] = s3[x]
    <2>1. \A x \in Ids : ~Vault!NeedsReencrypt(s3[x].enc) => ~Vault!NeedsReencrypt(s3'[x].enc)
      BY <1>8
    <2>2. /\ Vault!Past \subseteq Vault!Present /\ Vault!Here \subseteq Vault!Present
          /\ Vault!Present \subseteq Ids
      BY DEF Vault!Past, Vault!Here, Vault!RowsAfter, Vault!FirstOf, Vault!Present
    <2>3. CASE Vault!Held # {r}
      <3>1. s4' = [s4 EXCEPT !.held = [x \in Vault!Held \ {r} |-> s4.held[x]]]
        BY <1>8, <2>3 DEF Vault!AfterRow
      <3>2. /\ s4'.pc = "rows" /\ s4'.skip = s4.skip /\ s4'.size = s4.size
            /\ s4'.held = [x \in Vault!Held \ {r} |-> s4.held[x]]
        BY <1>f, <1>1, <3>1
      <3>3. /\ Vault!Past' = Vault!Past /\ Vault!Here' = Vault!Here
            /\ Vault!Held' = Vault!Held \ {r}
        BY <1>5, <3>2
        DEF Vault!Past, Vault!Here, Vault!Held, Vault!RowsAfter, Vault!FirstOf
      <3>4. Vault!Cardinality(Vault!Here)' = Vault!Cardinality(Vault!Here) BY <3>3
      <3>5. /\ \A x \in Vault!Past : ~Vault!NeedsReencrypt(s3'[x].enc)
            /\ \A x \in Vault!Here \ (Vault!Held \ {r}) : ~Vault!NeedsReencrypt(s3'[x].enc)
        BY <1>2, <1>8, <2>1, <2>2
      <3>6. Vault!Ahead'
        BY <1>1, <1>2, <3>2, <3>3, <3>4, <3>5 DEF Vault!Ahead, Vault!NeedsReencrypt
      <3> QED BY <3>2, <3>6
    <2>4. CASE Vault!Held = {r}
      <3>1. s4' = IF s4.size < PageSize THEN [pc |-> "done"]
                  ELSE [pc |-> "page", skip |-> s4.skip + PageSize]
        BY <1>8, <2>4 DEF Vault!AfterRow
      <3>2. \A x \in Vault!Past \cup Vault!Here : ~Vault!NeedsReencrypt(s3'[x].enc)
        BY <1>2, <1>8, <2>1, <2>2, <2>4
      <3>3. PICK rest : rest = Vault!RowsAfter(s4.skip) OBVIOUS
      <3>4. /\ rest \in SUBSET Nat /\ IsFiniteSet(rest) /\ rest = Vault!Present \ Vault!Past
            /\ Vault!Here = Vault!FirstOf(rest, PageSize)
        BY <3>3, PresentAreIds, FS_Subset DEF Vault!RowsAfter, Vault!Past, Vault!Here
      <3>5. CASE s4.size < PageSize
        <4>1. s4'.pc = "done" BY <3>1, <3>5
        <4>2. \A x \in rest : x \in Vault!Here
          <5>1. Cardinality(Vault!FirstOf(rest, PageSize)) < PageSize
            BY <1>2, <3>4, <3>5, PresentAreIds
          <5> QED BY <1>p, <3>4, <5>1, ShortPageIsLast
        <4>3. \A x \in Vault!Present : ~Vault!NeedsReencrypt(s3'[x].enc) BY <3>2, <3>4, <4>2
        <4>4. \A x \in Ids : x \notin Vault!Present => s3'[x].enc = Vault!None
          <5>1. \A x \in Ids : x \notin Vault!Present => s3'[x] = Vault!Absent
            BY <1>4 DEF Vault!Present
          <5> QED BY <5>1 DEF Vault!Absent
        <4>5. \A x \in Ids : ~Vault!NeedsReencrypt(s3'[x].enc) BY <4>3, <4>4, FreshSeals
        <4>6. NoneLeft' BY <1>1, <4>5 DEF NoneLeft, Vault!NeedsReencrypt
        <4>7. Vault!Ahead' BY <1>1, <1>2, <4>1 DEF Vault!Ahead, Vault!NeedsReencrypt
        <4> QED BY <4>6, <4>7
      <3>6. CASE ~(s4.size < PageSize)
        <4>1. s4'.pc = "page" /\ s4'.skip = s4.skip + PageSize BY <3>1, <3>6
        <4>2. Vault!Past' = Vault!FirstOf(Vault!Present, s4.skip + PageSize)
          BY <1>5, <4>1 DEF Vault!Past, Vault!FirstOf
        <4>3. Vault!FirstOf(Vault!Present, s4.skip + PageSize) \subseteq Vault!Past \cup Vault!Here
          <5> SUFFICES ASSUME NEW x \in Vault!FirstOf(Vault!Present, s4.skip + PageSize),
                              x \notin Vault!Past
                       PROVE  x \in Vault!Here
            OBVIOUS
          <5>1. x \notin Vault!FirstOf(Vault!Present, s4.skip) BY DEF Vault!Past
          <5>2. x \in Vault!FirstOf(Vault!Present \ Vault!FirstOf(Vault!Present, s4.skip), PageSize)
            BY <1>p, <1>2, <5>1, PresentAreIds, PagesMeet
          <5> QED BY <5>2 DEF Vault!Here, Vault!RowsAfter
        <4>4. \A x \in Vault!Past' : ~Vault!NeedsReencrypt(s3'[x].enc) BY <3>2, <4>2, <4>3
        <4>5. s4'.skip \in Nat BY <1>p, <1>2, <4>1
        <4>6. Vault!Ahead' BY <1>1, <1>2, <4>1, <4>4, <4>5 DEF Vault!Ahead, Vault!NeedsReencrypt
        <4> QED BY <4>1, <4>6
      <3> QED BY <3>5, <3>6
    <2> QED BY <2>3, <2>4
  <1> QED BY <1>6, <1>7, <1>8

VaultAhead == focus = "vault" => overlapped \/ s7 \/ Vault!Ahead

LEMMA AheadStarts == MCInit => VaultAhead
  <1> SUFFICES ASSUME Vault!Init PROVE Vault!Ahead BY DEF MCInit, VaultAhead
  <1>1. s4.pc = "idle" /\ s5.pc = "idle" BY DEF Vault!Init, Vault!NoJob
  <1> QED BY <1>1 DEF Vault!Ahead

LEMMA VaultPasses ==
    ASSUME VaultInv, Vault!Ahead, VaultNext
    PROVE  overlapped' \/ (Vault!Ahead' /\ (s4'.pc = "done" /\ s4.pc # "done" => NoneLeft'))
  <1>1. Vault!TypeOK /\ Vault!Places /\ Vault!Truthful BY DEF VaultInv, VaultNext
  <1>2. Vault!Step /\ overlapped' = (overlapped \/ Vault!Disturbed)
    BY DEF VaultNext, Vault!Next
  <1> SUFFICES ASSUME ~Vault!Disturbed
               PROVE  Vault!Ahead' /\ (s4'.pc = "done" /\ s4.pc # "done" => NoneLeft')
    BY <1>2
  <1>3. CASE \/ Vault!Boot \/ Vault!Store \/ Vault!Purge
             \/ Vault!ScriptPage \/ Vault!ScriptWrite
    <2>1. s4' = s4 \/ s4' = Vault!NoJob
      BY <1>3 DEF Vault!Boot, Vault!Store, Vault!Purge, Vault!ScriptPage, Vault!ScriptWrite
    <2>2. s4'.pc = "done" => s4.pc = "done" BY <2>1 DEF Vault!NoJob
    <2> QED BY <1>1, <1>3, <2>2, OthersPass
  <1>4. CASE Vault!StartJob
    <2>1. s4'.pc = "page" BY <1>4 DEF Vault!StartJob
    <2> QED BY <1>4, <2>1, StartPasses
  <1>5. CASE Vault!Page BY <1>5, PagePasses
  <1>6. CASE Vault!Row BY <1>1, <1>6, RowPasses
  <1> QED BY <1>2, <1>3, <1>4, <1>5, <1>6 DEF Vault!Step

LEMMA AheadRests ==
    ASSUME Vault!Ahead, UNCHANGED slots
    PROVE  Vault!Ahead'
  <1>1. UNCHANGED <<s2, s3, s4, s5>> BY DEF slots
  <1>2. /\ Vault!Past' = Vault!Past /\ Vault!Here' = Vault!Here /\ Vault!Held' = Vault!Held
    BY <1>1
    DEF Vault!Past, Vault!Here, Vault!Held, Vault!RowsAfter, Vault!FirstOf, Vault!Present,
        Vault!Absent, Vault!None
  <1>3. Vault!Cardinality(Vault!Here)' = Vault!Cardinality(Vault!Here) BY <1>2
  <1> QED BY <1>1, <1>2, <1>3 DEF Vault!Ahead, Vault!NeedsReencrypt

\* A re-encryption that nobody disturbed and that ends has been everywhere: for any
\* rows, any keys and pages of any size no row is left under an old key, so that the
\* key may be taken away (reencryptPii, governance.service.ts 28).
THEOREM RotationsComplete ==
    MCSpec => [][focus = "vault" /\ s4'.pc = "done" /\ s4.pc # "done" /\ ~overlapped' =>
                     \A r \in Ids : ~Vault!NeedsReencrypt(s3'[r].enc)]_all
  <1> DEFINE I == Custodial /\ VaultAhead
             Done == focus = "vault" /\ s4'.pc = "done" /\ s4.pc # "done" /\ ~overlapped' =>
                         \A r \in Ids : ~Vault!NeedsReencrypt(s3'[r].enc)
  <1>1. MCInit => I BY CustodyStarts, AheadStarts
  <1>2. ASSUME Custodial, VaultAhead, [MCNext]_all
        PROVE  VaultAhead' /\ [Done]_all
    <2>1. focus' = focus BY <1>2 DEF MCNext, all
    <2>2. CASE focus # "vault" BY <2>1, <2>2 DEF VaultAhead
    <2>3. CASE focus = "vault"
      <3>1. CASE VaultNext
        <4>1. ~overlapped /\ ~s7 BY <3>1 DEF VaultNext
        <4>2. overlapped' \/ (Vault!Ahead' /\ (s4'.pc = "done" /\ s4.pc # "done" => NoneLeft'))
          BY <1>2, <2>3, <3>1, <4>1, VaultPasses DEF Custodial, VaultAhead
        <4>3. CASE overlapped' BY <4>3 DEF VaultAhead
        <4>4. CASE Vault!Ahead' /\ (s4'.pc = "done" /\ s4.pc # "done" => NoneLeft')
          <5>1. s2' = s2 \/ s4' = Vault!NoJob
            BY <3>1 DEF VaultNext, Vault!Next, Vault!Step, Vault!Boot, Vault!Store, Vault!Purge,
                        Vault!StartJob, Vault!Page, Vault!Row, Vault!ScriptPage, Vault!ScriptWrite
          <5>2. s4'.pc = "done" => s2' = s2 BY <5>1 DEF Vault!NoJob
          <5>3. NoneLeft' /\ s2' = s2 => \A r \in Ids : ~Vault!NeedsReencrypt(s3'[r].enc)
            BY DEF NoneLeft, Vault!NeedsReencrypt
          <5> QED BY <4>4, <5>2, <5>3 DEF VaultAhead
        <4> QED BY <4>2, <4>3, <4>4
      <3>2. CASE UNCHANGED <<slots, overlapped>>
        <4>2. UNCHANGED <<slots, s4, s7, overlapped>> BY <3>2 DEF slots
        <4>3. overlapped \/ s7 \/ Vault!Ahead BY <1>2, <2>3 DEF VaultAhead
        <4>4. Vault!Ahead => Vault!Ahead' BY <4>2, AheadRests
        <4>1. VaultAhead' BY <4>2, <4>3, <4>4 DEF VaultAhead
        <4> QED BY <4>1, <4>2
      <3> QED BY <1>2, <2>3, <3>1, <3>2 DEF MCNext, all
    <2> QED BY <2>2, <2>3
  <1>3. I /\ [MCNext]_all => I' BY <1>2, CustodyNextKeeps
  <1>4. I /\ [MCNext]_all => [Done]_all BY <1>2
  <1> QED BY <1>1, <1>3, <1>4, PTL DEF MCSpec
=============================================================================

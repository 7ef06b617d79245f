------------------------------ MODULE TaxpayerTin ------------------------------
(* Who writes a taxpayer's TIN: tax-net.service.ts register / autoRegister and  *)
(* its generateTin, the enrichment of submissions.service.ts, and the staff     *)
(* edit and CSV import of taxpayers.service.ts.  Only the column's UNIQUE       *)
(* constraint (schema.prisma 317) is checked at the write itself; every other   *)
(* check reads first, in a step of its own.                                     *)
(*                                                                              *)
(* A TIN is a number: provisional TINs are the roots 1, 2, ... (the code adds   *)
(* 200000000), Issued are TINs of other origin.  0 is no TIN.                   *)
EXTENDS Integers, FiniteSets

CONSTANTS
    Taxpayers,
    Issued,       \* TINs that do not come from generateTin
    Requests,     \* requests that register or enrich
    MaxInFlight,  \* requests served at the same time
    MaxEdits      \* bound on staff edits and import rows

NoTin == 0

\* What the constants must be; the instances checked assume it.
TinAssumption ==
    /\ IsFiniteSet(Taxpayers) /\ Taxpayers # {} /\ IsFiniteSet(Requests)
    /\ Issued \subseteq {n \in Nat : n > 2 * Cardinality(Taxpayers)}
    /\ {MaxInFlight, MaxEdits} \subseteq Nat

VARIABLES
    tin,    \* Taxpayer.tinIndex
    job,    \* per request: where it is and what it has read
    edits

vars == <<tin, job, edits>>

Steps == {"generate", "clash", "write"}
Jobs  == [pc : Steps \cup {"idle", "done"}, taxpayer : Taxpayers, tin : Nat]

TypeOK ==
    /\ tin \in [Taxpayers -> Nat]
    /\ job \in [Requests -> Jobs]
    /\ edits \in Nat

Init ==
    /\ tin = [t \in Taxpayers |-> NoTin]
    /\ job = [r \in Requests |-> [pc |-> "idle",
                                  taxpayer |-> CHOOSE t \in Taxpayers : TRUE,
                                  tin |-> NoTin]]
    /\ edits = 0

Active(r) == job[r].pc \in Steps
Goto(r, pc) == job' = [job EXCEPT ![r].pc = pc]
Arrives(r) ==
    /\ job[r].pc = "idle"
    /\ Cardinality({x \in Requests : Active(x)}) < MaxInFlight

\* The UNIQUE constraint on tinIndex: the write raises when another row holds it.
Unheld(t, n) == n = NoTin \/ \A u \in Taxpayers \ {t} : tin[u] # n

-----------------------------------------------------------------------------
(* Registration and enrichment.                                                *)

\* Mutant: a taxpayer in the net may be registered again.
RegisterAgain(r, t, n) ==
    /\ Arrives(r)
    /\ job' = [job EXCEPT ![r] =
         [pc |-> IF n = NoTin THEN "generate" ELSE "clash",
          taxpayer |-> t, tin |-> n]]
    /\ UNCHANGED <<tin, edits>>

\* register: refused when the taxpayer already has a TIN.  n is opts.tin, or
\* NoTin for one generateTin is to make.
Register(r, t, n) ==
    /\ Arrives(r)
    /\ tin[t] = NoTin
    /\ job' = [job EXCEPT ![r] =
         [pc |-> IF n = NoTin THEN "generate" ELSE "clash",
          taxpayer |-> t, tin |-> n]]
    /\ UNCHANGED <<tin, edits>>

\* Mutant: the enrichment does not look whether a TIN is on file.
EnrichAny(r, t, n) ==
    /\ Arrives(r)
    /\ job' = [job EXCEPT ![r] = [pc |-> "clash",
                                  taxpayer |-> t, tin |-> n]]
    /\ UNCHANGED <<tin, edits>>

\* enrichTaxpayerTin: a return names a TIN for a taxpayer that has none.
Enrich(r, t, n) ==
    /\ Arrives(r)
    /\ tin[t] = NoTin
    /\ job' = [job EXCEPT ![r] = [pc |-> "clash",
                                  taxpayer |-> t, tin |-> n]]
    /\ UNCHANGED <<tin, edits>>

\* Mutant: the count is taken as the next number, one too low twice over.
NextRootLow == Cardinality({t \in Taxpayers : tin[t] # NoTin}) - 1

\* generateTin: one more than the number of TINs on the register now.
NextRoot == 1 + Cardinality({t \in Taxpayers : tin[t] # NoTin})

Generate(r) ==
    /\ job[r].pc = "generate"
    /\ job' = [job EXCEPT ![r].pc = "clash", ![r].tin = NextRoot]
    /\ UNCHANGED <<tin, edits>>

\* The read of the TIN's present holder: any holder ends the request.
CheckClash(r) ==
    /\ job[r].pc = "clash"
    /\ Goto(r, IF \E u \in Taxpayers : tin[u] = job[r].tin THEN "done" ELSE "write")
    /\ UNCHANGED <<tin, edits>>

\* The update, by taxpayer id.
Write(r) ==
    /\ job[r].pc = "write"
    /\ tin' = IF Unheld(job[r].taxpayer, job[r].tin)
              THEN [tin EXCEPT ![job[r].taxpayer] = job[r].tin] ELSE tin
    /\ Goto(r, "done")
    /\ UNCHANGED edits

-----------------------------------------------------------------------------

\* taxpayers.service.ts update with a tin, and importCsv of a known taxpayer,
\* which writes the row's tin column, empty or absent included.
Edit(t, n) ==
    /\ edits < MaxEdits
    /\ Cardinality({x \in Requests : Active(x)}) < MaxInFlight
    /\ Unheld(t, n)
    /\ tin' = [tin EXCEPT ![t] = n]
    /\ edits' = edits + 1
    /\ UNCHANGED job

Next ==
    \/ \E r \in Requests, t \in Taxpayers :
         \/ \E n \in Issued \cup {NoTin} : Register(r, t, n)
         \/ \E n \in Issued : Enrich(r, t, n)
    \/ \E r \in Requests : Generate(r) \/ CheckClash(r) \/ Write(r)
    \/ \E t \in Taxpayers, n \in Issued \cup {NoTin} : Edit(t, n)

Spec == Init /\ [][Next]_vars

-----------------------------------------------------------------------------
(* Properties.                                                                 *)

\* The number generateTin would hand out next is held by nobody, so an automatic
\* registration can go through: every root on the register is at most the number
\* of TINs on it.
NextRootIsFree == \A t \in Taxpayers : tin[t] # NextRoot

\* enrichTaxpayerTin "NEVER overwrites an existing TIN" (submissions.service.ts
\* 953), and register refuses a taxpayer in the net: only a staff edit or an
\* import replaces a TIN that is on the register.
NothingOverwritten ==
    edits' = edits => \A t \in Taxpayers : tin[t] # NoTin => tin'[t] = tin[t]

-----------------------------------------------------------------------------
(* What the properties rest on.                                                *)

\* For as long as no request is served beside another or beside an edit: a request
\* in progress is for a taxpayer who has no TIN yet.
Calm ==
    /\ \A q, r \in Requests : Active(q) /\ Active(r) => q = r
    /\ \A r \in Requests : Active(r) => tin[job[r].taxpayer] = NoTin

\* And as long as besides no TIN is taken away: a root is at most the number of
\* TINs on the register, and the one about to be written the next.
RootsAreCounted ==
    /\ \A t \in Taxpayers : tin[t] \in Issued \/ tin[t] < NextRoot
    /\ \A r \in Requests : job[r].pc \in {"clash", "write"} =>
          job[r].tin \in Issued \cup {NextRoot}
=============================================================================

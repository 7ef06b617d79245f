----------------------------- MODULE MCDetection -----------------------------
(* How returns become cases: the reading of what was filed, the scoring        *)
(* methodology, the risk agents, and the scans that open cases.  An instance   *)
(* explores ONE part; the scans have variables of their own, and overlapped is *)
(* shared.                                                                     *)
EXTENDS DetectionScan, TLC
CONSTANT t1

VARIABLES
    focus,            \* the part explored
    s1, s2, s3, s4, s5

own   == <<now, income, limit, since, llc, override, portfolio, record, cases, risk,
           memo, query, scans, job, changes>>
slots == <<s1, s2, s3, s4, s5>>
all   == <<focus, vars, slots>>

(* Scans: one taxpayer who declared nothing, two scopes, two scans.            *)
MCDeclared == [t \in Taxpayers |-> 0]
MCScopes   == <<"PROVIDER", "SECTOR">>

----------------------------------------------------------------------------
(* Reading: texts of four lines, sheets of three rows, every day of two years  *)
(* in every form, every label against the days at the ends of months, one      *)
(* digit changed in an account number, and files of one or two rows.           *)
Forms == INSTANCE ReturnParsing WITH Inputs <- {}, input <- s1, result <- s2

Cells  == {<<>>, <<"a">>, <<",">>, <<"\"">>, <<"a", "\"">>, <<" ", "a">>, <<"a", "\n", "b">>,
           <<"#">>, <<"\"", ",", "a">>}
Sheets == {<< <<<<"h">>, c2>>, <<c3, c4>>, <<c5, <<>>>> >> :
              c2 \in Cells, c3 \in Cells, c4 \in Cells, c5 \in {<<>>, <<"a">>}}
Lines  == {<<>>, <<"#", "a">>, <<"a", ",", "b">>, <<",">>, <<"\"", "a", ",", "\"", ",", "b">>}
Texts  == {Forms!Joined(<<a, b, c, d>>, Forms!Newline) : a \in Lines, b \in Lines, c \in Lines, d \in Lines}

Days    == Forms!Dates({2024, 2026})
Ends    == {d \in Days : d[3] \in {1, 2, 15, 28, 29, 30, 31}}
Periods == {Forms!Period(2026, q, 0) : q \in 0 .. 4} \cup {Forms!Period(2026, 0, m) : m \in 1 .. 12}
           \cup {Forms!Period(2024, 1, 0), Forms!Period(2024, 0, 2)}
Labels  == {[form |-> "period", n |-> <<p>>] : p \in Periods}
           \cup UNION {Forms!Written(d) : d \in {<<2026, 3, 31>>, <<2024, 2, 29>>}}

Bank    == <<0, 5, 7>>
Base    == <<0, 1, 2, 3, 4, 5, 6, 7, 8>>
Account == Append(Base, Forms!NubanCheckDigit(Bank \o Base))
Numbers == {[what |-> "number", bank |-> Bank, account |-> [Account EXCEPT ![i] = x],
             damaged |-> IF Account[i] = x THEN 0 ELSE 1] : i \in 1 .. 10, x \in 0 .. 9}

RowKinds == [nin : {"right length", "short"},
             accountNumber : {"nuban", "other length", "scientific", "letters"},
             customerType : {"known", "blank"}, totalInflow : {"number", "thousands"},
             tin : {"blank", "number"}, extra : {"blank", "text"}]
Sound    == {r \in RowKinds : r.nin = "right length" /\ r.tin = "blank"}
Returns  == {[what |-> "rows", rows |-> rs, type |-> t, now |-> n, config |-> g,
              columns |-> Forms!ReturnColumns \cup {Forms!Column("extra", "text", TRUE, f)}] :
                rs \in {<<r>> : r \in RowKinds} \cup (Sound \X Sound),
                t \in {"BANK", "TELCO"}, f \in {0, 2}, n \in {1, 2}, g \in {0, 1, 3}}

MCInputs == {[what |-> "text", text |-> t] : t \in Texts}
    \cup {[what |-> "sheet", sheet |-> s] : s \in Sheets}
    \cup UNION {{[what |-> "date", written |-> w, date |-> d] : w \in Forms!Written(d)} : d \in Days}
    \cup {[what |-> "period", label |-> l, date |-> d] : l \in Labels, d \in Ends}
    \cup {[what |-> "pick", freq |-> f, date |-> d, year |-> d[1] - back, choice |-> k] :
              f \in {"QUARTERLY", "MONTHLY", "ANNUAL"}, d \in Ends, back \in {0, 1}, k \in {1, 4}}
    \cup Numbers \cup Returns

Parsing == INSTANCE ReturnParsing WITH Inputs <- MCInputs, input <- s1, result <- s2

----------------------------------------------------------------------------
(* Agents: one taxpayer with no, one or two rows at two banks; only those of   *)
(* one row at most go on from there.                                           *)
FiledRow(b, o, i, m, n) ==
    [bank |-> b, order |-> o, inflow |-> i, open |-> 2, close |-> i, balances |-> b = 1,
     txns |-> m, match |-> m, name |-> n, bvn |-> "b", clear |-> FALSE]
FiledRows == {FiledRow(b, o, i, m, n) :
                 b \in {1, 2}, o \in 1 .. 2, i \in {0, 10, 49}, m \in {-1, 60}, n \in {"ade", "bola"}}
MCProfiles == [rows : {<<>>} \cup {<<r>> : r \in FiledRows} \cup (FiledRows \X FiledRows),
               declared : {0, 12}, declares : {TRUE}]
Names == {"ade", "bola"}
Agents == INSTANCE RiskAgents WITH
    Taxpayers <- {"t1"}, Profiles <- MCProfiles, Sectors <- <<"TECH", "TRADING">>,
    Hits <- [n \in Names |-> [s \in {"TECH", "TRADING"} |-> IF n = "bola" /\ s = "TECH" THEN 2 ELSE 0]],
    Tokens <- [n \in Names |-> <<n>>],
    Likeness <- [w \in Names |-> [x \in Names |-> IF w = x THEN 100 ELSE 40]],
    Peers <- <<[sector |-> "TECH", inflow |-> 8], [sector |-> "none", inflow |-> 20]>>,
    Threshold <- 50, RoundBases <- {1, 5, 10, 50, 100}, Confidences <- {45, 85},
    Documents <- {[figures |-> <<2024, 5>>, disposals |-> 0], [figures |-> <<5>>, disposals |-> 0],
                  [figures |-> <<>>, disposals |-> 3]},
    profile <- s1, sector <- s2, signals <- s3, cases <- s4, run <- s5

AgentsNext ==
    /\ ~overlapped /\ Len(s1["t1"].rows) <= 1
    /\ \/ Agents!RunStart
       \/ Agents!RunSector("t1") \/ Agents!RunSignals("t1") \/ Agents!RunFuse("t1")
       \/ \E c \in {45, 85} : Agents!Scan("t1", c)
       \/ \E doc \in {[figures |-> <<2024, 5>>, disposals |-> 0], [figures |-> <<5>>, disposals |-> 0],
                      [figures |-> <<>>, disposals |-> 3]} : Agents!Document("t1", doc)
       \/ \E name \in {"none", "TECH", "TRADING"} :
             Agents!File("t1", [rows |-> <<>>, declared |-> 0, declares |-> TRUE], name)

----------------------------------------------------------------------------
(* Methodology: amounts at and beside the ends of the bands, ratios of outflow *)
(* to inflow below, on and above the ramp, and evidence at its marks.          *)
Amounts == UNION {{b, b + 1} : b \in {0, 800, 3000, 12000, 25000, 50000}} \cup {799, 2999}
Probes ==
    [what : {"tax"}, d : Amounts, m : Amounts, o : Amounts]
    \cup [what : {"discount"}, i : 0 .. 45, o : 0 .. 60]
    \cup [what : {"evidence"}, pct : {0, 49, 50, 99, 100, 199, 200}, n : 0 .. 3,
          match : {58, 59, 60, 89, 90}, score : {0, 39, 40, 80},
          scores : {<<>>} \cup {<<a, b>> : a \in {0, 39, 40, 95}, b \in {10, 40, 80}}]

MethodologyHolds(p) ==
    CASE p.what = "tax" -> TaxIsMarginal(p.d, p.m, p.o)
      [] p.what = "discount" -> DiscountIsFair(p.i, p.o)
      [] p.what = "evidence" -> EvidenceCountsOneWay(p.pct, p.n, p.match, p.scores, p.score)

----------------------------------------------------------------------------
MCInit ==
    \/ focus = "scans" /\ Init /\ s1 = 0 /\ s2 = 0 /\ s3 = 0 /\ s4 = 0 /\ s5 = 0
    \/ focus = "reading" /\ Init /\ Parsing!Init /\ s3 = 0 /\ s4 = 0 /\ s5 = 0
    \/ focus = "agents" /\ Init /\ Agents!Init
    \/ focus = "methodology" /\ Init /\ s1 \in Probes /\ s2 = 0 /\ s3 = 0 /\ s4 = 0 /\ s5 = 0

MCNext ==
    /\ focus' = focus
    /\ \/ focus = "scans" /\ Next /\ UNCHANGED slots
       \/ focus = "reading" /\ Parsing!Next /\ UNCHANGED <<vars, s3, s4, s5>>
       \/ focus = "agents" /\ AgentsNext /\ UNCHANGED own

MCSpec == MCInit /\ [][MCNext]_all /\ Fairness

----------------------------------------------------------------------------
(* The type invariants of the parts.                                           *)
TypesOK ==
    /\ TypeOK
    /\ focus = "agents" => Agents!TypeOK

\* What officers and providers said is not overwritten by a machine: the status
\* and the owner of a case, and the sector of a taxpayer.
WordsStand == [][CASE focus = "scans" -> OfficersWordStands
                   [] focus = "agents" -> Agents!SectorKept
                   [] OTHER -> TRUE]_all

\* What was written is what is read, a date falls in its period, a damaged number
\* is caught, and a file is stored whole or not at all.  From there risk goes one
\* way: to have declared more never raises it, the order of the rows and what a
\* return does not carry do not matter; the tax on a gap is marginal, the discount
\* fair, and evidence counts one way.
FiguresAreFair ==
    CASE focus = "reading" -> /\ Parsing!WrittenIsRead
                              /\ Parsing!DatesFallInTheirPeriod /\ Parsing!PickersMatchTheServer
                              /\ Parsing!DamageIsCaught
                              /\ Parsing!StoredWholeUnlessGraced
      [] focus = "agents" -> /\ Agents!DeclaringNeverRaises
                             /\ Agents!RowOrderIsImmaterial
                             /\ Agents!BlendStaysInside
      [] focus = "methodology" -> MethodologyHolds(s1)
      [] OTHER -> TRUE

\* One BVN under two names that are not alike is never passed over ("Detect any
\* BVN carried by 2+ distinct account-holder names", matching.agent.ts 108).
SharedBvnIsFlagged == focus = "agents" => Agents!SharedBvnIsFlagged
============================================================================

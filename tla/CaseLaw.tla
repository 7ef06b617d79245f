------------------------------- MODULE CaseLaw -------------------------------
(***************************************************************************)
(* What the case register promises of an under-declaration case, without   *)
(* saying how: a case is opened once, moves only along the statutory       *)
(* lifecycle, and is assessed exactly once, when its notice is issued.     *)
(* CaseLifecycle is the program that implements it.                        *)
(***************************************************************************)
EXTENDS Integers

CONSTANTS Cases     \* the (taxpayer, year) pairs that may get a case

VARIABLES stage,    \* stage[c]: where case c stands
          demand    \* demand[c]: the tax assessed by the notice, if any

vars == <<stage, demand>>

NoCase == "NONE"    \* there is no row for this taxpayer and year yet
Unset  == -1        \* a null column

Status == {"OPEN", "UNDER_REVIEW", "NOTICE_ISSUED", "OBJECTION", "CONFIRMED",
           "SETTLED", "RECOVERED", "DISMISSED", "CLOSED"}

(* The allowed lifecycle transitions, as sets of <<from, to>>. *)
Transitions ==
  {<<"OPEN", "UNDER_REVIEW">>, <<"OPEN", "DISMISSED">>,
   <<"UNDER_REVIEW", "NOTICE_ISSUED">>, <<"UNDER_REVIEW", "DISMISSED">>,
   <<"NOTICE_ISSUED", "OBJECTION">>, <<"NOTICE_ISSUED", "CONFIRMED">>,
   <<"OBJECTION", "CONFIRMED">>, <<"OBJECTION", "DISMISSED">>,
   <<"CONFIRMED", "SETTLED">>, <<"CONFIRMED", "RECOVERED">>,
   <<"SETTLED", "RECOVERED">>, <<"SETTLED", "CLOSED">>,
   <<"RECOVERED", "CLOSED">>, <<"DISMISSED", "CLOSED">>}

Init == /\ stage \in [Cases -> {NoCase, "OPEN"}]
        /\ demand = [c \in Cases |-> Unset]

Open(c) == /\ stage[c] = NoCase
           /\ stage' = [stage EXCEPT ![c] = "OPEN"]
           /\ UNCHANGED demand

(* The assessment: made once, because nothing leads back before the notice. *)
IssueNotice(c) ==
  /\ <<stage[c], "NOTICE_ISSUED">> \in Transitions
  /\ stage' = [stage EXCEPT ![c] = "NOTICE_ISSUED"]
  /\ demand'[c] \in Nat
  /\ demand' = [demand EXCEPT ![c] = demand'[c]]

Advance(c, to) ==
  /\ to # "NOTICE_ISSUED"
  /\ <<stage[c], to>> \in Transitions
  /\ stage' = [stage EXCEPT ![c] = to]
  /\ UNCHANGED demand

Next == \E c \in Cases : \/ Open(c)
                         \/ IssueNotice(c)
                         \/ \E to \in Status : Advance(c, to)

Spec == Init /\ [][Next]_vars
==============================================================================

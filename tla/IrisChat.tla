------------------------------ MODULE IrisChat ------------------------------
(* A conversation with IRIS: iris.service.ts (the turn: its history, what it   *)
(* keeps), iris.orchestrator.ts (the loop of answers and tools), tool-executor *)
(* .ts, tool-registry.ts and pseudonymizer.ts.  A message is what it is and    *)
(* the taxpayers' names it carries in the clear.  Every await is a step.       *)
EXTENDS Integers, Sequences, FiniteSets

CONSTANTS
    Names,          \* taxpayers' names
    Recognised,     \* the names the language analysis recognises in a text
    MaxIterations,  \* MAX_ITERATIONS
    Slots,          \* turns of the conversation served at the same time
    MaxTurns        \* bound on the turns taken

\* What the constants must be; the instances checked assume it.
ChatAssumption == {MaxIterations, MaxTurns} \subseteq Nat

VARIABLES
    history,  \* IrisMessage of the conversation, by creation
    job,      \* per slot: the turn
    turns,    \* how many turns have begun
    sent,     \* history: of the names sent to the model in the clear, how each
              \* had come into the turn
    cut       \* history: a turn stopped half-way, or two kept their messages at once
vars == <<history, job, turns, sent, cut>>

Kinds == {"question", "answer", "tool_use", "tool_results"}
Message == [kind : Kinds, names : SUBSET Names]
IdleJob == [pc |-> "idle"]

TypeOK ==
    /\ history \in Seq(Message)
    /\ \A s \in Slots : job[s].pc \in {"idle", "send", "receive", "tools", "keep"}
    /\ turns \in 0 .. MaxTurns
    /\ sent \subseteq Names \X {"told_now", "told_before", "written"}
    /\ cut \in BOOLEAN

Init ==
    /\ history = <<>>
    /\ job = [s \in Slots |-> IdleJob]
    /\ turns = 0
    /\ sent = {}
    /\ cut = FALSE

Carried(messages) == UNION {messages[i].names : i \in DOMAIN messages}

\* chat: the history is read and the officer's message added; a new turn knows
\* nobody's name.
Begin(s) == \E names \in SUBSET Names :
    /\ job[s] = IdleJob
    /\ turns < MaxTurns
    /\ turns' = turns + 1
    /\ job' = [job EXCEPT ![s] = [pc |-> "send", past |-> Len(history), round |-> 1,
          messages |-> Append(history, [kind |-> "question", names |-> names]),
          known |-> {}, told |-> {}]]
    /\ UNCHANGED <<history, sent>>

\* Pseudonymizer.scanValue over the messages: all of them are texts, a tool's
\* results too, so that a name is known when the analysis recognises it.
ScanMessages(j) == j.known \cup (Carried(j.messages) \cap Recognised)

\* applyValue: the names that are known are replaced, wherever they stand.
Hidden(j) == ScanMessages(j)

\* How a name came into a turn: a tool has told it, now or in an earlier turn, or
\* somebody has written it.
Told(messages) == Carried(SelectSeq(messages, LAMBDA m : m.kind = "tool_results"))
Origin(n, j) == IF n \in j.told THEN "told_now"
                ELSE IF n \in Told(j.messages) THEN "told_before" ELSE "written"

\* One round of the loop: the messages are sent.
Send(s) ==
    /\ job[s].pc = "send"
    /\ sent' = sent \cup {<<n, Origin(n, job[s])>> : n \in Carried(job[s].messages) \ Hidden(job[s])}
    /\ job' = [job EXCEPT ![s].pc = "receive", ![s].known = ScanMessages(job[s])]
    /\ UNCHANGED <<history, turns>>

\* The model answers, or asks for a tool; what it says of the names it was sent is
\* restored before it is added.
Receive(s) == job[s].pc = "receive" /\
    \E kind \in {"answer", "tool_use"}, names \in SUBSET Carried(job[s].messages) :
    /\ job' = [job EXCEPT
          ![s].messages = Append(@, [kind |-> kind, names |-> names]),
          ![s].pc = IF kind = "answer" THEN "keep" ELSE "tools"]
    /\ UNCHANGED <<history, turns, sent>>

\* Mutant: what a tool tells is not looked through.
ScanNothing(j, told) == j.known

ScanRaw(j, told) == j.known \cup told

\* Mutant: the results are dropped when no round is left.
ResultsUnlessLast(j, told) ==
    IF j.round = MaxIterations THEN j.messages
    ELSE Append(j.messages, [kind |-> "tool_results", names |-> told])

WithResults(j, told) == Append(j.messages, [kind |-> "tool_results", names |-> told])

\* The tool the model asked for is run, and tells names; one that the officer's role
\* does not allow, that does not exist or that fails tells none.  The results go to
\* the model in the next round, if one is left.
RunTool(s) == job[s].pc = "tools" /\ \E told \in SUBSET Names :
    /\ job' = [job EXCEPT ![s].messages = WithResults(job[s], told),
                          ![s].known = ScanRaw(job[s], told),
                          ![s].told = @ \cup told,
                          ![s].round = @ + 1,
                          ![s].pc = IF job[s].round < MaxIterations THEN "send" ELSE "keep"]
    /\ UNCHANGED <<history, turns, sent>>

\* persistTurn: the messages of this turn, one after the other, then the usage.
Keep(s) ==
    /\ job[s].pc = "keep"
    /\ job[s].past < Len(job[s].messages)
    /\ history' = Append(history, job[s].messages[job[s].past + 1])
    /\ job' = [job EXCEPT ![s].past = @ + 1]
    /\ UNCHANGED <<turns, sent>>

End(s) ==
    /\ job[s].pc = "keep"
    /\ job[s].past = Len(job[s].messages)
    /\ job' = [job EXCEPT ![s] = IdleJob]
    /\ UNCHANGED <<history, turns, sent>>

\* The model, the database or the process fails: the turn is lost, but for the
\* messages it has kept.
Fail(s) ==
    /\ job[s] # IdleJob
    /\ job' = [job EXCEPT ![s] = IdleJob]
    /\ UNCHANGED <<history, turns, sent>>

\* A turn that is keeping its messages has kept some, and not yet all.
Torn(j) == j.pc = "keep" /\ j.past < Len(j.messages)
Next ==
    \/ \E s \in Slots :
        /\ Begin(s) \/ Send(s) \/ Receive(s) \/ RunTool(s) \/ Keep(s) \/ End(s)
        /\ cut' = (cut \/ \E p \in Slots \X Slots :
                              p[1] # p[2] /\ Torn(job'[p[1]]) /\ job'[p[2]].pc # "idle")
    \/ \E s \in Slots : Fail(s) /\ cut' = (cut \/ Torn(job[s]))

Spec == Init /\ [][Next]_vars

-----------------------------------------------------------------------------
\* A tool's results stand right after the message that asked for them, in what is
\* kept and in what is sent, also when the rounds run out; a history where they do
\* not would be refused in every later turn.  Unless a turn was cut off while it
\* kept its messages, or another one was under way then (persistTurn, 55, creates
\* them one by one).
PairsUp(messages) == \A i \in DOMAIN messages :
    /\ messages[i].kind = "tool_use" /\ i < Len(messages) => messages[i + 1].kind = "tool_results"
    /\ messages[i].kind = "tool_results" => i > 1 /\ messages[i - 1].kind = "tool_use"
HistoryPairsUpUnlessCut == cut \/
    /\ \A s \in Slots : job[s].pc = "send" => PairsUp(job[s].messages)
    /\ (\A s \in Slots : job[s].pc # "keep") =>
          PairsUp(history) /\ (history # <<>> => history[Len(history)].kind # "tool_use")

\* A name that a tool has told in a turn is not sent in the clear in that turn, in
\* whichever message it stands (scanValue(r.raw), iris.orchestrator.ts 125; a tool's
\* results also go as text, 127).
NamesToldAreHidden == \A n \in Names : <<n, "told_now">> \notin sent

\* Names are registered "RELIABLY from our own tool results" (pseudonymizer.ts 12):
\* a name that a tool has told is not sent in the clear, in later turns either.
ToldNamesStayHidden == \A n \in Names : {<<n, "told_now">>, <<n, "told_before">>} \cap sent = {}

-----------------------------------------------------------------------------
(* What makes it so: a turn is made of messages, of which it has kept some, and *)
(* has looked through what its tools told; ...                                  *)
Turns == [pc : {"send", "receive", "tools", "keep"}, past : Nat, round : Nat,
          messages : Seq(Message), known : SUBSET Names, told : SUBSET Names]
UnderWay(j) == j \in Turns /\ j.told \subseteq j.known /\ j.past <= Len(j.messages)

\* ... its messages pair up, the last as the place of the turn says; and, as long
\* as nothing was cut, what it has kept is the history, with nobody else under way
\* until it has kept them all.
PairedTurn(j) ==
    /\ PairsUp(j.messages) /\ j.messages # <<>>
    /\ j.pc = "tools" <=> j.messages[Len(j.messages)].kind = "tool_use"
Whole(messages) ==
    PairsUp(messages) /\ (messages # <<>> => messages[Len(messages)].kind # "tool_use")
KeptInOrder ==
    /\ \A s \in Slots : job[s] # IdleJob =>
          PairedTurn(job[s]) /\ history = SubSeq(job[s].messages, 1, job[s].past)
    /\ \A s, t \in Slots : s # t /\ Torn(job[s]) => job[t] = IdleJob
    /\ (\A s \in Slots : ~ Torn(job[s])) => Whole(history)

ChatHolds ==
    /\ TypeOK /\ DOMAIN job = Slots
    /\ \A s \in Slots : job[s] = IdleJob \/ UnderWay(job[s])
    /\ NamesToldAreHidden
    /\ cut \/ KeptInOrder
=============================================================================

------------------------------ MODULE IrisPage ------------------------------
(***************************************************************************)
(* The assistant's page (src/frontend/src/app/(staff)/iris/page.tsx): one  *)
(* list of bubbles and cards, one stream at a time, and the conversation   *)
(* the next message will go to.  The stream writes to "the last assistant  *)
(* bubble", whichever that is when a piece arrives; opening another        *)
(* conversation or starting a new chat does not stop it.                   *)
(***************************************************************************)
EXTENDS Naturals, Sequences, FiniteSets

CONSTANTS
    MaxTurns,   \* bound: messages sent in one visit
    MaxOpens    \* bound: earlier conversations asked for

PageAssumption == MaxTurns \in Nat \ {0} /\ MaxOpens \in Nat

None == 0
Earlier == 1            \* a conversation of an earlier visit, with one exchange: turn 0
Conv == 1..(MaxTurns + 1)
Turn == 0..MaxTurns

VARIABLES
    items,      \* the bubbles and cards: whose turn, the turns whose text it holds
    chat,       \* conversationId: where the next message goes
    stream,     \* the reply that is being streamed, or idle
    turns,      \* messages sent
    opening,    \* conversations asked for, not answered yet
    opens,      \* how many were asked for
    saved,      \* the server's conversations: the turns each one holds
    drafts,     \* the server's drafts, by turn: none, open, done, dropped
    working,    \* cards whose decision is under way
    history     \* switched: another chat was opened or begun under a running
                \* stream, or two were asked for at once; cut: a reply ended early

ivars == <<items, chat, stream, turns, opening, opens, saved, drafts, working, history>>

Bubble == [role : {"user", "reply", "card"}, turn : Turn, holds : SUBSET Turn, state : {"", "pending", "working", "confirmed", "cancelled"}]
Idle == [turn |-> 0, conv |-> None, text |-> FALSE]
Loading == stream.turn # 0

User(n)  == [role |-> "user",  turn |-> n, holds |-> {n}, state |-> ""]
Reply(n) == [role |-> "reply", turn |-> n, holds |-> {},  state |-> ""]
Card(n)  == [role |-> "card",  turn |-> n, holds |-> {n}, state |-> "pending"]

Init == /\ items = <<>> /\ chat = None /\ stream = Idle /\ turns = 0
        /\ opening = {} /\ opens = 0
        /\ saved = [c \in Conv |-> IF c = Earlier THEN {0} ELSE {}]
        /\ drafts = [n \in 1..MaxTurns |-> "none"] /\ working = {}
        /\ history = [switched |-> FALSE, cut |-> FALSE]

----------------------------------------------------------------------------
\* send: refused while a reply streams.  The server gives a message that names
\* no conversation a new one.
Send ==
    /\ ~Loading /\ turns < MaxTurns /\ turns' = turns + 1
    /\ items' = items \o <<User(turns'), Reply(turns')>>
    /\ stream' = [turn |-> turns', conv |-> IF chat = None THEN turns' + 1 ELSE chat, text |-> FALSE]
    /\ UNCHANGED <<chat, opening, opens, saved, drafts, working, history>>

\* patchLastAssistant: the last item, if it is an assistant's.
LastIsReply == items # <<>> /\ items[Len(items)].role = "reply"
Patched(n) == IF LastIsReply THEN [items EXCEPT ![Len(items)].holds = @ \cup {n}] ELSE items

\* onDelta.
Delta ==
    /\ Loading /\ ~stream.text
    /\ items' = Patched(stream.turn) /\ stream' = [stream EXCEPT !.text = TRUE]
    /\ UNCHANGED <<chat, turns, opening, opens, saved, drafts, working, history>>

\* onDone: the conversation is set, the last reply becomes this reply's text (or
\* goes, when there is none), and the cards are put below it.
Done(carded, said) ==
    /\ Loading
    /\ LET n == stream.turn
           replaced == IF LastIsReply
                       THEN IF said THEN [items EXCEPT ![Len(items)].holds = {n}]
                            ELSE SubSeq(items, 1, Len(items) - 1)
                       ELSE items
       IN /\ items' = IF carded THEN Append(replaced, Card(n)) ELSE replaced
          /\ drafts' = IF carded THEN [drafts EXCEPT ![n] = "open"] ELSE drafts
          /\ saved' = [saved EXCEPT ![stream.conv] = @ \cup {n}]
    /\ chat' = stream.conv /\ stream' = Idle
    /\ UNCHANGED <<turns, opening, opens, working, history>>

\* onError drops an empty bubble, onStopped (the stop button) keeps it; neither
\* learns the conversation, whether or not the server kept the exchange.
Cut(failed, kept) ==
    /\ Loading /\ stream' = Idle
    /\ items' = IF failed /\ LastIsReply /\ items[Len(items)].holds = {}
                THEN SubSeq(items, 1, Len(items) - 1) ELSE items
    /\ saved' = IF kept THEN [saved EXCEPT ![stream.conv] = @ \cup {stream.turn}] ELSE saved
    /\ history' = [history EXCEPT !.cut = TRUE]
    /\ UNCHANGED <<chat, turns, opening, opens, drafts, working>>

\* newChat, loadConversation: neither looks at the stream.
NewChat ==
    /\ items # <<>> /\ items' = <<>> /\ chat' = None
    /\ history' = [history EXCEPT !.switched = @ \/ Loading \/ opening # {}]
    /\ UNCHANGED <<stream, turns, opening, opens, saved, drafts, working>>

Open(c) ==
    /\ saved[c] # {} /\ opens < MaxOpens /\ opens' = opens + 1
    /\ opening' = opening \cup {c}
    /\ history' = [history EXCEPT !.switched = @ \/ opening # {}]
    /\ UNCHANGED <<items, chat, stream, turns, saved, drafts, working>>

\* Its messages, without cards: a draft that waits is no longer on the screen.
Exchange(c) ==
    LET held == saved[c]
        Nth(i) == CHOOSE n \in held : Cardinality({m \in held : m < n}) = i - 1
    IN [i \in 1..(2 * Cardinality(held)) |->
            IF i % 2 = 1 THEN User(Nth((i + 1) \div 2))
            ELSE [Reply(Nth(i \div 2)) EXCEPT !.holds = {Nth(i \div 2)}]]

Opened(c) ==
    /\ c \in opening /\ opening' = opening \ {c}
    /\ items' = Exchange(c) /\ chat' = c
    /\ history' = [history EXCEPT !.switched = @ \/ Loading]
    /\ UNCHANGED <<stream, turns, opens, saved, drafts, working>>

NotOpened(c) ==
    /\ c \in opening /\ opening' = opening \ {c}
    /\ UNCHANGED <<items, chat, stream, turns, opens, saved, drafts, working, history>>

\* confirmCard, cancelCard: working, then the outcome, or pending again.
Marked(n, state) == [i \in DOMAIN items |->
    IF items[i].role = "card" /\ items[i].turn = n THEN [items[i] EXCEPT !.state = state] ELSE items[i]]

Decide(n) ==
    /\ \E i \in DOMAIN items : items[i] = Card(n)
    /\ items' = Marked(n, "working") /\ working' = working \cup {n}
    /\ UNCHANGED <<chat, stream, turns, opening, opens, saved, drafts, history>>

Decided(n, outcome) ==
    /\ n \in working /\ working' = working \ {n}
    /\ \/ /\ outcome \in {"confirmed", "cancelled"} /\ drafts[n] = "open"
          /\ drafts' = [drafts EXCEPT ![n] = IF outcome = "confirmed" THEN "done" ELSE "dropped"]
       \/ outcome = "pending" /\ drafts' = drafts                     \* refused, or never reached
       \/ /\ outcome = "pending" /\ drafts[n] = "open"                \* done, its answer lost
          /\ drafts' = [drafts EXCEPT ![n] = "done"]
    /\ items' = Marked(n, outcome)
    /\ UNCHANGED <<chat, stream, turns, opening, opens, saved, history>>

Next == \/ Send \/ Delta \/ NewChat
        \/ \E carded, said \in BOOLEAN : Done(carded, said)
        \/ \E failed, kept \in BOOLEAN : Cut(failed, kept)
        \/ \E c \in Conv : Open(c) \/ Opened(c) \/ NotOpened(c)
        \/ \E n \in 1..MaxTurns : Decide(n) \/ \E o \in {"confirmed", "cancelled", "pending"} : Decided(n, o)

\* The stream ends (the service closes it in a finally), and a fetch settles.
StreamEnds == \E x, y \in BOOLEAN : Done(x, y) \/ Cut(x, y)
Answered(n) == \E o \in {"confirmed", "cancelled", "pending"} : Decided(n, o)

Spec == Init /\ [][Next]_ivars /\ WF_ivars(StreamEnds) /\ \A n \in 1..MaxTurns : WF_ivars(Answered(n))

----------------------------------------------------------------------------
TypeOK ==
    /\ items \in Seq(Bubble) /\ chat \in Conv \cup {None}
    /\ stream \in [turn : Turn, conv : Conv \cup {None}, text : BOOLEAN]
    /\ turns \in Turn /\ opening \subseteq Conv /\ opens \in 0..MaxOpens
    /\ saved \in [Conv -> SUBSET Turn]
    /\ drafts \in [1..MaxTurns -> {"none", "open", "done", "dropped"}]
    /\ working \subseteq 1..MaxTurns /\ history \in [switched : BOOLEAN, cut : BOOLEAN]

\* A bubble holds the reply to the message above it and nothing else -- unless
\* the reader opened another conversation, or began a new chat, while a reply
\* was still streaming: its pieces then land in the last bubble there is.
RepliesInPlace ==
    ~history.switched => \A i \in DOMAIN items : items[i].holds \subseteq {items[i].turn}

\* The next message goes to the conversation on the screen: the one that holds
\* every exchange shown -- unless a reply was stopped or failed (a first reply
\* that is cut leaves the page without its conversation, and what is sent next
\* begins another), or the chat was switched under the stream.
GoesWhereShown ==
    ~Loading /\ ~history.cut /\ ~history.switched =>
        \A i \in DOMAIN items : chat # None /\ items[i].turn \in saved[chat]

\* A card says done only when the draft is, and a card that is waiting again
\* after an answer was lost may belong to a draft that is done already: the
\* server refuses it then, so no decision is carried out twice.
CardsAreTrue ==
    \A i \in DOMAIN items : items[i].role = "card" =>
        /\ items[i].state = "confirmed" => drafts[items[i].turn] = "done"
        /\ items[i].state = "cancelled" => drafts[items[i].turn] = "dropped"

\* The composer is never locked for good, and no card works for ever.
Works(n) == n \in working
ComposerReturns == (Loading ~> ~Loading) /\ \A n \in 1..MaxTurns : (Works(n) ~> ~Works(n))

----------------------------------------------------------------------------
(* What every step keeps.                                                   *)

\* A turn has no card before its reply is done, and a later turn is to come.
CardsOfPast == \A i \in DOMAIN items : items[i].role = "card" =>
    items[i].turn \in 1..turns /\ (Loading => items[i].turn < stream.turn)

\* Unless the chat was switched under it, the stream writes to its own bubble.
OwnBubble == Loading /\ ~history.switched => LastIsReply /\ items[Len(items)].turn = stream.turn

\* What is on the screen while the reply streams is of its turn, or kept where
\* the reply will be.
Streaming ==
    /\ chat # None => stream.conv = chat
    /\ \A i \in DOMAIN items :
          items[i].turn = stream.turn \/ (chat # None /\ items[i].turn \in saved[chat])

PageHolds ==
    /\ TypeOK /\ RepliesInPlace /\ GoesWhereShown /\ CardsAreTrue /\ CardsOfPast /\ OwnBubble
    /\ Loading => stream.turn = turns /\ stream.conv \in Conv
    /\ Loading /\ ~history.cut /\ ~history.switched => Streaming
=============================================================================

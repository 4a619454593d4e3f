----------------------------- MODULE ChatWindow -----------------------------
(***************************************************************************)
(* memory/chat_store.py, memory/summarizer.py and the part of              *)
(* agent/chat_responder.py that uses them: one chat window, its messages,  *)
(* its rolling summary, the context of an answer and what is shown of it.  *)
(*                                                                         *)
(* A summary is the set of the messages it was made from.  The request     *)
(* reads the window, calls the model, which is slow, and then writes the   *)
(* summary and its mark; other requests of the window run meanwhile.  The  *)
(* session object of a request keeps the columns it loaded when its own    *)
(* message was saved, until that request commits or rolls back.            *)
(***************************************************************************)
EXTENDS Integers, FiniteSets

CONSTANTS
  Chats,          \* threads that serve requests of the window
  MaxMessages,    \* bound on the messages of the window
  Threshold,      \* messages from which on a window is summarised
  KeepRecent,     \* messages that a summary leaves out
  TailLimit,      \* messages that a context holds besides the summary
  MaxLines        \* lines of a context that an answer shows

ASSUME ChatBoundsAssumption ==
  {MaxMessages, Threshold, KeepRecent, TailLimit, MaxLines} \subseteq Nat
ASSUME TailAssumption == 0 < KeepRecent /\ KeepRecent <= TailLimit

VARIABLES
  count,      \* chat_messages of the window: their ids are 1 .. count
  window,     \* the summary and summary_until_id of chat_sessions
  chat        \* what each request is at

Messages == 1 .. MaxMessages
NoSummary == [covers |-> {}, mark |-> 0]
Window == [covers : SUBSET Messages, mark : 0 .. MaxMessages]
ChatAt == {"idle", "load", "count", "prior", "rows", "model", "write",
           "context", "tail", "cut", "answer"}

Request ==
  [at : ChatAt,
   turn : {"user", "assistant"},   \* whose message is being saved
   held : BOOLEAN,                 \* the session object is loaded
   seen : Window,                  \* the columns it holds
   new : Window,                   \* what is going to be written
   shown : SUBSET Messages,        \* messages that the context speaks of; from
                                   \* "answer" on, those that are shown of it
   upto : 0 .. MaxMessages,        \* messages there were at that time
   alone : BOOLEAN,                \* no other request ran since this began
   intact : BOOLEAN]               \* its last summary did not fail

IdleRequest ==
  [at |-> "idle", turn |-> "user", held |-> FALSE, seen |-> NoSummary,
   new |-> NoSummary, shown |-> {}, upto |-> 0, alone |-> TRUE, intact |-> TRUE]

ChatInit ==
  /\ count = 0
  /\ window = NoSummary
  /\ chat = [c \in Chats |-> IdleRequest]

ChatVars == <<count, window, chat>>

OthersIdle(c) == \A d \in Chats \ {c} : chat[d].at = "idle"

\* A request whose summary is done or not called for.
Proceed(q) == IF q.turn = "user" THEN [q EXCEPT !.at = "context"] ELSE IdleRequest

-----------------------------------------------------------------------------
(* The chat routes save the message of the user ...                        *)
Answering == {c \in Chats : chat[c].turn = "user" /\ chat[c].at # "idle"}
HasRoom == count + Cardinality(Answering) + 2 <= MaxMessages

Ask(c) ==
  /\ chat[c].at = "idle"
  /\ HasRoom
  /\ count' = count + 1
  /\ chat' = [d \in Chats |->
                IF d = c THEN [IdleRequest EXCEPT !.at = "load", !.alone = OthersIdle(c)]
                ELSE [chat[d] EXCEPT !.alone = chat[d].at = "idle"]]
  /\ UNCHANGED window

(* ... and, after the context was read or an action was proposed instead,  *)
(* the message of the assistant.                                           *)
Answer(c) ==
  /\ chat[c].at \in {"context", "answer"}
  /\ count' = count + 1
  /\ chat' = [chat EXCEPT ![c].at = "load", ![c].turn = "assistant"]
  /\ UNCHANGED window

\* save_message has committed; session.id loads the session again.
Load(c) ==
  /\ chat[c].at = "load"
  /\ chat' = [chat EXCEPT ![c].at = "count", ![c].seen = window, ![c].held = TRUE,
                          ![c].intact = TRUE]
  /\ UNCHANGED <<count, window>>

-----------------------------------------------------------------------------
(* summarize_if_needed.                                                    *)
CrossesThreshold == count >= Threshold

CountMessages(c) ==
  /\ chat[c].at = "count"
  /\ chat' = [chat EXCEPT ![c] =
                IF CrossesThreshold THEN [@ EXCEPT !.at = "prior"] ELSE Proceed(@)]
  /\ UNCHANGED <<count, window>>

\* One statement reads the summary and its mark.
ReadPrior(c) ==
  /\ chat[c].at = "prior"
  /\ chat' = [chat EXCEPT ![c].at = "rows", ![c].new = window]
  /\ UNCHANGED <<count, window>>

\* The messages after the mark but for the last KeepRecent.
LastToCompress(mark) == IF count - mark <= KeepRecent THEN mark ELSE count - KeepRecent
\* Variant for mutation: the mark is put at the last message.
Compressed_MarksAll(prior) ==
  [covers |-> prior.covers \cup (prior.mark + 1) .. LastToCompress(prior.mark),
   mark |-> count]
Compressed(prior) ==
  LET last == LastToCompress(prior.mark)
  IN  [covers |-> prior.covers \cup (prior.mark + 1) .. last, mark |-> last]

FetchWindow(c) ==
  /\ chat[c].at = "rows"
  /\ IF LastToCompress(chat[c].new.mark) = chat[c].new.mark
     THEN chat' = [chat EXCEPT ![c] = Proceed(@)]
     ELSE chat' = [chat EXCEPT ![c].at = "model", ![c].new = Compressed(@)]
  /\ UNCHANGED <<count, window>>

ModelAnswers(c) ==
  /\ chat[c].at = "model"
  /\ chat' = [chat EXCEPT ![c].at = "write"]
  /\ UNCHANGED <<count, window>>

\* The call returns nothing, or raises and the session is rolled back: the
\* window stays as it is.
ModelFails(c) ==
  /\ chat[c].at = "model"
  /\ \E rolledBack \in BOOLEAN :
       chat' = [chat EXCEPT ![c] =
                  Proceed([@ EXCEPT !.intact = FALSE, !.held = ~rolledBack])]
  /\ UNCHANGED <<count, window>>

\* Variant for mutation: the session object survives the commit.
WriteSummary_KeepsSession(c) ==
  /\ chat[c].at = "write"
  /\ window' = chat[c].new
  /\ chat' = [chat EXCEPT ![c] = Proceed(@)]
  /\ UNCHANGED count
WriteSummary(c) ==
  /\ chat[c].at = "write"
  /\ window' = chat[c].new
  /\ chat' = [chat EXCEPT ![c] = Proceed([@ EXCEPT !.held = FALSE])]
  /\ UNCHANGED count

-----------------------------------------------------------------------------
(* chat_context_for_session: the summary of the session object, and the    *)
(* last messages after its mark.                                           *)
Larger(a, b) == IF a > b THEN a ELSE b
ShownTail(mark) == Larger(mark, count - TailLimit) + 1 .. count

LoadContext(c) ==
  /\ chat[c].at = "context"
  /\ chat' = [chat EXCEPT ![c].at = "tail", ![c].held = TRUE,
                          ![c].seen = IF chat[c].held THEN @ ELSE window]
  /\ UNCHANGED <<count, window>>

ReadTail(c) ==
  /\ chat[c].at = "tail"
  /\ chat' = [chat EXCEPT ![c].at = "cut", ![c].upto = count,
                          ![c].shown = chat[c].seen.covers \cup ShownTail(chat[c].seen.mark)]
  /\ UNCHANGED <<count, window>>

(* The parts of a context are the summary, if there is one, and each       *)
(* message after it: the message where the shown ones end when n parts are *)
(* shown.                                                                  *)
SummaryParts(q) == IF q.seen.mark = 0 THEN 0 ELSE 1
FirstCut(q, n) == Larger(q.seen.mark, q.upto - TailLimit) + 1 + n - SummaryParts(q)
Beginning(q, n) == IF n = 0 THEN {} ELSE {m \in q.shown : m < FirstCut(q, n)}

(* context_answer shows the first MaxLines lines of it, and of these so    *)
(* many characters.  A part takes a line or more: any number of parts up   *)
(* to MaxLines is whole, and the newest messages are the ones left out.    *)
CutContext(c) ==
  /\ chat[c].at = "cut"
  /\ \E n \in 0 .. MaxLines :
       chat' = [chat EXCEPT ![c].at = "answer", ![c].shown = Beginning(chat[c], n)]
  /\ UNCHANGED <<count, window>>

ChatNext ==
  \E c \in Chats :
    \/ Ask(c) \/ Answer(c) \/ Load(c) \/ CountMessages(c) \/ ReadPrior(c)
    \/ FetchWindow(c) \/ ModelAnswers(c) \/ ModelFails(c) \/ WriteSummary(c)
    \/ LoadContext(c) \/ ReadTail(c) \/ CutContext(c)

\* The bound is reached.
ChatDone == ~HasRoom /\ \A c \in Chats : chat[c].at = "idle"

ChatSpec == ChatInit /\ [][ChatNext]_ChatVars

-----------------------------------------------------------------------------
ChatTypeOK ==
  /\ count \in 0 .. MaxMessages
  /\ window \in Window
  /\ chat \in [Chats -> Request]

(* However requests overlap, and though a slow one may put back an older   *)
(* summary and its mark, the summary of a window is made from exactly the  *)
(* messages up to its mark: none is skipped for good, and none is both     *)
(* summarised and shown.                                                   *)
SummaryEndsAtMark == window.covers = 1 .. window.mark

\* The first of n messages, up to some of them.
IsBeginning(S, n) == \E k \in 0 .. n : S = 1 .. k

(* In a window past the threshold, a request that no other one overlapped  *)
(* and whose own summary did not fail makes a context that speaks of every *)
(* message: the summary leaves out no more than the tail holds.  What the  *)
(* answer then shows of it may end early, but has no gap between the       *)
(* summary and the messages that follow it.                                *)
ContextHasNoGap ==
  \A c \in Chats :
    chat[c].alone /\ chat[c].intact /\ chat[c].upto >= Threshold =>
      /\ chat[c].at = "cut" => chat[c].shown = 1 .. chat[c].upto
      /\ chat[c].at = "answer" => IsBeginning(chat[c].shown, chat[c].upto)
=============================================================================

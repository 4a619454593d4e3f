--------------------------- MODULE Research_proofs ----------------------------
(***************************************************************************)
(* The assistant, its memories and the research it does.                   *)
(***************************************************************************)
EXTENDS ChatWindow, AIActions, DailyMemory, DeepResearch, ResearchLedgers, LongTermTeam,
        NumberLemmas, SequenceTheorems

-----------------------------------------------------------------------------
(***************************************************************************)
(* ChatWindow: the window of a conversation, for any number of overlapping *)
(* requests, messages and failures of the model.                           *)
(***************************************************************************)
\* The types, with no bound on the ids.
Summaries == [covers : SUBSET Nat, mark : Nat]
ChatRecord ==
  [at : ChatAt, turn : {"user", "assistant"}, held : BOOLEAN, seen : Summaries,
   new : Summaries, shown : SUBSET Nat, upto : Nat, alone : BOOLEAN,
   intact : BOOLEAN]

\* A summary of a window with n messages is made from those up to its mark.
Whole(w, n) == w \in Summaries /\ w.covers = 1 .. w.mark /\ w.mark <= n

\* What holds of a request that no other one overlapped.
LoneRequest(q, w, n) ==
  /\ q.held => q.seen = w
  /\ q.at \in {"tail", "count", "prior", "rows", "model", "write"} => q.held
  /\ q.at = "rows" => q.new = w
  /\ q.at \in {"model", "write"} => n <= q.new.mark + KeepRecent
  /\ q.at \in {"context", "tail"} /\ q.intact /\ n >= Threshold
     => n <= w.mark + KeepRecent
  /\ q.intact /\ q.upto >= Threshold =>
       /\ q.at = "cut" => q.shown = 1 .. q.upto
       /\ q.at = "answer" => IsBeginning(q.shown, q.upto)

ChatInv ==
  /\ count \in Nat
  /\ chat \in [Chats -> ChatRecord]
  /\ Whole(window, count)
  /\ \A c \in Chats : Whole(chat[c].seen, count) /\ Whole(chat[c].new, count)
  /\ \A c \in Chats :
       chat[c].at # "idle" /\ chat[c].alone =>
         OthersIdle(c) /\ LoneRequest(chat[c], window, count)

-----------------------------------------------------------------------------
(* The bounds, one by one.                                                 *)
LEMMA BoundsAreNumbers ==
  /\ Threshold \in Nat /\ KeepRecent \in Nat /\ TailLimit \in Nat
  /\ 0 < KeepRecent /\ KeepRecent <= TailLimit
BY ChatBoundsAssumption, TailAssumption

(* A window that was whole stays so when messages are added.               *)
LEMMA WholeGrows ==
  ASSUME NEW w, NEW n \in Nat, NEW m \in Nat, n <= m, Whole(w, n)
  PROVE  Whole(w, m)
BY DEF Whole, Summaries

(* A request goes on.                                                      *)
LEMMA MoveFields ==
  ASSUME NEW x \in ChatRecord, NEW s \in ChatAt
  PROVE  LET y == [x EXCEPT !.at = s]
         IN  /\ y \in ChatRecord
             /\ y.at = s /\ y.turn = x.turn /\ y.held = x.held
             /\ y.seen = x.seen /\ y.new = x.new /\ y.shown = x.shown
             /\ y.upto = x.upto /\ y.alone = x.alone /\ y.intact = x.intact
BY DEF ChatRecord

(* The message of the assistant is saved.                                  *)
LEMMA AnswerFields ==
  ASSUME NEW x \in ChatRecord
  PROVE  LET y == [x EXCEPT !.at = "load", !.turn = "assistant"]
         IN  /\ y \in ChatRecord
             /\ y.at = "load" /\ y.turn = "assistant" /\ y.held = x.held
             /\ y.seen = x.seen /\ y.new = x.new /\ y.shown = x.shown
             /\ y.upto = x.upto /\ y.alone = x.alone /\ y.intact = x.intact
BY DEF ChatRecord, ChatAt

(* The session is loaded again.                                            *)
LEMMA LoadFields ==
  ASSUME NEW x \in ChatRecord, NEW w \in Summaries
  PROVE  LET y == [x EXCEPT !.at = "count", !.seen = w, !.held = TRUE, !.intact = TRUE]
         IN  /\ y \in ChatRecord
             /\ y.at = "count" /\ y.turn = x.turn /\ y.held = TRUE
             /\ y.seen = w /\ y.new = x.new /\ y.shown = x.shown
             /\ y.upto = x.upto /\ y.alone = x.alone /\ y.intact = TRUE
BY DEF ChatRecord, ChatAt

(* A request reads the summary.                                             *)
LEMMA PriorFields ==
  ASSUME NEW x \in ChatRecord, NEW w \in Summaries
  PROVE  LET y == [x EXCEPT !.at = "rows", !.new = w]
         IN  /\ y \in ChatRecord
             /\ y.at = "rows" /\ y.turn = x.turn /\ y.held = x.held
             /\ y.seen = x.seen /\ y.new = w /\ y.shown = x.shown
             /\ y.upto = x.upto /\ y.alone = x.alone /\ y.intact = x.intact
BY DEF ChatRecord, ChatAt

(* A request has what to summarise.                                         *)
LEMMA FetchFields ==
  ASSUME NEW x \in ChatRecord, NEW w \in Summaries
  PROVE  LET y == [x EXCEPT !.at = "model", !.new = w]
         IN  /\ y \in ChatRecord
             /\ y.at = "model" /\ y.turn = x.turn /\ y.held = x.held
             /\ y.seen = x.seen /\ y.new = w /\ y.shown = x.shown
             /\ y.upto = x.upto /\ y.alone = x.alone /\ y.intact = x.intact
BY DEF ChatRecord, ChatAt

(* The model fails.                                                        *)
LEMMA FailFields ==
  ASSUME NEW x \in ChatRecord, NEW b \in BOOLEAN
  PROVE  LET y == [x EXCEPT !.intact = FALSE, !.held = b]
         IN  /\ y \in ChatRecord
             /\ y.at = x.at /\ y.turn = x.turn /\ y.held = b
             /\ y.seen = x.seen /\ y.new = x.new /\ y.shown = x.shown
             /\ y.upto = x.upto /\ y.alone = x.alone /\ y.intact = FALSE
BY DEF ChatRecord

(* The summary is committed.                                               *)
LEMMA WriteFields ==
  ASSUME NEW x \in ChatRecord
  PROVE  LET y == [x EXCEPT !.held = FALSE]
         IN  /\ y \in ChatRecord
             /\ y.at = x.at /\ y.turn = x.turn /\ y.held = FALSE
             /\ y.seen = x.seen /\ y.new = x.new /\ y.shown = x.shown
             /\ y.upto = x.upto /\ y.alone = x.alone /\ y.intact = x.intact
BY DEF ChatRecord

(* The session object is read.                                             *)
LEMMA ContextFields ==
  ASSUME NEW x \in ChatRecord, NEW w \in Summaries
  PROVE  LET y == [x EXCEPT !.at = "tail", !.held = TRUE, !.seen = w]
         IN  /\ y \in ChatRecord
             /\ y.at = "tail" /\ y.turn = x.turn /\ y.held = TRUE
             /\ y.seen = w /\ y.new = x.new /\ y.shown = x.shown
             /\ y.upto = x.upto /\ y.alone = x.alone /\ y.intact = x.intact
BY DEF ChatRecord, ChatAt

(* A request begins.                                                       *)
LEMMA IdleFields ==
  /\ IdleRequest \in ChatRecord /\ IdleRequest.at = "idle" /\ IdleRequest.turn = "user"
  /\ IdleRequest.held = FALSE /\ IdleRequest.seen = NoSummary /\ IdleRequest.new = NoSummary
<1>1. NoSummary \in Summaries
  BY DEF NoSummary, Summaries
<1>2. QED
  BY <1>1 DEF IdleRequest, ChatRecord, ChatAt

(* A request begins.                                                       *)
LEMMA AskFields ==
  ASSUME NEW b \in BOOLEAN
  PROVE  LET y == [IdleRequest EXCEPT !.at = "load", !.alone = b]
         IN  /\ y \in ChatRecord /\ y.at = "load" /\ y.held = FALSE
             /\ y.seen = NoSummary /\ y.new = NoSummary /\ y.alone = b
BY IdleFields DEF ChatRecord, ChatAt

(* Another request begins.                                                 *)
LEMMA AloneFields ==
  ASSUME NEW x \in ChatRecord, NEW b \in BOOLEAN
  PROVE  LET y == [x EXCEPT !.alone = b]
         IN  /\ y \in ChatRecord /\ y.at = x.at /\ y.held = x.held
             /\ y.seen = x.seen /\ y.new = x.new /\ y.alone = b
BY DEF ChatRecord

-----------------------------------------------------------------------------
(* A request that runs takes a step of its own.                            *)
LEMMA OwnStep ==
  ASSUME ChatInv, NEW c \in Chats, NEW q \in ChatRecord, chat[c].at # "idle",
         chat' = [chat EXCEPT ![c] = q], count' \in Nat, count <= count',
         Whole(window', count'), Whole(q.seen, count'), Whole(q.new, count'),
         q.at # "idle" => q.alone = chat[c].alone,
         chat[c].alone /\ q.at # "idle" => LoneRequest(q, window', count')
  PROVE  ChatInv'
<1>1. /\ chat' \in [Chats -> ChatRecord] /\ chat'[c] = q
      /\ \A d \in Chats : d # c => chat'[d] = chat[d]
  BY DEF ChatInv
<1>2. \A d \in Chats : Whole(chat'[d].seen, count') /\ Whole(chat'[d].new, count')
  BY <1>1, WholeGrows DEF ChatInv
<1>3. ASSUME NEW d \in Chats, chat'[d].at # "idle", chat'[d].alone
      PROVE  OthersIdle(d)' /\ LoneRequest(chat'[d], window', count')
  <2>1. d = c
    BY <1>1, <1>3 DEF ChatInv, OthersIdle
  <2>2. OthersIdle(c)
    BY <1>1, <1>3, <2>1 DEF ChatInv
  <2>3. OthersIdle(c)'
    BY <1>1, <2>2 DEF OthersIdle
  <2>4. QED
    BY <1>1, <1>3, <2>1, <2>3
<1>4. QED
  BY <1>1, <1>2, <1>3 DEF ChatInv

(* What is known of a request.                                             *)
LEMMA RequestOf ==
  ASSUME ChatInv, NEW c \in Chats
  PROVE  /\ chat[c] \in ChatRecord /\ window \in Summaries /\ count \in Nat
         /\ Whole(window, count) /\ Whole(chat[c].seen, count) /\ Whole(chat[c].new, count)
         /\ chat[c].at # "idle" /\ chat[c].alone => LoneRequest(chat[c], window, count)
BY DEF ChatInv, Whole

(* An empty summary is whole.                                              *)
LEMMA NoSummaryIsWhole ==
  ASSUME NEW n \in Nat
  PROVE  Whole(NoSummary, n)
BY DEF Whole, NoSummary, Summaries

(* A request takes a step that adds no message.                            *)
LEMMA QuietStep ==
  ASSUME ChatInv, NEW c \in Chats, NEW q \in ChatRecord, chat[c].at # "idle",
         chat' = [chat EXCEPT ![c] = q], count' = count,
         Whole(window', count), Whole(q.seen, count), Whole(q.new, count),
         q.at # "idle" => q.alone = chat[c].alone,
         chat[c].alone /\ q.at # "idle" => LoneRequest(q, window', count)
  PROVE  ChatInv'
<1>1. count' \in Nat /\ count <= count'
  BY RequestOf
<1>2. Whole(window', count') /\ Whole(q.seen, count') /\ Whole(q.new, count')
  OBVIOUS
<1>3. chat[c].alone /\ q.at # "idle" => LoneRequest(q, window', count')
  OBVIOUS
<1>4. QED
  BY <1>1, <1>2, <1>3, OwnStep

(* The summary of a request is done or not called for.                     *)
LEMMA ProceedStep ==
  ASSUME ChatInv, NEW c \in Chats, NEW x \in ChatRecord, chat[c].at # "idle",
         chat' = [chat EXCEPT ![c] = Proceed(x)], count' = count,
         Whole(window', count), Whole(x.seen, count), Whole(x.new, count),
         x.alone = chat[c].alone,
         chat[c].alone /\ x.held => x.seen = window',
         chat[c].alone /\ x.intact /\ count >= Threshold =>
           count <= window'.mark + KeepRecent
  PROVE  ChatInv'
<1>1. count \in Nat
  BY RequestOf
<1>2. CASE x.turn = "user"
  <2> DEFINE y == [x EXCEPT !.at = "context"]
  <2>1. /\ y \in ChatRecord /\ y.at = "context" /\ y.held = x.held /\ y.seen = x.seen
        /\ y.new = x.new /\ y.alone = x.alone /\ y.intact = x.intact
    BY MoveFields DEF ChatAt
  <2>2. chat' = [chat EXCEPT ![c] = y]
    BY <1>2 DEF Proceed
  <2> HIDE DEF y
  <2>3. chat[c].alone => LoneRequest(y, window', count)
    BY <2>1 DEF LoneRequest
  <2>4. QED
    BY <1>1, <2>1, <2>2, <2>3, QuietStep
<1>3. CASE x.turn # "user"
  <2>1. chat' = [chat EXCEPT ![c] = IdleRequest]
    BY <1>3 DEF Proceed
  <2>2. Whole(NoSummary, count)
    BY <1>1, NoSummaryIsWhole
  <2>3. QED
    BY <1>1, <2>1, <2>2, IdleFields, QuietStep
<1>4. QED
  BY <1>2, <1>3

(* The message of the assistant is saved.                                  *)
LEMMA AnswerPreserves ==
  ASSUME ChatInv, NEW c \in Chats, Answer(c)
  PROVE  ChatInv'
<1> DEFINE y == [chat[c] EXCEPT !.at = "load", !.turn = "assistant"]
<1>1. /\ chat[c].at \in {"context", "answer"} /\ count' = count + 1 /\ window' = window
      /\ chat' = [chat EXCEPT ![c] = y]
  BY DEF Answer
<1>2. /\ y \in ChatRecord /\ y.at = "load" /\ y.held = chat[c].held
      /\ y.seen = chat[c].seen /\ y.new = chat[c].new /\ y.alone = chat[c].alone
  BY RequestOf, AnswerFields
<1> HIDE DEF y
<1>3. count \in Nat /\ count' \in Nat /\ count <= count'
  BY <1>1, RequestOf
<1>4. chat[c].alone => LoneRequest(y, window', count')
  BY <1>1, <1>2, RequestOf DEF LoneRequest
<1>5. Whole(window', count') /\ Whole(y.seen, count') /\ Whole(y.new, count')
  BY <1>1, <1>2, <1>3, RequestOf, WholeGrows
<1>6. QED
  BY <1>1, <1>2, <1>3, <1>4, <1>5, OwnStep

(* The session is loaded again.                                            *)
LEMMA LoadPreserves ==
  ASSUME ChatInv, NEW c \in Chats, Load(c)
  PROVE  ChatInv'
<1> DEFINE y == [chat[c] EXCEPT !.at = "count", !.seen = window, !.held = TRUE,
                                !.intact = TRUE]
<1>1. chat[c].at = "load" /\ UNCHANGED <<count, window>> /\ chat' = [chat EXCEPT ![c] = y]
  BY DEF Load
<1>5. /\ chat[c] \in ChatRecord /\ window \in Summaries
      /\ Whole(window, count) /\ Whole(chat[c].new, count)
  BY RequestOf
<1>2. /\ y \in ChatRecord /\ y.at = "count" /\ y.held = TRUE
      /\ y.seen = window /\ y.new = chat[c].new /\ y.alone = chat[c].alone
  BY <1>5, LoadFields
<1> HIDE DEF y
<1>3. LoneRequest(y, window', count)
  BY <1>1, <1>2 DEF LoneRequest
<1>4. QED
  BY <1>1, <1>2, <1>3, <1>5, QuietStep

(* The messages of the window are counted.                                 *)
LEMMA CountPreserves ==
  ASSUME ChatInv, NEW c \in Chats, CountMessages(c)
  PROVE  ChatInv'
<1>1. chat[c].at = "count" /\ UNCHANGED <<count, window>>
  BY DEF CountMessages
<1>2. CASE CrossesThreshold
  <2> DEFINE y == [chat[c] EXCEPT !.at = "prior"]
  <2>1. chat' = [chat EXCEPT ![c] = y]
    BY <1>2 DEF CountMessages
  <2>2. /\ y \in ChatRecord /\ y.at = "prior" /\ y.held = chat[c].held
        /\ y.seen = chat[c].seen /\ y.new = chat[c].new /\ y.alone = chat[c].alone
    BY RequestOf, MoveFields DEF ChatAt
  <2> HIDE DEF y
  <2>3. chat[c].alone => LoneRequest(y, window', count)
    BY <1>1, <2>2, RequestOf DEF LoneRequest
  <2>4. QED
    BY <1>1, <2>1, <2>2, <2>3, RequestOf, QuietStep
<1>3. CASE ~ CrossesThreshold
  <2>1. chat' = [chat EXCEPT ![c] = Proceed(chat[c])]
    BY <1>3 DEF CountMessages
  <2>2. ~ (count >= Threshold)
    BY <1>3 DEF CrossesThreshold
  <2>3. chat[c].alone /\ chat[c].held => chat[c].seen = window'
    BY <1>1, RequestOf DEF LoneRequest
  <2>4. QED
    BY <1>1, <2>1, <2>2, <2>3, RequestOf, ProceedStep
<1>4. QED
  BY <1>2, <1>3

(* The summary and its mark are read.                                      *)
LEMMA PriorPreserves ==
  ASSUME ChatInv, NEW c \in Chats, ReadPrior(c)
  PROVE  ChatInv'
<1> DEFINE y == [chat[c] EXCEPT !.at = "rows", !.new = window]
<1>1. chat[c].at = "prior" /\ UNCHANGED <<count, window>> /\ chat' = [chat EXCEPT ![c] = y]
  BY DEF ReadPrior
<1>5. chat[c] \in ChatRecord /\ window \in Summaries /\ "rows" \in ChatAt
  BY RequestOf DEF ChatAt
<1>2. /\ y \in ChatRecord /\ y.at = "rows" /\ y.held = chat[c].held
      /\ y.seen = chat[c].seen /\ y.new = window /\ y.alone = chat[c].alone
  BY <1>5, PriorFields
<1> HIDE DEF y
<1>3. chat[c].alone => LoneRequest(y, window', count)
  BY <1>1, <1>2, RequestOf DEF LoneRequest
<1>4. QED
  BY <1>1, <1>2, <1>3, RequestOf, QuietStep

(* A summary is made from a whole one and the messages after its mark: it  *)
(* is whole, and leaves out KeepRecent messages.                           *)
LEMMA CompressedIsWhole ==
  ASSUME NEW w, count \in Nat, Whole(w, count)
  PROVE  /\ Compressed(w) \in Summaries /\ Whole(Compressed(w), count)
         /\ count <= Compressed(w).mark + KeepRecent
         /\ LastToCompress(w.mark) = w.mark => count <= w.mark + KeepRecent
<1>1. PICK m \in Nat : m = w.mark /\ w.covers = 1 .. m /\ m <= count
  BY DEF Whole, Summaries
<1>2. PICK last : last = LastToCompress(w.mark)
  OBVIOUS
<1>3. /\ last \in Nat /\ m <= last /\ last <= count /\ count <= last + KeepRecent
  BY <1>1, <1>2, BoundsAreNumbers DEF LastToCompress
<1>4. (1 .. m) \cup ((m + 1) .. last) = 1 .. last
  BY <1>1, <1>3
<1>5. Compressed(w) = [covers |-> 1 .. last, mark |-> last]
  BY <1>1, <1>2, <1>4 DEF Compressed
<1>6. 1 .. last \in SUBSET Nat
  BY <1>3
<1>7. QED
  BY <1>1, <1>2, <1>3, <1>5, <1>6 DEF Whole, Summaries

(* The messages after the mark are fetched.                                *)
LEMMA FetchPreserves ==
  ASSUME ChatInv, NEW c \in Chats, FetchWindow(c)
  PROVE  ChatInv'
<1>1. chat[c].at = "rows" /\ UNCHANGED <<count, window>>
  BY DEF FetchWindow
<1>2. PICK w : w = chat[c].new
  OBVIOUS
<1>3. /\ Compressed(w) \in Summaries /\ Whole(Compressed(w), count)
      /\ count <= Compressed(w).mark + KeepRecent
      /\ LastToCompress(w.mark) = w.mark => count <= w.mark + KeepRecent
  BY <1>2, RequestOf, CompressedIsWhole
<1>4. CASE LastToCompress(w.mark) = w.mark
  <2>1. chat' = [chat EXCEPT ![c] = Proceed(chat[c])]
    BY <1>2, <1>4 DEF FetchWindow
  <2>2. chat[c].alone => count <= window'.mark + KeepRecent
    BY <1>1, <1>2, <1>3, <1>4, RequestOf DEF LoneRequest
  <2>3. chat[c].alone /\ chat[c].held => chat[c].seen = window'
    BY <1>1, RequestOf DEF LoneRequest
  <2>4. QED
    BY <1>1, <2>1, <2>2, <2>3, RequestOf, ProceedStep
<1>5. CASE LastToCompress(w.mark) # w.mark
  <2> DEFINE v == Compressed(w)
  <2> DEFINE y == [chat[c] EXCEPT !.at = "model", !.new = v]
  <2>1. chat' = [chat EXCEPT ![c] = y]
    BY <1>2, <1>5 DEF FetchWindow
  <2>2. v \in Summaries /\ Whole(v, count) /\ count <= v.mark + KeepRecent
    BY <1>3
  <2> HIDE DEF v
  <2>6. chat[c] \in ChatRecord /\ "model" \in ChatAt
    BY RequestOf DEF ChatAt
  <2>3. /\ y \in ChatRecord /\ y.at = "model" /\ y.held = chat[c].held
        /\ y.seen = chat[c].seen /\ y.new = v /\ y.alone = chat[c].alone
    BY <2>2, <2>6, FetchFields
  <2> HIDE DEF y
  <2>4. chat[c].alone => LoneRequest(y, window', count)
    BY <1>1, <2>2, <2>3, RequestOf DEF LoneRequest
  <2>5. QED
    BY <1>1, <2>1, <2>2, <2>3, <2>4, RequestOf, QuietStep
<1>6. QED
  BY <1>4, <1>5

(* The model gives a summary.                                              *)
LEMMA ModelAnswersPreserves ==
  ASSUME ChatInv, NEW c \in Chats, ModelAnswers(c)
  PROVE  ChatInv'
<1> DEFINE y == [chat[c] EXCEPT !.at = "write"]
<1>1. chat[c].at = "model" /\ UNCHANGED <<count, window>> /\ chat' = [chat EXCEPT ![c] = y]
  BY DEF ModelAnswers
<1>2. /\ y \in ChatRecord /\ y.at = "write" /\ y.held = chat[c].held
      /\ y.seen = chat[c].seen /\ y.new = chat[c].new /\ y.alone = chat[c].alone
  BY RequestOf, MoveFields DEF ChatAt
<1> HIDE DEF y
<1>3. chat[c].alone => LoneRequest(y, window', count)
  BY <1>1, <1>2, RequestOf DEF LoneRequest
<1>4. QED
  BY <1>1, <1>2, <1>3, RequestOf, QuietStep

(* The model fails, and the window stays as it is.                         *)
LEMMA ModelFailsPreserves ==
  ASSUME ChatInv, NEW c \in Chats, ModelFails(c)
  PROVE  ChatInv'
<1>1. chat[c].at = "model" /\ UNCHANGED <<count, window>>
  BY DEF ModelFails
<1>2. PICK b : /\ b \in BOOLEAN
               /\ chat' = [chat EXCEPT ![c] =
                             Proceed([chat[c] EXCEPT !.intact = FALSE, !.held = b])]
  <2>1. PICK r \in BOOLEAN :
          chat' = [chat EXCEPT ![c] =
                     Proceed([chat[c] EXCEPT !.intact = FALSE, !.held = ~r])]
    BY DEF ModelFails
  <2>2. (~ r) \in BOOLEAN
    OBVIOUS
  <2>3. QED
    BY <2>1, <2>2, Zenon
<1> DEFINE x == [chat[c] EXCEPT !.intact = FALSE, !.held = b]
<1>3. /\ x \in ChatRecord /\ x.held = b /\ x.intact = FALSE
      /\ x.seen = chat[c].seen /\ x.new = chat[c].new /\ x.alone = chat[c].alone
  BY <1>2, RequestOf, FailFields
<1>4. chat' = [chat EXCEPT ![c] = Proceed(x)]
  BY <1>2, Zenon
<1>5. /\ Whole(x.seen, count) /\ Whole(x.new, count) /\ Whole(window', count)
      /\ chat[c].alone => x.seen = window'
  BY <1>1, <1>3, RequestOf DEF LoneRequest
<1> HIDE DEF x
<1>6. QED
  BY <1>1, <1>3, <1>4, <1>5, ProceedStep

(* The summary and its mark are committed.                                 *)
LEMMA WriteSummaryPreserves ==
  ASSUME ChatInv, NEW c \in Chats, WriteSummary(c)
  PROVE  ChatInv'
<1> DEFINE x == [chat[c] EXCEPT !.held = FALSE]
<1>1. /\ chat[c].at = "write" /\ count' = count /\ window' = chat[c].new
      /\ chat' = [chat EXCEPT ![c] = Proceed(x)]
  BY DEF WriteSummary
<1>2. /\ x \in ChatRecord /\ x.held = FALSE /\ x.seen = chat[c].seen
      /\ x.new = chat[c].new /\ x.alone = chat[c].alone
  BY RequestOf, WriteFields
<1> HIDE DEF x
<1>3. Whole(x.seen, count) /\ Whole(x.new, count) /\ Whole(window', count)
  BY <1>1, <1>2, RequestOf
<1>4. chat[c].alone => count <= window'.mark + KeepRecent
  BY <1>1, RequestOf DEF LoneRequest
<1>5. QED
  BY <1>1, <1>2, <1>3, <1>4, ProceedStep

-----------------------------------------------------------------------------
(* The session object is read, and loaded if a commit had let go of it.    *)
LEMMA LoadContextPreserves ==
  ASSUME ChatInv, NEW c \in Chats, LoadContext(c)
  PROVE  ChatInv'
<1>1. PICK v : v = IF chat[c].held THEN chat[c].seen ELSE window
  OBVIOUS
<1> DEFINE y == [chat[c] EXCEPT !.at = "tail", !.held = TRUE, !.seen = v]
<1>2. chat[c].at = "context" /\ UNCHANGED <<count, window>> /\ chat' = [chat EXCEPT ![c] = y]
  BY <1>1 DEF LoadContext
<1>3. v \in Summaries /\ Whole(v, count) /\ chat[c] \in ChatRecord
  BY <1>1, RequestOf DEF Whole
<1>4. /\ y \in ChatRecord /\ y.at = "tail" /\ y.held = TRUE /\ y.seen = v
      /\ y.new = chat[c].new /\ y.alone = chat[c].alone /\ y.intact = chat[c].intact
  BY <1>3, ContextFields
<1> HIDE DEF y
<1>5. chat[c].alone => LoneRequest(y, window', count)
  <2> SUFFICES ASSUME chat[c].alone PROVE LoneRequest(y, window', count)
    OBVIOUS
  <2>1. LoneRequest(chat[c], window, count)
    BY <1>2, RequestOf
  <2>2. v = window
    BY <1>1, <2>1 DEF LoneRequest
  <2>3. QED
    BY <1>2, <1>4, <2>1, <2>2 DEF LoneRequest
<1>6. Whole(y.seen, count) /\ Whole(y.new, count) /\ Whole(window', count)
  BY <1>2, <1>3, <1>4, RequestOf
<1>7. QED
  BY <1>2, <1>4, <1>5, <1>6, QuietStep

(* The summary and the tail: with few enough messages left out they are    *)
(* all that were written.                                                  *)
LEMMA TailCompletes ==
  ASSUME NEW w, count \in Nat, Whole(w, count)
  PROVE  /\ w.covers \cup ShownTail(w.mark) \in SUBSET Nat
         /\ count <= w.mark + KeepRecent =>
              w.covers \cup ShownTail(w.mark) = 1 .. count
<1>1. PICK m \in Nat : m = w.mark /\ w.covers = 1 .. m /\ m <= count
  BY DEF Whole, Summaries
<1>2. PICK k \in Nat : k = Larger(m, count - TailLimit)
  BY <1>1, BoundsAreNumbers DEF Larger
<1>3. ShownTail(w.mark) = (k + 1) .. count
  BY <1>1, <1>2 DEF ShownTail
<1>4. ASSUME count <= m + KeepRecent PROVE (1 .. m) \cup ((k + 1) .. count) = 1 .. count
  <2>1. k = m
    BY <1>1, <1>2, <1>4, BoundsAreNumbers DEF Larger
  <2>2. QED
    BY <1>1, <2>1
<1>5. (1 .. m) \cup ((k + 1) .. count) \in SUBSET Nat
  BY <1>1, <1>2
<1>6. QED
  BY <1>1, <1>3, <1>4, <1>5

(* The last messages are read.                                             *)
LEMMA ReadTailPreserves ==
  ASSUME ChatInv, NEW c \in Chats, ReadTail(c)
  PROVE  ChatInv'
<1>1. PICK w, m : w = chat[c].seen /\ m = w.covers \cup ShownTail(w.mark)
  OBVIOUS
<1> DEFINE y == [chat[c] EXCEPT !.at = "cut", !.upto = count, !.shown = m]
<1>2. chat[c].at = "tail" /\ UNCHANGED <<count, window>> /\ chat' = [chat EXCEPT ![c] = y]
  BY <1>1 DEF ReadTail
<1>3. /\ m \in SUBSET Nat /\ count \in Nat /\ chat[c] \in ChatRecord
      /\ count <= w.mark + KeepRecent => m = 1 .. count
  BY <1>1, RequestOf, TailCompletes
<1>8. m \in SUBSET Nat /\ count \in Nat /\ chat[c] \in ChatRecord
  BY <1>3
<1>4. /\ y \in ChatRecord /\ y.at = "cut" /\ y.held = chat[c].held
      /\ y.seen = chat[c].seen /\ y.new = chat[c].new /\ y.shown = m /\ y.upto = count
      /\ y.alone = chat[c].alone /\ y.intact = chat[c].intact
  BY <1>8 DEF ChatRecord, ChatAt
<1> HIDE DEF y
<1>5. chat[c].alone => LoneRequest(y, window', count)
  <2> SUFFICES ASSUME chat[c].alone PROVE LoneRequest(y, window', count)
    OBVIOUS
  <2>1. LoneRequest(chat[c], window, count)
    BY <1>2, RequestOf
  <2>2. w = window
    BY <1>1, <1>2, <2>1 DEF LoneRequest
  <2>3. y.intact /\ y.upto >= Threshold => m = 1 .. count
    BY <1>2, <1>3, <1>4, <2>1, <2>2 DEF LoneRequest
  <2>4. y.held => y.seen = window'
    BY <1>2, <1>4, <2>1 DEF LoneRequest
  <2>5. QED
    BY <1>4, <2>3, <2>4 DEF LoneRequest
<1>6. Whole(y.seen, count) /\ Whole(y.new, count) /\ Whole(window', count)
  BY <1>2, <1>4, RequestOf
<1>7. QED
  BY <1>2, <1>4, <1>5, <1>6, QuietStep

(* What is shown of a whole context is its beginning.                      *)
LEMMA BeginningHasNoGap ==
  ASSUME NEW q \in ChatRecord, NEW n \in Nat
  PROVE  /\ Beginning(q, n) \in SUBSET Nat
         /\ q.shown = 1 .. q.upto => IsBeginning(Beginning(q, n), q.upto)
<1>1. /\ q.upto \in Nat /\ q.shown \in SUBSET Nat /\ q.seen.mark \in Nat
  BY DEF ChatRecord, Summaries
<1>2. PICK b \in Int : b = FirstCut(q, n)
  BY <1>1, BoundsAreNumbers DEF FirstCut, SummaryParts, Larger
<1>3. CASE n = 0
  <2>1. Beginning(q, n) = 1 .. 0
    BY <1>3 DEF Beginning
  <2> QED
    BY <1>1, <2>1 DEF IsBeginning
<1>4. CASE n # 0
  <2>1. Beginning(q, n) = {m \in q.shown : m < b}
    BY <1>2, <1>4 DEF Beginning
  <2>2. ASSUME q.shown = 1 .. q.upto
        PROVE  \E k \in 0 .. q.upto : {m \in q.shown : m < b} = 1 .. k
    <3>1. CASE b <= 1
      <4>1. {m \in q.shown : m < b} = 1 .. 0
        BY <1>1, <1>2, <2>2, <3>1
      <4> QED
        BY <1>1, <4>1
    <3>2. CASE b > 1 /\ b <= q.upto
      <4>1. {m \in q.shown : m < b} = 1 .. (b - 1) /\ b - 1 \in 0 .. q.upto
        BY <1>1, <1>2, <2>2, <3>2
      <4> QED
        BY <4>1
    <3>3. CASE b > q.upto
      <4>1. {m \in q.shown : m < b} = 1 .. q.upto
        BY <1>1, <1>2, <2>2, <3>3
      <4> QED
        BY <1>1, <4>1
    <3> QED
      BY <1>1, <1>2, <3>1, <3>2, <3>3
  <2> QED
    BY <1>1, <2>1, <2>2 DEF IsBeginning
<1> QED
  BY <1>3, <1>4

(* The context is cut for the answer.                                      *)
LEMMA CutPreserves ==
  ASSUME ChatInv, NEW c \in Chats, CutContext(c)
  PROVE  ChatInv'
<1>1. PICK n \in 0 .. MaxLines :
        chat' = [chat EXCEPT ![c].at = "answer", ![c].shown = Beginning(chat[c], n)]
  BY DEF CutContext
<1>2. PICK m : m = Beginning(chat[c], n)
  OBVIOUS
<1> DEFINE y == [chat[c] EXCEPT !.at = "answer", !.shown = m]
<1>3. chat[c].at = "cut" /\ UNCHANGED <<count, window>> /\ chat' = [chat EXCEPT ![c] = y]
  BY <1>1, <1>2 DEF CutContext
<1>4. n \in Nat
  BY <1>1, ChatBoundsAssumption
<1>5. chat[c] \in ChatRecord
  BY RequestOf
<1>6. /\ m \in SUBSET Nat
      /\ chat[c].shown = 1 .. chat[c].upto => IsBeginning(m, chat[c].upto)
  BY <1>2, <1>4, <1>5, BeginningHasNoGap
<1>7. /\ y \in ChatRecord /\ y.at = "answer" /\ y.held = chat[c].held
      /\ y.seen = chat[c].seen /\ y.new = chat[c].new /\ y.shown = m
      /\ y.upto = chat[c].upto /\ y.alone = chat[c].alone /\ y.intact = chat[c].intact
  BY <1>5, <1>6 DEF ChatRecord, ChatAt
<1> HIDE DEF y
<1>8. chat[c].alone => LoneRequest(y, window', count)
  <2> SUFFICES ASSUME chat[c].alone PROVE LoneRequest(y, window', count)
    OBVIOUS
  <2>1. LoneRequest(chat[c], window, count)
    BY <1>3, RequestOf
  <2>2. y.held => y.seen = window'
    BY <1>3, <1>7, <2>1 DEF LoneRequest
  <2>3. y.intact /\ y.upto >= Threshold => IsBeginning(y.shown, y.upto)
    BY <1>3, <1>6, <1>7, <2>1 DEF LoneRequest
  <2> QED
    BY <1>7, <2>2, <2>3 DEF LoneRequest
<1>9. Whole(y.seen, count) /\ Whole(y.new, count) /\ Whole(window', count)
  BY <1>3, <1>7, RequestOf
<1> QED
  BY <1>3, <1>7, <1>8, <1>9, QuietStep

-----------------------------------------------------------------------------
(* A request begins: it is alone if no other one runs, and those that run  *)
(* are alone no longer.                                                    *)
LEMMA AskPreserves ==
  ASSUME ChatInv, NEW c \in Chats, Ask(c)
  PROVE  ChatInv'
<1>1. PICK b : b = OthersIdle(c) /\ b \in BOOLEAN
  BY DEF OthersIdle
<1> DEFINE y == [IdleRequest EXCEPT !.at = "load", !.alone = b]
<1> DEFINE z(d) == [chat[d] EXCEPT !.alone = chat[d].at = "idle"]
<1>2. /\ y \in ChatRecord /\ y.at = "load" /\ y.held = FALSE
      /\ y.seen = NoSummary /\ y.new = NoSummary /\ y.alone = b
  BY <1>1, AskFields
<1>3. ASSUME NEW d \in Chats
      PROVE  /\ z(d) \in ChatRecord /\ z(d).at = chat[d].at /\ z(d).seen = chat[d].seen
             /\ z(d).new = chat[d].new /\ (z(d).alone <=> chat[d].at = "idle")
  <2>1. chat[d] \in ChatRecord
    BY RequestOf
  <2>2. PICK r : r = (chat[d].at = "idle") /\ r \in BOOLEAN
    OBVIOUS
  <2>3. z(d) = [chat[d] EXCEPT !.alone = r]
    BY <2>2, Zenon
  <2>4. QED
    BY <2>1, <2>2, <2>3, AloneFields, Zenon
<1>4. /\ chat[c].at = "idle" /\ count' = count + 1 /\ window' = window
      /\ chat' = [d \in Chats |-> IF d = c THEN y ELSE z(d)]
  BY <1>1 DEF Ask
<1> HIDE DEF y, z
<1>5. /\ count \in Nat /\ count' \in Nat /\ count <= count' /\ Whole(window, count)
  BY <1>4, RequestOf
<1>6. Whole(window', count') /\ Whole(NoSummary, count')
  BY <1>4, <1>5, WholeGrows, NoSummaryIsWhole
<1>7. /\ chat' \in [Chats -> ChatRecord] /\ chat'[c] = y
      /\ \A d \in Chats : d # c => chat'[d] = z(d)
  BY <1>2, <1>3, <1>4
<1>8. ASSUME NEW d \in Chats
      PROVE  Whole(chat'[d].seen, count') /\ Whole(chat'[d].new, count')
  <2>1. CASE d = c
    BY <1>2, <1>6, <1>7, <2>1
  <2>2. CASE d # c
    <3>1. Whole(chat[d].seen, count) /\ Whole(chat[d].new, count)
      BY RequestOf
    <3>2. Whole(chat[d].seen, count') /\ Whole(chat[d].new, count')
      BY <1>5, <3>1, WholeGrows
    <3>3. QED
      BY <1>3, <1>7, <2>2, <3>2
  <2>3. QED
    BY <2>1, <2>2
<1>9. ASSUME NEW d \in Chats, chat'[d].at # "idle", chat'[d].alone
      PROVE  OthersIdle(d)' /\ LoneRequest(chat'[d], window', count')
  <2>1. d = c
    BY <1>3, <1>7, <1>9
  <2>2. OthersIdle(c)
    BY <1>1, <1>2, <1>7, <1>9, <2>1
  <2>3. OthersIdle(c)'
    BY <1>3, <1>7, <2>2 DEF OthersIdle
  <2>4. LoneRequest(y, window', count')
    BY <1>2 DEF LoneRequest
  <2>5. QED
    BY <1>7, <2>1, <2>3, <2>4
<1>10. QED
  BY <1>5, <1>6, <1>7, <1>8, <1>9 DEF ChatInv

-----------------------------------------------------------------------------
(* At the start nothing is summarised.                                     *)
LEMMA ChatInitInv == ChatInit => ChatInv
<1> SUFFICES ASSUME ChatInit PROVE ChatInv
  OBVIOUS
<1>1. count = 0 /\ window = NoSummary /\ chat = [c \in Chats |-> IdleRequest]
  BY DEF ChatInit
<1>2. count \in Nat /\ Whole(NoSummary, count)
  BY <1>1, NoSummaryIsWhole
<1>3. /\ chat \in [Chats -> ChatRecord]
      /\ \A c \in Chats : /\ chat[c].at = "idle" /\ chat[c].seen = NoSummary
                          /\ chat[c].new = NoSummary
  BY <1>1, IdleFields
<1>4. QED
  BY <1>1, <1>2, <1>3 DEF ChatInv

(* The invariant is kept by every step.                                    *)
LEMMA ChatStep == ChatInv /\ [ChatNext]_ChatVars => ChatInv'
<1> SUFFICES ASSUME ChatInv, [ChatNext]_ChatVars PROVE ChatInv'
  OBVIOUS
<1>1. CASE UNCHANGED ChatVars
  BY <1>1 DEF ChatVars, ChatInv, OthersIdle
<1>2. CASE ChatNext
  <2>1. PICK c \in Chats :
          \/ Ask(c) \/ Answer(c) \/ Load(c) \/ CountMessages(c) \/ ReadPrior(c)
          \/ FetchWindow(c) \/ ModelAnswers(c) \/ ModelFails(c) \/ WriteSummary(c)
          \/ LoadContext(c) \/ ReadTail(c) \/ CutContext(c)
    BY <1>2 DEF ChatNext
  <2>2. CASE Ask(c) \/ Answer(c) \/ Load(c) \/ CountMessages(c) \/ ReadPrior(c)
    BY <2>2, AskPreserves, AnswerPreserves, LoadPreserves, CountPreserves, PriorPreserves
  <2>3. CASE FetchWindow(c) \/ ModelAnswers(c) \/ ModelFails(c) \/ WriteSummary(c)
    BY <2>3, FetchPreserves, ModelAnswersPreserves, ModelFailsPreserves,
       WriteSummaryPreserves
  <2>4. CASE LoadContext(c) \/ ReadTail(c) \/ CutContext(c)
    BY <2>4, LoadContextPreserves, ReadTailPreserves, CutPreserves
  <2>5. QED
    BY <2>1, <2>2, <2>3, <2>4
<1>3. QED
  BY <1>1, <1>2

(* However requests overlap, the summary of a window is made from exactly  *)
(* the messages up to its mark, for any number of requests and messages    *)
(* and whatever the threshold is.                                          *)
THEOREM SummariesEndAtTheirMark == ChatSpec => []SummaryEndsAtMark
<1>1. ChatInv => SummaryEndsAtMark
  BY DEF ChatInv, Whole, SummaryEndsAtMark
<1>2. QED
  BY <1>1, ChatInitInv, ChatStep, PTL DEF ChatSpec

(* The context of an answer speaks of every message when the request ran   *)
(* alone, its summary did not fail and the window is past the threshold,   *)
(* for every KeepRecent that is at most the TailLimit, and what is shown   *)
(* of it is its beginning, wherever it is cut.                             *)
THEOREM ContextsHaveNoGap == ChatSpec => []ContextHasNoGap
<1>1. ChatInv => ContextHasNoGap
  <2> SUFFICES ASSUME ChatInv, NEW c \in Chats, chat[c].alone, chat[c].intact,
                      chat[c].upto >= Threshold, chat[c].at \in {"cut", "answer"}
               PROVE  /\ chat[c].at = "cut" => chat[c].shown = 1 .. chat[c].upto
                      /\ chat[c].at = "answer" =>
                           IsBeginning(chat[c].shown, chat[c].upto)
    BY DEF ContextHasNoGap
  <2>1. LoneRequest(chat[c], window, count)
    BY RequestOf
  <2>2. QED
    BY <2>1 DEF LoneRequest
<1>2. QED
  BY <1>1, ChatInitInv, ChatStep, PTL DEF ChatSpec

-----------------------------------------------------------------------------
(***************************************************************************)
(* AIActions: what a retried action leaves, for any number of actions,     *)
(* threads and cut-offs.                                                   *)
(***************************************************************************)
\* Thread t runs a confirmation of action a, and is past part p of it.
Working(t, a) == confirm[t].at # "idle" /\ confirm[t].action = a
PastPart(t, p) == confirm[t].at = "mark" \/ confirm[t].part > p

\* A run of part p of a that no cut has ended.
Uncut(a, p) ==
  status[a] = "executed" \/ \E t \in Clients : Working(t, a) /\ PastPart(t, p)

\* What holds of an action that no two confirmations ran at a time.
ActionInv(a) ==
  /\ \A t, u \in Clients : Working(t, a) /\ Working(u, a) => t = u
  /\ \A t \in Clients : Working(t, a) => status[a] = "pending"
  /\ \A t \in Clients : Working(t, a) /\ confirm[t].at = "item" =>
       /\ confirm[t].found <=> made[a][confirm[t].part] > 0
       /\ PartsOf(a)[confirm[t].part] = "keyed"
  /\ \A p \in 1 .. LastPart(a) :
       IF PartsOf(a)[p] = "row"
       THEN made[a][p] <= cuts[a] + (IF Uncut(a, p) THEN 1 ELSE 0)
       ELSE made[a][p] <= 1

\* A thread is idle, or at a part of an action.
Job(q) ==
  \/ q = NoAction
  \/ \E a \in Actions : \E p \in 1 .. LastPart(a), found \in BOOLEAN :
       q \in {Run(a, at, p, found) : at \in {"part", "item", "mark"}}

ActionsInv ==
  /\ ActionsTypeOK
  /\ DOMAIN confirm = Clients /\ DOMAIN made = Actions
  /\ \A a \in Actions \ overlapped : ActionInv(a)

-----------------------------------------------------------------------------
(* Every action has one part or two.                                       *)
LEMMA PartsShape ==
  ASSUME NEW a \in Actions
  PROVE  LastPart(a) \in Nat /\ 1 <= LastPart(a)
BY KindsAssumption DEF LastPart, PartsOf, Parts, Kinds

(* What the record of a thread that is not idle says.                      *)
LEMMA JobFields ==
  ASSUME NEW q, Job(q), q.at # "idle"
  PROVE  /\ q.action \in Actions /\ q.part \in 1 .. LastPart(q.action)
         /\ q.at \in {"part", "item", "mark"} /\ q.found \in BOOLEAN
         /\ q.part \in Nat
<1>1. q # NoAction
  BY DEF NoAction
<1>2. PICK a \in Actions : \E p \in 1 .. LastPart(a), found \in BOOLEAN :
        q \in {Run(a, at, p, found) : at \in {"part", "item", "mark"}}
  BY <1>1 DEF Job
<1>3. PICK p \in 1 .. LastPart(a), found \in BOOLEAN :
        q \in {Run(a, at, p, found) : at \in {"part", "item", "mark"}}
  BY <1>2
<1>4. PICK at \in {"part", "item", "mark"} : q = Run(a, at, p, found)
  BY <1>3
<1>5. LastPart(a) \in Nat
  BY PartsShape
<1>6. QED
  BY <1>4, <1>5 DEF Run

(* A record made at a part of an action is a job.                          *)
LEMMA RunIsJob ==
  ASSUME NEW a \in Actions, NEW p \in 1 .. LastPart(a),
         NEW at, at = "part" \/ at = "mark"
  PROVE  /\ Job(Run(a, at, p, FALSE))
         /\ Run(a, at, p, FALSE).at = at /\ Run(a, at, p, FALSE).action = a
         /\ Run(a, at, p, FALSE).part = p
BY DEF Job, Run

(* After a part comes the next one or the status.                          *)
LEMMA NextPartGoesOn ==
  ASSUME NEW q, Job(q), q.at # "idle"
  PROVE  /\ Job(NextPart(q)) /\ NextPart(q).action = q.action
         /\ NextPart(q).at \in {"part", "mark"}
         /\ NextPart(q).at = "mark" \/ NextPart(q).part > q.part
         /\ \A p \in Nat : q.part > p => NextPart(q).part > p
         /\ \A p \in 1 .. LastPart(q.action) :
              NextPart(q).at = "mark" \/ NextPart(q).part > p => p <= q.part
<1>1. /\ q.action \in Actions /\ q.part \in 1 .. LastPart(q.action) /\ q.part \in Nat
      /\ LastPart(q.action) \in Nat
  BY JobFields, PartsShape
<1>2. CASE q.part = LastPart(q.action)
  <2>1. NextPart(q) = Run(q.action, "mark", q.part, FALSE)
    BY <1>2 DEF NextPart
  <2>3. /\ NextPart(q).at = "mark" /\ NextPart(q).action = q.action
        /\ NextPart(q).part = q.part
    BY <2>1 DEF Run
  <2>5. Job(Run(q.action, "mark", q.part, FALSE))
    BY <1>1, RunIsJob
  <2>6. Job(NextPart(q))
    BY <2>1, <2>5
  <2>2. QED
    BY <1>1, <1>2, <2>3, <2>6
<1>3. CASE q.part # LastPart(q.action)
  <2>1. NextPart(q) = Run(q.action, "part", q.part + 1, FALSE)
    BY <1>3 DEF NextPart
  <2>2. q.part + 1 \in 1 .. LastPart(q.action)
    BY <1>1, <1>3
  <2>4. /\ NextPart(q).at = "part" /\ NextPart(q).action = q.action
        /\ NextPart(q).part = q.part + 1
    BY <2>1 DEF Run
  <2>5. Job(Run(q.action, "part", q.part + 1, FALSE))
    BY <1>1, <2>2, RunIsJob
  <2>6. Job(NextPart(q))
    BY <2>1, <2>5
  <2>3. QED
    BY <1>1, <1>3, <2>4, <2>6
<1>4. QED
  BY <1>2, <1>3

-----------------------------------------------------------------------------
(* An action of which no step is taken keeps its invariant.                *)
LEMMA ActionStays ==
  ASSUME NEW a, ActionInv(a), made'[a] = made[a], cuts'[a] = cuts[a],
         status'[a] = status[a],
         \A u \in Clients : Working(u, a)' <=> Working(u, a),
         \A u \in Clients : Working(u, a) => confirm'[u] = confirm[u]
  PROVE  ActionInv(a)'
<1>1. \A p : Uncut(a, p)' <=> Uncut(a, p)
  BY DEF Uncut, PastPart
<1>2. QED
  BY <1>1 DEF ActionInv

(* What is counted of an action.                                           *)
LEMMA CountsOfAction ==
  ASSUME ActionsInv, NEW a \in Actions
  PROVE  /\ \A p \in 1 .. LastPart(a) : made[a][p] \in Nat
         /\ cuts[a] \in Nat
<1>1. made[a] \in [1 .. LastPart(a) -> Nat]
  BY DEF ActionsInv, ActionsTypeOK
<1>2. cuts[a] \in 0 .. MaxCuts
  BY DEF ActionsInv, ActionsTypeOK
<1>3. \A p \in 1 .. LastPart(a) : made[a][p] \in Nat
  BY <1>1
<1>4. cuts[a] \in Nat
  BY <1>2, CutsAssumption
<1>5. QED
  BY <1>3, <1>4

(* The types of a step of one thread.                                      *)
LEMMA ThreadMoves ==
  ASSUME ActionsInv, NEW t \in Clients, NEW q, Job(q),
         confirm' = [confirm EXCEPT ![t] = q]
  PROVE  /\ DOMAIN confirm' = Clients /\ confirm'[t] = q
         /\ \A u \in Clients : u # t => confirm'[u] = confirm[u]
         /\ \A u \in Clients : Job(confirm'[u])
<1>1. \A u \in Clients : Job(confirm[u])
  BY DEF ActionsInv, ActionsTypeOK, Job
<1>2. DOMAIN confirm' = Clients /\ confirm'[t] = q
      /\ \A u \in Clients : u # t => confirm'[u] = confirm[u]
  BY DEF ActionsInv
<1>3. QED
  BY <1>1, <1>2

(* A step of thread t on action a leaves the other actions alone.          *)
LEMMA OthersStay ==
  ASSUME ActionsInv, NEW t \in Clients, NEW q, Job(q), NEW a,
         confirm' = [confirm EXCEPT ![t] = q],
         confirm[t].at # "idle" => confirm[t].action = a,
         q.at # "idle" => q.action = a,
         NEW b \in Actions \ overlapped, b # a,
         made'[b] = made[b], cuts'[b] = cuts[b], status'[b] = status[b]
  PROVE  ActionInv(b)'
<1>1. /\ confirm'[t] = q /\ \A u \in Clients : u # t => confirm'[u] = confirm[u]
  BY ThreadMoves
<1>2. \A u \in Clients : Working(u, b)' <=> Working(u, b)
  BY <1>1 DEF Working
<1>3. \A u \in Clients : Working(u, b) => confirm'[u] = confirm[u]
  BY <1>1 DEF Working
<1>4. ActionInv(b)
  BY DEF ActionsInv
<1>5. QED
  BY <1>2, <1>3, <1>4, ActionStays

(* The first part of every action is where a confirmation begins.          *)
LEMMA FirstRunIsJob ==
  ASSUME NEW a \in Actions
  PROVE  /\ Job(Run(a, "part", 1, FALSE))
         /\ Run(a, "part", 1, FALSE).at = "part"
         /\ Run(a, "part", 1, FALSE).action = a
         /\ Run(a, "part", 1, FALSE).part = 1
<1>1. 1 \in 1 .. LastPart(a)
  BY PartsShape
<1>2. Job(Run(a, "part", 1, FALSE))
  BY <1>1, RunIsJob
<1>3. QED
  BY <1>2 DEF Run

(* A confirmation begins.                                                  *)
LEMMA ConfirmPreserves ==
  ASSUME ActionsInv, NEW t \in Clients, NEW a \in Actions, Confirm(t, a)
  PROVE  ActionsInv'
<1> DEFINE q == Run(a, "part", 1, FALSE)
<1>1. /\ Job(q) /\ q.at = "part" /\ q.action = a /\ q.part = 1
  BY FirstRunIsJob
<1>2. /\ confirm' = [confirm EXCEPT ![t] = q] /\ confirm[t].at = "idle"
      /\ status[a] = "pending" /\ UNCHANGED <<status, made, cuts>>
      /\ overlapped \subseteq overlapped' /\ overlapped' \subseteq Actions
      /\ a \notin overlapped' => \A u \in Clients : confirm[u].action # a
  BY DEF Confirm, ActionsInv, ActionsTypeOK
<1> HIDE DEF q
<1>3. /\ DOMAIN confirm' = Clients /\ confirm'[t] = q
      /\ \A u \in Clients : u # t => confirm'[u] = confirm[u]
      /\ \A u \in Clients : Job(confirm'[u])
  BY <1>1, <1>2, ThreadMoves
<1>4. ASSUME NEW b \in Actions \ overlapped', b # a PROVE ActionInv(b)'
  BY <1>1, <1>2, <1>4, OthersStay
<1>5. ASSUME a \notin overlapped' PROVE ActionInv(a)'
  <2>1. ActionInv(a) /\ \A u \in Clients : ~ Working(u, a)
    BY <1>2, <1>5 DEF ActionsInv, Working
  <2>2. \A u \in Clients : Working(u, a)' => u = t
    BY <1>2, <1>3, <1>5 DEF Working
  <2>3. \A p : ~ Uncut(a, p)
    BY <1>2, <2>1 DEF Uncut
  <2>4. \A p \in 1 .. LastPart(a) :
          IF PartsOf(a)[p] = "row"
          THEN made'[a][p] <= cuts'[a] + (IF Uncut(a, p)' THEN 1 ELSE 0)
          ELSE made'[a][p] <= 1
    <3>1. \A p \in 1 .. LastPart(a) : made[a][p] \in Nat /\ cuts[a] \in Nat
      BY CountsOfAction
    <3>2. \A p \in 1 .. LastPart(a) :
            IF PartsOf(a)[p] = "row" THEN made[a][p] <= cuts[a] ELSE made[a][p] <= 1
      BY <2>1, <2>3, <3>1 DEF ActionInv
    <3>3. QED
      BY <1>2, <3>1, <3>2
  <2>5. QED
    BY <1>1, <1>2, <1>3, <2>2, <2>4 DEF ActionInv
<1>6. ActionsTypeOK'
  BY <1>2, <1>3 DEF ActionsInv, ActionsTypeOK, Job
<1>7. QED
  BY <1>2, <1>3, <1>4, <1>5, <1>6 DEF ActionsInv

(* A part commits, and the confirmation goes on: what it may leave is what *)
(* one run of it leaves.                                                   *)
LEMMA PartPreserves ==
  ASSUME ActionsInv, NEW t \in Clients, NEW n \in Nat, Leaves(t, n),
         confirm[t].at \in {"part", "item"},
         confirm[t].action \notin overlapped =>
           IF PartsOf(confirm[t].action)[confirm[t].part] = "row"
           THEN n <= RowsNow(t) + 1 ELSE n <= 1
  PROVE  ActionsInv'
<1>1. PICK a, k, q : a = confirm[t].action /\ k = confirm[t].part /\ q = NextPart(confirm[t])
  OBVIOUS
<1>2. /\ Job(confirm[t]) /\ confirm[t].at # "idle"
  BY DEF ActionsInv, ActionsTypeOK, Job
<1>3. /\ a \in Actions /\ k \in 1 .. LastPart(a) /\ k \in Nat /\ LastPart(a) \in Nat
  BY <1>1, <1>2, JobFields, PartsShape
<1>4. /\ Job(q) /\ q.action = a /\ q.at \in {"part", "mark"}
      /\ q.at = "mark" \/ q.part > k
      /\ \A p \in Nat : k > p => q.part > p
      /\ \A p \in 1 .. LastPart(a) : q.at = "mark" \/ q.part > p => p <= k
  BY <1>1, <1>2, NextPartGoesOn
<1>5. /\ confirm' = [confirm EXCEPT ![t] = q] /\ UNCHANGED <<status, overlapped, cuts>>
      /\ made' = [made EXCEPT ![a] = [made[a] EXCEPT ![k] = n]]
  BY <1>1 DEF Leaves, Done
<1>6. /\ DOMAIN confirm' = Clients /\ confirm'[t] = q
      /\ \A u \in Clients : u # t => confirm'[u] = confirm[u]
      /\ \A u \in Clients : Job(confirm'[u])
  BY <1>4, <1>5, ThreadMoves
<1>7. \A b \in Actions : made[b] \in [1 .. LastPart(b) -> Nat]
  BY DEF ActionsInv, ActionsTypeOK
<1>8. /\ DOMAIN made' = Actions /\ \A b \in Actions : b # a => made'[b] = made[b]
      /\ made'[a] = [made[a] EXCEPT ![k] = n]
  BY <1>3, <1>5 DEF ActionsInv
<1>9. /\ made'[a] \in [1 .. LastPart(a) -> Nat] /\ made'[a][k] = n
      /\ \A p \in 1 .. LastPart(a) : p # k => made'[a][p] = made[a][p]
  BY <1>3, <1>7, <1>8
<1>10. ActionsTypeOK'
  <2>1. \A b \in Actions : made'[b] \in [1 .. LastPart(b) -> Nat]
    BY <1>7, <1>8, <1>9
  <2>2. \A u \in Clients : Job(confirm'[u])
    BY <1>6
  <2>3. QED
    BY <1>5, <2>1, <2>2 DEF ActionsInv, ActionsTypeOK, Job
<1>11. ASSUME NEW b \in Actions \ overlapped, b # a PROVE ActionInv(b)'
  <2>1. made'[b] = made[b] /\ cuts'[b] = cuts[b] /\ status'[b] = status[b]
    BY <1>5, <1>8, <1>11
  <2>2. Job(q) /\ q.action = a /\ confirm[t].action = a
    BY <1>1, <1>4
  <2>3. QED
    BY <1>5, <1>11, <2>1, <2>2, OthersStay
<1>12. ASSUME a \notin overlapped PROVE ActionInv(a)'
  <2>1. ActionInv(a) /\ Working(t, a)
    BY <1>1, <1>2, <1>3, <1>12 DEF ActionsInv, Working
  <2>2. \A u \in Clients : u # t => ~ Working(u, a)
    BY <2>1 DEF ActionInv
  <2>3. status[a] = "pending"
    BY <2>1 DEF ActionInv
  <2>4. \A u \in Clients : Working(u, a)' => u = t
    BY <1>6, <2>2 DEF Working
  <2>5. ASSUME NEW p \in 1 .. LastPart(a)
        PROVE  IF PartsOf(a)[p] = "row"
               THEN made'[a][p] <= cuts'[a] + (IF Uncut(a, p)' THEN 1 ELSE 0)
               ELSE made'[a][p] <= 1
    <3>1. made[a][p] \in Nat /\ cuts[a] \in Nat /\ p \in Nat
      BY <1>3, CountsOfAction
    <3>2. IF PartsOf(a)[p] = "row"
          THEN made[a][p] <= cuts[a] + (IF Uncut(a, p) THEN 1 ELSE 0)
          ELSE made[a][p] <= 1
      BY <2>1 DEF ActionInv
    <3>3. CASE p = k
      <4>1. ~ Uncut(a, p)
        BY <1>1, <1>3, <2>2, <2>3, <3>3 DEF Uncut, PastPart
      <4>2. Uncut(a, p)'
        BY <1>4, <1>6, <3>3 DEF Uncut, PastPart, Working
      <4>3. IF PartsOf(a)[k] = "row" THEN n <= made[a][k] + 1 ELSE n <= 1
        BY <1>1, <1>12 DEF RowsNow
      <4>4. made'[a][p] = n /\ cuts' = cuts
        BY <1>5, <1>9, <3>3
      <4>5. QED
        BY <3>1, <3>2, <3>3, <4>1, <4>2, <4>3, <4>4
    <3>4. CASE p # k
      <4>1. Uncut(a, p) => Uncut(a, p)'
        <5> SUFFICES ASSUME Uncut(a, p) PROVE Uncut(a, p)'
          OBVIOUS
        <5>1. k > p
          BY <1>1, <2>2, <2>3 DEF Uncut, PastPart
        <5>2. q.part > p /\ Working(t, a)'
          BY <1>4, <1>6, <3>1, <5>1 DEF Working
        <5>3. QED
          BY <1>6, <5>2 DEF Uncut, PastPart
      <4>2. made'[a][p] = made[a][p] /\ cuts' = cuts
        BY <1>5, <1>9, <3>4
      <4>3. QED
        BY <3>1, <3>2, <4>1, <4>2
    <3>5. QED
      BY <3>3, <3>4
  <2>6. confirm'[t].at # "item"
    BY <1>4, <1>6
  <2>7. QED
    BY <1>5, <2>3, <2>4, <2>5, <2>6 DEF ActionInv
<1>13. QED
  BY <1>5, <1>6, <1>8, <1>10, <1>11, <1>12 DEF ActionsInv

(* create_stock_memory looks its item up.                                  *)
LEMMA LookItemPreserves ==
  ASSUME ActionsInv, NEW t \in Clients, LookItem(t)
  PROVE  ActionsInv'
<1> DEFINE found == RowsNow(t) > 0
<1>1. PICK a, k : a = confirm[t].action /\ k = confirm[t].part
  OBVIOUS
<1> DEFINE q == Run(a, "item", k, found)
<1>2. /\ Job(confirm[t]) /\ confirm[t].at = "part" /\ PartsOf(a)[k] = "keyed"
      /\ UNCHANGED <<status, made, overlapped, cuts>>
      /\ confirm' = [confirm EXCEPT ![t] = q]
  <2>1. Job(confirm[t])
    BY DEF ActionsInv, ActionsTypeOK, Job
  <2>2. confirm' = [confirm EXCEPT ![t] = q]
    BY <1>1 DEF LookItem
  <2>3. QED
    BY <1>1, <2>1, <2>2 DEF LookItem, PartIs
<1>11. found \in BOOLEAN /\ (found <=> made[a][k] > 0)
  BY <1>1 DEF RowsNow
<1> HIDE DEF found
<1>3. a \in Actions /\ k \in 1 .. LastPart(a) /\ k \in Nat
  BY <1>1, <1>2, JobFields
<1>4. q = Run(a, "item", k, found)
  OBVIOUS
<1> HIDE DEF q
<1>5. Job(q) /\ q.at = "item" /\ q.action = a /\ q.part = k /\ q.found = found
  <2>1. \E b \in Actions : \E p \in 1 .. LastPart(b), f \in BOOLEAN :
          q \in {Run(b, at, p, f) : at \in {"part", "item", "mark"}}
    BY <1>3, <1>4, <1>11
  <2>2. QED
    BY <1>4, <2>1 DEF Job, Run
<1>6. /\ DOMAIN confirm' = Clients /\ confirm'[t] = q
      /\ \A u \in Clients : u # t => confirm'[u] = confirm[u]
      /\ \A u \in Clients : Job(confirm'[u])
  BY <1>2, <1>5, ThreadMoves
<1>7. ActionsTypeOK'
  BY <1>2, <1>6 DEF ActionsInv, ActionsTypeOK, Job
<1>8. ASSUME NEW b \in Actions \ overlapped, b # a PROVE ActionInv(b)'
  BY <1>1, <1>2, <1>5, <1>8, OthersStay
<1>9. ASSUME a \notin overlapped PROVE ActionInv(a)'
  <2>1. ActionInv(a) /\ Working(t, a)
    BY <1>1, <1>2, <1>3, <1>9 DEF ActionsInv, Working
  <2>2. \A u \in Clients : u # t => ~ Working(u, a)
    BY <2>1 DEF ActionInv
  <2>3. \A u \in Clients : Working(u, a)' => u = t
    BY <1>6, <2>2 DEF Working
  <2>4. \A p : Uncut(a, p)' <=> Uncut(a, p)
    <3>1. \A u \in Clients : Working(u, a)' <=> Working(u, a)
      BY <1>1, <1>2, <1>5, <1>6 DEF Working
    <3>2. \A u \in Clients : \A p : PastPart(u, p)' <=> PastPart(u, p)
      BY <1>1, <1>2, <1>5, <1>6 DEF PastPart
    <3>3. QED
      BY <1>2, <3>1, <3>2 DEF Uncut
  <2>5. found <=> made[a][k] > 0
    BY <1>11
  <2>6. status[a] = "pending"
    BY <2>1 DEF ActionInv
  <2>7. QED
    BY <1>2, <1>5, <1>6, <2>1, <2>3, <2>4, <2>5, <2>6 DEF ActionInv
<1>10. QED
  BY <1>2, <1>6, <1>7, <1>8, <1>9 DEF ActionsInv

(* The row of a position is written.                                       *)
LEMMA InsertRowPreserves ==
  ASSUME ActionsInv, NEW t \in Clients, InsertRow(t)
  PROVE  ActionsInv'
<1>1. confirm[t].at = "part" /\ Job(confirm[t])
  BY DEF InsertRow, PartIs, ActionsInv, ActionsTypeOK, Job
<1>2. RowsNow(t) \in Nat
  BY <1>1, JobFields, CountsOfAction DEF RowsNow
<1>3. PICK n \in Nat : n = RowsNow(t) + 1
  BY <1>2
<1>4. Leaves(t, n)
  BY <1>3 DEF InsertRow
<1>5. PartsOf(confirm[t].action)[confirm[t].part] = "row"
  BY DEF InsertRow, PartIs
<1>6. n <= RowsNow(t) + 1
  BY <1>2, <1>3
<1>7. QED
  BY <1>1, <1>4, <1>5, <1>6, PartPreserves

(* A flag is set, or an upsert is done.                                    *)
LEMMA OneRowPreserves ==
  ASSUME ActionsInv, NEW t \in Clients, SetFlag(t) \/ Upsert(t)
  PROVE  ActionsInv'
<1>1. /\ confirm[t].at = "part" /\ Leaves(t, 1)
      /\ PartsOf(confirm[t].action)[confirm[t].part] # "row"
  BY DEF SetFlag, Upsert, PartIs
<1>2. QED
  BY <1>1, PartPreserves

(* The item is updated when it was found, inserted when it was not.        *)
LEMMA WriteItemPreserves ==
  ASSUME ActionsInv, NEW t \in Clients, WriteItem(t)
  PROVE  ActionsInv'
<1>1. confirm[t].at = "item" /\ Job(confirm[t])
  BY DEF WriteItem, ActionsInv, ActionsTypeOK, Job
<1>2. RowsNow(t) \in Nat /\ confirm[t].action \in Actions
  BY <1>1, JobFields, CountsOfAction DEF RowsNow
<1>3. PICK n \in Nat : n = IF confirm[t].found THEN RowsNow(t) ELSE RowsNow(t) + 1
  BY <1>2
<1>4. Leaves(t, n)
  BY <1>3 DEF WriteItem
<1>5. ASSUME confirm[t].action \notin overlapped
      PROVE  PartsOf(confirm[t].action)[confirm[t].part] # "row" /\ n <= 1
  <2>1. PICK a, k : a = confirm[t].action /\ k = confirm[t].part
    OBVIOUS
  <2>2. ActionInv(a) /\ Working(t, a)
    BY <1>1, <1>2, <1>5, <2>1 DEF ActionsInv, Working
  <2>3. (confirm[t].found <=> made[a][k] > 0) /\ PartsOf(a)[k] = "keyed"
    BY <1>1, <2>1, <2>2 DEF ActionInv
  <2>4. k \in 1 .. LastPart(a)
    BY <1>1, <2>1, JobFields
  <2>5. made[a][k] <= 1
    BY <2>2, <2>3, <2>4 DEF ActionInv
  <2>6. QED
    BY <1>2, <1>3, <2>1, <2>3, <2>5 DEF RowsNow
<1>6. QED
  BY <1>1, <1>4, <1>5, PartPreserves

-----------------------------------------------------------------------------
(* The chat commits a row.                                                 *)
LEMMA ProposePreserves ==
  ASSUME ActionsInv, NEW a \in Actions, Propose(a)
  PROVE  ActionsInv'
<1>1. /\ status[a] = "absent" /\ UNCHANGED <<made, confirm, overlapped, cuts>>
      /\ status' = [status EXCEPT ![a] = "pending"]
  BY DEF Propose
<1>2. status' \in [Actions -> {"absent", "pending", "executed"}]
  BY <1>1 DEF ActionsInv, ActionsTypeOK
<1>3. ASSUME NEW b \in Actions \ overlapped PROVE ActionInv(b)'
  <2>1. ActionInv(b)
    BY DEF ActionsInv
  <2>2. \A u \in Clients : Working(u, b)' <=> Working(u, b)
    BY <1>1 DEF Working
  <2>3. CASE b # a
    <3>1. status'[b] = status[b] /\ made'[b] = made[b] /\ cuts'[b] = cuts[b]
      BY <1>1, <2>3
    <3>2. \A u \in Clients : Working(u, b) => confirm'[u] = confirm[u]
      BY <1>1
    <3>3. QED
      BY <2>1, <2>2, <3>1, <3>2, ActionStays
  <2>4. CASE b = a
    <3>1. status'[a] = "pending"
      BY <1>1 DEF ActionsInv, ActionsTypeOK
    <3>2. \A u \in Clients : ~ Working(u, a)
      BY <1>1, <2>1, <2>4 DEF ActionInv
    <3>3. \A p : ~ Uncut(a, p) /\ ~ Uncut(a, p)'
      BY <1>1, <2>2, <2>4, <3>1, <3>2 DEF Uncut
    <3>4. \A p : Uncut(a, p) <=> Uncut(a, p)'
      BY <3>3
    <3>5. \A u \in Clients : ~ Working(u, a)'
      BY <2>2, <2>4, <3>2
    <3>6. QED
      BY <1>1, <2>1, <2>4, <3>4, <3>5 DEF ActionInv
  <2>5. QED
    BY <2>3, <2>4
<1>4. QED
  BY <1>1, <1>2, <1>3 DEF ActionsInv, ActionsTypeOK

(* The status is written, or the confirmation is cut off: the thread is    *)
(* idle again, and each run of a part is accounted for.                    *)
LEMMA EndPreserves ==
  ASSUME ActionsInv, NEW t \in Clients, MarkExecuted(t) \/ CutOff(t)
  PROVE  ActionsInv'
<1>1. PICK a : a = confirm[t].action
  OBVIOUS
<1>2. /\ Job(confirm[t]) /\ confirm[t].at # "idle"
      /\ confirm' = [confirm EXCEPT ![t] = NoAction]
      /\ UNCHANGED <<made, overlapped>>
  BY DEF MarkExecuted, CutOff, ActionsInv, ActionsTypeOK, Job
<1>3. a \in Actions
  BY <1>1, <1>2, JobFields
<1>4. Job(NoAction) /\ NoAction.at = "idle"
  BY DEF Job, NoAction
<1>5. /\ DOMAIN confirm' = Clients /\ confirm'[t] = NoAction
      /\ \A u \in Clients : u # t => confirm'[u] = confirm[u]
      /\ \A u \in Clients : Job(confirm'[u])
  BY <1>2, <1>4, ThreadMoves
<1>6. /\ status' \in [Actions -> {"absent", "pending", "executed"}]
      /\ cuts' \in [Actions -> 0 .. MaxCuts]
      /\ \A b \in Actions : b # a => status'[b] = status[b] /\ cuts'[b] = cuts[b]
  <2>1. CASE MarkExecuted(t)
    BY <1>1, <1>3, <2>1 DEF MarkExecuted, ActionsInv, ActionsTypeOK
  <2>2. CASE CutOff(t)
    <3>1. cuts[a] \in 0 .. MaxCuts /\ cuts[a] < MaxCuts
      BY <1>1, <1>3, <2>2 DEF CutOff, ActionsInv, ActionsTypeOK
    <3>2. cuts[a] + 1 \in 0 .. MaxCuts
      BY <3>1, CutsAssumption
    <3>3. cuts' = [cuts EXCEPT ![a] = cuts[a] + 1] /\ status' = status
      BY <1>1, <2>2 DEF CutOff
    <3>4. QED
      BY <3>2, <3>3 DEF ActionsInv, ActionsTypeOK
  <2>3. QED
    BY <2>1, <2>2
<1>7. ASSUME NEW b \in Actions \ overlapped, b # a PROVE ActionInv(b)'
  <2>1. made'[b] = made[b] /\ cuts'[b] = cuts[b] /\ status'[b] = status[b]
    BY <1>2, <1>6, <1>7
  <2>2. NoAction.at # "idle" => NoAction.action = a
    BY <1>4
  <2>3. QED
    BY <1>1, <1>2, <1>4, <1>7, <2>1, <2>2, OthersStay
<1>8. ASSUME a \notin overlapped PROVE ActionInv(a)'
  <2>1. ActionInv(a) /\ Working(t, a)
    BY <1>1, <1>2, <1>3, <1>8 DEF ActionsInv, Working
  <2>2. \A u \in Clients : ~ Working(u, a)'
    <3>1. \A u \in Clients : u # t => ~ Working(u, a)
      BY <2>1 DEF ActionInv
    <3>2. QED
      BY <1>4, <1>5, <3>1 DEF Working
  <2>3. ASSUME NEW p \in 1 .. LastPart(a)
        PROVE  IF PartsOf(a)[p] = "row"
               THEN made'[a][p] <= cuts'[a] + (IF Uncut(a, p)' THEN 1 ELSE 0)
               ELSE made'[a][p] <= 1
    <3>1. made[a][p] \in Nat /\ cuts[a] \in Nat
      BY <1>3, CountsOfAction
    <3>2. IF PartsOf(a)[p] = "row"
          THEN made[a][p] <= cuts[a] + (IF Uncut(a, p) THEN 1 ELSE 0)
          ELSE made[a][p] <= 1
      BY <2>1 DEF ActionInv
    <3>3. CASE MarkExecuted(t)
      <4>1. status'[a] = "executed" /\ cuts' = cuts
        BY <1>1, <1>3, <3>3 DEF MarkExecuted, ActionsInv, ActionsTypeOK
      <4>2. Uncut(a, p)'
        BY <4>1 DEF Uncut
      <4>3. QED
        BY <1>2, <3>1, <3>2, <4>1, <4>2
    <3>4. CASE CutOff(t)
      <4>1. cuts'[a] = cuts[a] + 1
        BY <1>1, <1>3, <3>4 DEF CutOff, ActionsInv, ActionsTypeOK
      <4>2. made'[a][p] = made[a][p]
        BY <1>2
      <4>3. QED
        BY <3>1, <3>2, <4>1, <4>2
    <3>5. QED
      BY <3>3, <3>4
  <2>4. QED
    BY <2>2, <2>3 DEF ActionInv
<1>9. QED
  BY <1>2, <1>5, <1>6, <1>7, <1>8 DEF ActionsInv, ActionsTypeOK, Job

-----------------------------------------------------------------------------
(* At the start no action has been run.                                    *)
LEMMA ActionsInitInv == ActionsInit => ActionsInv
<1> SUFFICES ASSUME ActionsInit PROVE ActionsInv
  OBVIOUS
<1>1. /\ \A t \in Clients : confirm[t] = NoAction
      /\ DOMAIN confirm = Clients /\ DOMAIN made = Actions
  BY DEF ActionsInit
<1>6. NoAction.at = "idle"
  BY DEF NoAction
<1>2. \A t \in Clients : confirm[t].at = "idle"
  BY <1>1, <1>6
<1>3. ActionsTypeOK
  BY <1>1, CutsAssumption DEF ActionsInit, ActionsTypeOK
<1>4. ASSUME NEW a \in Actions PROVE ActionInv(a)
  <2>1. \A p \in 1 .. LastPart(a) : made[a][p] = 0 /\ cuts[a] = 0
    BY DEF ActionsInit
  <2>2. QED
    BY <1>2, <2>1 DEF ActionInv, Working
<1>5. QED
  BY <1>1, <1>3, <1>4 DEF ActionsInv

(* The invariant is kept by every step.                                    *)
LEMMA ActionsStep == ActionsInv /\ [ActionsNext]_ActionVars => ActionsInv'
<1> SUFFICES ASSUME ActionsInv, [ActionsNext]_ActionVars PROVE ActionsInv'
  OBVIOUS
<1>1. CASE UNCHANGED ActionVars
  BY <1>1 DEF ActionVars, ActionsInv, ActionsTypeOK, ActionInv, Working, Uncut, PastPart
<1>2. CASE ActionsNext
  <2>1. CASE \E a \in Actions : Propose(a)
    BY <2>1, ProposePreserves
  <2>2. CASE \E t \in Clients : \E a \in Actions : Confirm(t, a)
    BY <2>2, ConfirmPreserves
  <2>3. CASE \E t \in Clients : InsertRow(t)
    BY <2>3, InsertRowPreserves
  <2>4. CASE \E t \in Clients : SetFlag(t) \/ Upsert(t)
    BY <2>4, OneRowPreserves
  <2>5. CASE \E t \in Clients : LookItem(t)
    BY <2>5, LookItemPreserves
  <2>6. CASE \E t \in Clients : WriteItem(t)
    BY <2>6, WriteItemPreserves
  <2>7. CASE \E t \in Clients : MarkExecuted(t) \/ CutOff(t)
    BY <2>7, EndPreserves
  <2>8. QED
    BY <1>2, <2>1, <2>2, <2>3, <2>4, <2>5, <2>6, <2>7 DEF ActionsNext
<1>3. QED
  BY <1>1, <1>2

(* However often a confirmation is cut off and repeated, a part with a key *)
(* leaves one row, and the row of a position is there at most once more    *)
(* than the cuts: for any clients, actions and bound on the cuts.          *)
THEOREM RetriesLeaveOneRowHolds == ActionsSpec => []RetriesLeaveOneRow
<1>1. ActionsInv => RetriesLeaveOneRow
  <2> SUFFICES ASSUME ActionsInv, NEW a \in Actions \ overlapped,
                      NEW p \in 1 .. LastPart(a)
               PROVE  made[a][p] <= IF PartsOf(a)[p] = "row" THEN 1 + cuts[a] ELSE 1
    BY DEF RetriesLeaveOneRow
  <2>1. made[a][p] \in Nat /\ cuts[a] \in Nat
    BY CountsOfAction
  <2>2. ActionInv(a)
    BY DEF ActionsInv
  <2>3. QED
    BY <2>1, <2>2 DEF ActionInv
<1>2. QED
  BY <1>1, ActionsInitInv, ActionsStep, PTL DEF ActionsSpec

-----------------------------------------------------------------------------
(***************************************************************************)
(* DailyMemory: the memories of a stock, for any days and however the      *)
(* daily job dies and requests overlap it.                                 *)
(***************************************************************************)
\* What the job still has to look at.
Entries == [id : Nat, evidence : Evidence]
DailyRecord ==
  [at : {"idle", "read", "expire", "judge", "lesson"}, doomed : SUBSET Keys,
   todo : SUBSET Entries, loss : BOOLEAN]

\* The lesson of judgment j was written, or is in hand, or the job died at it.
Told(j) == j \in cutAt \/ \E l \in Ids : items[l].kind = "lesson" /\ items[l].by = j
Taught(j) == (daily.at = "lesson" /\ Current = j /\ daily.loss) \/ Told(j)

OutcomeInv(o) ==
  /\ items[o].by \in Ids /\ items[items[o].by].kind = "judgment"
  /\ items[items[o].by].by \in Days /\ market[items[items[o].by].by] # "young"
  /\ items[o].evidence = "entry" /\ market[items[items[o].by].by] = "loss" =>
       Taught(items[o].by)

LessonInv ==
  /\ items \in Seq(Item)
  /\ daily \in DailyRecord
  /\ market \in [Days -> {"young", "gain", "loss"}]
  /\ post # NoPost => post.day \in Days
  /\ post.found # 0 =>
       post.found \in Ids /\ items[post.found].kind = "judgment"
       /\ items[post.found].by = post.day
  /\ \A r \in daily.todo : r.id \in Ids /\ items[r.id].kind = "judgment"
  /\ daily.at = "lesson" => daily.todo # {}
  /\ \A o \in Ids : items[o].kind = "outcome" => OutcomeInv(o)

-----------------------------------------------------------------------------
(* The judgment that the job is at is one of those it has read.            *)
LEMMA ForemostIsRead ==
  ASSUME daily \in DailyRecord, daily.todo # {}
  PROVE  Foremost \in daily.todo /\ Foremost \in Entries
<1> DEFINE ids == {j.id : j \in daily.todo}
           R == {ss \in Nat \X Nat : ss[1] < ss[2]}
<1>1. daily.todo \subseteq Entries
  BY DEF DailyRecord
<1>2. ids # {} /\ ids \subseteq Nat
  BY <1>1 DEF Entries
<1>3. IsWellFoundedOn(R, Nat)
  BY NatLessThanWellFounded, Zenon DEF OpToRel
<1>4. PICK x \in ids : \A y \in ids : ~ (<<y, x>> \in R)
  <2> HIDE DEF R, ids
  <2>1. QED
    BY <1>2, <1>3, WFMin
<1>5. ASSUME NEW y \in ids PROVE x <= y
  <2>1. x \in Nat /\ y \in Nat /\ ~ (<<y, x>> \in R)
    BY <1>2, <1>4
  <2>2. QED
    BY <2>1
<1>6. \E j \in daily.todo : \A k \in daily.todo : j.id <= k.id
  <2>1. PICK j \in daily.todo : j.id = x
    OBVIOUS
  <2>2. \A k \in daily.todo : k.id \in ids
    OBVIOUS
  <2>3. QED
    BY <1>5, <2>1, <2>2
<1>7. Foremost \in daily.todo
  BY <1>6 DEF Foremost
<1>8. QED
  BY <1>1, <1>7

(* The rows of the table.                                                  *)
LEMMA ItemsOf ==
  ASSUME LessonInv
  PROVE  /\ Len(items) \in Nat /\ Ids = 1 .. Len(items)
         /\ \A i \in Ids : items[i] \in Item
BY LenProperties, ElementOfSeq DEF LessonInv, Ids

(* What a row that is appended leaves.                                     *)
LEMMA AppendKeeps ==
  ASSUME LessonInv, NEW r \in Item, items' = Append(items, r)
  PROVE  /\ items' \in Seq(Item) /\ Ids' = Ids \cup {Len(items) + 1}
         /\ Len(items) + 1 \notin Ids
         /\ \A i \in Ids : items'[i] = items[i]
         /\ items'[Len(items) + 1] = r
<1>1. items \in Seq(Item) /\ Len(items) \in Nat /\ Ids = 1 .. Len(items)
  BY ItemsOf DEF LessonInv
<1>2. /\ items' \in Seq(Item) /\ Len(items') = Len(items) + 1
      /\ \A i \in 1 .. Len(items) : items'[i] = items[i]
      /\ items'[Len(items) + 1] = r
  BY <1>1, AppendProperties
<1>3. Ids' = 1 .. Len(items')
  BY <1>2, LenProperties DEF Ids
<1>4. QED
  BY <1>1, <1>2, <1>3

(* What a row that is changed in place leaves.                             *)
LEMMA UpdateKeeps ==
  ASSUME LessonInv, NEW i \in Ids, NEW r \in Item, items' = [items EXCEPT ![i] = r]
  PROVE  /\ items' \in Seq(Item) /\ Ids' = Ids /\ items'[i] = r
         /\ \A j \in Ids : j # i => items'[j] = items[j]
<1>1. items \in Seq(Item) /\ Len(items) \in Nat /\ Ids = 1 .. Len(items)
  BY ItemsOf DEF LessonInv
<1>2. /\ items' \in Seq(Item) /\ Len(items') = Len(items)
      /\ \A j \in 1 .. Len(items) : items'[j] = IF j = i THEN r ELSE items[j]
  BY <1>1, ExceptSeq
<1>3. Ids' = 1 .. Len(items')
  BY <1>2, LenProperties DEF Ids
<1>4. QED
  BY <1>1, <1>2, <1>3

\* The rows that were there keep what they say of judgments, and outcomes
\* keep their evidence.
RowsKept ==
  /\ Ids \subseteq Ids'
  /\ \A i \in Ids :
       /\ items'[i].kind = items[i].kind /\ items'[i].by = items[i].by
       /\ items[i].kind # "judgment" => items'[i].evidence = items[i].evidence

(* An outcome stays accounted for while rows are kept, returns that are    *)
(* known do not change, and a lesson that is in hand is written or lost    *)
(* with the job.                                                           *)
LEMMA OutcomeStays ==
  ASSUME LessonInv, RowsKept, cutAt \subseteq cutAt',
         \A d \in Days : market[d] # "young" => market'[d] = market[d],
         NEW o \in Ids, items[o].kind = "outcome",
         \A j : daily.at = "lesson" /\ Current = j /\ daily.loss => Taught(j)'
  PROVE  OutcomeInv(o)'
<1>1. OutcomeInv(o)
  BY DEF LessonInv
<1>2. PICK j : j = items[o].by
  OBVIOUS
<1>3. /\ j \in Ids /\ items[j].kind = "judgment" /\ items[j].by \in Days
      /\ market[items[j].by] # "young"
  BY <1>1, <1>2 DEF OutcomeInv
<1>4. /\ items'[o].by = j /\ items'[o].evidence = items[o].evidence
      /\ j \in Ids' /\ items'[j].kind = "judgment" /\ items'[j].by = items[j].by
  BY <1>2, <1>3 DEF RowsKept
<1>5. market'[items[j].by] = market[items[j].by]
  BY <1>3
<1>6. Told(j) => Told(j)'
  BY DEF Told, RowsKept
<1>7. Taught(j) => Taught(j)'
  BY <1>6 DEF Taught
<1>8. QED
  BY <1>1, <1>2, <1>3, <1>4, <1>5, <1>7 DEF OutcomeInv

(* A step that leaves the job, the market and what it read as they are,    *)
(* and keeps the rows.                                                     *)
LEMMA RowsStep ==
  ASSUME LessonInv, RowsKept, UNCHANGED <<market, daily>>, cutAt' = cutAt,
         items' \in Seq(Item),
         post' # NoPost => post'.day \in Days,
         post'.found # 0 =>
           post'.found \in Ids' /\ items'[post'.found].kind = "judgment"
           /\ items'[post'.found].by = post'.day,
         \A o \in Ids' \ Ids : items'[o].kind # "outcome"
  PROVE  LessonInv'
<1>1. \A j : daily.at = "lesson" /\ Current = j /\ daily.loss => Taught(j)'
  BY DEF Taught, Current, Foremost
<1>2. \A r \in daily'.todo : r.id \in Ids' /\ items'[r.id].kind = "judgment"
  BY DEF LessonInv, RowsKept
<1>3. ASSUME NEW o \in Ids', items'[o].kind = "outcome" PROVE OutcomeInv(o)'
  <2>1. o \in Ids /\ items[o].kind = "outcome"
    BY <1>3 DEF RowsKept
  <2>2. QED
    BY <1>1, <2>1, OutcomeStays
<1>4. QED
  BY <1>2, <1>3 DEF LessonInv

(* A step of the job that touches no row and drops no lesson.              *)
LEMMA JobStep ==
  ASSUME LessonInv, UNCHANGED <<items, market, post>>, cutAt \subseteq cutAt',
         NEW new \in DailyRecord, daily' = new,
         \A r \in new.todo : r.id \in Ids /\ items[r.id].kind = "judgment",
         new.at # "lesson",
         \A j : daily.at = "lesson" /\ Current = j /\ daily.loss => Told(j)'
  PROVE  LessonInv'
<1>1. RowsKept /\ Ids' = Ids
  BY DEF RowsKept, Ids
<1>2. \A j : daily.at = "lesson" /\ Current = j /\ daily.loss => Taught(j)'
  BY DEF Taught
<1>3. \A o \in Ids : items[o].kind = "outcome" => OutcomeInv(o)'
  BY <1>1, <1>2, OutcomeStays
<1>4. QED
  BY <1>1, <1>3 DEF LessonInv

-----------------------------------------------------------------------------
(* The tables are written by others.                                       *)
LEMMA OtherTablesPreserve ==
  ASSUME LessonInv,
         \/ UNCHANGED <<items, market, post, daily, cutAt>>
         \/ \E d \in Days : LookJudgment(d)
         \/ \E d \in Days : Ripen(d)
  PROVE  LessonInv'
<1>1. RowsKept /\ Ids' = Ids /\ items' = items /\ daily' = daily /\ cutAt' = cutAt
  BY DEF RowsKept, Ids, LookJudgment, Ripen
<1>2. CASE UNCHANGED <<items, market, post, daily, cutAt>>
  BY <1>1, <1>2, RowsStep DEF LessonInv
<1>3. CASE \E d \in Days : LookJudgment(d)
  <2>1. PICK d \in Days : LookJudgment(d)
    BY <1>3
  <2>2. PICK f : f = IdOf("judgment", d)
    OBVIOUS
  <2>3. post' = [day |-> d, found |-> f] /\ market' = market
    BY <2>1, <2>2 DEF LookJudgment
  <2>4. f # 0 => f \in Ids /\ items[f].kind = "judgment" /\ items[f].by = d
    BY <2>2 DEF IdOf, Has
  <2>5. QED
    BY <1>1, <2>3, <2>4, RowsStep DEF LessonInv
<1>4. CASE \E d \in Days : Ripen(d)
  <2>1. PICK d \in Days, m \in {"gain", "loss"} :
          market[d] = "young" /\ market' = [market EXCEPT ![d] = m] /\ post' = post
    BY <1>4 DEF Ripen
  <2>2. \A e \in Days : market[e] # "young" => market'[e] = market[e]
    BY <2>1 DEF LessonInv
  <2>3. market' \in [Days -> {"young", "gain", "loss"}]
    BY <2>1 DEF LessonInv
  <2>4. \A j : daily.at = "lesson" /\ Current = j /\ daily.loss => Taught(j)'
    BY <1>1 DEF Taught, Current, Foremost
  <2>5. \A o \in Ids : items[o].kind = "outcome" => OutcomeInv(o)'
    BY <1>1, <2>2, <2>4, OutcomeStays
  <2>6. QED
    BY <1>1, <2>1, <2>3, <2>5 DEF LessonInv
<1>5. QED
  BY <1>2, <1>3, <1>4

(* A row that is made has the fields it is made with.                      *)
LEMMA RowFields ==
  ASSUME NEW kind \in {"judgment", "outcome", "lesson"}, NEW by \in Nat,
         NEW e \in Evidence
  PROVE  /\ Row(kind, by, e) \in Item /\ Row(kind, by, e).kind = kind
         /\ Row(kind, by, e).by = by /\ Row(kind, by, e).evidence = e
BY DEF Row, Item

(* A row's status is set.                                                  *)
LEMMA StatusFields ==
  ASSUME NEW x \in Item, NEW s \in {"live", "archived", "deleted"}
  PROVE  LET y == [x EXCEPT !.status = s]
         IN  y \in Item /\ y.kind = x.kind /\ y.by = x.by /\ y.evidence = x.evidence
BY DEF Item

(* A row that is appended, and is no outcome, touches nothing else.        *)
LEMMA AppendStep ==
  ASSUME LessonInv, NEW r \in Item, items' = Append(items, r), r.kind # "outcome",
         UNCHANGED <<market, daily>>, cutAt' = cutAt, post' = post \/ post' = NoPost
  PROVE  LessonInv'
<1>1. /\ items' \in Seq(Item) /\ Ids' = Ids \cup {Len(items) + 1}
      /\ \A i \in Ids : items'[i] = items[i]
      /\ items'[Len(items) + 1] = r
  BY AppendKeeps
<1>2. RowsKept
  BY <1>1 DEF RowsKept
<1>3. \A o \in Ids' \ Ids : items'[o].kind # "outcome"
  BY <1>1
<1>4. /\ post' # NoPost => post'.day \in Days
      /\ post'.found # 0 =>
           post'.found \in Ids' /\ items'[post'.found].kind = "judgment"
           /\ items'[post'.found].by = post'.day
  <2>1. CASE post' = post
    BY <1>1, <2>1 DEF LessonInv
  <2>2. CASE post' = NoPost
    BY <2>2 DEF NoPost
  <2>3. QED
    BY <2>1, <2>2
<1>5. QED
  BY <1>1, <1>2, <1>3, <1>4, RowsStep

(* A judgment is written, or the status of a row is set.                   *)
LEMMA UpdateStep ==
  ASSUME LessonInv, NEW i \in Ids, NEW r \in Item, items' = [items EXCEPT ![i] = r],
         r.kind = items[i].kind, r.by = items[i].by,
         r.kind # "judgment" => r.evidence = items[i].evidence,
         UNCHANGED <<market, daily>>, cutAt' = cutAt, post' = post \/ post' = NoPost
  PROVE  LessonInv'
<1>1. /\ items' \in Seq(Item) /\ Ids' = Ids /\ items'[i] = r
      /\ \A j \in Ids : j # i => items'[j] = items[j]
  BY UpdateKeeps
<1>2. RowsKept
  BY <1>1 DEF RowsKept
<1>3. /\ post' # NoPost => post'.day \in Days
      /\ post'.found # 0 =>
           post'.found \in Ids' /\ items'[post'.found].kind = "judgment"
           /\ items'[post'.found].by = post'.day
  <2>1. CASE post' = post
    BY <1>1, <2>1 DEF LessonInv
  <2>2. CASE post' = NoPost
    BY <2>2 DEF NoPost
  <2>3. QED
    BY <2>1, <2>2
<1>4. QED
  BY <1>1, <1>2, <1>3, RowsStep

(* A judgment is written where it was found, or anew.                      *)
LEMMA WriteJudgmentPreserves ==
  ASSUME LessonInv, WriteJudgment
  PROVE  LessonInv'
<1>1. /\ post # NoPost /\ post' = NoPost /\ UNCHANGED <<market, daily>> /\ cutAt' = cutAt
  BY DEF WriteJudgment
<1>2. PICK e \in {"entry", "other"} :
        IF post.found = 0 THEN items' = Append(items, Row("judgment", post.day, e))
        ELSE items' = [items EXCEPT ![post.found] =
                         IF items[post.found].status = "deleted" THEN items[post.found]
                         ELSE Row("judgment", post.day, e)]
  BY DEF WriteJudgment
<1>3. PICK r : r = Row("judgment", post.day, e)
  OBVIOUS
<1>8. post.day \in Nat /\ e \in Evidence
  BY <1>1, DaysAssumption DEF LessonInv, Evidence
<1>4. r \in Item /\ r.kind = "judgment" /\ r.by = post.day
  BY <1>3, <1>8, RowFields
<1>5. CASE post.found = 0
  BY <1>1, <1>2, <1>3, <1>4, <1>5, AppendStep
<1>6. CASE post.found # 0
  <2>1. PICK i : i = post.found
    OBVIOUS
  <2>2. i \in Ids /\ items[i] \in Item /\ items[i].kind = "judgment" /\ items[i].by = post.day
    BY <1>6, <2>1, ItemsOf DEF LessonInv
  <2>3. PICK x : x = IF items[i].status = "deleted" THEN items[i] ELSE r
    OBVIOUS
  <2>4. items' = [items EXCEPT ![i] = x]
    BY <1>2, <1>3, <1>6, <2>1, <2>3
  <2>5. x \in Item /\ x.kind = "judgment" /\ x.by = items[i].by
    BY <1>4, <2>2, <2>3
  <2>6. QED
    BY <1>1, <2>2, <2>4, <2>5, UpdateStep
<1>7. QED
  BY <1>5, <1>6

(* A judgment without a date is written.                                   *)
LEMMA WriteUndatedPreserves ==
  ASSUME LessonInv, WriteUndated
  PROVE  LessonInv'
<1>1. PICK e \in {"other", "broken"} : items' = Append(items, Row("judgment", 0, e))
  BY DEF WriteUndated
<1>2. UNCHANGED <<market, daily>> /\ cutAt' = cutAt /\ post' = post
  BY DEF WriteUndated
<1>3. PICK r : r = Row("judgment", 0, e)
  OBVIOUS
<1>4. r \in Item /\ r.kind = "judgment"
  BY <1>3, RowFields DEF Evidence
<1>5. QED
  BY <1>1, <1>2, <1>3, <1>4, AppendStep

(* A row is archived or deleted.                                           *)
LEMMA StatusPreserves ==
  ASSUME LessonInv, NEW i \in Ids, Archive(i) \/ Delete(i)
  PROVE  LessonInv'
<1>1. PICK s \in {"archived", "deleted"} : SetStatus(i, s)
  BY DEF Archive, Delete
<1> DEFINE x == [items[i] EXCEPT !.status = s]
<1>2. /\ items' = [items EXCEPT ![i] = x]
      /\ UNCHANGED <<market, daily>> /\ cutAt' = cutAt /\ post' = post
  BY <1>1 DEF SetStatus
<1>3. /\ x \in Item /\ x.kind = items[i].kind /\ x.by = items[i].by
      /\ x.evidence = items[i].evidence
  BY <1>1, ItemsOf, StatusFields
<1> HIDE DEF x
<1>4. QED
  BY <1>2, <1>3, UpdateStep

-----------------------------------------------------------------------------
(* The record of the job as its steps change it.                           *)
LEMMA ReadFields ==
  ASSUME NEW x \in DailyRecord, NEW doomed \in SUBSET Keys
  PROVE  LET y == [x EXCEPT !.at = "expire", !.doomed = doomed]
         IN  y \in DailyRecord /\ y.at = "expire" /\ y.todo = x.todo /\ y.doomed = doomed
BY DEF DailyRecord

(* One memory less is to go.                                               *)
LEMMA DoomedFields ==
  ASSUME NEW x \in DailyRecord, NEW doomed \in SUBSET Keys
  PROVE  LET y == [x EXCEPT !.doomed = doomed]
         IN  y \in DailyRecord /\ y.at = x.at /\ y.todo = x.todo /\ y.doomed = doomed
BY DEF DailyRecord

(* The judgments are read.                                                 *)
LEMMA JudgeFields ==
  ASSUME NEW x \in DailyRecord, NEW todo \in SUBSET Entries
  PROVE  LET y == [x EXCEPT !.at = "judge", !.todo = todo]
         IN  y \in DailyRecord /\ y.at = "judge" /\ y.todo = todo
BY DEF DailyRecord

(* One judgment less is to be looked at.                                   *)
LEMMA PassFields ==
  ASSUME NEW x \in DailyRecord, NEW todo \in SUBSET Entries
  PROVE  LET y == [x EXCEPT !.todo = todo]
         IN  y \in DailyRecord /\ y.at = x.at /\ y.todo = todo
BY DEF DailyRecord

(* The lesson is next.                                                     *)
LEMMA OutcomeFields ==
  ASSUME NEW x \in DailyRecord, NEW b \in BOOLEAN
  PROVE  LET y == [x EXCEPT !.at = "lesson", !.loss = b]
         IN  y \in DailyRecord /\ y.at = "lesson" /\ y.todo = x.todo /\ y.loss = b
BY DEF DailyRecord

(* The next judgment is next.                                              *)
LEMMA LessonFields ==
  ASSUME NEW x \in DailyRecord, NEW todo \in SUBSET Entries
  PROVE  LET y == [x EXCEPT !.at = "judge", !.todo = todo, !.loss = FALSE]
         IN  y \in DailyRecord /\ y.at = "judge" /\ y.todo = todo
BY DEF DailyRecord

(* The job at rest, and at its start.                                      *)
LEMMA RestFields ==
  /\ Rest \in DailyRecord /\ Rest.at = "idle" /\ Rest.todo = {} /\ Rest.doomed = {}
  /\ [Rest EXCEPT !.at = "read"] \in DailyRecord
  /\ [Rest EXCEPT !.at = "read"].at = "read"
  /\ [Rest EXCEPT !.at = "read"].todo = {}
  /\ [Rest EXCEPT !.at = "read"].doomed = {}
BY DEF Rest, DailyRecord

(* The job starts.                                                         *)
LEMMA StartPreserves ==
  ASSUME LessonInv, StartDaily
  PROVE  LessonInv'
<1>1. PICK new : /\ daily' = new /\ new \in DailyRecord /\ new.at = "read" /\ new.todo = {}
  BY RestFields DEF StartDaily
<1>2. UNCHANGED <<items, market, post>> /\ cutAt' = cutAt /\ daily.at = "idle"
  BY DEF StartDaily
<1>3. QED
  BY <1>1, <1>2, JobStep

(* The memories are read.                                                  *)
LEMMA ReadMemoriesPreserves ==
  ASSUME LessonInv, ReadMemories
  PROVE  LessonInv'
<1> DEFINE y == [daily EXCEPT !.at = "expire", !.doomed = Stale]
<1>1. /\ daily' = y /\ daily.at = "read"
      /\ UNCHANGED <<items, market, post>> /\ cutAt' = cutAt
  BY DEF ReadMemories
<1>2. daily \in DailyRecord /\ Stale \in SUBSET Keys
  BY DEF LessonInv, Stale
<1>3. y \in DailyRecord /\ y.at = "expire" /\ y.todo = daily.todo
  BY <1>2, ReadFields
<1> HIDE DEF y
<1>4. \A r \in y.todo : r.id \in Ids /\ items[r.id].kind = "judgment"
  BY <1>3 DEF LessonInv
<1>5. QED
  BY <1>1, <1>3, <1>4, JobStep

(* A memory is deleted.                                                    *)
LEMMA ExpirePreserves ==
  ASSUME LessonInv, NEW k \in Keys, Expire(k)
  PROVE  LessonInv'
<1> DEFINE y == [daily EXCEPT !.doomed = daily.doomed \ {k}]
<1>1. /\ daily' = y /\ daily.at = "expire"
      /\ UNCHANGED <<items, market, post>> /\ cutAt' = cutAt
  BY DEF Expire
<1>2. daily \in DailyRecord /\ daily.doomed \ {k} \in SUBSET Keys
  BY DEF LessonInv, DailyRecord
<1>3. y \in DailyRecord /\ y.at = "expire" /\ y.todo = daily.todo
  BY <1>1, <1>2, DoomedFields
<1> HIDE DEF y
<1>4. \A r \in y.todo : r.id \in Ids /\ items[r.id].kind = "judgment"
  BY <1>3 DEF LessonInv
<1>5. QED
  BY <1>1, <1>3, <1>4, JobStep

(* The judgments are read, with their evidence.                            *)
LEMMA ReadJudgmentsPreserves ==
  ASSUME LessonInv, ReadJudgments
  PROVE  LessonInv'
<1>1. PICK t : t = {[id |-> i, evidence |-> items[i].evidence] : i \in Judgments}
  OBVIOUS
<1> DEFINE y == [daily EXCEPT !.at = "judge", !.todo = t]
<1>2. /\ daily' = y /\ daily.at = "expire"
      /\ UNCHANGED <<items, market, post>> /\ cutAt' = cutAt
  BY <1>1 DEF ReadJudgments
<1>3. \A r \in t : r \in Entries /\ r.id \in Ids /\ items[r.id].kind = "judgment"
  <2> SUFFICES ASSUME NEW i \in Judgments, NEW r,
                      r = [id |-> i, evidence |-> items[i].evidence]
               PROVE  r \in Entries /\ r.id \in Ids /\ items[r.id].kind = "judgment"
    BY <1>1
  <2>1. i \in Ids /\ items[i].kind = "judgment"
    BY DEF Judgments, IsJudgment
  <2>2. i \in Nat /\ items[i].evidence \in Evidence
    BY <2>1, ItemsOf DEF Item
  <2>3. r.id = i /\ r.evidence = items[i].evidence
    OBVIOUS
  <2>4. QED
    BY <2>1, <2>2, <2>3 DEF Entries
<1>4. y \in DailyRecord /\ y.at = "judge" /\ y.todo = t
  <2>1. daily \in DailyRecord /\ t \in SUBSET Entries
    BY <1>3 DEF LessonInv
  <2>2. QED
    BY <2>1, JudgeFields
<1> HIDE DEF y
<1>5. QED
  BY <1>2, <1>3, <1>4, JobStep

(* A judgment is passed.                                                   *)
LEMMA PassPreserves ==
  ASSUME LessonInv, Pass
  PROVE  LessonInv'
<1> DEFINE y == [daily EXCEPT !.todo = daily.todo \ {Foremost}]
<1>1. /\ daily' = y /\ daily.at = "judge"
      /\ UNCHANGED <<items, market, post>> /\ cutAt' = cutAt
  BY DEF Pass
<1>2. daily \in DailyRecord /\ daily.todo \ {Foremost} \in SUBSET Entries
  BY DEF LessonInv, DailyRecord
<1>3. y \in DailyRecord /\ y.at = "judge" /\ y.todo = daily.todo \ {Foremost}
  BY <1>1, <1>2, PassFields
<1> HIDE DEF y
<1>4. \A r \in y.todo : r.id \in Ids /\ items[r.id].kind = "judgment"
  BY <1>3 DEF LessonInv
<1>5. QED
  BY <1>1, <1>3, <1>4, JobStep

(* The job is done, raises or dies.                                        *)
LEMMA StopPreserves ==
  ASSUME LessonInv, EndDaily \/ RaiseAtBroken \/ Die
  PROVE  LessonInv'
<1>1. /\ daily' = Rest /\ UNCHANGED <<items, market, post>> /\ cutAt \subseteq cutAt'
      /\ daily.at = "lesson" => Current \in cutAt'
  BY DEF EndDaily, RaiseAtBroken, Die
<1>2. \A j : daily.at = "lesson" /\ Current = j /\ daily.loss => Told(j)'
  BY <1>1 DEF Told
<1>3. QED
  BY <1>1, <1>2, RestFields, JobStep

-----------------------------------------------------------------------------
(* The outcome of the judgment in hand is written: if it is a loss its     *)
(* lesson comes next.                                                      *)
LEMMA WriteOutcomePreserves ==
  ASSUME LessonInv, WriteOutcome
  PROVE  LessonInv'
<1>1. PICK j, e, n : j = Current /\ e = Recommended /\ n = Len(items) + 1
  OBVIOUS
<1> DEFINE b == IsLoss
<1> DEFINE y == [daily EXCEPT !.at = "lesson", !.loss = b]
<1>2. /\ daily' = y /\ daily.at = "judge" /\ daily.todo # {} /\ ~ Passes /\ e # "broken"
      /\ UNCHANGED <<market, post>> /\ cutAt' = cutAt
      /\ items' = Append(items, Row("outcome", j, e))
  BY <1>1 DEF WriteOutcome
<1>3. /\ Foremost \in daily.todo /\ Foremost \in Entries
  BY <1>2, ForemostIsRead DEF LessonInv
<1>4. /\ j \in Nat /\ e \in Evidence /\ j \in Ids /\ items[j].kind = "judgment"
  BY <1>1, <1>3 DEF Current, Recommended, Entries, LessonInv
<1>5. items[j].by \in Days /\ market[items[j].by] # "young"
  BY <1>1, <1>2 DEF Passes, IsRipe
<1>6. b \in BOOLEAN /\ (b <=> e = "entry" /\ market[items[j].by] = "loss")
  BY <1>1 DEF IsLoss
<1> HIDE DEF b
<1>7. y \in DailyRecord /\ y.at = "lesson" /\ y.todo = daily.todo /\ y.loss = b
  BY <1>6, OutcomeFields DEF LessonInv
<1> HIDE DEF y
<1>8. PICK r \in Item : /\ r = Row("outcome", j, e)
                        /\ r.kind = "outcome" /\ r.by = j /\ r.evidence = e
  BY <1>4, RowFields
<1>9. /\ items' \in Seq(Item) /\ Ids' = Ids \cup {n} /\ n \notin Ids
      /\ \A i \in Ids : items'[i] = items[i]
      /\ items'[n] = r
  BY <1>1, <1>2, <1>8, AppendKeeps
<1>10. RowsKept
  BY <1>9 DEF RowsKept
<1>11. Foremost' = Foremost
  BY <1>2, <1>7 DEF Foremost
<1>12. \A o \in Ids : items[o].kind = "outcome" => OutcomeInv(o)'
  BY <1>2, <1>10, OutcomeStays
<1>13. OutcomeInv(n)'
  <2>1. items'[n].by = j /\ items'[n].evidence = e /\ items'[j] = items[j] /\ j \in Ids'
    BY <1>4, <1>8, <1>9
  <2>2. e = "entry" /\ market[items[j].by] = "loss" => Taught(j)'
    BY <1>1, <1>2, <1>6, <1>7, <1>11 DEF Taught, Current
  <2>3. QED
    BY <1>2, <1>4, <1>5, <2>1, <2>2 DEF OutcomeInv
<1>14. \A r2 \in y.todo : r2.id \in Ids' /\ items'[r2.id].kind = "judgment"
  BY <1>7, <1>9 DEF LessonInv
<1>15. post' # NoPost => post'.day \in Days
  BY <1>2 DEF LessonInv
<1>16. post'.found # 0 => /\ post'.found \in Ids' /\ items'[post'.found].kind = "judgment"
                          /\ items'[post'.found].by = post'.day
  BY <1>2, <1>9 DEF LessonInv
<1>17. QED
  BY <1>2, <1>7, <1>9, <1>12, <1>13, <1>14, <1>15, <1>16 DEF LessonInv

(* The lesson of a loss is there, or is written.                           *)
LEMMA WriteLessonPreserves ==
  ASSUME LessonInv, WriteLesson
  PROVE  LessonInv'
<1>1. PICK j, n : j = Current /\ n = Len(items) + 1
  OBVIOUS
<1> DEFINE y == [daily EXCEPT !.at = "judge", !.todo = daily.todo \ {Foremost},
                              !.loss = FALSE]
<1>2. /\ daily' = y /\ daily.at = "lesson"
      /\ UNCHANGED <<market, post>> /\ cutAt' = cutAt
      /\ items' = IF daily.loss /\ ~ Has("lesson", j)
                  THEN Append(items, Row("lesson", j, "entry")) ELSE items
  BY <1>1 DEF WriteLesson
<1>3. daily \in DailyRecord /\ daily.todo \ {Foremost} \in SUBSET Entries
  BY DEF LessonInv, DailyRecord
<1>4. y \in DailyRecord /\ y.at = "judge" /\ y.todo = daily.todo \ {Foremost}
  BY <1>3, LessonFields
<1> HIDE DEF y
<1>5. j \in Nat
  BY <1>1, <1>2, ForemostIsRead DEF LessonInv, Current, Entries
<1>6. /\ items' \in Seq(Item) /\ Ids \subseteq Ids'
      /\ \A i \in Ids : items'[i] = items[i]
      /\ \A o \in Ids' \ Ids : items'[o].kind = "lesson"
      /\ daily.loss => \E l \in Ids' : items'[l].kind = "lesson" /\ items'[l].by = j
  <2>1. CASE daily.loss /\ ~ Has("lesson", j)
    <3>1. PICK r \in Item : r = Row("lesson", j, "entry") /\ r.kind = "lesson" /\ r.by = j
      BY <1>5, RowFields DEF Evidence
    <3>2. /\ items' \in Seq(Item) /\ Ids' = Ids \cup {n} /\ n \notin Ids
          /\ \A i \in Ids : items'[i] = items[i]
          /\ items'[n] = r
      BY <1>1, <1>2, <2>1, <3>1, AppendKeeps
    <3>3. QED
      BY <3>1, <3>2
  <2>2. CASE ~ (daily.loss /\ ~ Has("lesson", j))
    <3>1. items' = items /\ Ids' = Ids
      BY <1>2, <2>2 DEF Ids
    <3>2. QED
      BY <2>2, <3>1 DEF Has, LessonInv
  <2>3. QED
    BY <2>1, <2>2
<1>7. RowsKept
  BY <1>6 DEF RowsKept
<1>8. \A i : daily.at = "lesson" /\ Current = i /\ daily.loss => Taught(i)'
  BY <1>1, <1>6 DEF Taught, Told
<1>9. \A o \in Ids' : items'[o].kind = "outcome" => OutcomeInv(o)'
  BY <1>2, <1>6, <1>7, <1>8, OutcomeStays
<1>10. \A r \in y.todo : r.id \in Ids' /\ items'[r.id].kind = "judgment"
  BY <1>4, <1>6 DEF LessonInv
<1>11. post' # NoPost => post'.day \in Days
  BY <1>2 DEF LessonInv
<1>12. post'.found # 0 => /\ post'.found \in Ids' /\ items'[post'.found].kind = "judgment"
                          /\ items'[post'.found].by = post'.day
  BY <1>2, <1>6 DEF LessonInv
<1>13. QED
  BY <1>2, <1>4, <1>6, <1>9, <1>10, <1>11, <1>12 DEF LessonInv

-----------------------------------------------------------------------------
(* At the start there is no row.                                           *)
LEMMA LessonInit == DailyInit => LessonInv
<1> SUFFICES ASSUME DailyInit PROVE LessonInv
  OBVIOUS
<1>1. items = <<>> /\ post = NoPost /\ daily = Rest /\ market = [d \in Days |-> "young"]
  BY DEF DailyInit
<1>2. items \in Seq(Item) /\ Len(items) = 0 /\ Ids = 1 .. Len(items)
  BY <1>1, EmptySeq, LenProperties DEF Ids
<1>3. Ids = {}
  BY <1>2
<1>4. post.found = 0
  BY <1>1 DEF NoPost
<1>5. market \in [Days -> {"young", "gain", "loss"}]
  BY <1>1
<1>6. QED
  BY <1>1, <1>2, <1>3, <1>4, <1>5, RestFields DEF LessonInv

(* The invariant of the lessons is kept by every step.                     *)
LEMMA LessonStep == LessonInv /\ [DailyNext]_DailyVars => LessonInv'
<1> SUFFICES ASSUME LessonInv, [DailyNext]_DailyVars PROVE LessonInv'
  OBVIOUS
<1>1. CASE UNCHANGED DailyVars
  BY <1>1, OtherTablesPreserve DEF DailyVars
<1>2. CASE UseMemories
  BY <1>2, OtherTablesPreserve DEF UseMemories, Remember, Forget, Pin, RunOut, Writes
<1>3. CASE UseItems
  BY <1>3, OtherTablesPreserve, WriteJudgmentPreserves, WriteUndatedPreserves,
     StatusPreserves DEF UseItems
<1>4. CASE StartDaily \/ Die
  BY <1>4, StartPreserves, StopPreserves
<1>5. CASE RunDaily
  BY <1>5, ReadMemoriesPreserves, ExpirePreserves, ReadJudgmentsPreserves, PassPreserves,
     WriteOutcomePreserves, WriteLessonPreserves, StopPreserves DEF RunDaily
<1>6. QED
  BY <1>1, <1>2, <1>3, <1>4, <1>5 DEF DailyNext

(* Every loss of an entry has its lesson, is in hand, or is where the job  *)
(* died, for any days, number of rows and deaths.                          *)
THEOREM LossesLeaveLessons == DailySpec => []LossesLeaveALesson
<1>1. LessonInv => LossesLeaveALesson
  BY DEF LessonInv, OutcomeInv, LossesLeaveALesson, Taught, Told
<1>2. QED
  BY <1>1, LessonInit, LessonStep, PTL DEF DailySpec

-----------------------------------------------------------------------------
\* A memory that the job has read as stale is gone, still stale, or was
\* written since.
ExpiryInv ==
  /\ memory \in [Keys -> Memory]
  /\ daily.at = "expire" =>
       \A k \in daily.doomed : memory[k] \in {"stale", "none"} \/ k \in touched

(* The other steps of the job leave the deletions behind.                  *)
LEMMA LeavesExpiry ==
  ASSUME LessonInv,
         StartDaily \/ ReadJudgments \/ Pass \/ WriteOutcome \/ WriteLesson
           \/ EndDaily \/ RaiseAtBroken \/ Die
  PROVE  daily'.at # "expire" /\ memory' = memory
<1>1. daily \in DailyRecord
  BY DEF LessonInv
<1>2. CASE StartDaily \/ EndDaily \/ RaiseAtBroken \/ Die
  BY <1>2, RestFields DEF StartDaily, EndDaily, RaiseAtBroken, Die
<1>3. CASE ReadJudgments
  <2>1. PICK t : daily' = [daily EXCEPT !.at = "judge", !.todo = t]
    BY <1>3 DEF ReadJudgments
  <2>2. daily'.at = "judge"
    BY <1>1, <2>1, Zenon DEF DailyRecord
  <2>3. QED
    BY <1>3, <2>2 DEF ReadJudgments
<1>4. CASE Pass
  <2>1. PICK t : daily' = [daily EXCEPT !.todo = t] /\ daily.at = "judge"
    BY <1>4 DEF Pass
  <2>2. daily'.at = "judge"
    BY <1>1, <2>1, Zenon DEF DailyRecord
  <2>3. QED
    BY <1>4, <2>2 DEF Pass
<1>5. CASE WriteOutcome
  <2>1. PICK t : daily' = [daily EXCEPT !.at = "lesson", !.loss = t]
    BY <1>5 DEF WriteOutcome
  <2>2. daily'.at = "lesson"
    BY <1>1, <2>1, Zenon DEF DailyRecord
  <2>3. QED
    BY <1>5, <2>2 DEF WriteOutcome
<1>6. CASE WriteLesson
  <2>1. PICK t : daily' = [daily EXCEPT !.at = "judge", !.todo = t, !.loss = FALSE]
    BY <1>6 DEF WriteLesson
  <2>2. daily'.at = "judge"
    BY <1>1, <2>1, Zenon DEF DailyRecord
  <2>3. QED
    BY <1>6, <2>2 DEF WriteLesson
<1>7. QED
  BY <1>2, <1>3, <1>4, <1>5, <1>6

(* The invariant of the expiry is kept by every step.                      *)
LEMMA ExpiryStep ==
  LessonInv /\ ExpiryInv /\ [DailyNext]_DailyVars => ExpiryInv'
<1> SUFFICES ASSUME LessonInv, ExpiryInv, [DailyNext]_DailyVars PROVE ExpiryInv'
  OBVIOUS
<1>1. daily \in DailyRecord /\ memory \in [Keys -> Memory]
  BY DEF LessonInv, ExpiryInv
<1>2. CASE UNCHANGED DailyVars \/ UseItems
  BY <1>2 DEF DailyVars, ExpiryInv, UseItems, LookJudgment, Ripen, WriteJudgment,
     WriteUndated, Archive, Delete, SetStatus
<1>3. ASSUME NEW k \in Keys, NEW m \in {"fresh", "pinned", "none"}, Writes(k, m)
      PROVE  ExpiryInv'
  BY <1>3 DEF ExpiryInv, Writes, Memory
<1>4. ASSUME NEW k \in Keys, RunOut(k) PROVE ExpiryInv'
  BY <1>4 DEF ExpiryInv, RunOut, Memory
<1>5. CASE ReadMemories
  <2> DEFINE y == [daily EXCEPT !.at = "expire", !.doomed = Stale]
  <2>1. daily' = y /\ memory' = memory
    BY <1>5 DEF ReadMemories
  <2>2. Stale \in SUBSET Keys
    BY DEF Stale
  <2>3. y.doomed = Stale
    BY <1>1, <2>2, ReadFields
  <2> HIDE DEF y
  <2>4. QED
    BY <2>1, <2>3 DEF ExpiryInv, Stale
<1>6. ASSUME NEW k \in Keys, Expire(k) PROVE ExpiryInv'
  <2> DEFINE y == [daily EXCEPT !.doomed = daily.doomed \ {k}]
  <2>1. /\ daily' = y /\ memory' = [memory EXCEPT ![k] = "none"] /\ daily.at = "expire"
        /\ touched' = touched
    BY <1>6 DEF Expire
  <2>2. daily.doomed \ {k} \in SUBSET Keys
    BY <1>1 DEF DailyRecord
  <2>3. y.doomed = daily.doomed \ {k}
    BY <1>1, <2>2, DoomedFields
  <2> HIDE DEF y
  <2>4. QED
    BY <1>1, <2>1, <2>3 DEF ExpiryInv, Memory
<1>7. CASE StartDaily \/ ReadJudgments \/ Pass \/ WriteOutcome \/ WriteLesson
             \/ EndDaily \/ RaiseAtBroken \/ Die
  BY <1>7, LeavesExpiry DEF ExpiryInv
<1>8. CASE UseMemories
  BY <1>3, <1>4, <1>8 DEF UseMemories, Remember, Forget, Pin
<1>9. QED
  BY <1>2, <1>5, <1>6, <1>7, <1>8 DEF DailyNext, RunDaily

(* The expiry takes a memory that is not past its time only if it was      *)
(* written since the job read the table, for any keys.                     *)
THEOREM ExpiryTakesOnlyTheStale == DailySpec => ExpiryTakesTheStale
<1>1. DailyInit => ExpiryInv
  BY RestFields DEF DailyInit, ExpiryInv, Memory
<1>2. ExpiryInv =>
        \A k \in Keys : Expire(k) /\ memory[k] \in {"fresh", "pinned"} => k \in touched
  BY DEF ExpiryInv, Expire
<1>3. ExpiryInv => [\A k \in Keys :
         Expire(k) /\ memory[k] \in {"fresh", "pinned"} => k \in touched]_DailyVars
  BY <1>2
<1>4. QED
  BY <1>1, <1>3, LessonInit, LessonStep, ExpiryStep, PTL
     DEF DailySpec, ExpiryTakesTheStale

-----------------------------------------------------------------------------
(***************************************************************************)
(* DeepResearch: a report on scarce evidence, for any articles, services   *)
(* and companies.                                                          *)
(***************************************************************************)
Looking == {"look", "widen", "anspire", "web", "financials", "final"}
Reporting == {"blocked", "write", "runs", "pointers"}
StudyAt == {"idle", "seed", "done"} \cup Looking \cup Reporting
StudyRecord ==
  [at : StudyAt, topic : Topics \cup {"none"}, asOf : AsOfDays \cup {0}, window : {14, 28, 56, 60},
   round : 0 .. MaxRounds, asked : SUBSET Services, tried : SUBSET Companies,
   web : SUBSET Articles, lacking : SUBSET Companies, usable : SUBSET Articles,
   left : SUBSET Companies]

\* What a study that works with the record q could use of some stored news.
DayOf(q, a) == IF a \in Undated THEN q.asOf ELSE Published[a]
UsableOf(news, q) ==
  {a \in news \cup q.web :
     AuditedAs[a] # "poor" /\ DayOf(q, a) <= q.asOf /\ DayOf(q, a) + FRESH_DAYS >= q.asOf}
Scarce(news, q) == Cardinality(UsableOf(news, q)) < MinUsable

\* As long as it lacks evidence, the rounds are counted out: three widen the
\* window, the fourth and the fifth ask the services that are left.
Asked(have, q) == have \subseteq q.asked
OnSchedule(have, q) ==
  \/ q.round = 0 /\ q.window = 14
  \/ q.round = 1 /\ q.window = 28
  \/ q.round = 2 /\ q.window = 56
  \/ q.round = 3 /\ q.window = 60
  \/ q.round = 4 /\ q.window = 60 /\ have \ q.asked \subseteq {"tavily_web"}

ScarceInv(have, q) ==
  /\ q.at \in {"look", "widen", "anspire", "web"} => Asked(have, q) \/ OnSchedule(have, q)
  /\ q.at = "widen" => q.window < MaxWindow
  /\ q.at \in {"anspire", "web"} => q.window = MaxWindow
  /\ q.at = "anspire" => "anspire" \in have \ q.asked
  /\ q.at = "web" => have \ q.asked \subseteq {"tavily_web"}
  /\ q.at \in {"financials", "final"} => Asked(have, q)

StudyInv(news, have, q) ==
  /\ q.at = "seed" => q.round = 0 /\ q.window = 14
  /\ q.at \in Looking \ {"final"} => q.round < MaxRounds
  /\ q.at \in Looking /\ Scarce(news, q) => ScarceInv(have, q)
  /\ q.at \in Reporting /\ Cardinality(q.usable) < MinUsable => Asked(have, q)

ResearchInv ==
  /\ stored \subseteq Articles /\ metrics \subseteq Companies /\ services \subseteq Services
  /\ study \in [Studies -> StudyRecord]
  /\ \A s \in Studies : StudyInv(stored, services, study[s])

-----------------------------------------------------------------------------
\* What is found later does not take away from what there is.
LEMMA EvidenceGrows ==
  ASSUME NEW news, NEW more \in SUBSET Articles, news \subseteq more,
         NEW q, NEW r \in StudyRecord, q.asOf = r.asOf, q.web \subseteq r.web, Scarce(more, r)
  PROVE  Scarce(news, q)
<1>1. UsableOf(news, q) \subseteq UsableOf(more, r)
  BY DEF UsableOf, DayOf
<1>2. UsableOf(more, r) \subseteq Articles
  BY DEF UsableOf, StudyRecord
<1>3. IsFiniteSet(UsableOf(more, r)) /\ IsFiniteSet(UsableOf(news, q))
  BY <1>1, <1>2, FS_Subset, ArticlesAssumption
<1>4. Cardinality(UsableOf(news, q)) <= Cardinality(UsableOf(more, r))
  BY <1>1, <1>3, FS_Subset
<1>5. Cardinality(UsableOf(news, q)) \in Nat /\ Cardinality(UsableOf(more, r)) \in Nat
  BY <1>3, FS_CardinalityType
<1>6. QED
  BY <1>4, <1>5, StudiesAssumption DEF Scarce

\* The window reaches back further than what is fresh.
LEMMA UsableIsFresh ==
  ASSUME ResearchInv, NEW s \in Studies
  PROVE  Usable(s) = UsableOf(stored, study[s])
<1>1. study[s] \in StudyRecord
  BY DEF ResearchInv
<1>2. study[s].asOf \in Nat /\ study[s].window \in {14, 28, 56, 60} /\ study[s].web \subseteq Articles
  <2>1. AsOfDays \cup {0} \subseteq Nat
    BY StudiesAssumption
  <2>2. study[s].asOf \in AsOfDays \cup {0}
    BY <1>1 DEF StudyRecord
  <2>3. QED
    BY <1>1, <2>1, <2>2 DEF StudyRecord
<1>3. \A a \in stored \cup study[s].web :
        /\ DayFor(s, a) = DayOf(study[s], a)
        /\ DayOf(study[s], a) \in Nat
  BY <1>2, ArticlesAssumption DEF DayFor, DayOf, ResearchInv
<1>4. \A a \in stored \cup study[s].web :
        DayOf(study[s], a) + FRESH_DAYS >= study[s].asOf
          => DayOf(study[s], a) + study[s].window >= study[s].asOf
  BY <1>2, <1>3 DEF FRESH_DAYS
<1>5. QED
  BY <1>3, <1>4 DEF Usable, Collected, UsableOf

\* A study that takes a step leaves the others alone, whatever it stores.
LEMMA StudyStep ==
  ASSUME ResearchInv, NEW s \in Studies, NEW q \in StudyRecord,
         study' = [study EXCEPT ![s] = q],
         stored \subseteq stored', stored' \subseteq Articles, metrics' \subseteq Companies,
         services' = services, StudyInv(stored', services, q)
  PROVE  ResearchInv'
<1>1. study' \in [Studies -> StudyRecord] /\ services \subseteq Services
  BY DEF ResearchInv
<1>2. ASSUME NEW t \in Studies PROVE StudyInv(stored', services, study'[t])
  <2>1. CASE t = s
    BY <2>1 DEF ResearchInv
  <2>2. CASE t # s
    <3>1. study'[t] = study[t] /\ study[t] \in StudyRecord /\ StudyInv(stored, services, study[t])
      BY <2>2 DEF ResearchInv
    <3>2. Scarce(stored', study[t]) => Scarce(stored, study[t])
      BY <3>1, EvidenceGrows
    <3>3. QED
      BY <3>1, <3>2 DEF StudyInv
  <2>3. QED
    BY <2>1, <2>2
<1>3. QED
  BY <1>1, <1>2 DEF ResearchInv

-----------------------------------------------------------------------------
LEMMA NewStudyTypes == NewStudy \in StudyRecord
<1>1. 0 \in 0 .. MaxRounds
  BY DEF MaxRounds
<1>2. QED
  BY <1>1 DEF NewStudy, StudyRecord, StudyAt

LEMMA ResearchInvInit == ResearchInit => ResearchInv
<1> SUFFICES ASSUME ResearchInit PROVE ResearchInv
  OBVIOUS
<1>1. study = [s \in Studies |-> NewStudy] /\ NewStudy.at = "idle"
  BY DEF ResearchInit, NewStudy
<1>2. stored \subseteq Articles /\ metrics \subseteq Companies /\ services \subseteq Services
  BY DEF ResearchInit
<1>3. StudyInv(stored, services, NewStudy)
  BY <1>1 DEF StudyInv, Looking, Reporting
<1>4. QED
  BY <1>1, <1>2, <1>3, NewStudyTypes DEF ResearchInv

LEMMA BeginPreserves == ASSUME ResearchInv, NEW s \in Studies, BeginStudy(s) PROVE ResearchInv'
<1>1. PICK t \in Topics, day \in AsOfDays, first \in {"seed", "look"} :
        study' = [study EXCEPT ![s] = [NewStudy EXCEPT !.at = first, !.topic = t, !.asOf = day]]
  BY DEF BeginStudy, Becomes
<1> DEFINE q == [NewStudy EXCEPT !.at = first, !.topic = t, !.asOf = day]
<1>2. q \in StudyRecord /\ q.at \in {"seed", "look"} /\ q.round = 0 /\ q.window = 14
  <2>1. 0 \in 0 .. MaxRounds
    BY DEF MaxRounds
  <2>2. QED
    BY <2>1 DEF NewStudy, StudyRecord, StudyAt, Looking
<1>3. study' = [study EXCEPT ![s] = q]
  BY <1>1
<1> HIDE DEF q
<1>4. StudyInv(stored, services, q)
  BY <1>2 DEF StudyInv, ScarceInv, OnSchedule, Reporting, Looking, MaxRounds
<1>5. stored' = stored /\ metrics' = metrics /\ services' = services
  BY DEF BeginStudy
<1>6. stored \subseteq Articles /\ metrics \subseteq Companies
  BY DEF ResearchInv
<1>7. QED
  BY <1>2, <1>3, <1>4, <1>5, <1>6, StudyStep

LEMMA SeedsPreserve == ASSUME ResearchInv, NEW s \in Studies, SearchSeeds(s) PROVE ResearchInv'
<1>1. PICK found \in SUBSET Articles :
        study' = [study EXCEPT ![s] =
                    [study[s] EXCEPT !.at = "look", !.web = found,
                                     !.asked = IF found = {} THEN {} ELSE {"tavily_web"}]]
  BY DEF SearchSeeds, Becomes, FoundBy
<1>2. study[s] \in StudyRecord /\ study[s].at = "seed" /\ StudyInv(stored, services, study[s])
  BY DEF ResearchInv, SearchSeeds
<1> DEFINE q == [study[s] EXCEPT !.at = "look", !.web = found,
                                 !.asked = IF found = {} THEN {} ELSE {"tavily_web"}]
<1>3. q \in StudyRecord /\ q.at = "look" /\ q.round = study[s].round /\ q.window = study[s].window
  BY <1>2 DEF StudyRecord, StudyAt, Looking, Services
<1>4. study' = [study EXCEPT ![s] = q]
  BY <1>1
<1> HIDE DEF q
<1>5. StudyInv(stored, services, q)
  BY <1>2, <1>3 DEF StudyInv, ScarceInv, OnSchedule, Reporting, Looking, MaxRounds
<1>6. stored' = stored /\ metrics' = metrics /\ services' = services
  BY DEF SearchSeeds
<1>7. stored \subseteq Articles /\ metrics \subseteq Companies
  BY DEF ResearchInv
<1>8. QED
  BY <1>3, <1>4, <1>5, <1>6, <1>7, StudyStep

\* The plan of a study that lacks evidence.
LEMMA PlanWhenScarce ==
  ASSUME ResearchInv, NEW s \in Studies, Scarce(stored, study[s])
  PROVE  LET left == services \ study[s].asked IN
         /\ Plan(s) = "widen" => study[s].window < MaxWindow
         /\ Plan(s) \in {"anspire", "web"} => study[s].window = MaxWindow
         /\ Plan(s) = "anspire" => "anspire" \in left
         /\ Plan(s) = "web" => left \subseteq {"tavily_web"}
         /\ Plan(s) \in {"financials", "final"} => left = {}
<1>1. study[s].window \in {14, 28, 56, 60} /\ services \subseteq Services
  BY DEF ResearchInv, StudyRecord
<1>2. Cardinality(Usable(s)) < MinUsable
  BY UsableIsFresh DEF Scarce
<1>3. CASE study[s].window < MaxWindow
  <2>1. Plan(s) = "widen"
    BY <1>1, <1>2, <1>3 DEF Plan, MaxWindow
  <2>2. QED
    BY <1>3, <2>1
<1>4. CASE ~ (study[s].window < MaxWindow)
  <2>1. study[s].window = MaxWindow /\ study[s].window >= MaxWindow
    BY <1>1, <1>4 DEF MaxWindow
  <2>2. CASE "anspire" \in Askable(s)
    <3>1. Plan(s) = "anspire"
      BY <1>2, <1>4, <2>1, <2>2 DEF Plan
    <3>2. QED
      BY <2>1, <2>2, <3>1 DEF Askable
  <2>3. CASE Askable(s) = {"tavily_web"}
    <3>1. Plan(s) = "web"
      BY <1>2, <1>4, <2>1, <2>3 DEF Plan
    <3>2. QED
      BY <2>1, <2>3, <3>1 DEF Askable
  <2>4. CASE "anspire" \notin Askable(s) /\ Askable(s) # {"tavily_web"}
    <3>1. Askable(s) = {}
      <4>1. Askable(s) \subseteq {"anspire", "tavily_web"}
        BY <1>1 DEF Askable, Services
      <4>2. Askable(s) \subseteq {"tavily_web"}
        BY <2>4, <4>1
      <4>3. QED
        BY <2>4, <4>2, Zenon
    <3>2. Plan(s) \in {"financials", "final"}
      BY <1>2, <1>4, <2>1, <2>4 DEF Plan
    <3>3. QED
      BY <3>1, <3>2 DEF Askable
  <2>5. QED
    BY <2>2, <2>3, <2>4
<1>5. QED
  BY <1>3, <1>4

LEMMA PlanIsPlace ==
  ASSUME NEW s \in Studies
  PROVE  Plan(s) \in {"widen", "anspire", "web", "financials", "final"}
BY DEF Plan

LEMMA LookRoundPreserves == ASSUME ResearchInv, NEW s \in Studies, LookForEvidence(s) PROVE ResearchInv'
<1>1. study[s] \in StudyRecord /\ study[s].at = "look" /\ StudyInv(stored, services, study[s])
  BY DEF ResearchInv, LookForEvidence
<1> DEFINE to == Plan(s)
           lacking == Companies \ (metrics \cup study[s].tried)
           q == [study[s] EXCEPT !.at = to, !.lacking = lacking]
<1>2. to \in {"widen", "anspire", "web", "financials", "final"}
  BY PlanIsPlace
<1>3. Scarce(stored, study[s]) =>
        /\ to = "widen" => study[s].window < MaxWindow
        /\ to \in {"anspire", "web"} => study[s].window = MaxWindow
        /\ to = "anspire" => "anspire" \in services \ study[s].asked
        /\ to = "web" => services \ study[s].asked \subseteq {"tavily_web"}
        /\ to \in {"financials", "final"} => services \ study[s].asked = {}
  BY PlanWhenScarce
<1>4. study' = [study EXCEPT ![s] = q]
  BY DEF LookForEvidence, Becomes
<1> HIDE DEF to
<1>5. /\ q \in StudyRecord /\ q.at = to /\ q.round = study[s].round /\ q.window = study[s].window
      /\ q.asked = study[s].asked /\ q.web = study[s].web /\ q.asOf = study[s].asOf
  BY <1>1, <1>2 DEF StudyRecord, StudyAt, Looking
<1> HIDE DEF q
<1>6. Scarce(stored, q) => Scarce(stored, study[s])
  BY <1>1, <1>5, EvidenceGrows DEF ResearchInv
<1>7. Scarce(stored, q) => Asked(services, q) \/ OnSchedule(services, q)
  BY <1>1, <1>5, <1>6 DEF StudyInv, ScarceInv, OnSchedule, Asked, Looking
<1>8. Scarce(stored, q) => ScarceInv(services, q)
  BY <1>2, <1>3, <1>5, <1>6, <1>7 DEF ScarceInv, Asked
<1>9. StudyInv(stored, services, q)
  BY <1>1, <1>2, <1>5, <1>8 DEF StudyInv, Reporting, Looking
<1>10. stored' = stored /\ metrics' = metrics /\ services' = services
  BY DEF LookForEvidence
<1>11. stored \subseteq Articles /\ metrics \subseteq Companies
  BY DEF ResearchInv
<1>12. QED
  BY <1>4, <1>5, <1>9, <1>10, <1>11, StudyStep

-----------------------------------------------------------------------------
\* A round that a study without evidence has ended.
LEMMA RoundEnds ==
  ASSUME ResearchInv, NEW s \in Studies, NEW q \in StudyRecord,
         study[s].at \in {"widen", "anspire", "web", "financials"},
         q.round = study[s].round, q.asOf = study[s].asOf, study[s].web \subseteq q.web,
         stored \subseteq stored', stored' \subseteq Articles, metrics' \subseteq Companies,
         services' = services, study' = [study EXCEPT ![s] = Then(q)],
         ScarceInv(services, study[s]) =>
           \/ Asked(services, q)
           \/ q.round < 4 /\ OnSchedule(services, [q EXCEPT !.round = @ + 1])
  PROVE  ResearchInv'
<1> DEFINE r == Then(q)
<1>1. study[s] \in StudyRecord /\ StudyInv(stored, services, study[s])
  BY DEF ResearchInv
<1>2. q.round \in 0 .. 4
  BY <1>1 DEF StudyRecord, MaxRounds, StudyInv, Looking
<1>3. /\ r \in StudyRecord /\ r.at = (IF q.round + 1 = MaxRounds THEN "final" ELSE "look")
      /\ r.round = q.round + 1
      /\ r.window = q.window /\ r.asked = q.asked /\ r.web = q.web /\ r.asOf = q.asOf
  <2>1. q.round + 1 \in 0 .. MaxRounds
    BY <1>2 DEF MaxRounds
  <2>2. PICK to \in {"final", "look"} : to = IF q.round + 1 = MaxRounds THEN "final" ELSE "look"
    OBVIOUS
  <2>3. r = [q EXCEPT !.round = @ + 1, !.lacking = {}, !.at = to]
    BY <2>2 DEF Then
  <2>4. PICK n \in 0 .. MaxRounds : n = q.round + 1
    BY <2>1
  <2>5. r = [q EXCEPT !.round = n, !.lacking = {}, !.at = to]
    BY <2>3, <2>4
  <2> HIDE DEF r
  <2>6. /\ r \in StudyRecord /\ r.at = to /\ r.round = n
        /\ r.window = q.window /\ r.asked = q.asked /\ r.web = q.web /\ r.asOf = q.asOf
    BY <2>5 DEF StudyRecord, StudyAt, Looking
  <2>7. QED
    BY <2>2, <2>4, <2>6
<1> HIDE DEF r
<1>4. ASSUME Scarce(stored', r) PROVE ScarceInv(services, r)
  <2>1. Scarce(stored, study[s])
    BY <1>3, <1>4, EvidenceGrows
  <2>2. ScarceInv(services, study[s])
    BY <1>1, <2>1 DEF StudyInv, Looking
  <2>3. CASE Asked(services, q)
    BY <1>3, <2>3 DEF ScarceInv, Asked
  <2>4. CASE q.round < 4 /\ OnSchedule(services, [q EXCEPT !.round = @ + 1])
    <3>1. r.at = "look"
      BY <1>2, <1>3, <2>4 DEF MaxRounds
    <3>2. OnSchedule(services, r)
      <4> DEFINE p == [q EXCEPT !.round = @ + 1]
      <4>1. p.round = r.round /\ p.window = r.window /\ p.asked = r.asked
        BY <1>3 DEF StudyRecord
      <4>2. OnSchedule(services, p)
        BY <2>4
      <4> HIDE DEF p
      <4>3. QED
        BY <4>1, <4>2 DEF OnSchedule
    <3>3. QED
      BY <3>1, <3>2 DEF ScarceInv
  <2>5. QED
    BY <2>2, <2>3, <2>4
<1>5. StudyInv(stored', services, r)
  BY <1>2, <1>3, <1>4 DEF StudyInv, Reporting, Looking, MaxRounds
<1>6. study' = [study EXCEPT ![s] = r]
  BY DEF r
<1>7. QED
  BY <1>3, <1>5, <1>6, StudyStep

LEMMA WidenPreserves == ASSUME ResearchInv, NEW s \in Studies, Widen(s) PROVE ResearchInv'
<1>1. study[s] \in StudyRecord /\ study[s].at = "widen"
  BY DEF ResearchInv, Widen
<1> DEFINE q == [study[s] EXCEPT !.window = Widened(@)]
<1>2. Widened(study[s].window) \in {14, 28, 56, 60}
  BY <1>1 DEF StudyRecord, Widened, MaxWindow
<1>3. /\ q \in StudyRecord /\ q.round = study[s].round /\ q.asOf = study[s].asOf
      /\ q.web = study[s].web /\ q.asked = study[s].asked
      /\ q.window = Widened(study[s].window)
  BY <1>1, <1>2 DEF StudyRecord
<1>4. study' = [study EXCEPT ![s] = Then(q)]
  BY DEF Widen, Becomes
<1> HIDE DEF q
<1>5. ASSUME ScarceInv(services, study[s])
      PROVE  \/ Asked(services, q)
             \/ q.round < 4 /\ OnSchedule(services, [q EXCEPT !.round = @ + 1])
  <2> DEFINE p == [q EXCEPT !.round = @ + 1]
  <2>1. p.round = study[s].round + 1 /\ p.window = Widened(study[s].window)
    BY <1>3 DEF StudyRecord
  <2> HIDE DEF p
  <2>2. study[s].window < MaxWindow /\ (Asked(services, study[s]) \/ OnSchedule(services, study[s]))
    BY <1>1, <1>5 DEF ScarceInv
  <2>3. OnSchedule(services, study[s]) => q.round < 4 /\ OnSchedule(services, p)
    BY <1>3, <2>1, <2>2 DEF OnSchedule, Widened, MaxWindow
  <2>4. QED
    BY <1>3, <2>2, <2>3 DEF Asked, p
<1>6. stored' = stored /\ metrics' = metrics /\ services' = services
  BY DEF Widen
<1>7. stored \subseteq Articles /\ metrics \subseteq Companies
  BY DEF ResearchInv
<1>8. QED
  BY <1>1, <1>3, <1>4, <1>5, <1>6, <1>7, RoundEnds

LEMMA AnspirePreserves == ASSUME ResearchInv, NEW s \in Studies, AskAnspire(s) PROVE ResearchInv'
<1>1. PICK found \in SUBSET Articles :
        /\ stored' = stored \cup (found \ Undated)
        /\ study' = [study EXCEPT ![s] = Then([study[s] EXCEPT !.asked = @ \cup {"anspire"}])]
  BY DEF AskAnspire, Becomes, FoundBy
<1>2. study[s] \in StudyRecord /\ study[s].at = "anspire" /\ services \subseteq Services
  BY DEF ResearchInv, AskAnspire
<1> DEFINE q == [study[s] EXCEPT !.asked = @ \cup {"anspire"}]
<1>3. /\ q \in StudyRecord /\ q.round = study[s].round /\ q.asOf = study[s].asOf
      /\ q.web = study[s].web /\ q.asked = study[s].asked \cup {"anspire"}
      /\ q.window = study[s].window
  BY <1>2 DEF StudyRecord, Services
<1>4. study' = [study EXCEPT ![s] = Then(q)]
  BY <1>1
<1> HIDE DEF q
<1>5. ASSUME ScarceInv(services, study[s])
      PROVE  \/ Asked(services, q)
             \/ q.round < 4 /\ OnSchedule(services, [q EXCEPT !.round = @ + 1])
  <2> DEFINE p == [q EXCEPT !.round = @ + 1]
  <2>1. p.round = study[s].round + 1 /\ p.window = study[s].window /\ p.asked = q.asked
    BY <1>3 DEF StudyRecord
  <2> HIDE DEF p
  <2>2. study[s].window = MaxWindow /\ (Asked(services, study[s]) \/ OnSchedule(services, study[s]))
    BY <1>2, <1>5 DEF ScarceInv
  <2>3. services \ q.asked \subseteq {"tavily_web"}
    BY <1>2, <1>3 DEF Services
  <2>4. ASSUME OnSchedule(services, study[s])
        PROVE  Asked(services, q) \/ (q.round < 4 /\ OnSchedule(services, p))
    <3>1. CASE study[s].round = 3
      BY <1>3, <2>1, <2>2, <2>3, <3>1 DEF OnSchedule, MaxWindow
    <3>2. CASE study[s].round = 4
      <4>1. "anspire" \in services \ study[s].asked
        BY <1>2, <1>5 DEF ScarceInv
      <4>2. QED
        BY <2>4, <3>2, <4>1 DEF OnSchedule
    <3>3. QED
      BY <2>2, <2>4, <3>1, <3>2 DEF OnSchedule, MaxWindow
  <2>5. QED
    BY <1>3, <2>2, <2>4 DEF Asked, p
<1>6. stored \subseteq stored' /\ stored' \subseteq Articles /\ metrics' \subseteq Companies
      /\ services' = services
  BY <1>1 DEF AskAnspire, ResearchInv
<1>7. QED
  BY <1>2, <1>3, <1>4, <1>5, <1>6, RoundEnds

LEMMA WebPreserves == ASSUME ResearchInv, NEW s \in Studies, AskWeb(s) PROVE ResearchInv'
<1>1. PICK found \in SUBSET Articles :
        study' = [study EXCEPT ![s] = Then([study[s] EXCEPT !.web = @ \cup found,
                                                            !.asked = @ \cup {"tavily_web"}])]
  BY DEF AskWeb, Becomes, FoundBy
<1>2. study[s] \in StudyRecord /\ study[s].at = "web"
  BY DEF ResearchInv, AskWeb
<1> DEFINE q == [study[s] EXCEPT !.web = @ \cup found, !.asked = @ \cup {"tavily_web"}]
<1>3. /\ q \in StudyRecord /\ q.round = study[s].round /\ q.asOf = study[s].asOf
      /\ study[s].web \subseteq q.web /\ q.asked = study[s].asked \cup {"tavily_web"}
  BY <1>2 DEF StudyRecord, Services
<1>4. study' = [study EXCEPT ![s] = Then(q)]
  BY <1>1
<1> HIDE DEF q
<1>5. ASSUME ScarceInv(services, study[s]) PROVE Asked(services, q)
  BY <1>2, <1>3, <1>5 DEF ScarceInv, Asked
<1>6. stored' = stored /\ metrics' = metrics /\ services' = services
  BY DEF AskWeb
<1>7. stored \subseteq Articles /\ metrics \subseteq Companies
  BY DEF ResearchInv
<1>8. QED
  BY <1>2, <1>3, <1>4, <1>5, <1>6, <1>7, RoundEnds

LEMMA FinancialsPreserve ==
  ASSUME ResearchInv, NEW s \in Studies, BackfillFinancials(s) PROVE ResearchInv'
<1>1. PICK got \in SUBSET study[s].lacking : metrics' = metrics \cup got
  BY DEF BackfillFinancials
<1>2. study[s] \in StudyRecord /\ study[s].at = "financials"
  BY DEF ResearchInv, BackfillFinancials
<1>3. study[s].lacking \subseteq Companies /\ study[s].tried \subseteq Companies
  BY <1>2 DEF StudyRecord
<1> DEFINE q == [study[s] EXCEPT !.tried = @ \cup study[s].lacking]
<1>4. /\ q \in StudyRecord /\ q.round = study[s].round /\ q.asOf = study[s].asOf
      /\ q.web = study[s].web /\ q.asked = study[s].asked
  BY <1>2, <1>3 DEF StudyRecord
<1>5. study' = [study EXCEPT ![s] = Then(q)]
  BY DEF BackfillFinancials, Becomes
<1> HIDE DEF q
<1>6. ASSUME ScarceInv(services, study[s]) PROVE Asked(services, q)
  BY <1>2, <1>4, <1>6 DEF ScarceInv, Asked
<1>7. stored' = stored /\ services' = services
  BY DEF BackfillFinancials
<1>8. stored \subseteq Articles /\ metrics' \subseteq Companies
  BY <1>1, <1>3 DEF ResearchInv
<1>9. QED
  BY <1>2, <1>4, <1>5, <1>6, <1>7, <1>8, RoundEnds

-----------------------------------------------------------------------------
\* A study that writes its report keeps what it was judged on.
LEMMA ReportStep ==
  ASSUME ResearchInv, NEW s \in Studies, NEW q \in StudyRecord,
         study' = [study EXCEPT ![s] = q],
         UNCHANGED <<stored, metrics, services>>,
         \/ q.at = "done"
         \/ /\ study[s].at \in Reporting /\ q.at \in Reporting
            /\ q.usable = study[s].usable /\ q.asked = study[s].asked
  PROVE  ResearchInv'
<1>1. StudyInv(stored, services, study[s])
  BY DEF ResearchInv
<1>2. StudyInv(stored, services, q)
  BY <1>1 DEF StudyInv, Looking, Reporting, Asked
<1>3. stored \subseteq Articles /\ metrics \subseteq Companies
  BY DEF ResearchInv
<1>4. QED
  BY <1>2, <1>3, StudyStep

LEMMA JudgePreserves == ASSUME ResearchInv, NEW s \in Studies, Judge(s) PROVE ResearchInv'
<1>1. study[s] \in StudyRecord /\ study[s].at = "final" /\ StudyInv(stored, services, study[s])
  BY DEF ResearchInv, Judge
<1>2. Usable(s) = UsableOf(stored, study[s]) /\ Usable(s) \subseteq Articles
  BY <1>1, UsableIsFresh DEF UsableOf, ResearchInv, StudyRecord
<1>3. PICK to \in {"blocked", "write"} : to = IF IsBlocked(s, Usable(s)) THEN "blocked" ELSE "write"
  OBVIOUS
<1>4. PICK usable \in SUBSET Articles : usable = Usable(s)
  BY <1>2
<1> DEFINE q == [[NewStudy EXCEPT !.at = to] EXCEPT
                   !.topic = study[s].topic, !.asOf = study[s].asOf,
                   !.asked = study[s].asked, !.usable = usable]
<1>5. study' = [study EXCEPT ![s] = q]
  BY <1>3, <1>4 DEF Judge, Becomes, Verdict
<1>6. q \in StudyRecord /\ q.at = to /\ q.usable = usable /\ q.asked = study[s].asked
  <2>1. 0 \in 0 .. MaxRounds
    BY DEF MaxRounds
  <2>2. QED
    BY <1>1, <2>1 DEF NewStudy, StudyRecord, StudyAt, Reporting
<1> HIDE DEF q
<1>7. Cardinality(usable) < MinUsable => Asked(services, study[s])
  BY <1>1, <1>2, <1>4 DEF StudyInv, ScarceInv, Scarce, Looking
<1>8. StudyInv(stored, services, q)
  BY <1>3, <1>6, <1>7 DEF StudyInv, Looking, Asked
<1>9. stored' = stored /\ metrics' = metrics /\ services' = services
  BY DEF Judge
<1>10. stored \subseteq Articles /\ metrics \subseteq Companies
  BY DEF ResearchInv
<1>11. QED
  BY <1>5, <1>6, <1>8, <1>9, <1>10, StudyStep

LEMMA ReportPreserves ==
  ASSUME ResearchInv, NEW s \in Studies,
         WriteReport(s) \/ RecordRun(s) \/ PointTo(s) \/ BreakOff(s)
  PROVE  ResearchInv'
<1>1. study[s] \in StudyRecord /\ UNCHANGED <<stored, metrics, services>>
  BY DEF ResearchInv, WriteReport, RecordRun, PointTo, BreakOff
<1>2. CASE WriteReport(s)
  <2> DEFINE q == [study[s] EXCEPT !.at = "runs", !.left = Companies]
  <2>1. q \in StudyRecord /\ q.at = "runs" /\ q.usable = study[s].usable /\ q.asked = study[s].asked
    BY <1>1 DEF StudyRecord, StudyAt, Reporting
  <2>2. study' = [study EXCEPT ![s] = q] /\ study[s].at = "write"
    BY <1>2 DEF WriteReport, Becomes
  <2> HIDE DEF q
  <2>3. QED
    BY <1>1, <2>1, <2>2, ReportStep DEF Reporting
<1>3. ASSUME NEW c \in study[s].left PROVE
        LET q == [study[s] EXCEPT !.left = @ \ {c}] IN
        /\ q \in StudyRecord /\ q.at = study[s].at /\ q.usable = study[s].usable
        /\ q.asked = study[s].asked
  BY <1>1 DEF StudyRecord
<1>4. CASE RecordRun(s)
  <2> DEFINE after == [study[s] EXCEPT !.at = "pointers", !.left = Companies]
  <2>1. PICK c \in study[s].left :
          study' = [study EXCEPT ![s] = Advance(study[s], c, after)]
    BY <1>4 DEF RecordRun, Becomes
  <2>2. /\ after \in StudyRecord /\ after.at = "pointers" /\ after.usable = study[s].usable
        /\ after.asked = study[s].asked
    BY <1>1 DEF StudyRecord, StudyAt, Reporting
  <2> HIDE DEF after
  <2>3. PICK q : q = Advance(study[s], c, after)
    OBVIOUS
  <2>4. study[s].at = "runs"
    BY <1>4 DEF RecordRun
  <2>5. /\ q \in StudyRecord /\ q.at \in {"runs", "pointers"} /\ q.usable = study[s].usable
        /\ q.asked = study[s].asked
    BY <1>3, <2>2, <2>3, <2>4 DEF Advance
  <2>6. QED
    BY <1>1, <2>1, <2>3, <2>4, <2>5, ReportStep DEF Reporting
<1>5. [NewStudy EXCEPT !.at = "done"] \in StudyRecord /\ [NewStudy EXCEPT !.at = "done"].at = "done"
  <2>1. 0 \in 0 .. MaxRounds
    BY DEF MaxRounds
  <2>2. QED
    BY <2>1 DEF NewStudy, StudyRecord, StudyAt
<1>6. CASE PointTo(s)
  <2> DEFINE after == [NewStudy EXCEPT !.at = "done"]
  <2>1. PICK c \in study[s].left :
          study' = [study EXCEPT ![s] = Advance(study[s], c, after)]
    BY <1>6 DEF PointTo, Becomes
  <2>2. after \in StudyRecord /\ after.at = "done"
    BY <1>5
  <2> HIDE DEF after
  <2>3. PICK q : q = Advance(study[s], c, after)
    OBVIOUS
  <2>4. study[s].at = "pointers"
    BY <1>6 DEF PointTo
  <2>5. /\ q \in StudyRecord
        /\ q.at = "done" \/ (q.at = "pointers" /\ q.usable = study[s].usable
                               /\ q.asked = study[s].asked)
    BY <1>3, <2>2, <2>3, <2>4 DEF Advance
  <2>6. QED
    BY <1>1, <2>1, <2>3, <2>4, <2>5, ReportStep DEF Reporting
<1>7. CASE BreakOff(s)
  BY <1>1, <1>5, <1>7, ReportStep DEF BreakOff, Becomes
<1>8. QED
  BY <1>2, <1>4, <1>6, <1>7

LEMMA ResearchInvNext == ResearchInv /\ [ResearchNext]_ResearchVars => ResearchInv'
<1> SUFFICES ASSUME ResearchInv, [ResearchNext]_ResearchVars PROVE ResearchInv'
  OBVIOUS
<1>1. CASE UNCHANGED ResearchVars
  BY <1>1 DEF ResearchVars, ResearchInv
<1>2. QED
  BY <1>1, BeginPreserves, SeedsPreserve, LookRoundPreserves, WidenPreserves, AnspirePreserves,
     WebPreserves, FinancialsPreserve, JudgePreserves, ReportPreserves DEF ResearchNext

(* The five rounds are enough, whatever the studies store for each other   *)
(* meanwhile: one that is judged on too little has asked every service     *)
(* that has a key (deep_research.py).                                      *)
THEOREM RoundsAreEnough == ResearchSpec => []ScarceMeansAsked
<1>1. ResearchInv => ScarceMeansAsked
  BY DEF ResearchInv, StudyInv, ScarceMeansAsked, Judged, Reporting, Asked
<1>2. QED
  BY <1>1, ResearchInvInit, ResearchInvNext, PTL DEF ResearchSpec

-----------------------------------------------------------------------------
(***************************************************************************)
(* ResearchLedgers: for any number of overlapping requests and any         *)
(* confidences, a commit does what was asked and leaves the columns of     *)
(* other operations alone.                                                 *)
(***************************************************************************)
LedgerColumns == {"status", "low", "high", "attached"}
AnyStatus ==
  {"none", "active", "watch", "broken", "retired", "draft", "superseded",
   "invalidated", "proposed", "supported", "contradicted"}
LedgerRow == [status : AnyStatus, low : Int, high : Int, attached : BOOLEAN]
Ops == {"none", "create", "move", "band", "attach"}
Edits == [op : Ops, was : LedgerRow, new : LedgerRow]

(* What a request will write: the columns of its operation, the others as  *)
(* it has read them.                                                       *)
SameStatus(edit) == edit.new.status = edit.was.status
SameBand(edit) == edit.new.low = edit.was.low /\ edit.new.high = edit.was.high
SameAttached(edit) == edit.new.attached = edit.was.attached

EditIsSound(edit) ==
  /\ edit \in Edits
  /\ edit.op = "none" => edit = NoEdit
  /\ edit.op = "create" => edit.was = NoRecord
  /\ edit.op = "move" =>
       edit.new.status # edit.was.status /\ SameBand(edit) /\ SameAttached(edit)
  /\ edit.op = "band" => SameStatus(edit) /\ SameAttached(edit)
  /\ edit.op = "attach" => SameStatus(edit) /\ SameBand(edit) /\ edit.new.attached

\* What is attached stays attached, so that a request may leave it unwritten.
LedgersInv ==
  /\ record \in LedgerRow
  /\ ledger \in Ledgers
  /\ editing \in [Editors -> Edits]
  /\ \A e \in Editors : EditIsSound(editing[e])
  /\ \A e \in Editors : editing[e].was.attached => record.attached

USE ConfidenceAssumption

(* The constants of a row are rows.                                        *)
LEMMA NoRecordIsRow ==
  /\ NoRecord \in LedgerRow /\ NoRecord.status = "none" /\ ~NoRecord.attached
  /\ NoEdit \in Edits /\ NoEdit.op = "none" /\ EditIsSound(NoEdit)
  BY DEF NoRecord, NoEdit, EditIsSound, Edits, Ops, LedgerRow, AnyStatus, Unset

(* No transition of the three tables stays where it is, and all of them    *)
(* are between strings.                                                    *)
LEMMA MovesMove ==
  ASSUME ledger \in Ledgers, NEW s, <<record.status, s>> \in Moves
  PROVE  s \in AnyStatus /\ s # record.status
<1> DEFINE r == record.status
<1> SUFFICES s \in AnyStatus /\ s # r  OBVIOUS
<1>1. <<r, s>> \in Moves  OBVIOUS
<1> HIDE DEF r
<1>2. CASE ledger = "thesis"
  BY <1>1, <1>2 DEF Moves, ThesisMoves, AnyStatus
<1>3. CASE ledger = "forward"
  BY <1>1, <1>3 DEF Moves, ForwardMoves, AnyStatus
<1>4. CASE ledger = "hypothesis"
  BY <1>1, <1>4 DEF Moves, HypothesisMoves, AnyStatus
<1> QED BY <1>2, <1>3, <1>4 DEF Ledgers

LEMMA StatusesAreStrings ==
  ASSUME ledger \in Ledgers PROVE StatusesOf \subseteq AnyStatus
<1>1. Moves \subseteq AnyStatus \X AnyStatus
  <2>1. CASE ledger = "thesis"
    BY <2>1 DEF Moves, ThesisMoves, AnyStatus
  <2>2. CASE ledger = "forward"
    BY <2>2 DEF Moves, ForwardMoves, AnyStatus
  <2>3. CASE ledger = "hypothesis"
    BY <2>3 DEF Moves, HypothesisMoves, AnyStatus
  <2> QED BY <2>1, <2>2, <2>3 DEF Ledgers
<1> QED BY <1>1 DEF StatusesOf

(* A row of which one part was replaced.                                   *)
LEMMA StatusReplaced ==
  ASSUME NEW r \in LedgerRow, NEW s \in AnyStatus
  PROVE  LET q == [r EXCEPT !.status = s] IN
         /\ q \in LedgerRow
         /\ q.status = s
         /\ q.low = r.low /\ q.high = r.high /\ q.attached = r.attached
  BY DEF LedgerRow

LEMMA BandReplaced ==
  ASSUME NEW r \in LedgerRow, NEW low \in Int, NEW high \in Int
  PROVE  LET q == WithBand(r, low, high) IN
         q \in LedgerRow /\ q.status = r.status /\ q.attached = r.attached
<1> DEFINE q == [r EXCEPT !.low = low]
<1>1. q \in LedgerRow /\ q.status = r.status /\ q.attached = r.attached
  BY DEF LedgerRow
<1> HIDE DEF q
<1>2. /\ [q EXCEPT !.high = high] \in LedgerRow
      /\ [q EXCEPT !.high = high].status = q.status
      /\ [q EXCEPT !.high = high].attached = q.attached
  BY <1>1 DEF LedgerRow
<1> QED BY <1>1, <1>2 DEF WithBand, q

(* A merge keeps a column that the request does not change, and otherwise  *)
(* writes the request's.                                                   *)
LEMMA MergedColumns ==
  ASSUME NEW row \in LedgerRow, NEW was \in LedgerRow, NEW new \in LedgerRow
  PROVE  Merged(row, was, new)
           = [status   |-> IF new.status = was.status THEN row.status ELSE new.status,
              low      |-> IF new.low = was.low THEN row.low ELSE new.low,
              high     |-> IF new.high = was.high THEN row.high ELSE new.high,
              attached |-> IF new.attached = was.attached THEN row.attached ELSE new.attached]
<1>1. DOMAIN row = LedgerColumns  BY DEF LedgerRow, LedgerColumns
<1> QED BY <1>1 DEF Merged, LedgerColumns

(* What a commit makes of the row, by the operation that was asked.        *)
LEMMA StoreIsNarrow ==
  ASSUME LedgersInv, NEW e \in Editors, Store(e)
  PROVE  LET edit == editing[e] IN
         /\ record' \in LedgerRow
         /\ edit.op = "create" /\ record # NoRecord => record' = record
         /\ edit.op = "move" => record'.status = edit.new.status
         /\ edit.op = "attach" => record'.attached
         /\ edit.op \in {"band", "attach"} => record'.status = record.status
         /\ edit.op \in {"move", "band"} => record'.attached = record.attached
         /\ edit.op \in {"move", "attach"} =>
              record'.low = record.low /\ record'.high = record.high
<1> DEFINE edit == editing[e]
<1>1. /\ EditIsSound(edit) /\ edit \in Edits /\ record \in LedgerRow
      /\ edit.was.attached => record.attached
  BY DEF LedgersInv
<1>2. edit.was \in LedgerRow /\ edit.new \in LedgerRow
  BY <1>1 DEF Edits
<1>3. record' = IF Taken(e) THEN record ELSE Merged(record, edit.was, edit.new)
  BY DEF Store
<1> HIDE DEF edit
<1>4. Taken(e) <=> edit.op = "create" /\ record # NoRecord
  BY DEF Taken, edit
<1>5. CASE Taken(e)
  BY <1>1, <1>3, <1>4, <1>5 DEF edit
<1>6. CASE ~Taken(e)
  <2>1. record'
          = [status   |-> IF edit.new.status = edit.was.status THEN record.status ELSE edit.new.status,
             low      |-> IF edit.new.low = edit.was.low THEN record.low ELSE edit.new.low,
             high     |-> IF edit.new.high = edit.was.high THEN record.high ELSE edit.new.high,
             attached |-> IF edit.new.attached = edit.was.attached
                          THEN record.attached ELSE edit.new.attached]
    BY <1>1, <1>2, <1>3, <1>6, MergedColumns
  <2>2. record' \in LedgerRow
    BY <1>1, <1>2, <2>1 DEF LedgerRow
  <2>3. edit.op = "move" =>
          /\ record'.status = edit.new.status /\ record'.attached = record.attached
          /\ record'.low = record.low /\ record'.high = record.high
    BY <1>1, <2>1 DEF EditIsSound, SameBand, SameAttached
  <2>4. edit.op = "band" =>
          record'.status = record.status /\ record'.attached = record.attached
    BY <1>1, <2>1 DEF EditIsSound, SameStatus, SameAttached
  <2>5. edit.op = "attach" =>
          /\ record'.attached /\ record'.status = record.status
          /\ record'.low = record.low /\ record'.high = record.high
    BY <1>1, <2>1 DEF EditIsSound, SameStatus, SameBand
  <2> QED BY <1>4, <1>6, <2>2, <2>3, <2>4, <2>5 DEF edit
<1> QED BY <1>5, <1>6

(* A request that read a row and holds a sound edit keeps the invariant.   *)
LEMMA ReadKeeps ==
  ASSUME LedgersInv, NEW e \in Editors, NEW op, NEW new, Read(e, op, new),
         EditIsSound([op |-> op, was |-> record, new |-> new])
  PROVE  LedgersInv'
<1> DEFINE edit == [op |-> op, was |-> record, new |-> new]
<1>1. edit \in Edits /\ edit.was = record
  BY DEF EditIsSound, Edits, Ops, LedgersInv
<1>2. editing' \in [Editors -> Edits]
  BY <1>1 DEF Read, LedgersInv
<1>3. \A f \in Editors : editing'[f] = IF f = e THEN edit ELSE editing[f]
  BY DEF Read, LedgersInv
<1>4. EditIsSound(edit) OBVIOUS
<1> HIDE DEF edit
<1>5. \A f \in Editors : EditIsSound(editing'[f])
  BY <1>3, <1>4 DEF LedgersInv
<1>6. record' = record /\ ledger' = ledger
  BY DEF Read
<1>7. \A f \in Editors : editing'[f].was.attached => record'.attached
  BY <1>1, <1>3, <1>6 DEF LedgersInv
<1> QED BY <1>2, <1>5, <1>6, <1>7 DEF LedgersInv, EditIsSound

LEMMA StoreKeeps ==
  ASSUME LedgersInv, NEW e \in Editors, Store(e) PROVE LedgersInv'
<1> DEFINE edit == editing[e]
<1>1. EditIsSound(edit) /\ edit \in Edits
  BY DEF LedgersInv
<1>2. \A f \in Editors : editing'[f] = IF f = e THEN NoEdit ELSE editing[f]
  BY DEF Store, LedgersInv
<1>3. editing' \in [Editors -> Edits]
  BY NoRecordIsRow DEF Store, LedgersInv
<1>4. \A f \in Editors : EditIsSound(editing'[f])
  BY <1>2, NoRecordIsRow DEF LedgersInv
<1>5. record' \in LedgerRow
  BY StoreIsNarrow
<1>6. record.attached => record'.attached
  <2>1. edit.op # "none"
    BY <1>1 DEF Store, EditIsSound
  <2>2. CASE edit.op = "create"
    BY <2>2, StoreIsNarrow, NoRecordIsRow
  <2>3. CASE edit.op \in {"move", "band", "attach"}
    BY <2>3, StoreIsNarrow
  <2> QED BY <1>1, <2>1, <2>2, <2>3 DEF Edits, Ops
<1>7. \A f \in Editors : editing'[f].was.attached => record'.attached
  <2>1. ~NoEdit.was.attached  BY NoRecordIsRow DEF NoEdit
  <2> QED BY <1>2, <1>6, <2>1 DEF LedgersInv
<1> QED BY <1>3, <1>4, <1>5, <1>7 DEF Store, LedgersInv, EditIsSound

(* One case per handler.                                                   *)
LEMMA EditKeeps ==
  ASSUME LedgersInv, NEW e \in Editors, Edit(e) PROVE LedgersInv'
<1> USE DEF LedgersInv
<1>1. ASSUME NEW s \in StatusesOf, CreateThesis(e, s) \/ CreateHypothesis(e, s)
      PROVE  LedgersInv'
  <2>1. Read(e, "create", [NoRecord EXCEPT !.status = s]) /\ record = NoRecord
    BY <1>1 DEF CreateThesis, CreateHypothesis, MayCreate
  <2>2. [NoRecord EXCEPT !.status = s] \in LedgerRow
    BY <1>1, StatusesAreStrings, StatusReplaced, NoRecordIsRow
  <2>3. EditIsSound([op |-> "create", was |-> record, new |-> [NoRecord EXCEPT !.status = s]])
    BY <2>1, <2>2 DEF EditIsSound, Edits, Ops
  <2> QED BY <2>1, <2>3, ReadKeeps
<1>2. ASSUME NEW s \in StatusesOf, NEW low \in Confidences \cup {Unset},
             NEW high \in Confidences \cup {Unset},
             CreateForwardThesis(e, s, low, high)
      PROVE  LedgersInv'
  <2> DEFINE new == WithBand([NoRecord EXCEPT !.status = s], low, high)
  <2>1. Read(e, "create", new) /\ record = NoRecord
    BY <1>2 DEF CreateForwardThesis, MayCreate
  <2>2. low \in Int /\ high \in Int  BY DEF Unset
  <2>3. s \in AnyStatus  BY StatusesAreStrings
  <2>4. [NoRecord EXCEPT !.status = s] \in LedgerRow
    BY <2>3, StatusReplaced, NoRecordIsRow
  <2>5. new \in LedgerRow  BY <2>2, <2>4, BandReplaced
  <2>6. EditIsSound([op |-> "create", was |-> record, new |-> new])
    BY <2>1, <2>5 DEF EditIsSound, Edits, Ops
  <2> QED BY <2>1, <2>6, ReadKeeps
<1>3. ASSUME NEW s \in StatusesOf,
             \/ UpdateThesisStatus(e, s) \/ UpdateForwardThesisStatus(e, s)
             \/ UpdateHypothesisStatus(e, s)
      PROVE  LedgersInv'
  <2> DEFINE new == [record EXCEPT !.status = s]
  <2>1. Read(e, "move", new) /\ <<record.status, s>> \in Moves
    BY <1>3 DEF UpdateThesisStatus, UpdateForwardThesisStatus,
                UpdateHypothesisStatus, MayMove
  <2>2. s \in AnyStatus /\ s # record.status  BY <2>1, MovesMove
  <2>3. /\ new \in LedgerRow /\ new.status = s
        /\ new.low = record.low /\ new.high = record.high
        /\ new.attached = record.attached
    BY <2>2, StatusReplaced
  <2>4. EditIsSound([op |-> "move", was |-> record, new |-> new])
    BY <2>2, <2>3 DEF EditIsSound, SameBand, SameAttached, Edits, Ops
  <2> HIDE DEF new
  <2> QED BY <2>1, <2>4, ReadKeeps
<1>4. ASSUME NEW low \in Confidences, NEW high \in Confidences,
             UpdateConfidenceBand(e, low, high)
      PROVE  LedgersInv'
  <2> DEFINE new == WithBand(record, low, high)
  <2>1. Read(e, "band", new)  BY <1>4 DEF UpdateConfidenceBand
  <2>2. low \in Int /\ high \in Int  OBVIOUS
  <2>3. /\ new \in LedgerRow /\ new.status = record.status
        /\ new.attached = record.attached
    BY <2>2, BandReplaced
  <2> HIDE DEF new
  <2>4. EditIsSound([op |-> "band", was |-> record, new |-> new])
    BY <2>3 DEF EditIsSound, SameStatus, SameAttached, Edits, Ops
  <2> QED BY <2>1, <2>4, ReadKeeps
<1>5. ASSUME Attach(e) PROVE LedgersInv'
  <2> DEFINE new == [record EXCEPT !.attached = TRUE]
  <2>1. Read(e, "attach", new)  BY <1>5 DEF Attach
  <2>2. /\ new \in LedgerRow /\ new.status = record.status /\ new.attached
        /\ new.low = record.low /\ new.high = record.high
    BY DEF LedgerRow
  <2>3. EditIsSound([op |-> "attach", was |-> record, new |-> new])
    BY <2>2 DEF EditIsSound, SameStatus, SameBand, Edits, Ops
  <2> QED BY <2>1, <2>3, ReadKeeps
<1> QED BY <1>1, <1>2, <1>3, <1>4, <1>5 DEF Edit

LEMMA LedgersInvHolds == LedgersSpec => []LedgersInv
<1>1. LedgersInit => LedgersInv
  <2> SUFFICES ASSUME LedgersInit PROVE LedgersInv  OBVIOUS
  <2>1. ~NoEdit.was.attached  BY NoRecordIsRow DEF NoEdit
  <2> QED BY <2>1, NoRecordIsRow DEF LedgersInit, LedgersInv
<1>2. LedgersInv /\ [LedgersNext]_LedgersVars => LedgersInv'
  <2> SUFFICES ASSUME LedgersInv, [LedgersNext]_LedgersVars PROVE LedgersInv'
    OBVIOUS
  <2>1. CASE UNCHANGED LedgersVars
    BY <2>1 DEF LedgersVars, LedgersInv, EditIsSound
  <2>2. CASE LedgersNext
    BY <2>2, EditKeeps, StoreKeeps DEF LedgersNext
  <2> QED BY <2>1, <2>2
<1> QED BY <1>1, <1>2, PTL DEF LedgersSpec

(* EditsKeepToTheirColumns for any number of requests that overlap: a      *)
(* commit does what was asked, however old the record is that the request  *)
(* has read, and puts no older value back into a column of another         *)
(* operation.                                                              *)
THEOREM EditsAreNarrow == LedgersSpec => EditsKeepToTheirColumns
<1> DEFINE A == \A e \in Editors : Store(e) =>
                  LET edit == editing[e] IN
                  /\ edit.op = "create" /\ record # NoRecord => record' = record
                  /\ edit.op = "move" => record'.status = edit.new.status
                  /\ edit.op = "attach" => record'.attached
                  /\ edit.op \in {"band", "attach"} => record'.status = record.status
                  /\ edit.op \in {"move", "band"} => record'.attached = record.attached
                  /\ edit.op \in {"move", "attach"} =>
                       record'.low = record.low /\ record'.high = record.high
<1>1. LedgersInv => [A]_LedgersVars
  BY StoreIsNarrow
<1>2. EditsKeepToTheirColumns <=> [][A]_LedgersVars
  BY DEF EditsKeepToTheirColumns
<1> HIDE DEF A
<1> QED BY <1>1, <1>2, LedgersInvHolds, PTL

-----------------------------------------------------------------------------
(***************************************************************************)
(* LongTermTeam: a label that constrains is one judgment, for any number   *)
(* of stocks, jobs and requests, whatever the analysts report.             *)
(***************************************************************************)
Stocks == Range(Members)
Dates == 0 .. LastLabelDay
LabelColumns == {"label", "quality", "eligible"}
Values == {NoLabel[f] : f \in LabelColumns} \cup {JudgmentOf(w)[f] : w \in Weeks, f \in LabelColumns}
LabelRow == [LabelColumns -> Values]

Places == {"idle", "judge", "look", "save", "ended"}
SaverType ==
  [at : Places, left : Seq(Stocks),
   verdict : LabelRow, on : Dates, seen : LabelRow]

\* A judgment of a stock that was made on day d and came to row.
Earned(J, m, d, row) == \E j \in J : j.stock = m /\ j.on = d /\ j.verdict = row

\* What a saver brings to its row is a judgment of that stock and that day.
SaverOK(s, J) ==
  /\ s.at \in {"judge", "look", "save"} => s.left # <<>>
  /\ s.at \in {"look", "save"} => Earned(J, Head(s.left), s.on, s.verdict)

TeamInv ==
  /\ DOMAIN labels = Stocks
  /\ \A m \in Stocks : labels[m] \in [Dates -> LabelRow]
  /\ saver \in [Savers -> SaverType]
  /\ date \in Dates
  /\ \A r \in Savers : SaverOK(saver[r], judged)
  /\ \A m \in Stocks, d \in Dates :
       labels[m][d] # NoLabel /\ <<m, d>> \notin mixed => Earned(judged, m, d, labels[m][d])

LEMMA RowsAreRows ==
  /\ NoLabel \in LabelRow
  /\ \A w \in Weeks : JudgmentOf(w) \in LabelRow
<1>1. NoLabel \in LabelRow
  BY DEF NoLabel, LabelRow, LabelColumns, Values
<1>2. ASSUME NEW w \in Weeks PROVE JudgmentOf(w) \in LabelRow
  <2>1. \A f \in LabelColumns : JudgmentOf(w)[f] \in Values
    BY DEF Values
  <2>2. JudgmentOf(w) = [f \in LabelColumns |-> JudgmentOf(w)[f]]
    BY DEF JudgmentOf, LabelColumns
  <2> QED
    BY <2>1, <2>2, Zenon DEF LabelRow
<1> QED
  BY <1>1, <1>2

\* The latest of a set of dates is one of them.
LEMMA LatestIsIn ==
  ASSUME NEW S, S \subseteq Dates, S # {}
  PROVE  Max(S) \in S
<1> DEFINE R == {ss \in Nat \X Nat : ss[1] < ss[2]}
           T == {LastLabelDay - d : d \in S}
<1>0. LastLabelDay \in Nat /\ \A d \in S : d \in Nat /\ LastLabelDay - d \in Nat
  BY LabelsAssumption DEF Dates
<1>1. IsWellFoundedOn(R, Nat)
  BY NatLessThanWellFounded, Zenon DEF OpToRel
<1>2. T \subseteq Nat /\ T # {}
  BY <1>0
<1>3. PICK x \in T : \A y \in T : ~ (<<y, x>> \in R)
  <2> HIDE DEF R, T
  <2> QED
    BY <1>1, <1>2, WFMin
<1>4. PICK e \in S : x = LastLabelDay - e
  OBVIOUS
<1>5. ASSUME NEW d \in S PROVE e >= d
  <2>1. ~ (<<LastLabelDay - d, x>> \in R)
    BY <1>3
  <2>2. LastLabelDay - d < x => <<LastLabelDay - d, x>> \in R
    BY <1>0, <1>4
  <2> QED
    BY <1>0, <1>4, <2>1, <2>2
<1> QED
  BY <1>5 DEF Max

\* An update over the row that it has read writes the whole verdict.
LEMMA WholeWrite ==
  ASSUME NEW r, saver[r].verdict \in LabelRow, saver[r].seen = RowOf(r)
  PROVE  Written(r) = saver[r].verdict
<1>1. DOMAIN NoLabel = LabelColumns
  BY DEF NoLabel, LabelColumns
<1>2. Written(r) = [f \in LabelColumns |-> saver[r].verdict[f]]
  BY <1>1 DEF Written
<1> QED
  BY <1>2 DEF LabelRow

LEMMA WrittenIsRow ==
  ASSUME NEW r, saver[r].verdict \in LabelRow, RowOf(r) \in LabelRow
  PROVE  Written(r) \in LabelRow
<1>1. DOMAIN NoLabel = LabelColumns
  BY DEF NoLabel, LabelColumns
<1> QED
  BY <1>1 DEF Written, LabelRow

LEMMA InitInv == HearingInit /\ LabelsInit => TeamInv
<1> SUFFICES ASSUME LabelsInit PROVE TeamInv
  OBVIOUS
<1>1. NewSaver \in SaverType /\ NewSaver.at = "idle"
  BY RowsAreRows, LabelsAssumption DEF NewSaver, SaverType, Places, Dates
<1>2. 0 \in Dates
  BY LabelsAssumption DEF Dates
<1> QED
  BY <1>1, <1>2, RowsAreRows DEF LabelsInit, TeamInv, SaverOK, Stocks, Dates

\* One field of a saver changes.
LEMMA SaverMoves ==
  ASSUME NEW s \in SaverType
  PROVE  /\ \A x \in Places : LET q == [s EXCEPT !.at = x] IN
              /\ q \in SaverType /\ q.at = x /\ q.left = s.left /\ q.on = s.on
              /\ q.verdict = s.verdict
         /\ \A x \in Seq(Stocks) : LET q == [s EXCEPT !.left = x] IN
              q \in SaverType /\ q.at = s.at /\ q.left = x
         /\ \A x \in LabelRow : LET q == [s EXCEPT !.verdict = x] IN
              q \in SaverType /\ q.at = s.at /\ q.left = s.left /\ q.verdict = x
         /\ \A x \in Dates : LET q == [s EXCEPT !.on = x] IN
              /\ q \in SaverType /\ q.at = s.at /\ q.left = s.left /\ q.on = x
              /\ q.verdict = s.verdict
         /\ \A x \in LabelRow : LET q == [s EXCEPT !.seen = x] IN
              /\ q \in SaverType /\ q.at = s.at /\ q.left = s.left /\ q.on = s.on
              /\ q.verdict = s.verdict
BY DEF SaverType

\* Judgments are only added.
LEMMA EarnedStays ==
  ASSUME NEW J, NEW K, J \subseteq K, NEW m, NEW d, NEW row, Earned(J, m, d, row)
  PROVE  Earned(K, m, d, row)
BY DEF Earned

\* A step that changes one saver and leaves the table.
LEMMA SaverSteps ==
  ASSUME TeamInv, NEW r \in Savers, NEW new \in SaverType, Saver(r, new),
         judged \subseteq judged', UNCHANGED <<labels, mixed>>, SaverOK(new, judged')
  PROVE  TeamInv'
<1>1. saver' \in [Savers -> SaverType] /\ date' = date
  BY DEF TeamInv, Saver
<1>2. ASSUME NEW q \in Savers PROVE SaverOK(saver'[q], judged')
  <2>1. CASE q = r
    BY <2>1, SaverOK(new, judged') DEF TeamInv, Saver
  <2>2. CASE q # r
    <3>1. saver'[q] = saver[q] /\ SaverOK(saver[q], judged)
      BY <2>2 DEF TeamInv, Saver
    <3> QED
      BY <3>1, EarnedStays DEF SaverOK
  <2> QED
    BY <2>1, <2>2
<1>3. ASSUME NEW m \in Stocks, NEW d \in Dates, labels'[m][d] # NoLabel, <<m, d>> \notin mixed'
      PROVE  Earned(judged', m, d, labels'[m][d])
  BY <1>3, EarnedStays DEF TeamInv
<1> QED
  BY <1>1, <1>2, <1>3 DEF TeamInv

LEMMA StartInv ==
  ASSUME TeamInv, NEW r \in Savers, StartSaver(r)
  PROVE  TeamInv'
<1>1. PICK stocks \in {Members} \cup {<<m>> : m \in Stocks} :
        Saver(r, [saver[r] EXCEPT !.at = "judge", !.left = stocks])
  BY DEF StartSaver, Stocks
<1>2. stocks \in Seq(Stocks) /\ stocks # <<>>
  <2>1. CASE stocks = Members
    BY <2>1, MembersAssumption DEF Stocks
  <2>2. CASE \E m \in Stocks : stocks = <<m>>
    BY <2>2
  <2> QED
    BY <2>1, <2>2
<1> DEFINE mid == [saver[r] EXCEPT !.at = "judge"]
           new == [mid EXCEPT !.left = stocks]
<1>3. saver[r] \in SaverType
  BY DEF TeamInv
<1>a. mid \in SaverType /\ mid.at = "judge"
  BY <1>3, SaverMoves DEF Places
<1>7. Saver(r, new)
  BY <1>1
<1> HIDE DEF mid
<1>4. new \in SaverType /\ new.at = "judge" /\ new.left = stocks
  BY <1>2, <1>a, SaverMoves
<1>5. UNCHANGED <<labels, judged, mixed>>
  BY DEF StartSaver
<1> HIDE DEF new
<1>6. SaverOK(new, judged')
  BY <1>2, <1>4 DEF SaverOK
<1> QED
  BY <1>4, <1>5, <1>6, <1>7, SaverSteps

LEMMA JudgeInv ==
  ASSUME TeamInv, NEW r \in Savers, JudgeStock(r)
  PROVE  TeamInv'
<1>1. PICK week \in Weeks :
        /\ Saver(r, [saver[r] EXCEPT !.at = "look", !.verdict = JudgmentOf(week), !.on = date])
        /\ judged' = judged \cup
             {[stock |-> Head(saver[r].left), on |-> date, verdict |-> JudgmentOf(week)]}
  BY DEF JudgeStock
<1> DEFINE verdict == JudgmentOf(week)
<1>2. verdict \in LabelRow
  BY RowsAreRows
<1> HIDE DEF verdict
<1> DEFINE atLook == [saver[r] EXCEPT !.at = "look"]
           judges == [atLook EXCEPT !.verdict = verdict]
           new == [judges EXCEPT !.on = date]
<1>3. saver[r] \in SaverType /\ saver[r].at = "judge" /\ saver[r].left # <<>> /\ date \in Dates
  BY DEF TeamInv, JudgeStock, SaverOK
<1>6. Saver(r, new)
  BY <1>1 DEF verdict
<1>a. atLook \in SaverType /\ atLook.at = "look" /\ atLook.left = saver[r].left
  BY <1>3, SaverMoves DEF Places
<1> HIDE DEF atLook
<1>b. /\ judges \in SaverType /\ judges.at = "look" /\ judges.left = saver[r].left
      /\ judges.verdict = verdict
  BY <1>2, <1>a, SaverMoves
<1> HIDE DEF judges
<1>4. /\ new \in SaverType /\ new.at = "look" /\ new.left = saver[r].left
      /\ new.on = date /\ new.verdict = verdict
  BY <1>3, <1>b, SaverMoves
<1>5. UNCHANGED <<labels, mixed>> /\ judged \subseteq judged'
  BY <1>1 DEF JudgeStock
<1> HIDE DEF new
<1>7. Earned(judged', Head(new.left), new.on, new.verdict)
  <2> DEFINE j == [stock |-> Head(saver[r].left), on |-> date, verdict |-> verdict]
  <2>1. j \in judged'
    BY <1>1 DEF verdict
  <2>2. j.stock = Head(new.left) /\ j.on = new.on /\ j.verdict = new.verdict
    BY <1>4
  <2> HIDE DEF j
  <2> QED
    BY <2>1, <2>2 DEF Earned
<1>8. SaverOK(new, judged')
  BY <1>3, <1>4, <1>7 DEF SaverOK, Earned
<1> QED
  BY <1>4, <1>5, <1>6, <1>8, SaverSteps

\* The row of a saver that looks or saves is in the table.
LEMMA RowInTable ==
  ASSUME TeamInv, NEW r \in Savers, saver[r].at \in {"look", "save"}
  PROVE  /\ saver[r] \in SaverType /\ saver[r].left # <<>>
         /\ Head(saver[r].left) \in Stocks /\ saver[r].on \in Dates /\ RowOf(r) \in LabelRow
         /\ Earned(judged, Head(saver[r].left), saver[r].on, saver[r].verdict)
<1>1. saver[r] \in SaverType /\ saver[r].left # <<>>
      /\ Earned(judged, Head(saver[r].left), saver[r].on, saver[r].verdict)
  BY DEF TeamInv, SaverOK
<1>2. Head(saver[r].left) \in Stocks /\ saver[r].on \in Dates
  BY <1>1 DEF SaverType
<1> QED
  BY <1>1, <1>2 DEF TeamInv, RowOf

LEMMA LookInv ==
  ASSUME TeamInv, NEW r \in Savers, LookForRow(r)
  PROVE  TeamInv'
<1> DEFINE mid == [saver[r] EXCEPT !.at = "save"]
           new == [mid EXCEPT !.seen = RowOf(r)]
<1>1. saver[r] \in SaverType /\ saver[r].left # <<>> /\ RowOf(r) \in LabelRow
      /\ Earned(judged, Head(saver[r].left), saver[r].on, saver[r].verdict)
  BY RowInTable DEF LookForRow
<1>3. Saver(r, new) /\ UNCHANGED <<labels, judged, mixed>>
  BY DEF LookForRow
<1>a. /\ mid \in SaverType /\ mid.at = "save" /\ mid.left = saver[r].left
      /\ mid.on = saver[r].on /\ mid.verdict = saver[r].verdict
  BY <1>1, SaverMoves DEF Places
<1> HIDE DEF mid
<1>2. /\ new \in SaverType /\ new.at = "save" /\ new.left = saver[r].left
      /\ new.on = saver[r].on /\ new.verdict = saver[r].verdict
  BY <1>1, <1>a, SaverMoves
<1> HIDE DEF new
<1>4. SaverOK(new, judged')
  BY <1>1, <1>2, <1>3 DEF SaverOK, Earned
<1> QED
  BY <1>2, <1>3, <1>4, SaverSteps

\* An insert that fails and a job that dies leave the table.
LEMMA EndInv ==
  ASSUME TeamInv, NEW r \in Savers, InsertFails(r) \/ SaverDies(r)
  PROVE  TeamInv'
<1> DEFINE new == [saver[r] EXCEPT !.at = "ended"]
<1>1. new \in SaverType /\ new.at = "ended"
  BY SaverMoves DEF TeamInv, Places
<1>2. Saver(r, new) /\ UNCHANGED <<labels, judged, mixed>>
  BY DEF InsertFails, SaverDies
<1> HIDE DEF new
<1>3. SaverOK(new, judged')
  BY <1>1 DEF SaverOK
<1> QED
  BY <1>1, <1>2, <1>3, SaverSteps

LEMMA SaveInv ==
  ASSUME TeamInv, NEW r \in Savers, SaveLabel(r)
  PROVE  TeamInv'
<1> DEFINE s == Head(saver[r].left)
           on == saver[r].on
           row == Written(r)
           rest == Tail(saver[r].left)
           place == IF rest = <<>> THEN "ended" ELSE "judge"
           mid == [NewSaver EXCEPT !.at = place]
           new == [mid EXCEPT !.left = rest]
<1>1. /\ saver[r] \in SaverType /\ saver[r].left # <<>> /\ s \in Stocks /\ on \in Dates
      /\ RowOf(r) \in LabelRow /\ Earned(judged, s, on, saver[r].verdict)
  BY RowInTable DEF SaveLabel
<1>2. row \in LabelRow
  BY <1>1, WrittenIsRow DEF SaverType
<1>3. RowOf(r) = saver[r].seen => row = saver[r].verdict
  BY <1>1, WholeWrite DEF SaverType
<1>4. /\ labels' = [labels EXCEPT ![s][on] = row]
      /\ mixed' = IF RowOf(r) = saver[r].seen THEN mixed ELSE mixed \cup {<<s, on>>}
      /\ saver' = [saver EXCEPT ![r] = new] /\ UNCHANGED <<date, judged>>
  BY DEF SaveLabel, Saver
<1>5. new \in SaverType /\ SaverOK(new, judged')
  <2>1. rest \in Seq(Stocks)
    BY <1>1 DEF SaverType
  <2>2. NewSaver \in SaverType
    BY RowsAreRows, LabelsAssumption DEF NewSaver, SaverType, Places, Dates
  <2>5. place \in Places /\ place \notin {"look", "save"} /\ (place = "judge" => rest # <<>>)
    BY DEF Places
  <2> HIDE DEF place
  <2>3. mid \in SaverType /\ mid.at = place
    BY <2>2, <2>5, SaverMoves
  <2> HIDE DEF mid, rest
  <2>4. new \in SaverType /\ new.at = place /\ new.left = rest
    BY <2>1, <2>3, SaverMoves
  <2> QED
    BY <2>4, <2>5 DEF SaverOK
<1> HIDE DEF new, mid, row, s, on
<1>6. /\ DOMAIN labels' = Stocks
      /\ \A m \in Stocks : labels'[m] \in [Dates -> LabelRow]
      /\ \A m \in Stocks, d \in Dates :
           labels'[m][d] = IF m = s /\ d = on THEN row ELSE labels[m][d]
  BY <1>1, <1>2, <1>4 DEF TeamInv
<1>7. saver' \in [Savers -> SaverType] /\ date' \in Dates
  BY <1>4, <1>5 DEF TeamInv
<1>8. ASSUME NEW q \in Savers PROVE SaverOK(saver'[q], judged')
  <2>1. CASE q = r
    BY <1>4, <1>5, <2>1 DEF TeamInv
  <2>2. CASE q # r
    <3>1. saver'[q] = saver[q] /\ SaverOK(saver[q], judged)
      BY <1>4, <2>2 DEF TeamInv
    <3> QED
      BY <1>4, <3>1 DEF SaverOK, Earned
  <2> QED
    BY <2>1, <2>2
<1>9. ASSUME NEW m \in Stocks, NEW d \in Dates, labels'[m][d] # NoLabel, <<m, d>> \notin mixed'
      PROVE  Earned(judged', m, d, labels'[m][d])
  <2>1. CASE m = s /\ d = on
    <3>1. labels'[m][d] = saver[r].verdict
      BY <1>3, <1>4, <1>6, <1>9, <2>1
    <3> QED
      BY <1>1, <1>4, <2>1, <3>1 DEF Earned, s, on
  <2>2. CASE ~(m = s /\ d = on)
    <3>1. labels'[m][d] = labels[m][d] /\ <<m, d>> \notin mixed
      BY <1>4, <1>6, <1>9, <2>2
    <3> QED
      BY <1>4, <1>9, <3>1 DEF Earned, TeamInv
  <2> QED
    BY <2>1, <2>2
<1> QED
  BY <1>6, <1>7, <1>8, <1>9 DEF TeamInv

LEMMA IdleInv ==
  ASSUME TeamInv, Hear \/ NextDate \/ UNCHANGED TeamVars
  PROVE  TeamInv'
<1>1. UNCHANGED <<labels, saver, judged, mixed>> /\ date' \in Dates
  BY LabelsAssumption DEF Hear, NextDate, TeamVars, TeamInv, Dates
<1> QED
  BY <1>1 DEF TeamInv, SaverOK, Earned

LEMMA StepInv == TeamInv /\ [TeamNext]_TeamVars => TeamInv'
BY StartInv, JudgeInv, LookInv, SaveInv, EndInv, IdleInv DEF TeamNext, KeepingNext

-----------------------------------------------------------------------------
LEMMA InvGivesEarned == TeamInv => BindingIsEarned
<1> SUFFICES ASSUME TeamInv, NEW m \in Stocks, Binds(m), <<m, ActiveDay(m)>> \notin mixed
             PROVE  \E j \in judged :
                      /\ j.stock = m /\ j.verdict = labels[m][ActiveDay(m)]
                      /\ date - j.on <= Ttl
  BY DEF BindingIsEarned, Stocks
<1>1. Unexpired(m) \subseteq Dates /\ Unexpired(m) # {}
  BY DEF Unexpired, Binds, Dates
<1>2. ActiveDay(m) \in Unexpired(m)
  BY <1>1, LatestIsIn DEF ActiveDay
<1> DEFINE d == ActiveDay(m)
<1>3. d \in Dates /\ labels[m][d] # NoLabel /\ d + Ttl >= date
  BY <1>1, <1>2 DEF Unexpired
<1> HIDE DEF d
<1>4. PICK j \in judged : j.stock = m /\ j.on = d /\ j.verdict = labels[m][d]
  BY <1>3 DEF TeamInv, Earned, d
<1>5. date - j.on <= Ttl
  BY <1>3, <1>4, LabelsAssumption DEF TeamInv, Dates
<1> QED
  BY <1>4, <1>5 DEF d

(* Whatever the analysts report and however jobs and requests overlap, die *)
(* or lose an insert, a label that binds the batch is one judgment of that *)
(* stock, as a whole, not older than Ttl days; but for a row that two      *)
(* savers wrote at the same time.                                          *)
THEOREM BindingEarned == TeamSpec => []BindingIsEarned
<1>1. HearingInit /\ LabelsInit => TeamInv
  BY InitInv
<1>2. TeamInv /\ [TeamNext]_TeamVars => TeamInv'
  BY StepInv
<1>3. TeamInv => BindingIsEarned
  BY InvGivesEarned
<1> QED
  BY <1>1, <1>2, <1>3, PTL DEF TeamSpec

-----------------------------------------------------------------------------
(***************************************************************************)
(* LongTermTeam: from four reports to one label, for any figures that the  *)
(* reports are made of.                                                    *)
(***************************************************************************)
LEMMA NearestIsNumber ==
  ASSUME NEW n \in Int, NEW d \in Nat \ {0}
  PROVE  Nearest(n, d) \in Int
BY DEF Nearest

LEMMA NearestIsMonotone ==
  ASSUME NEW m \in Int, NEW n \in Int, m <= n, NEW d \in Nat \ {0}
  PROVE  Nearest(m, d) <= Nearest(n, d)
<1>1. PICK p \in Int, q \in Int, e \in Nat : e = 2 * d /\ p = 2 * m + d /\ q = 2 * n + d
  OBVIOUS
<1>2. e > 0 /\ p <= q
  BY <1>1
<1>3. PICK x \in Int, y \in Int : x = p \div e /\ y = q \div e
  BY <1>2
<1>4. e * x <= p /\ q < e * (y + 1)
  BY <1>2, <1>3
<1>5. e * x < e * (y + 1)
  BY <1>2, <1>4
<1>6. x < y + 1
  <2> SUFFICES ASSUME x >= y + 1 PROVE FALSE
    OBVIOUS
  <2>1. e * x >= e * (y + 1)
    BY <1>2
  <2>2. e * x \in Int /\ e * (y + 1) \in Int
    OBVIOUS
  <2>3. QED
    BY <1>5, <2>1, <2>2
<1>7. QED
  BY <1>1, <1>3, <1>6 DEF Nearest

LEMMA WithinIsNumber ==
  ASSUME NEW n \in Int, NEW b \in Nat
  PROVE  Within(n, b) \in Int
BY DEF Within

LEMMA FieldsAreFinite == ASSUME NEW K \in SUBSET Fields PROVE IsFiniteSet(K)
<1>1. Fields = ({"profit"} \cup {"revenue"}) \cup {"roe"}
  BY DEF Fields
<1>2. IsFiniteSet(Fields)
  BY <1>1, FS_Singleton, FS_Union
<1>3. QED
  BY <1>2, FS_Subset

LEMMA RolesAre == RoleSet = {"track", "quality", "boom", "flow"} /\ IsFiniteSet(RoleSet)
<1>1. DOMAIN Roles = 1 .. 4
  BY DEF Roles
<1>2. Roles[1] = "track" /\ Roles[2] = "quality" /\ Roles[3] = "boom" /\ Roles[4] = "flow"
  BY DEF Roles
<1>3. 1 .. 4 = {1, 2, 3, 4}
  OBVIOUS
<1>4. RoleSet = {"track", "quality", "boom", "flow"}
  BY <1>1, <1>2, <1>3 DEF RoleSet
<1>5. RoleSet = (({"track"} \cup {"quality"}) \cup {"boom"}) \cup {"flow"}
  BY <1>4
<1>6. IsFiniteSet(RoleSet)
  BY <1>5, FS_Singleton, FS_Union
<1>7. QED
  BY <1>4, <1>6

\* The scores are numbers, whatever an analyst reports.
LEMMA NoPeersIsNumber ==
  ASSUME NEW delta \in Known(Deltas)
  PROVE  ScoreNoPeers(delta) \in Int
<1>1. PICK K \in SUBSET Fields : delta \in [K -> Deltas]
  BY DEF Known
<1>2. DOMAIN delta = K /\ IsFiniteSet(K)
  BY <1>1, FieldsAreFinite
<1> DEFINE part == [k \in DOMAIN delta |->
                 CASE k = "profit" -> Within(delta[k] * 10, 500)
                   [] k = "revenue" -> Within(delta[k] * 6, 300)
                   [] k = "roe" -> Within(delta[k] * 50, 200)]
<1>3. part \in [K -> Int]
  <2>1. ASSUME NEW k \in K PROVE part[k] \in Int
    <3>1. delta[k] \in Int /\ k \in {"profit", "revenue", "roe"}
      BY <1>1, ReportsAssumption DEF Fields
    <3>2. delta[k] * 10 \in Int /\ delta[k] * 6 \in Int /\ delta[k] * 50 \in Int
      BY <3>1
    <3>3. /\ Within(delta[k] * 10, 500) \in Int /\ Within(delta[k] * 6, 300) \in Int
          /\ Within(delta[k] * 50, 200) \in Int
      BY <3>2 DEF Within
    <3>4. QED
      BY <1>2, <3>1, <3>3
  <2>2. QED
    BY <1>2, <2>1
<1> HIDE DEF part
<1>4. SumFunction(part) \in Int
  BY <1>2, <1>3, SumIsNumber
<1>5. K # {} => Cardinality(K) \in Nat \ {0}
  BY <1>2, FS_CardinalityType, FS_EmptySet
<1>6. K # {} => Nearest(SumFunction(part), Cardinality(K)) \in Int
  BY <1>4, <1>5, NearestIsNumber
<1>7. ScoreNoPeers(delta) = IF K = {} THEN 0 ELSE Nearest(SumFunction(part), Cardinality(K))
  BY <1>2 DEF ScoreNoPeers, part
<1>8. QED
  BY <1>6, <1>7

LEMMA WithPeersIsNumber ==
  ASSUME NEW delta, NEW pctile \in Known(Pctiles),
         DOMAIN pctile = {} => ScoreNoPeers(delta) \in Int
  PROVE  ScoreWithPeers(delta, pctile) \in Int
<1>1. PICK K \in SUBSET Fields : pctile \in [K -> Pctiles]
  BY DEF Known
<1>2. DOMAIN pctile = K /\ IsFiniteSet(K)
  BY <1>1, FieldsAreFinite
<1> DEFINE weighted == [k \in DOMAIN pctile |-> pctile[k] * FieldWeight(k)]
           weight == [k \in DOMAIN pctile |-> FieldWeight(k)]
<1>3. weighted \in [K -> Int] /\ weight \in [K -> Nat \ {0}]
  <2>1. ASSUME NEW k \in K PROVE FieldWeight(k) \in Nat \ {0} /\ pctile[k] * FieldWeight(k) \in Int
    <3>1. pctile[k] \in Int
      <4>1. pctile[k] \in Pctiles
        BY <1>1
      <4>2. Pctiles \subseteq Int
        BY ReportsAssumption
      <4>3. QED
        BY <4>1, <4>2
    <3>2. FieldWeight(k) \in Nat \ {0}
      BY DEF FieldWeight
    <3>3. QED
      BY <3>1, <3>2
  <2>2. QED
    BY <1>2, <2>1
<1> HIDE DEF weighted, weight
<1>4. SumFunction(weighted) * 20 \in Int
  BY <1>2, <1>3, SumIsNumber
<1>5. K # {} => SumFunction(weight) \in Nat \ {0}
  BY <1>2, <1>3, SumIsPositive
<1>6. K # {} => Nearest(SumFunction(weighted) * 20, SumFunction(weight)) - 1000 \in Int
  <2>1. ASSUME K # {} PROVE Nearest(SumFunction(weighted) * 20, SumFunction(weight)) \in Int
    BY <1>4, <1>5, <2>1, NearestIsNumber
  <2>2. QED
    BY <2>1
<1>7. ScoreWithPeers(delta, pctile) =
        IF K = {} THEN ScoreNoPeers(delta)
        ELSE Nearest(SumFunction(weighted) * 20, SumFunction(weight)) - 1000
  BY <1>2 DEF ScoreWithPeers, weighted, weight
<1>8. QED
  BY <1>2, <1>6, <1>7

LEMMA BoomIsNumber ==
  ASSUME NEW delta, NEW pctile, NEW turned, ScoreWithPeers(delta, pctile) \in Int
  PROVE  BoomReport(delta, pctile, turned).score \in Int
<1>1. PICK bonus \in Int : bonus = (IF "profit" \in turned THEN 200 ELSE 0)
                                   + (IF "revenue" \in turned THEN 100 ELSE 0)
  OBVIOUS
<1>2. Within(ScoreWithPeers(delta, pctile) + bonus, 1000) \in Int
  BY WithinIsNumber
<1>3. BoomReport(delta, pctile, turned).score = Within(ScoreWithPeers(delta, pctile) + bonus, 1000)
  BY <1>1 DEF BoomReport
<1>4. QED
  BY <1>2, <1>3

\* Nothing known, as a function of no fields.
LEMMA NothingKnown == DOMAIN <<>> = {} /\ \A S : <<>> \in Known(S)
<1>1. DOMAIN <<>> = {}
  OBVIOUS
<1>2. ASSUME NEW S PROVE <<>> \in [{} -> S]
  BY <1>1
<1>3. QED
  BY <1>1, <1>2 DEF Known

LEMMA ScoresAreNumbers ==
  ASSUME NEW role \in RoleSet, NEW rep \in ReportsOf(role)
  PROVE  rep.score \in Int
<1>1. Unheard.score \in Int /\ Nothing.score \in Int
  BY DEF Unheard, Nothing
<1>2. CASE rep \in TrackReports
  <2>1. ASSUME NEW s \in TrackScores, NEW v, NEW t, NEW h, rep = TrackReport(s, v, t, h)
        PROVE  rep.score \in Int
    <3>1. s \in Int
      BY ReportsAssumption
    <3>2. rep.score = s * 10
      BY <2>1 DEF TrackReport
    <3>3. QED
      BY <3>1, <3>2
  <2>2. QED
    BY <1>1, <1>2, <2>1 DEF TrackReports
<1>3. CASE rep \in QualityReports
  <2>1. ASSUME NEW f \in FScores, rep = QualityReport(f) PROVE rep.score \in Int
    <3>1. (2 * f - 9) * 1000 \in Int
      BY ReportsAssumption
    <3>2. rep.score = Nearest((2 * f - 9) * 1000, 9)
      BY <2>1 DEF QualityReport
    <3>3. QED
      BY <3>1, <3>2, NearestIsNumber
  <2>2. QED
    BY <1>1, <1>3, <2>1 DEF QualityReports
<1>4. CASE rep \in BoomReports
  <2>1. ASSUME NEW d \in Known(Deltas), NEW t PROVE BoomReport(d, <<>>, t).score \in Int
    <3>1. ScoreWithPeers(d, <<>>) \in Int
      BY NoPeersIsNumber, WithPeersIsNumber, NothingKnown
    <3>2. QED
      BY <3>1, BoomIsNumber
  <2>2. ASSUME NEW p \in Known(Pctiles), NEW t PROVE BoomReport(<<>>, p, t).score \in Int
    <3>1. ScoreNoPeers(<<>>) \in Int
      BY NoPeersIsNumber, NothingKnown
    <3>2. ScoreWithPeers(<<>>, p) \in Int
      BY <3>1, WithPeersIsNumber
    <3>3. QED
      BY <3>2, BoomIsNumber
  <2>3. QED
    BY <1>1, <1>4, <2>1, <2>2 DEF BoomReports
<1>5. CASE rep \in FlowReports
  <2>1. ASSUME NEW history PROVE FlowReport(history).score \in Int
    <3>1. CASE TriggersAvoid(history)
      <4>1. FlowReport(history).score = -700
        BY <3>1 DEF FlowReport
      <4>2. QED
        BY <4>1
    <3>2. CASE ~TriggersAvoid(history)
      BY <1>1, <3>2 DEF FlowReport
    <3>3. QED
      BY <3>1, <3>2
  <2>2. QED
    BY <1>1, <1>5, <2>1 DEF FlowReports
<1>6. QED
  BY <1>2, <1>3, <1>4, <1>5, RolesAre DEF ReportsOf

-----------------------------------------------------------------------------
\* What an analyst's reports weigh on the label.
LEMMA WeightsArePositive ==
  ASSUME NEW role PROVE Weight(role) \in Nat \ {0}
BY DEF Weight

LEMMA HeardIsFinite ==
  ASSUME NEW rs PROVE IsFiniteSet(Heard(rs)) /\ Heard(rs) \subseteq RoleSet
<1>1. Heard(rs) \subseteq RoleSet
  BY DEF Heard
<1>2. QED
  BY <1>1, RolesAre, FS_Subset

\* Two hearings that differ in one report, which is worse in the second.
Worsens(rs, ws, role) ==
  /\ Heard(ws) = Heard(rs) /\ role \in Heard(rs)
  /\ \A r \in RoleSet : rs[r].score \in Int /\ ws[r].score \in Int
  /\ \A r \in RoleSet : r # role => ws[r] = rs[r]
  /\ NoBetter(ws[role], rs[role])

LEMMA ScoreIsMonotone ==
  ASSUME NEW rs, NEW ws, NEW role, Worsens(rs, ws, role)
  PROVE  /\ AggregateScore(rs) \in Int /\ AggregateScore(ws) \in Int
         /\ AggregateScore(ws) <= AggregateScore(rs)
<1> DEFINE H == Heard(rs)
           mine == [r \in H |-> rs[r].score * Weight(r)]
           theirs == [r \in H |-> ws[r].score * Weight(r)]
           weight == [r \in H |-> Weight(r)]
<1>1. H # {} /\ IsFiniteSet(H) /\ H \subseteq RoleSet /\ role \in H
  BY HeardIsFinite DEF Worsens
<1>2. \A r \in H : rs[r].score \in Int /\ ws[r].score \in Int
  BY <1>1 DEF Worsens
<1>3. mine \in [H -> Int] /\ theirs \in [H -> Int] /\ weight \in [H -> Nat \ {0}]
  <2>1. ASSUME NEW r \in H
        PROVE  /\ rs[r].score * Weight(r) \in Int /\ ws[r].score * Weight(r) \in Int
               /\ Weight(r) \in Nat \ {0}
    BY <1>2, WeightsArePositive
  <2> HIDE DEF H
  <2>2. QED
    BY <2>1
<1>4. theirs[role] <= mine[role]
  <2>1. rs[role].score \in Int /\ ws[role].score \in Int /\ ws[role].score <= rs[role].score
    BY <1>1, <1>2 DEF Worsens, NoBetter
  <2>2. Weight(role) \in Nat \ {0}
    BY WeightsArePositive
  <2>3. ws[role].score * Weight(role) <= rs[role].score * Weight(role)
    BY <2>1, <2>2
  <2> HIDE DEF H
  <2>4. QED
    BY <1>1, <2>3
<1>5. \A r \in H : r # role => mine[r] = theirs[r]
  <2>1. \A r \in H : r # role => ws[r] = rs[r]
    BY <1>1 DEF Worsens
  <2> HIDE DEF H
  <2>2. QED
    BY <2>1
<1>6. /\ AggregateScore(rs) = Nearest(SumFunction(mine), SumFunction(weight))
      /\ AggregateScore(ws) = Nearest(SumFunction(theirs), SumFunction(weight))
  <2>1. Heard(ws) = Heard(rs) /\ Heard(rs) # {}
    BY <1>1 DEF Worsens
  <2>2. QED
    BY <2>1 DEF AggregateScore
<1> HIDE DEF H, mine, theirs, weight
<1>7. SumFunction(mine) \in Int /\ SumFunction(theirs) \in Int /\ SumFunction(weight) \in Nat \ {0}
  BY <1>1, <1>3, SumIsNumber, SumIsPositive
<1>8. SumFunction(theirs) <= SumFunction(mine)
  <2>1. SumFunction(mine) = SumOver(mine, H) /\ SumFunction(theirs) = SumOver(theirs, H)
    BY <1>3, SumOfFunction
  <2>2. \A r \in H : mine[r] \in Int /\ theirs[r] \in Int
    BY <1>3
  <2>3. SumOver(theirs, H) = SumOver(mine, H) + (theirs[role] - mine[role])
    BY <1>1, <1>5, <2>2, SumChanged
  <2>4. mine[role] \in Int /\ theirs[role] \in Int
    BY <1>1, <2>2
  <2>5. QED
    BY <1>4, <1>7, <2>1, <2>3, <2>4
<1>9. /\ Nearest(SumFunction(mine), SumFunction(weight)) \in Int
      /\ Nearest(SumFunction(theirs), SumFunction(weight)) \in Int
  BY <1>7, NearestIsNumber
<1>10. Nearest(SumFunction(theirs), SumFunction(weight)) <=
         Nearest(SumFunction(mine), SumFunction(weight))
  BY <1>7, <1>8, NearestIsMonotone
<1>11. QED
  BY <1>6, <1>9, <1>10

LEMMA VetoesRemain ==
  ASSUME NEW rs, NEW ws, NEW role, Worsens(rs, ws, role)
  PROVE  /\ Refuses(rs) => Refuses(ws)
         /\ rs["track"].timing = "wait" => ws["track"].timing = "wait" \/ Refuses(ws)
<1>1. role \in RoleSet
  BY HeardIsFinite DEF Worsens
<1>2. \A r \in RoleSet : r # role => ws[r] = rs[r]
  BY DEF Worsens
<1>3. rs[role].vote = "avoid" => ws[role].vote = "avoid"
  BY DEF Worsens, NoBetter
<1>4. Haste(ws[role].timing) <= Haste(rs[role].timing)
  BY DEF Worsens, NoBetter
<1>5. /\ rs[role].timing = "avoid" => ws[role].timing = "avoid"
      /\ rs[role].timing = "wait" => ws[role].timing \in {"wait", "avoid"}
  BY <1>4 DEF Haste
<1>6. "track" \in RoleSet
  BY RolesAre
<1>7. (\E r \in RoleSet : rs[r].vote = "avoid") => \E r \in RoleSet : ws[r].vote = "avoid"
  BY <1>1, <1>2, <1>3
<1>8. /\ rs["track"].timing = "avoid" => ws["track"].timing = "avoid"
      /\ rs["track"].timing = "wait" => ws["track"].timing \in {"wait", "avoid"}
  BY <1>2, <1>5, <1>6
<1>9. QED
  BY <1>7, <1>8 DEF Refuses

LEMMA LabelIsMonotone ==
  ASSUME NEW rs, NEW ws, NEW role, Worsens(rs, ws, role)
  PROVE  Merit(LabelOf(ws)) <= Merit(LabelOf(rs))
<1>1. PICK a \in Int, b \in Int : a = AggregateScore(rs) /\ b = AggregateScore(ws) /\ b <= a
  BY ScoreIsMonotone
<1>2. LabelOf(rs) = ResolveLabel(a, rs) /\ LabelOf(ws) = ResolveLabel(b, ws)
  BY <1>1 DEF LabelOf
<1>3. \A x : \A n \in Int :
        /\ Refuses(x) \/ n < -200 => Merit(ResolveLabel(n, x)) = 0
        /\ ~Refuses(x) /\ n >= -200 /\ n < 300 => Merit(ResolveLabel(n, x)) = 1
        /\ ~Refuses(x) /\ n >= 300 /\ n < 500 => Merit(ResolveLabel(n, x)) = 2
        /\ ~Refuses(x) /\ n >= 500 =>
             Merit(ResolveLabel(n, x)) = IF x["track"].timing = "wait" THEN 2 ELSE 3
  BY DEF ResolveLabel, Merit
<1>4. /\ Refuses(rs) => Refuses(ws)
      /\ rs["track"].timing = "wait" => ws["track"].timing = "wait" \/ Refuses(ws)
  BY VetoesRemain
<1>5. QED
  BY <1>1, <1>2, <1>3, <1>4

\* The reports are those that the analysts can make.
ReportsInv == DOMAIN reports = RoleSet /\ \A role \in RoleSet : reports[role] \in ReportsOf(role)

(* A worse report of one analyst that is heard both times never gives a    *)
(* stock a better label: over the weighted mean, its rounding, the vetoes, *)
(* the timing and the thresholds, for any answers of the language model    *)
(* and any figures (team.py).                                              *)
THEOREM NoLiftByWorse == TeamSpec => []WorseReportsNeverLift
<1>1. HearingInit /\ LabelsInit => ReportsInv
  <2>1. \A role \in RoleSet : Unheard \in ReportsOf(role)
    BY RolesAre DEF ReportsOf, TrackReports, QualityReports, BoomReports, FlowReports
  <2>2. QED
    BY <2>1 DEF HearingInit, AllUnheard, ReportsInv
<1>2. ReportsInv /\ [TeamNext]_TeamVars => ReportsInv'
  <2> SUFFICES ASSUME ReportsInv, [TeamNext]_TeamVars PROVE ReportsInv'
    OBVIOUS
  <2>1. CASE Hear
    <3>1. PICK rep \in ReportsOf(Head(toHear)) :
            reports' = [reports EXCEPT ![Head(toHear)] = rep]
      BY <2>1 DEF Hear
    <3>2. QED
      BY <3>1 DEF ReportsInv
  <2>2. CASE KeepingNext
    <3>1. reports' = reports
      BY <2>2 DEF KeepingNext, StartSaver, JudgeStock, LookForRow, SaveLabel, InsertFails,
                  SaverDies, NextDate, Saver
    <3>2. QED
      BY <3>1 DEF ReportsInv
  <2>3. CASE UNCHANGED TeamVars
    BY <2>3 DEF TeamVars, ReportsInv
  <2>4. QED
    BY <2>1, <2>2, <2>3 DEF TeamNext
<1>3. ReportsInv => WorseReportsNeverLift
  <2> SUFFICES ASSUME ReportsInv, NEW role \in Heard(reports), NEW worse \in ReportsOf(role),
                      worse.conf >= 1, NoBetter(worse, reports[role])
               PROVE  Merit(LabelOf([reports EXCEPT ![role] = worse])) <= Merit(LabelOf(reports))
    BY DEF WorseReportsNeverLift
  <2>1. PICK ws : ws = [reports EXCEPT ![role] = worse]
    OBVIOUS
  <2>2. role \in RoleSet
    BY HeardIsFinite
  <2>3. ws[role] = worse /\ \A r \in RoleSet : r # role => ws[r] = reports[r]
    BY <2>1, <2>2 DEF ReportsInv
  <2>4. Heard(ws) = Heard(reports)
    BY <2>3 DEF Heard
  <2>5. \A r \in RoleSet : reports[r].score \in Int /\ ws[r].score \in Int
    BY <2>2, <2>3, ScoresAreNumbers DEF ReportsInv
  <2>6. Worsens(reports, ws, role)
    BY <2>3, <2>4, <2>5 DEF Worsens
  <2>7. QED
    BY <2>1, <2>6, LabelIsMonotone
<1>4. QED
  BY <1>1, <1>2, <1>3, PTL DEF TeamSpec
=============================================================================

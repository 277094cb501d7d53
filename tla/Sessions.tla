------------------------------ MODULE Sessions ------------------------------
(***************************************************************************)
(* What a worker remembers of its conversations: the SDK session, the      *)
(* continuation that opens the next one, the transcript, the history file  *)
(* that survives the container and the daily memory; the stop of a query,  *)
(* the split of a session, clear context, shutdown, crash and restart.     *)
(*                                                                         *)
(* A conversation is followed turn by turn (a user message and what was    *)
(* answered), and a text by the set of turns it tells.  Turns are numbered *)
(* in the order of table messages.                                         *)
(***************************************************************************)
EXTENDS Naturals, Sequences, FiniteSetsExt, Functions

CONSTANTS
  Threads,      \* conversations other than the web page's
  Web,          \* _DEFAULT_CONV
  HistoryWindow,\* session_history_window_size, in turns
  MaxTurns      \* bound: turns in all conversations

ASSUME SessionsConstantsOK ==
  Web \notin Threads /\ HistoryWindow \in Nat \ {0} /\ MaxTurns \in Nat

VARIABLES
  worker,       \* what the container does, and for which turn
  session,      \* per conversation, the turns the SDK session has seen, {} without session
  continuation, \* per conversation, the turns told by _continuations
  transcript,   \* per conversation, _transcripts
  saved,        \* per conversation, the file under session_history/
  memory,       \* turns told by the daily memory
  log,          \* table messages: the conversation of each turn
  hidden,       \* turns whose messages have visibility 'hidden'
  cancel,       \* cancel.json is there
  clearing,     \* the command clear_context is queued
  recorded,     \* history: turns that came to an end and were put in a transcript
  cleared,      \* history: turns hidden and cleared
  forgiven      \* history: turns that may be lost, see Forgive

sessionVars == <<worker, session, continuation, transcript, saved, memory, log, hidden,
                 cancel, clearing, recorded, cleared, forgiven>>

Conversations == Threads \cup {Web}
Turns == 1..MaxTurns
TurnsOf(c) == {t \in 1..Len(log) : log[t] = c}
Doing(what) == worker.at = what
Recent(turns) == SubSeq(turns, IF Len(turns) > HistoryWindow THEN Len(turns) - HistoryWindow + 1 ELSE 1,
                        Len(turns))
\* What the next query of a conversation is told.
Known(c) == session[c] \cup continuation[c]
Of(c, text) == [d \in Conversations |-> IF d = c THEN text ELSE {}]

SessionInit ==
  /\ worker = [at |-> "down", turn |-> 0]
  /\ session = [c \in Conversations |-> {}] /\ continuation = session
  /\ transcript = [c \in Conversations |-> <<>>] /\ saved = transcript
  /\ memory = {} /\ log = <<>> /\ hidden = {} /\ cancel = FALSE /\ clearing = FALSE
  /\ recorded = {} /\ cleared = {} /\ forgiven = {}

------------------------------------------------------------------------------
\* The turns of a set, the oldest first.
InOrder(turns) == CHOOSE s \in [1..Cardinality(turns) -> turns] :
                    \A i, j \in DOMAIN s : i < j => s[i] < s[j]

\* the hidden ones, too
VisibleOrHidden == Recent(InOrder(1..Len(log)))

\* The last messages of the agent that are visible, whatever their conversation.
Visible == Recent(InOrder((1..Len(log)) \ hidden))

\* spawn_container seeds session_history.json with them, and the worker that starts takes
\* them for the web conversation, then loads the files of session_history/ over them.
StartWorker ==
  /\ Doing("down")
  /\ transcript' = [c \in Conversations |->
       IF c = Web /\ saved[c] = <<>> THEN Visible ELSE saved[c]]
  /\ continuation' = [c \in Conversations |-> Range(transcript'[c])]
  /\ session' = [c \in Conversations |-> {}]
  /\ cancel' = FALSE
  /\ worker' = [at |-> "idle", turn |-> 0]
  /\ UNCHANGED <<saved, memory, log, hidden, clearing, recorded, cleared, forgiven>>

\* A message is taken from input.json and run_query is called.
StartQuery(c) ==
  /\ Doing("idle") /\ Len(log) < MaxTurns
  /\ log' = Append(log, c)
  /\ worker' = [at |-> "query", turn |-> Len(log')]
  /\ UNCHANGED <<session, continuation, transcript, saved, memory, hidden, cancel, clearing,
                 recorded, cleared, forgiven>>

\* the file is written before the turn is in the transcript
RecordLate(c, t) ==
  /\ transcript' = [transcript EXCEPT ![c] = Append(@, t)]
  /\ saved' = [saved EXCEPT ![c] = Recent(transcript[c])]
  /\ recorded' = recorded \cup {t}
  /\ hidden' = hidden \ {t}

\* The turn goes to the transcript and the last turns of it to the file.
Record(c, t) ==
  /\ transcript' = [transcript EXCEPT ![c] = Append(@, t)]
  /\ saved' = [saved EXCEPT ![c] = Recent(transcript'[c])]
  /\ recorded' = recorded \cup {t}
  \* its answer is a message of its own, later than a clear of the page
  /\ hidden' = hidden \ {t}

\* The query ends; overflow says that its input tokens passed the threshold.
QueryEnds(overflow) ==
  /\ Doing("query")
  /\ LET t == worker.turn
         c == log[t]
     IN /\ session' = [session EXCEPT ![c] = Known(c) \cup {t}]
        /\ continuation' = [continuation EXCEPT ![c] = {}]
        /\ Record(c, t)
        /\ worker' = IF overflow THEN [worker EXCEPT !.at = "split"] ELSE [at |-> "idle", turn |-> 0]
  /\ UNCHANGED <<memory, log, cancel, clearing, cleared, forgiven>>

\* The query raises: the user is told, and the turn is in no transcript.
QueryFails ==
  /\ Doing("query")
  /\ worker' = [at |-> "idle", turn |-> 0]
  /\ UNCHANGED <<session, continuation, transcript, saved, memory, log, hidden, cancel,
                 clearing, recorded, cleared, forgiven>>

\* _cancel_monitor found cancel.json.
QueryStopped ==
  /\ Doing("query") /\ cancel
  /\ LET t == worker.turn
         c == log[t]
     IN /\ Record(c, t)
        /\ session' = [session EXCEPT ![c] = {}]
        /\ continuation' = [continuation EXCEPT ![c] = Range(saved'[c])]
  /\ cancel' = FALSE
  /\ worker' = [at |-> "idle", turn |-> 0]
  /\ UNCHANGED <<memory, log, clearing, cleared, forgiven>>

\* A history: a summary that was not made leaves only what the window still holds.
Forgive(c, kept) == forgiven' = forgiven \cup (Range(transcript[c]) \ (Range(kept) \cup memory'))

\* _split_session: the summary is written and opens the next session; or it is made but
\* not written; or it is not made, and the next session opens with nothing; or it is
\* written, but not indexed, and the exception leaves session and transcript as they were.
SplitEnds(summary) ==
  /\ Doing("split")
  /\ LET c   == log[worker.turn]
         all == Range(transcript[c])
     IN /\ memory' = IF summary \in {"written", "unindexed"} THEN memory \cup all ELSE memory
        /\ continuation' = IF summary = "none" THEN continuation
                           ELSE [continuation EXCEPT ![c] = all]
        /\ IF summary = "unindexed"
           THEN UNCHANGED <<session, transcript, forgiven>>
           ELSE /\ session' = [session EXCEPT ![c] = {}]
                /\ transcript' = [transcript EXCEPT ![c] = Recent(@)]
                /\ Forgive(c, transcript'[c])
  /\ worker' = [at |-> "idle", turn |-> 0]
  /\ UNCHANGED <<saved, log, hidden, cancel, clearing, recorded, cleared>>

\* "stop_query" of the page, for a worker that is there.
StopQuery ==
  /\ ~Doing("down") /\ ~cancel
  /\ cancel' = TRUE
  /\ UNCHANGED <<worker, session, continuation, transcript, saved, memory, log, hidden,
                 clearing, recorded, cleared, forgiven>>

\* The worker polls and finds no input.json.
IdlePoll ==
  /\ Doing("idle") /\ cancel
  /\ cancel' = FALSE
  /\ UNCHANGED <<worker, session, continuation, transcript, saved, memory, log, hidden,
                 clearing, recorded, cleared, forgiven>>

\* "Clear Context": the page queues the command and asks for the messages to be hidden,
\* which hide_agent_messages does for those without a conversation_id.
ClearContext(reached) ==
  /\ ~clearing /\ clearing' = TRUE
  /\ hidden' = IF reached THEN hidden \cup TurnsOf(Web) ELSE hidden
  /\ UNCHANGED <<worker, session, continuation, transcript, saved, memory, log, cancel,
                 recorded, cleared, forgiven>>

\* The worker handles it, for the web conversation.
ClearSession(summarised) ==
  /\ Doing("idle") /\ clearing
  /\ memory' = IF summarised THEN memory \cup Range(transcript[Web]) ELSE memory
  /\ Forgive(Web, <<>>)
  /\ session' = [session EXCEPT ![Web] = {}]
  /\ continuation' = [continuation EXCEPT ![Web] = {}]
  /\ transcript' = [transcript EXCEPT ![Web] = <<>>]
  /\ saved' = [saved EXCEPT ![Web] = <<>>]
  /\ clearing' = FALSE
  /\ cleared' = cleared \cup (TurnsOf(Web) \cap hidden)
  /\ UNCHANGED <<worker, log, hidden, cancel, recorded>>

\* The command "shutdown": every transcript is summarised, then every one is saved.
Shutdown(summarised) ==
  /\ Doing("idle")
  /\ memory' = memory \cup UNION {Range(transcript[c]) : c \in summarised}
  /\ saved' = [c \in Conversations |->
       IF transcript[c] = <<>> THEN saved[c] ELSE Recent(transcript[c])]
  /\ forgiven' = forgiven \cup
       UNION {Range(transcript[c]) \ (Range(Recent(transcript[c])) \cup memory') : c \in Conversations}
  /\ worker' = [at |-> "down", turn |-> 0]
  /\ UNCHANGED <<session, continuation, transcript, log, hidden, cancel, clearing, recorded,
                 cleared>>

\* The container ends without notice: killed, out of memory, host restarted.
WorkerCrashes ==
  /\ ~Doing("down")
  /\ worker' = [at |-> "down", turn |-> 0]
  /\ forgiven' = forgiven \cup
       UNION {Range(transcript[c]) \ (Range(Recent(transcript[c])) \cup memory) : c \in Conversations}
  /\ UNCHANGED <<session, continuation, transcript, saved, memory, log, hidden, cancel,
                 clearing, recorded, cleared>>

SessionNext ==
  \/ StartWorker \/ QueryFails \/ QueryStopped \/ StopQuery \/ IdlePoll \/ WorkerCrashes
  \/ \E c \in Conversations : StartQuery(c)
  \/ \E b \in BOOLEAN : QueryEnds(b) \/ ClearContext(b) \/ ClearSession(b)
  \/ \E s \in {"written", "made", "none", "unindexed"} : SplitEnds(s)
  \/ \E s \in SUBSET Conversations : Shutdown(s)

SessionSpec == SessionInit /\ [][SessionNext]_sessionVars

------------------------------------------------------------------------------

SessionTypeOK ==
  /\ worker \in [at : {"down", "idle", "query", "split"}, turn : 0..MaxTurns]
  /\ {session, continuation} \subseteq [Conversations -> SUBSET Turns]
  /\ {transcript, saved} \subseteq [Conversations -> Seq(Turns)]
  /\ {memory, hidden, recorded, cleared, forgiven} \subseteq SUBSET Turns
  /\ log \in Seq(Conversations) /\ cancel \in BOOLEAN /\ clearing \in BOOLEAN

\* README.md, Session continuity and Persistent memory.  A turn that ended is in the daily
\* memory, or in a transcript or a file that the worker will summarise: also across
\* splits, stops, restarts and clears, unless the summary that should have told it was
\* not made, or the worker died, when the window had moved past it.
TurnsAreRemembered ==
  \A t \in recorded \ forgiven :
    LET c == log[t] IN
      t \in memory \cup Range(saved[c]) \cup
            IF Doing("down") THEN {} ELSE Range(transcript[c])

\* ARCHITECTURE.md, "the agent starts clean": a turn that was cleared, and whose messages
\* were hidden, comes back neither with the next query nor with a restart; and a thread
\* is never told the turns of another conversation.
ConversationsStayApart ==
  /\ ~Doing("down") => Known(Web) \cap cleared = {}
  /\ \A c \in Threads : Known(c) \cup Range(saved[c]) \subseteq TurnsOf(c)

=============================================================================

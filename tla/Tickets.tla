------------------------------- MODULE Tickets -------------------------------
(***************************************************************************)
(* The ticket database the agents of the quay-sdlc skill share, and the    *)
(* workflows that use it.  An update is two statements of one process,     *)
(* and so is a list with its recovery of stale claims: each command is a   *)
(* step that reads and a step that writes, and commands interleave.  A     *)
(* write and its entry in ticket_log are one transaction.                  *)
(***************************************************************************)
EXTENDS Naturals, Sequences, FiniteSets

CONSTANTS
  Keys,        \* ticket keys
  Workers,     \* agents that run the triager's or the coder's workflow
  Nothing,     \* no command is running
  MaxMoves     \* bound: entries in a ticket's log

ASSUME TicketConstantsOK == MaxMoves \in Nat

Transitions ==     \* VALID_TRANSITIONS
  {<<"new", "triaging">>, <<"triaging", "triaged">>, <<"triaging", "invalid">>,
   <<"triaged", "assigned">>, <<"assigned", "done">>, <<"assigned", "failed">>,
   <<"failed", "triaged">>}

Recoveries == {<<"triaging", "new">>, <<"assigned", "triaged">>}   \* STALE_RECOVERY

Claims == {"triaging", "assigned"}
Status == {"absent"} \cup {move[1] : move \in Transitions} \cup {move[2] : move \in Transitions}

VARIABLES
  status,     \* tickets.status
  stale,      \* is updated_at older than STALE_MINUTES?
  history,    \* ticket_log: pairs of from_status and to_status
  command,    \* of each worker: what the command it runs has read
  holds,      \* of each worker: the tickets it claimed and works on
  recovered   \* history: how often a claim of the ticket was recovered

ticketVars == <<status, stale, history, command, holds, recovered>>

Update  == [do : {"update"}, key : Keys, from : Status, to : Status]
Recover == [do : {"recover"}, rows : SUBSET Keys, from : Status, to : Status]

TicketInit ==
  /\ status = [k \in Keys |-> "absent"] /\ stale = [k \in Keys |-> FALSE]
  /\ history = [k \in Keys |-> <<>>]
  /\ command = [w \in Workers |-> Nothing] /\ holds = [w \in Workers |-> {}]
  /\ recovered = [k \in Keys |-> 0]

\* cmd_add: the scanner inserts the ticket, unless it is known.
AddTicket(k) ==
  /\ status[k] = "absent" /\ MaxMoves > 0
  /\ status' = [status EXCEPT ![k] = "new"]
  /\ history' = [history EXCEPT ![k] = <<<<"absent", "new">>>>]
  /\ UNCHANGED <<stale, command, holds, recovered>>

\* The workflows: a worker claims a ticket when it has none, gives a result for the one
\* it works on, and a failed ticket is tried again on demand.
Asked(w, k, to) ==
  \/ to \in Claims /\ holds[w] = {}
  \/ to \notin Claims /\ k \in holds[w]
  \/ to = "triaged" /\ status[k] = "failed"

\* cmd_update, first half: the status is read, and must allow the transition.  A command
\* that is refused changes nothing; a worker that is told so gives its ticket up.
UpdateReads(w, k, to) ==
  /\ command[w] = Nothing /\ status[k] # "absent" /\ Asked(w, k, to)
  /\ IF <<status[k], to>> \in Transitions
     THEN /\ command' = [command EXCEPT ![w] = [do |-> "update", key |-> k, from |-> status[k], to |-> to]]
          /\ UNCHANGED holds
     ELSE /\ holds' = [holds EXCEPT ![w] = @ \ {k}]
          /\ UNCHANGED command
  /\ UNCHANGED <<status, stale, history, recovered>>

Move(keys, from, to) ==
  /\ \A k \in keys : Len(history[k]) < MaxMoves
  /\ status' = [k \in Keys |-> IF k \in keys THEN to ELSE status[k]]
  /\ stale' = [k \in Keys |-> IF k \in keys THEN FALSE ELSE stale[k]]
  /\ history' = [k \in Keys |-> IF k \in keys THEN Append(history[k], <<from, to>>) ELSE history[k]]

\* UPDATE ... without the status in its WHERE
MatchedAnyhow(c) == {c.key}

Matched(c) == IF status[c.key] = c.from THEN {c.key} ELSE {}

\* cmd_update, second half: UPDATE ... WHERE status = from_status, and the log; or no
\* row matches, and the ticket "was claimed by another agent".
UpdateWrites(w) ==
  /\ command[w] # Nothing /\ command[w].do = "update"
  /\ LET c == command[w] IN
       /\ Move(Matched(c), c.from, c.to)
       /\ holds' = [holds EXCEPT ![w] =
            IF c.to \in Claims /\ Matched(c) # {} THEN @ \cup {c.key} ELSE @ \ {c.key}]
  /\ command' = [command EXCEPT ![w] = Nothing]
  /\ UNCHANGED recovered

\* cmd_list, first half: _recover_stale selects the claims that are stale.
ListReads(w, move) ==
  /\ command[w] = Nothing
  /\ LET rows == {k \in Keys : status[k] = move[1] /\ stale[k]} IN
       /\ rows # {}
       /\ command' = [command EXCEPT ![w] =
            [do |-> "recover", rows |-> rows, from |-> move[1], to |-> move[2]]]
  /\ UNCHANGED <<status, stale, history, holds, recovered>>

\* every row that was selected, whatever became of it
ResetAnyhow(c) == c.rows

Reset(c) == {k \in c.rows : status[k] = c.from}

\* cmd_list, second half: each is reset if its status is still the one that was read;
\* its age is not looked at again.
ListWrites(w) ==
  /\ command[w] # Nothing /\ command[w].do = "recover"
  /\ LET c == command[w]
     IN /\ Move(Reset(c), c.from, c.to)
        /\ recovered' = [k \in Keys |-> IF k \in Reset(c) THEN recovered[k] + 1 ELSE recovered[k]]
  /\ command' = [command EXCEPT ![w] = Nothing]
  /\ UNCHANGED holds

\* Half an hour goes by without a change of the ticket.
GrowsStale(k) ==
  /\ status[k] \in Claims /\ ~stale[k]
  /\ stale' = [stale EXCEPT ![k] = TRUE]
  /\ UNCHANGED <<status, history, command, holds, recovered>>

\* An agent's container ends in the middle of its work, with the command it runs:
\* what that had not committed is rolled back.
WorkerGone(w) ==
  /\ command[w] # Nothing \/ holds[w] # {}
  /\ command' = [command EXCEPT ![w] = Nothing]
  /\ holds' = [holds EXCEPT ![w] = {}]
  /\ UNCHANGED <<status, stale, history, recovered>>

TicketNext ==
  \/ \E k \in Keys : AddTicket(k) \/ GrowsStale(k)
  \/ \E w \in Workers :
       \/ \E k \in Keys, to \in Status : UpdateReads(w, k, to)
       \/ \E move \in Recoveries : ListReads(w, move)
       \/ UpdateWrites(w) \/ ListWrites(w) \/ WorkerGone(w)

TicketSpec == TicketInit /\ [][TicketNext]_ticketVars

------------------------------------------------------------------------------

TicketTypeOK ==
  /\ status \in [Keys -> Status] /\ stale \in [Keys -> BOOLEAN]
  /\ history \in [Keys -> Seq(Status \X Status)]
  /\ command \in [Workers -> Update \cup Recover \cup {Nothing}]
  /\ holds \in [Workers -> SUBSET Keys] /\ recovered \in [Keys -> Nat]

\* quay-sdlc/README.md: "Status transitions are atomic (compare-and-swap) ... The
\* ticket_log table records every transition": the log of a ticket is an unbroken path
\* of allowed moves from its insertion to its status, however commands interleave.
LogIsPath ==
  \A k \in Keys :
    /\ history[k] = <<>> <=> status[k] = "absent"
    /\ history[k] # <<>> =>
         /\ history[k][1] = <<"absent", "new">>
         /\ history[k][Len(history[k])][2] = status[k]
    /\ \A i \in 2..Len(history[k]) :
         /\ history[k][i] \in Transitions \cup Recoveries
         /\ history[k][i][1] = history[k][i - 1][2]

Holders(k) == {w \in Workers : k \in holds[w]}

\* "If two agents try to claim the same ticket, one succeeds and the other gets an
\* error": two work on a ticket, or one on a ticket that is not claimed, only if a claim
\* was recovered under one of them, which db.py, that records no owner, cannot tell it.
ClaimIsExclusive ==
  \A k \in Keys :
    /\ Cardinality(Holders(k)) <= 1 + recovered[k]
    /\ Holders(k) # {} /\ recovered[k] = 0 => status[k] \in Claims

=============================================================================

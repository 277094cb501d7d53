--------------------------- MODULE Services_proofs ---------------------------
(***************************************************************************)
(* Theorems about Tickets and Prompt, for any tickets, workers, logs,      *)
(* sections, allocations and texts; and about the services together: what  *)
(* is proved of each of them alone holds of the instances of MCServices.   *)
(***************************************************************************)
EXTENDS MCServices, SlackPoller_proofs, Memory_proofs, Sessions_proofs, Containers_proofs,
        FiniteSetTheorems, TLAPS

------------------------------------------------------------------------------
(* Tickets.                                                                *)

\* What a worker is about to write is a move the tables allow.
MovesAreAllowed ==
  \A w \in Workers : command[w] # Nothing =>
    /\ command[w] \in Update  => <<command[w].from, command[w].to>> \in Transitions
    /\ command[w] \in Recover => <<command[w].from, command[w].to>> \in Recoveries

\* A result is given for a ticket the worker still works on.
ResultsAreHeld ==
  \A w \in Workers :
    command[w] # Nothing /\ command[w] \in Update /\ command[w].from \in Claims
      => command[w].key \in holds[w]

\* A claimed ticket has room for one worker, and for one more per recovery.
Room(k) == recovered[k] + (IF status[k] \in Claims THEN 1 ELSE 0)

ClaimsAreCounted ==
  \A k \in Keys : IsFiniteSet(Holders(k)) /\ Cardinality(Holders(k)) <= Room(k)

TicketInv == TicketTypeOK /\ MovesAreAllowed /\ ResultsAreHeld /\ ClaimsAreCounted /\ LogIsPath

------------------------------------------------------------------------------
(* The log.                                                                *)

\* A move of tickets that have the status it starts from extends their logs.
LEMMA MoveKeepsPath ==
  ASSUME TicketTypeOK, LogIsPath,
         NEW keys \in SUBSET Keys, NEW from, NEW to,
         \A k \in keys : status[k] = from,
         <<from, to>> \in Transitions \cup Recoveries,
         Move(keys, from, to)
  PROVE  LogIsPath'
<1>1. from \in Status /\ to \in Status /\ from # "absent" /\ to # "absent"
  BY DEF Transitions, Recoveries, Status
<1> SUFFICES ASSUME NEW k \in Keys
    PROVE  /\ history'[k] = <<>> <=> status'[k] = "absent"
           /\ history'[k] # <<>> =>
                /\ history'[k][1] = <<"absent", "new">>
                /\ history'[k][Len(history'[k])][2] = status'[k]
           /\ \A i \in 2..Len(history'[k]) :
                /\ history'[k][i] \in Transitions \cup Recoveries
                /\ history'[k][i][1] = history'[k][i - 1][2]
  BY DEF LogIsPath
<1>2. history[k] \in Seq(Status \X Status)
  BY DEF TicketTypeOK
<1>3. CASE k \notin keys
  BY <1>3 DEF Move, LogIsPath
<1>4. CASE k \in keys
  <2>1. history[k] # <<>> /\ history[k][Len(history[k])][2] = from
    BY <1>1, <1>4 DEF LogIsPath
  <2>2. history'[k] = Append(history[k], <<from, to>>) /\ status'[k] = to
    BY <1>4 DEF Move
  <2>3. Len(history[k]) \in Nat \ {0}
    BY <1>2, <2>1
  <2>4. /\ Len(history'[k]) = Len(history[k]) + 1
        /\ history'[k][Len(history[k]) + 1] = <<from, to>>
        /\ \A i \in 1..Len(history[k]) : history'[k][i] = history[k][i]
    BY <1>1, <1>2, <2>2
  <2>5. history'[k] # <<>> /\ history'[k][1] = <<"absent", "new">>
    BY <2>1, <2>3, <2>4 DEF LogIsPath
  <2>6. history'[k][Len(history'[k])][2] = status'[k]
    BY <2>2, <2>3, <2>4
  <2>7. ASSUME NEW i \in 2..Len(history'[k])
        PROVE  /\ history'[k][i] \in Transitions \cup Recoveries
               /\ history'[k][i][1] = history'[k][i - 1][2]
    <3>1. CASE i = Len(history[k]) + 1
      <4>1. history'[k][i] = <<from, to>> /\ history'[k][i - 1] = history[k][Len(history[k])]
        BY <3>1, <2>3, <2>4
      <4> QED
        BY <4>1, <2>1
    <3>2. CASE i \in 2..Len(history[k])
      <4>1. history'[k][i] = history[k][i] /\ history'[k][i - 1] = history[k][i - 1]
        BY <3>2, <2>3, <2>4
      <4> QED
        BY <4>1, <3>2 DEF LogIsPath
    <3> QED
      BY <3>1, <3>2, <2>3, <2>4
  <2> QED
    BY <1>1, <2>2, <2>5, <2>6, <2>7
<1> QED
  BY <1>3, <1>4

\* What a worker writes starts from the status of every ticket it matches.
LEMMA WritesStartFromStatus ==
  ASSUME TicketTypeOK, MovesAreAllowed, NEW w \in Workers, command[w] # Nothing
  PROVE  /\ command[w].do = "update" =>
              /\ command[w] \in Update /\ Matched(command[w]) \in SUBSET Keys
              /\ \A k \in Matched(command[w]) : status[k] = command[w].from
              /\ <<command[w].from, command[w].to>> \in Transitions
         /\ command[w].do = "recover" =>
              /\ command[w] \in Recover /\ Reset(command[w]) \in SUBSET Keys
              /\ \A k \in Reset(command[w]) : status[k] = command[w].from
              /\ <<command[w].from, command[w].to>> \in Recoveries
<1>1. command[w] \in Update \cup Recover
  BY DEF TicketTypeOK
<1>2. command[w].do = "update" => command[w] \in Update
  BY <1>1 DEF Update, Recover
<1>3. command[w].do = "recover" => command[w] \in Recover
  BY <1>1 DEF Update, Recover
<1> QED
  BY <1>2, <1>3 DEF MovesAreAllowed, Matched, Reset, Update, Recover

------------------------------------------------------------------------------
(* The invariant.                                                          *)

LEMMA TicketInitInv == TicketInit => TicketInv
<1> SUFFICES ASSUME TicketInit PROVE TicketInv
  OBVIOUS
<1> USE DEF TicketInit
<1>1. TicketTypeOK
  BY DEF TicketTypeOK, Status
<1>2. MovesAreAllowed /\ ResultsAreHeld
  BY DEF MovesAreAllowed, ResultsAreHeld
<1>3. ClaimsAreCounted
  <2> SUFFICES ASSUME NEW k \in Keys
               PROVE  IsFiniteSet(Holders(k)) /\ Cardinality(Holders(k)) <= Room(k)
    BY DEF ClaimsAreCounted
  <2>1. Holders(k) = {}
    BY DEF Holders
  <2>2. Room(k) = 0
    BY DEF Room, Claims
  <2> QED
    BY <2>1, <2>2, FS_EmptySet
<1>4. LogIsPath
  BY DEF LogIsPath
<1> QED
  BY <1>1, <1>2, <1>3, <1>4 DEF TicketInv

LEMMA TicketTypesKept == TicketInv /\ [TicketNext]_ticketVars => TicketTypeOK'
<1> SUFFICES ASSUME TicketInv, [TicketNext]_ticketVars PROVE TicketTypeOK'
  OBVIOUS
<1> USE DEF TicketInv, TicketTypeOK
<1>1. ASSUME NEW k \in Keys, AddTicket(k) PROVE TicketTypeOK'
  <2>1. "new" \in Status /\ "absent" \in Status
    BY DEF Status, Transitions
  <2>2. <<<<"absent", "new">>>> \in Seq(Status \X Status)
    BY <2>1
  <2> QED
    BY <1>1, <2>1, <2>2 DEF AddTicket
<1>2. ASSUME NEW k \in Keys, GrowsStale(k) PROVE TicketTypeOK'
  BY <1>2 DEF GrowsStale
<1>3. ASSUME NEW w \in Workers, NEW k \in Keys, NEW to \in Status, UpdateReads(w, k, to)
      PROVE  TicketTypeOK'
  <2>1. CASE <<status[k], to>> \in Transitions
    <3> DEFINE c == [do |-> "update", key |-> k, from |-> status[k], to |-> to]
    <3>1. c \in Update
      BY DEF Update
    <3>2. command' = [command EXCEPT ![w] = c] /\ UNCHANGED <<status, stale, history, recovered, holds>>
      BY <1>3, <2>1 DEF UpdateReads
    <3> HIDE DEF c
    <3> QED
      BY <3>1, <3>2
  <2>2. CASE <<status[k], to>> \notin Transitions
    <3>1. holds' = [holds EXCEPT ![w] = @ \ {k}] /\ UNCHANGED <<status, stale, history, recovered, command>>
      BY <1>3, <2>2 DEF UpdateReads
    <3> QED
      BY <3>1
  <2> QED
    BY <2>1, <2>2
<1>4. ASSUME NEW w \in Workers, NEW move \in Recoveries, ListReads(w, move) PROVE TicketTypeOK'
  <2>1. move[1] \in Status /\ move[2] \in Status
    BY DEF Recoveries, Status, Transitions
  <2> QED
    BY <1>4, <2>1 DEF ListReads, Recover
<1>5. ASSUME NEW keys \in SUBSET Keys, NEW from \in Status, NEW to \in Status,
             Move(keys, from, to)
      PROVE  /\ status' \in [Keys -> Status] /\ stale' \in [Keys -> BOOLEAN]
             /\ history' \in [Keys -> Seq(Status \X Status)]
  <2>1. <<from, to>> \in Status \X Status
    OBVIOUS
  <2>2. \A k \in Keys : Append(history[k], <<from, to>>) \in Seq(Status \X Status)
    BY <2>1
  <2> QED
    BY <1>5, <2>2 DEF Move
<1>6. ASSUME NEW w \in Workers, UpdateWrites(w) PROVE TicketTypeOK'
  <2>1. command[w] \in Update /\ Matched(command[w]) \in SUBSET Keys
    BY <1>6, WritesStartFromStatus DEF UpdateWrites
  <2>2. command[w].from \in Status /\ command[w].to \in Status /\ command[w].key \in Keys
    BY <2>1 DEF Update
  <2> QED
    BY <1>6, <2>1, <2>2, <1>5 DEF UpdateWrites
<1>7. ASSUME NEW w \in Workers, ListWrites(w) PROVE TicketTypeOK'
  <2>1. command[w] \in Recover /\ Reset(command[w]) \in SUBSET Keys
    BY <1>7, WritesStartFromStatus DEF ListWrites
  <2>2. command[w].from \in Status /\ command[w].to \in Status
    BY <2>1 DEF Recover
  <2>3. Move(Reset(command[w]), command[w].from, command[w].to)
    BY <1>7 DEF ListWrites
  <2>4. /\ status' \in [Keys -> Status] /\ stale' \in [Keys -> BOOLEAN]
        /\ history' \in [Keys -> Seq(Status \X Status)]
    BY <2>1, <2>2, <2>3, <1>5
  <2>5. command' \in [Workers -> Update \cup Recover \cup {Nothing}] /\ UNCHANGED holds
    BY <1>7 DEF ListWrites
  <2>6. recovered' \in [Keys -> Nat]
    BY <1>7 DEF ListWrites
  <2> QED
    BY <2>4, <2>5, <2>6
<1>8. ASSUME NEW w \in Workers, WorkerGone(w) PROVE TicketTypeOK'
  BY <1>8 DEF WorkerGone
<1>9. CASE UNCHANGED ticketVars
  BY <1>9 DEF ticketVars
<1> QED
  BY <1>1, <1>2, <1>3, <1>4, <1>6, <1>7, <1>8, <1>9 DEF TicketNext

LEMMA LogKept == TicketInv /\ [TicketNext]_ticketVars => LogIsPath'
<1> SUFFICES ASSUME TicketInv, [TicketNext]_ticketVars PROVE LogIsPath'
  OBVIOUS
<1> USE DEF TicketInv
<1>1. ASSUME NEW k \in Keys, AddTicket(k) PROVE LogIsPath'
  BY <1>1 DEF AddTicket, LogIsPath, TicketTypeOK
<1>2. ASSUME UNCHANGED <<status, history>> PROVE LogIsPath'
  BY <1>2 DEF LogIsPath
<1>3. ASSUME NEW w \in Workers, UpdateWrites(w) PROVE LogIsPath'
  <2> DEFINE c == command[w]
  <2>1. /\ Matched(c) \in SUBSET Keys /\ \A k \in Matched(c) : status[k] = c.from
        /\ <<c.from, c.to>> \in Transitions
    BY <1>3, WritesStartFromStatus DEF UpdateWrites
  <2>2. Move(Matched(c), c.from, c.to)
    BY <1>3 DEF UpdateWrites
  <2> QED
    BY <2>1, <2>2, MoveKeepsPath
<1>4. ASSUME NEW w \in Workers, ListWrites(w) PROVE LogIsPath'
  <2> DEFINE c == command[w]
  <2>1. /\ Reset(c) \in SUBSET Keys /\ \A k \in Reset(c) : status[k] = c.from
        /\ <<c.from, c.to>> \in Recoveries
    BY <1>4, WritesStartFromStatus DEF ListWrites
  <2>2. Move(Reset(c), c.from, c.to)
    BY <1>4 DEF ListWrites
  <2> QED
    BY <2>1, <2>2, MoveKeepsPath
<1> QED
  BY <1>1, <1>2, <1>3, <1>4
     DEF TicketNext, ticketVars, GrowsStale, UpdateReads, ListReads, WorkerGone

LEMMA CommandsKept == TicketInv /\ [TicketNext]_ticketVars => MovesAreAllowed' /\ ResultsAreHeld'
<1> SUFFICES ASSUME TicketInv, [TicketNext]_ticketVars PROVE MovesAreAllowed' /\ ResultsAreHeld'
  OBVIOUS
<1> USE DEF TicketInv, TicketTypeOK
\* Between its two halves a command and what its worker holds are the worker's own.
<1>1. ASSUME UNCHANGED <<command, holds>> PROVE MovesAreAllowed' /\ ResultsAreHeld'
  BY <1>1 DEF MovesAreAllowed, ResultsAreHeld
<1>2. ASSUME NEW w \in Workers, command' = [command EXCEPT ![w] = Nothing],
             holds' \in [Workers -> SUBSET Keys], \A v \in Workers \ {w} : holds'[v] = holds[v]
      PROVE  MovesAreAllowed' /\ ResultsAreHeld'
  BY <1>2 DEF MovesAreAllowed, ResultsAreHeld
<1>3. ASSUME NEW w \in Workers, NEW k \in Keys, NEW to \in Status, UpdateReads(w, k, to)
      PROVE  MovesAreAllowed' /\ ResultsAreHeld'
  <2>1. CASE <<status[k], to>> \in Transitions
    <3>1. status[k] \in Claims => to \notin Claims
      BY <2>1 DEF Transitions, Claims
    <3>2. status[k] \in Claims => k \in holds[w]
      BY <1>3, <3>1 DEF UpdateReads, Asked, Claims
    <3>3. UNCHANGED holds /\ \A v \in Workers \ {w} : command'[v] = command[v]
      BY <1>3, <2>1 DEF UpdateReads
    <3>4. command'[w] = [do |-> "update", key |-> k, from |-> status[k], to |-> to]
      BY <1>3, <2>1 DEF UpdateReads
    <3>5. command'[w] \notin Recover
      BY <3>4 DEF Recover
    <3>6. MovesAreAllowed'
      <4> SUFFICES ASSUME NEW v \in Workers, command'[v] # Nothing
                   PROVE  /\ command'[v] \in Update  => <<command'[v].from, command'[v].to>> \in Transitions
                          /\ command'[v] \in Recover => <<command'[v].from, command'[v].to>> \in Recoveries
        BY DEF MovesAreAllowed
      <4>1. CASE v = w
        BY <4>1, <2>1, <3>4, <3>5
      <4>2. CASE v # w
        BY <4>2, <3>3 DEF MovesAreAllowed
      <4> QED
        BY <4>1, <4>2
    <3>7. ResultsAreHeld'
      <4> SUFFICES ASSUME NEW v \in Workers, command'[v] # Nothing, command'[v] \in Update,
                          command'[v].from \in Claims
                   PROVE  command'[v].key \in holds[v]
        BY <3>3 DEF ResultsAreHeld
      <4>1. CASE v = w
        BY <4>1, <3>2, <3>4
      <4>2. CASE v # w
        BY <4>2, <3>3 DEF ResultsAreHeld
      <4> QED
        BY <4>1, <4>2
    <3> QED
      BY <3>6, <3>7
  <2>2. CASE <<status[k], to>> \notin Transitions
    <3>1. UNCHANGED command /\ command[w] = Nothing /\ \A v \in Workers \ {w} : holds'[v] = holds[v]
      BY <1>3, <2>2 DEF UpdateReads
    <3> QED
      BY <3>1 DEF MovesAreAllowed, ResultsAreHeld
  <2> QED
    BY <2>1, <2>2
<1>4. ASSUME NEW w \in Workers, NEW move \in Recoveries, ListReads(w, move)
      PROVE  MovesAreAllowed' /\ ResultsAreHeld'
  <2>1. command'[w].do = "recover" /\ <<command'[w].from, command'[w].to>> = <<move[1], move[2]>>
    BY <1>4 DEF ListReads
  <2>2. <<move[1], move[2]>> \in Recoveries
    BY DEF Recoveries
  <2>3. UNCHANGED holds /\ \A v \in Workers \ {w} : command'[v] = command[v]
    BY <1>4 DEF ListReads
  <2>4. command'[w] \notin Update
    BY <2>1 DEF Update
  <2> QED
    BY <2>1, <2>2, <2>3, <2>4 DEF MovesAreAllowed, ResultsAreHeld
<1>5. ASSUME NEW w \in Workers, UpdateWrites(w) PROVE MovesAreAllowed' /\ ResultsAreHeld'
  <2>1. command[w].key \in Keys
    BY <1>5, WritesStartFromStatus DEF UpdateWrites, Update
  <2> QED
    BY <1>2, <1>5, <2>1 DEF UpdateWrites
<1>6. ASSUME NEW w \in Workers, ListWrites(w) PROVE MovesAreAllowed' /\ ResultsAreHeld'
  <2>1. command' = [command EXCEPT ![w] = Nothing] /\ UNCHANGED holds
    BY <1>6 DEF ListWrites
  <2> QED
    BY <1>2, <2>1
<1>7. ASSUME NEW w \in Workers, WorkerGone(w) PROVE MovesAreAllowed' /\ ResultsAreHeld'
  <2>1. command' = [command EXCEPT ![w] = Nothing] /\ holds' = [holds EXCEPT ![w] = {}]
    BY <1>7 DEF WorkerGone
  <2> QED
    BY <1>2, <2>1
<1> QED
  BY <1>1, <1>3, <1>4, <1>5, <1>6, <1>7 DEF TicketNext, ticketVars, AddTicket, GrowsStale

\* How the workers of a ticket are counted when one comes or goes.
LEMMA HoldersCounted ==
  ASSUME NEW S, NEW T, NEW w, IsFiniteSet(S)
  PROVE  /\ T \subseteq S => IsFiniteSet(T) /\ Cardinality(T) <= Cardinality(S)
         /\ T \subseteq S \cup {w} => IsFiniteSet(T) /\ Cardinality(T) <= Cardinality(S) + 1
         /\ T \subseteq S \ {w} /\ w \in S => IsFiniteSet(T) /\ Cardinality(T) <= Cardinality(S) - 1
<1>1. T \subseteq S => IsFiniteSet(T) /\ Cardinality(T) <= Cardinality(S)
  BY FS_Subset
<1>2. /\ IsFiniteSet(S \cup {w})
      /\ Cardinality(S \cup {w}) = IF w \in S THEN Cardinality(S) ELSE Cardinality(S) + 1
  BY FS_AddElement
<1>3. /\ IsFiniteSet(S \ {w})
      /\ Cardinality(S \ {w}) = IF w \in S THEN Cardinality(S) - 1 ELSE Cardinality(S)
  BY FS_RemoveElement
<1>4. Cardinality(S) \in Nat
  BY FS_CardinalityType
<1>5. T \subseteq S \cup {w} => IsFiniteSet(T) /\ Cardinality(T) <= Cardinality(S) + 1
  <2> SUFFICES ASSUME T \subseteq S \cup {w} PROVE IsFiniteSet(T) /\ Cardinality(T) <= Cardinality(S) + 1
    OBVIOUS
  <2>1. IsFiniteSet(T) /\ Cardinality(T) <= Cardinality(S \cup {w})
    BY <1>2, FS_Subset
  <2>2. Cardinality(T) \in Nat
    BY <2>1, FS_CardinalityType
  <2> QED
    BY <1>2, <1>4, <2>1, <2>2
<1>6. T \subseteq S \ {w} /\ w \in S => IsFiniteSet(T) /\ Cardinality(T) <= Cardinality(S) - 1
  BY <1>3, FS_Subset
<1> QED
  BY <1>1, <1>5, <1>6

LEMMA CountsKept == TicketInv /\ [TicketNext]_ticketVars => ClaimsAreCounted'
<1> SUFFICES ASSUME TicketInv, [TicketNext]_ticketVars, NEW k \in Keys
             PROVE  (IsFiniteSet(Holders(k)) /\ Cardinality(Holders(k)) <= Room(k))'
  BY DEF ClaimsAreCounted
<1> DEFINE S == Holders(k)
           T == {w \in Workers : k \in holds'[w]}
<1>1. T = Holders(k)'
  BY DEF Holders
<1>2. IsFiniteSet(S) /\ Cardinality(S) <= Room(k) /\ Cardinality(S) \in Nat
  BY FS_CardinalityType DEF TicketInv, ClaimsAreCounted
<1>3. recovered[k] \in Nat /\ recovered'[k] \in Nat
  BY TicketTypesKept DEF TicketInv, TicketTypeOK
<1> USE DEF TicketInv, TicketTypeOK
\* Nobody comes to work on the ticket, and it loses no room.
<1>4. ASSUME T \subseteq S, recovered'[k] = recovered[k], status[k] \in Claims => status'[k] \in Claims
      PROVE  IsFiniteSet(T) /\ Cardinality(T) <= Room(k)'
  <2>1. IsFiniteSet(T) /\ Cardinality(T) <= Cardinality(S) /\ Cardinality(T) \in Nat
    <3> HIDE DEF S, T
    <3>1. IsFiniteSet(T) /\ Cardinality(T) <= Cardinality(S)
      BY <1>2, <1>4, FS_Subset
    <3> QED
      BY <3>1, FS_CardinalityType
  <2> QED
    BY <1>2, <1>3, <1>4, <2>1 DEF Room
<1>5. ASSUME NEW j \in Keys, AddTicket(j) PROVE IsFiniteSet(T) /\ Cardinality(T) <= Room(k)'
  <2>1. T \subseteq S /\ recovered'[k] = recovered[k]
    BY <1>5 DEF AddTicket, Holders
  <2>2. status[k] \in Claims => status'[k] \in Claims
    BY <1>5 DEF AddTicket, Claims
  <2> QED
    BY <1>4, <2>1, <2>2
<1>6. ASSUME NEW w \in Workers,
             (\E j \in Keys, to \in Status : UpdateReads(w, j, to)) \/ WorkerGone(w)
      PROVE  IsFiniteSet(T) /\ Cardinality(T) <= Room(k)'
  <2>1. T \subseteq S
    <3>1. CASE \E j \in Keys, to \in Status : UpdateReads(w, j, to)
      <4>1. \/ holds' = holds
            \/ \E j \in Keys : holds' = [holds EXCEPT ![w] = @ \ {j}]
        BY <3>1 DEF UpdateReads
      <4> QED
        BY <4>1 DEF Holders
    <3>2. CASE WorkerGone(w)
      BY <3>2 DEF WorkerGone, Holders
    <3> QED
      BY <1>6, <3>1, <3>2
  <2>2. UNCHANGED <<status, recovered>>
    BY <1>6 DEF UpdateReads, WorkerGone
  <2> QED
    BY <1>4, <2>1, <2>2
<1>7. ASSUME UNCHANGED <<status, holds, recovered>>
      PROVE  IsFiniteSet(T) /\ Cardinality(T) <= Room(k)'
  BY <1>4, <1>7 DEF Holders
<1>8. ASSUME NEW w \in Workers, UpdateWrites(w) PROVE IsFiniteSet(T) /\ Cardinality(T) <= Room(k)'
  <2> DEFINE c == command[w]
  <2>1. /\ c \in Update /\ c # Nothing /\ <<c.from, c.to>> \in Transitions
        /\ \A j \in Matched(c) : status[j] = c.from
    BY <1>8, WritesStartFromStatus DEF UpdateWrites
  <2>2. /\ status'[k] = IF k \in Matched(c) THEN c.to ELSE status[k]
        /\ recovered'[k] = recovered[k]
    BY <1>8 DEF UpdateWrites, Move
  <2>3. holds' = [holds EXCEPT ![w] =
          IF c.to \in Claims /\ Matched(c) # {} THEN @ \cup {c.key} ELSE @ \ {c.key}]
    BY <1>8 DEF UpdateWrites
  <2>4. CASE c.to \in Claims /\ Matched(c) # {} /\ k = c.key
    \* a claim: the ticket was nobody's by its status
    <3>1. k \in Matched(c) /\ status[k] \notin Claims /\ status'[k] \in Claims
      BY <2>1, <2>2, <2>4 DEF Matched, Transitions, Claims
    <3>2. T \subseteq S \cup {w}
      BY <2>3 DEF Holders
    <3>3. IsFiniteSet(T) /\ Cardinality(T) <= Cardinality(S) + 1 /\ Cardinality(T) \in Nat
      <4> HIDE DEF S, T
      <4>1. IsFiniteSet(T) /\ Cardinality(T) <= Cardinality(S) + 1
        BY <1>2, <3>2, HoldersCounted
      <4> QED
        BY <4>1, FS_CardinalityType
    <3> QED
      BY <1>2, <1>3, <2>2, <3>1, <3>3 DEF Room
  <2>5. CASE c.to \notin Claims /\ Matched(c) # {} /\ k = c.key /\ status[k] \in Claims
    \* a result: the worker works on it no more
    <3>1. k \in Matched(c) /\ c.from \in Claims /\ status'[k] \notin Claims
      BY <2>1, <2>2, <2>5 DEF Matched
    <3>2. k \in holds[w]
      BY <2>1, <2>5, <3>1 DEF ResultsAreHeld
    <3>3. T \subseteq S \ {w} /\ w \in S
      BY <2>3, <2>5, <3>2 DEF Holders
    <3>4. IsFiniteSet(T) /\ Cardinality(T) <= Cardinality(S) - 1 /\ Cardinality(T) \in Nat
      <4> HIDE DEF S, T
      <4>1. IsFiniteSet(T) /\ Cardinality(T) <= Cardinality(S) - 1
        BY <1>2, <3>3, HoldersCounted
      <4> QED
        BY <4>1, FS_CardinalityType
    <3> QED
      BY <1>2, <1>3, <2>2, <2>5, <3>1, <3>4 DEF Room
  <2>6. CASE ~(c.to \in Claims /\ Matched(c) # {} /\ k = c.key)
             /\ ~(c.to \notin Claims /\ Matched(c) # {} /\ k = c.key /\ status[k] \in Claims)
    <3>1. T \subseteq S
      BY <2>3, <2>6 DEF Holders
    <3>2. status[k] \in Claims => status'[k] \in Claims
      BY <2>2, <2>6 DEF Matched
    <3> QED
      BY <1>4, <2>2, <3>1, <3>2
  <2> QED
    BY <2>4, <2>5, <2>6
<1>9. ASSUME NEW w \in Workers, ListWrites(w) PROVE IsFiniteSet(T) /\ Cardinality(T) <= Room(k)'
  <2> DEFINE c == command[w]
  <2>1. /\ <<c.from, c.to>> \in Recoveries /\ \A j \in Reset(c) : status[j] = c.from
    BY <1>9, WritesStartFromStatus DEF ListWrites
  <2>2. /\ status'[k] = IF k \in Reset(c) THEN c.to ELSE status[k]
        /\ recovered'[k] = IF k \in Reset(c) THEN recovered[k] + 1 ELSE recovered[k]
        /\ T = S
    BY <1>9 DEF ListWrites, Move, Holders
  <2>3. k \in Reset(c) => status[k] \in Claims
    BY <2>1 DEF Recoveries, Claims
  <2>4. Room(k) <= Room(k)'
    <3>1. CASE k \in Reset(c)
      BY <3>1, <1>3, <2>2, <2>3 DEF Room
    <3>2. CASE k \notin Reset(c)
      BY <3>2, <1>3, <2>2 DEF Room
    <3> QED
      BY <3>1, <3>2
  <2>5. Room(k) \in Nat /\ Room(k)' \in Nat
    BY <1>3 DEF Room
  <2> QED
    <3> HIDE DEF S, T
    <3>1. T = S
      BY <2>2
    <3> QED
      BY <1>2, <3>1, <2>4, <2>5
<1> QED
  BY <1>1, <1>5, <1>6, <1>7, <1>8, <1>9 DEF TicketNext, ticketVars, GrowsStale, ListReads

------------------------------------------------------------------------------

LEMMA TicketsGoOn == TicketInv /\ [TicketNext]_ticketVars => TicketInv'
  BY TicketTypesKept, LogKept, CommandsKept, CountsKept DEF TicketInv

\* Types, the moves of pending commands, the tickets of pending results and the number of
\* workers per ticket hold in every state.
THEOREM TicketInvariant == TicketSpec => []TicketInv
  BY TicketInitInv, TicketsGoOn, PTL DEF TicketSpec

\* db.py, cmd_add, cmd_update and _recover_stale: the log of a ticket is an unbroken path
\* of allowed moves from its insertion to its status, whatever processes interleave.
THEOREM LogIsAlwaysPath == TicketSpec => []LogIsPath
<1>1. TicketInv => LogIsPath
  BY DEF TicketInv
<1> QED
  BY <1>1, TicketInvariant, PTL

\* db.py, cmd_update, rowcount = 0: two agents work on one ticket only if a claim of it
\* was recovered.
THEOREM ClaimIsAlwaysExclusive == TicketSpec => []ClaimIsExclusive
<1>1. TicketInv => ClaimIsExclusive
  <2> SUFFICES ASSUME TicketInv, NEW k \in Keys
               PROVE  /\ Cardinality(Holders(k)) <= 1 + recovered[k]
                      /\ Holders(k) # {} /\ recovered[k] = 0 => status[k] \in Claims
    BY DEF ClaimIsExclusive
  <2>1. /\ IsFiniteSet(Holders(k)) /\ Cardinality(Holders(k)) <= Room(k)
        /\ Cardinality(Holders(k)) \in Nat /\ recovered[k] \in Nat
    BY FS_CardinalityType DEF TicketInv, ClaimsAreCounted, TicketTypeOK
  <2>2. Holders(k) # {} => Cardinality(Holders(k)) # 0
    BY <2>1, FS_EmptySet
  <2> QED
    BY <2>1, <2>2 DEF Room
<1> QED
  BY <1>1, TicketInvariant, PTL

------------------------------------------------------------------------------
(* The prompt.                                                             *)

\* A product grows with its factor.
LEMMA Product ==
  ASSUME NEW a \in Nat, NEW b \in Nat, NEW c \in Nat, a <= b
  PROVE  a * c <= b * c /\ a * c \in Nat
<1>1. (b - a) * c >= 0
  <2>1. b - a \in Nat
    OBVIOUS
  <2> QED
    BY <2>1
<1>2. (b - a) * c = b * c - a * c
  OBVIOUS
<1> QED
  BY <1>1, <1>2

\* How many tokens n characters are.
LEMMA Tokens ==
  ASSUME NEW n \in Nat
  PROVE  /\ EstimateTokens(n) \in Nat
         /\ EstimateTokens(n) * CharsPerToken <= n
         /\ n < (EstimateTokens(n) + 1) * CharsPerToken
<1> DEFINE c == CharsPerToken
<1>1. c \in Nat /\ c > 0
  BY PromptConstantsOK DEF PromptConstantsOK
<1>2. n \div c \in Int /\ n \div c >= 0
  BY <1>1
<1>3. (n \div c) * c <= n /\ n < (n \div c) * c + c
  BY <1>1
<1>4. ((n \div c) + 1) * c = (n \div c) * c + c
  BY <1>1, <1>2
<1> QED
  BY <1>1, <1>2, <1>3, <1>4 DEF EstimateTokens

LEMMA OvershootType == Overshoot \in Nat /\ Marker < (Overshoot + 1) * CharsPerToken
<1>1. Marker \in Nat
  BY PromptConstantsOK DEF PromptConstantsOK
<1> QED
  BY <1>1, Tokens DEF Overshoot, EstimateTokens

LEMMA NothingIsNoToken == EstimateTokens(0) = 0
<1> DEFINE c == CharsPerToken
<1>1. c \in Nat /\ c > 0
  BY PromptConstantsOK DEF PromptConstantsOK
<1>2. 0 \div c = 0
  BY <1>1
<1> QED
  BY <1>2 DEF EstimateTokens

\* A text that was cut is over its limit by the tokens of a marker at most.
LEMMA CutFits ==
  ASSUME NEW limit \in Nat, NEW text \in Truncated(limit)
  PROVE  text \in Nat /\ text # 0 /\ EstimateTokens(text) <= limit + Overshoot
<1> USE PromptConstantsOK DEF PromptConstantsOK
<1> DEFINE c == CharsPerToken
           o == Overshoot
           e == EstimateTokens(text)
<1>1. PICK kept \in 0..(limit * c) : text = kept + Marker
  BY DEF Truncated
<1>2. limit * c \in Nat
  OBVIOUS
<1>3. text \in Nat /\ text # 0
  BY <1>1, <1>2
<1>4. o \in Nat /\ Marker < (o + 1) * c
  BY OvershootType
<1>5. e \in Nat /\ e * c <= text
  BY <1>3, Tokens
<1>6. (limit + o + 1) * c = limit * c + (o + 1) * c
  BY <1>4
<1> HIDE DEF o, e
<1>7. e * c < (limit + o + 1) * c
  BY <1>1, <1>2, <1>4, <1>5, <1>6
<1>8. ASSUME ~(e <= limit + o) PROVE FALSE
  <2>1. limit + o + 1 <= e /\ limit + o + 1 \in Nat
    BY <1>4, <1>5, <1>8
  <2>2. (limit + o + 1) * c <= e * c
    BY <1>5, <2>1, Product
  <2> QED
    BY <1>2, <1>4, <1>5, <1>6, <1>7, <2>2
<1> QED
  BY <1>3, <1>8 DEF o, e

------------------------------------------------------------------------------

\* What is left of the budget is what was not taken; where allocations are laid out one
\* after the other, it reaches to the end of them less what was taken beyond them.
BudgetIsKept ==
  /\ remaining = TotalMax - above[Len(above)].tokens
  /\ remaining >= -Overshoot
  /\ \A start \in [1..(Len(Allocation) + 1) -> 0..TotalMax] :
       LaidOut(start) =>
         TotalMax - start[Len(assembled) + 1] <= remaining + above[Len(above)].beyond

\* A text is as long as its tokens and what was rounded off; what joins n texts is n - 1
\* separators.
JoinIsCharged ==
  /\ joined.texts = 0 => joined.length = 0
  /\ joined.texts > 0 =>
       joined.length <= above[Len(above)].tokens * CharsPerToken
                          + joined.texts * (CharsPerToken - 1) + (joined.texts - 1) * Separator

PromptInv == PromptTypeOK /\ BudgetIsKept /\ JoinIsCharged /\ PromptIsFair

LEMMA PromptStarts == PromptInit => PromptInv
<1> SUFFICES ASSUME PromptInit PROVE PromptInv
  OBVIOUS
<1> USE PromptConstantsOK DEF PromptConstantsOK, PromptInit
<1>1. Overshoot \in Nat
  BY OvershootType
<1>2. /\ assembled \in Seq(Nat) /\ Len(assembled) = 0 /\ Len(above) = 1
      /\ above[1].tokens = 0 /\ above[1].beyond = 0
      /\ above \in Seq([tokens : Nat, beyond : Nat])
  OBVIOUS
<1>3. PromptTypeOK
  BY <1>2 DEF PromptTypeOK, Section
<1>4. BudgetIsKept
  BY <1>1, <1>2 DEF BudgetIsKept, LaidOut
<1>5. JoinIsCharged /\ PromptIsFair
  BY <1>1, <1>2 DEF JoinIsCharged, PromptIsFair
<1> QED
  BY <1>3, <1>4, <1>5 DEF PromptInv

\* What a section may become, by the tokens it has.
LEMMA OutcomeFits ==
  ASSUME PromptTypeOK, NEW i \in Section, NEW text \in Outcomes(i)
  PROVE  /\ text \in Nat
         /\ text = 0 \/ (EffectiveLimit(i) > 0 /\ EstimateTokens(text) <= EffectiveLimit(i) + Overshoot)
         /\ EffectiveLimit(i) > 0 /\ content[i] # 0 => text # 0
         /\ EffectiveLimit(i) > 0 /\ EstimateTokens(content[i]) <= EffectiveLimit(i)
              => text = content[i]
<1> USE PromptConstantsOK DEF PromptConstantsOK
<1>1. /\ content[i] \in Nat /\ Overshoot \in Nat /\ Allocation[i] \in Nat /\ remaining \in Int
      /\ EffectiveLimit(i) \in Int /\ EstimateTokens(content[i]) \in Nat
  <2>1. content[i] \in Nat /\ Allocation[i] \in Nat /\ remaining \in Int
    BY DEF PromptTypeOK, Section
  <2>2. EffectiveLimit(i) \in Int
    BY <2>1 DEF EffectiveLimit
  <2>3. Overshoot \in Nat
    BY OvershootType
  <2>4. EstimateTokens(content[i]) \in Nat
    BY <2>1, Tokens
  <2> QED
    BY <2>1, <2>2, <2>3, <2>4
<1>2. CASE content[i] = 0 \/ EffectiveLimit(i) <= 0
  BY <1>1, <1>2 DEF Outcomes
<1>3. CASE ~(content[i] = 0 \/ EffectiveLimit(i) <= 0) /\ EstimateTokens(content[i]) <= EffectiveLimit(i)
  <2>1. text = content[i]
    BY <1>3 DEF Outcomes
  <2> QED
    BY <1>1, <1>3, <2>1
<1>4. CASE ~(content[i] = 0 \/ EffectiveLimit(i) <= 0) /\ ~(EstimateTokens(content[i]) <= EffectiveLimit(i))
  <2>1. text \in Truncated(EffectiveLimit(i)) /\ EffectiveLimit(i) \in Nat /\ EffectiveLimit(i) > 0
    BY <1>1, <1>4 DEF Outcomes
  <2> QED
    BY <1>4, <2>1, CutFits
<1> QED
  BY <1>2, <1>3, <1>4

\* The arithmetic of a turn: e is charged to a section with allocation a.
LEMMA TurnKeepsBudget ==
  ASSUME NEW total \in Nat, NEW over \in Nat, NEW left \in Int, NEW limit \in Int, NEW a \in Nat,
         NEW e \in Nat, NEW tokens \in Nat, NEW beyond \in Nat, NEW more \in Nat,
         limit <= left, e = 0 \/ e <= limit + over, left >= -over, left = total - tokens,
         e <= a + more
  PROVE  /\ left - e >= -over /\ left - e = total - (tokens + e) /\ tokens + e <= total + over
         /\ \A start \in Nat : total - start <= left + beyond
              => total - (start + a) <= (left - e) + (beyond + more)
  OBVIOUS

\* The arithmetic of a join: one more text, and a separator before it if it is not the first.
LEMMA JoinGrows ==
  ASSUME NEW n \in Nat, NEW length \in Nat, NEW tokens \in Nat, NEW text \in Nat, NEW e \in Nat,
         e = EstimateTokens(text), n = 0 => length = 0,
         n > 0 => length <= tokens * CharsPerToken + n * (CharsPerToken - 1) + (n - 1) * Separator
  PROVE  length + text + (IF n = 0 THEN 0 ELSE Separator)
           <= (tokens + e) * CharsPerToken + (n + 1) * (CharsPerToken - 1) + n * Separator
<1> DEFINE c == CharsPerToken
           s == Separator
<1>1. c \in Nat /\ c > 0 /\ c - 1 \in Nat /\ s \in Nat
  BY PromptConstantsOK DEF PromptConstantsOK
<1>2. text < (e + 1) * c
  BY Tokens
<1> SUFFICES length + text + (IF n = 0 THEN 0 ELSE s)
               <= (tokens + e) * c + (n + 1) * (c - 1) + n * s
  OBVIOUS
<1>a. n > 0 => length <= tokens * c + n * (c - 1) + (n - 1) * s
  OBVIOUS
<1> HIDE DEF c, s
<1>3. PICK x \in Nat : x = e * c
  BY <1>1
<1>4. (e + 1) * c = x + c
  BY <1>1, <1>3
<1>5. PICK y \in Nat : y = tokens * c
  BY <1>1
<1>6. (tokens + e) * c = y + x
  BY <1>1, <1>3, <1>5
<1>7. PICK z \in Nat : z = n * (c - 1)
  BY <1>1
<1>8. (n + 1) * (c - 1) = z + (c - 1)
  BY <1>1, <1>7
<1>9. PICK w \in Nat : w = n * s
  BY <1>1
<1>10. (n - 1) * s = w - s
  BY <1>1, <1>9
<1>11. text <= x + c - 1
  BY <1>1, <1>2, <1>4
<1>12. (tokens + e) * c + (n + 1) * (c - 1) + n * s = y + x + z + (c - 1) + w
  <2> DEFINE A == (tokens + e) * c
             B == (n + 1) * (c - 1)
             D == n * s
  <2>1. A = y + x /\ B = z + (c - 1) /\ D = w
    BY <1>6, <1>8, <1>9
  <2> HIDE DEF A, B, D
  <2>2. A + B + D = y + x + z + (c - 1) + w
    BY <2>1, <1>1
  <2> QED
    BY <2>2 DEF A, B, D
<1>13. CASE n = 0
  <2>1. length = 0 /\ y >= 0 /\ z >= 0 /\ w >= 0
    BY <1>13
  <2>2. length + text + 0 <= y + x + z + (c - 1) + w
    BY <1>1, <1>11, <2>1
  <2> QED
    BY <1>12, <1>13, <2>2
<1>14. CASE n > 0
  <2>1. length <= y + z + (w - s)
    BY <1>5, <1>7, <1>10, <1>14, <1>a
  <2>2. length + text + s <= y + x + z + (c - 1) + w
    BY <1>1, <1>11, <2>1
  <2> QED
    BY <1>12, <1>14, <2>2
<1> QED
  BY <1>13, <1>14

\* What is charged is within the budget and a marker, so the prompt is not too long.
LEMMA JoinFits ==
  ASSUME NEW n \in Nat, NEW length \in Nat, NEW tokens \in Nat, tokens <= TotalMax + Overshoot,
         length <= tokens * CharsPerToken + n * (CharsPerToken - 1) + (n - 1) * Separator
  PROVE  length <= Longest(n)
<1>1. TotalMax \in Nat /\ Overshoot \in Nat /\ CharsPerToken \in Nat /\ Separator \in Nat
  BY PromptConstantsOK, OvershootType DEF PromptConstantsOK
<1>2. PICK most \in Nat : most = (TotalMax + Overshoot) * CharsPerToken
  BY <1>1
<1>3. PICK charged \in Nat : charged = tokens * CharsPerToken
  BY <1>1
<1>4. charged <= most
  BY <1>1, <1>2, <1>3, Product
<1>5. PICK r \in Int, q \in Int : r = n * (CharsPerToken - 1) /\ q = (n - 1) * Separator
  BY <1>1
<1>6. length <= charged + r + q
  BY <1>3, <1>5
<1>7. length <= most + r + q
  BY <1>4, <1>6
<1> QED
  BY <1>2, <1>5, <1>7 DEF Longest

LEMMA PromptGoesOn == PromptInv /\ [PromptNext]_promptVars => PromptInv'
<1> SUFFICES ASSUME PromptInv, [PromptNext]_promptVars PROVE PromptInv'
  OBVIOUS
<1>1. CASE UNCHANGED promptVars
  BY <1>1 DEF promptVars, PromptInv, PromptTypeOK, BudgetIsKept, JoinIsCharged, PromptIsFair
<1>2. CASE Fill
  <2> DEFINE Sum == [tokens : Nat, beyond : Nat]
  <2>c. TotalMax \in Nat /\ Overshoot \in Nat /\ Allocation \in Seq(Nat)
    BY PromptConstantsOK, OvershootType DEF PromptConstantsOK
  <2>1. PICK i \in Nat : i = Len(assembled) + 1
    BY DEF PromptInv, PromptTypeOK
  <2>2. PICK text \in Outcomes(i) :
          /\ assembled' = Append(assembled, text)
          /\ joined' = Join(joined, text)
          /\ remaining' = remaining - Charged(text)
          /\ above' = Append(above, Added(above[i], i, text))
    BY <1>2, <2>1 DEF Fill
  <2>3. /\ UNCHANGED content /\ i \in 1..Len(Allocation) /\ Len(above) = i /\ Len(assembled) = i - 1
        /\ Section = 1..Len(Allocation) /\ Len(Allocation) \in Nat
        /\ above \in Seq(Sum) /\ assembled \in Seq(Nat) /\ remaining \in Int
        /\ content \in [Section -> 0..MaxLength]
    BY <1>2, <2>1, <2>c DEF Fill, PromptInv, PromptTypeOK, Section
  <2>4. /\ i \in Section /\ Allocation[i] \in Nat /\ content[i] \in Nat /\ above[i] \in Sum
    <3> HIDE DEF Sum
    <3>1. above[i] \in Sum
      BY <2>3
    <3>2. Allocation[i] \in Nat
      BY <2>3, <2>c
    <3>3. content[i] \in 0..MaxLength
      BY <2>3
    <3> QED
      BY <2>3, <3>1, <3>2, <3>3
  <2>5. /\ text \in Nat
        /\ text = 0 \/ (EffectiveLimit(i) > 0 /\ EstimateTokens(text) <= EffectiveLimit(i) + Overshoot)
        /\ EffectiveLimit(i) > 0 /\ content[i] # 0 => text # 0
        /\ EffectiveLimit(i) > 0 /\ EstimateTokens(content[i]) <= EffectiveLimit(i)
              => text = content[i]
    BY <2>4, OutcomeFits DEF PromptInv
  <2>6. PICK e \in Nat : e = EstimateTokens(text)
    BY <2>5, Tokens
  <2>7. PICK more \in Nat : /\ more = IF e > Allocation[i] THEN e - Allocation[i] ELSE 0
                            /\ e <= Allocation[i] + more
    BY <2>4
  <2>8. PICK tokens \in Nat, beyond \in Nat : above[i].tokens = tokens /\ above[i].beyond = beyond
    BY <2>4
  <2>9. PICK next \in Sum : /\ above' = Append(above, next)
                            /\ next.tokens = tokens + e /\ next.beyond = beyond + more
    <3> DEFINE new == [tokens |-> tokens + e, beyond |-> beyond + more]
    <3>1. Added(above[i], i, text) = new
      BY <2>6, <2>7, <2>8 DEF Added
    <3>2. new \in Sum /\ new.tokens = tokens + e /\ new.beyond = beyond + more
      OBVIOUS
    <3>3. above' = Append(above, new)
      BY <2>2, <3>1
    <3> HIDE DEF new, Sum
    <3> QED
      BY <3>2, <3>3
  <2>10. PICK limit \in Int : /\ limit = EffectiveLimit(i) /\ limit <= remaining
                              /\ limit <= Allocation[i]
                              /\ limit = remaining \/ limit = Allocation[i]
    <3>1. PICK a \in Nat, left \in Int : a = Allocation[i] /\ left = remaining
      BY <2>3, <2>4
    <3>2. EffectiveLimit(i) = IF a <= left THEN a ELSE left
      BY <3>1 DEF EffectiveLimit
    <3> QED
      BY <3>1, <3>2
  <2>11. remaining' = remaining - e
    BY <2>2, <2>6 DEF Charged
  <2>12. e = 0 \/ e <= limit + Overshoot
    BY <2>5, <2>6, <2>10, NothingIsNoToken
  <2>13. /\ remaining = TotalMax - tokens /\ remaining >= -Overshoot
         /\ \A start \in [1..(Len(Allocation) + 1) -> 0..TotalMax] :
              LaidOut(start) => TotalMax - start[i] <= remaining + beyond
    BY <2>1, <2>3, <2>8 DEF PromptInv, BudgetIsKept
  <2>14. /\ Len(assembled') = i /\ Len(above') = i + 1 /\ assembled'[i] = text /\ above'[i + 1] = next
         /\ \A j \in 1..(i - 1) : assembled'[j] = assembled[j]
         /\ \A j \in 1..i : above'[j] = above[j]
         /\ assembled' \in Seq(Nat) /\ above' \in Seq(Sum)
    <3> HIDE DEF Sum
    <3> QED
      BY <2>2, <2>3, <2>5, <2>9
  <2>15. /\ remaining' >= -Overshoot /\ remaining' = TotalMax - next.tokens
         /\ next.tokens <= TotalMax + Overshoot
         /\ \A start \in Nat : TotalMax - start <= remaining + beyond
              => TotalMax - (start + Allocation[i]) <= remaining' + next.beyond
    <3>1. PICK left \in Int, a \in Nat, over \in Nat, total \in Nat :
            left = remaining /\ a = Allocation[i] /\ over = Overshoot /\ total = TotalMax
      BY <2>c, <2>3, <2>4
    <3>2. /\ limit <= left /\ (e = 0 \/ e <= limit + over) /\ left >= -over /\ left = total - tokens
          /\ e <= a + more
      BY <2>7, <2>10, <2>12, <2>13, <3>1
    <3>3. /\ left - e >= -over /\ left - e = total - (tokens + e) /\ tokens + e <= total + over
          /\ \A start \in Nat : total - start <= left + beyond
               => total - (start + a) <= (left - e) + (beyond + more)
      BY <3>2, TurnKeepsBudget
    <3> QED
      BY <2>9, <2>11, <3>1, <3>3
  <2>16. ASSUME NEW start \in [1..(Len(Allocation) + 1) -> 0..TotalMax], LaidOut(start)
         PROVE  /\ start[i] \in Nat /\ start[i + 1] = start[i] + Allocation[i]
                /\ start[i + 1] <= TotalMax
    <3>1. i \in 1..(Len(Allocation) + 1) /\ i + 1 \in 1..(Len(Allocation) + 1)
      BY <2>3
    <3>2. start[i] \in 0..TotalMax /\ start[i + 1] \in 0..TotalMax
      BY <3>1
    <3>3. start[i + 1] = start[i] + Allocation[i]
      BY <2>3, <2>16 DEF LaidOut
    <3>4. start[i] \in Nat /\ start[i + 1] <= TotalMax
      BY <2>c, <3>2
    <3> QED
      BY <3>3, <3>4
  <2>17. BudgetIsKept'
    <3> SUFFICES ASSUME NEW start \in [1..(Len(Allocation) + 1) -> 0..TotalMax], LaidOut(start)
                 PROVE  TotalMax - start[i + 1] <= remaining' + next.beyond
      BY <2>14, <2>15 DEF BudgetIsKept
    <3>1. start[i] \in Nat /\ start[i + 1] = start[i] + Allocation[i]
      BY <2>16
    <3>2. TotalMax - start[i] <= remaining + beyond
      BY <2>13
    <3> QED
      BY <2>15, <3>1, <3>2
  <2>18. Allocation[i] <= remaining + beyond
    <3>1. PICK start \in [1..(Len(Allocation) + 1) -> 0..TotalMax] : LaidOut(start)
      BY PromptConstantsOK DEF PromptConstantsOK
    <3>2. PICK s \in Nat, a \in Nat, left \in Int :
            s = start[i] /\ a = Allocation[i] /\ left = remaining
      BY <2>3, <2>4, <2>16, <3>1
    <3>3. s + a <= TotalMax /\ TotalMax - s <= left + beyond
      BY <2>13, <2>16, <3>1, <3>2
    <3>4. a <= left + beyond
      BY <2>c, <3>3
    <3> QED
      BY <3>2, <3>4
  <2>19. beyond < Allocation[i] =>
           /\ content[i] # 0 => text # 0
           /\ EstimateTokens(content[i]) + beyond <= Allocation[i] => text = content[i]
    <3>1. PICK needed \in Nat : needed = EstimateTokens(content[i])
      BY <2>4, Tokens
    <3>2. PICK a \in Nat, left \in Int : a = Allocation[i] /\ left = remaining
      BY <2>3, <2>4
    <3>3. a <= left + beyond /\ (limit = left \/ limit = a)
      BY <2>10, <2>18, <3>2
    <3>4. /\ beyond < a => limit > 0
          /\ needed + beyond <= a => needed <= limit
      BY <3>3
    <3> QED
      BY <2>5, <2>10, <3>1, <3>2, <3>4
  <2>20. PICK n \in Nat, length \in Nat :
            /\ joined = [texts |-> n, length |-> length]
            /\ n = 0 => length = 0
            /\ n > 0 => length <= tokens * CharsPerToken + n * (CharsPerToken - 1)
                                   + (n - 1) * Separator
    <3>1. joined \in [texts : Nat, length : Nat] /\ above[Len(above)].tokens = tokens
      BY <2>3, <2>8 DEF PromptInv, PromptTypeOK
    <3> QED
      BY <3>1 DEF PromptInv, JoinIsCharged
  <2>21. JoinIsCharged' /\ joined' \in [texts : Nat, length : Nat]
    <3>1. above'[Len(above')].tokens = tokens + e
      BY <2>9, <2>14
    <3>2. Separator \in Nat
      BY PromptConstantsOK DEF PromptConstantsOK
    <3>3. CASE text = 0
      <4>1. joined' = joined /\ e = 0
        BY <2>2, <2>6, <3>3, NothingIsNoToken DEF Join
      <4> QED
        BY <2>20, <3>1, <4>1 DEF JoinIsCharged
    <3>4. CASE text # 0
      <4> DEFINE longer == length + text + (IF n = 0 THEN 0 ELSE Separator)
      <4>1. joined'.texts = n + 1 /\ joined'.length = longer /\ longer \in Nat
               /\ joined' = [texts |-> n + 1, length |-> longer]
        BY <2>2, <2>5, <2>20, <3>2, <3>4 DEF Join
      <4>2. longer <= (tokens + e) * CharsPerToken + (n + 1) * (CharsPerToken - 1) + n * Separator
        BY <2>5, <2>6, <2>20, JoinGrows
      <4> HIDE DEF longer
      <4>3. (n + 1) - 1 = n /\ n + 1 \in Nat /\ n + 1 # 0
        OBVIOUS
      <4> QED
        BY <3>1, <4>1, <4>2, <4>3 DEF JoinIsCharged
    <3> QED
      BY <3>3, <3>4
  <2>22. PromptTypeOK'
    <3>1. PICK left \in Int : left = remaining
      BY <2>3
    <3>2. remaining' \in Int
      BY <2>11, <3>1
    <3> QED
      BY <2>3, <2>14, <2>21, <3>2 DEF PromptInv, PromptTypeOK
  <2>23. PromptIsFair'
    <3>1. joined'.texts > 0 => joined'.length <= Longest(joined'.texts)
      <4>1. PICK m \in Nat, long \in Nat : joined' = [texts |-> m, length |-> long]
        BY <2>21
      <4>2. tokens + e \in Nat /\ tokens + e <= TotalMax + Overshoot
               /\ above'[Len(above')].tokens = tokens + e
        BY <2>9, <2>14, <2>15
      <4>3. m > 0 => long <= (tokens + e) * CharsPerToken + m * (CharsPerToken - 1)
                               + (m - 1) * Separator
        BY <2>21, <4>1, <4>2 DEF JoinIsCharged
      <4> QED
        BY <4>1, <4>2, <4>3, JoinFits
    <3>2. ASSUME NEW j \in 1..Len(assembled'), above'[j].beyond < Allocation[j]
          PROVE  /\ content'[j] # 0 => assembled'[j] # 0
                 /\ EstimateTokens(content'[j]) + above'[j].beyond <= Allocation[j]
                      => assembled'[j] = content'[j]
      <4>1. CASE j = i
        <5>1. above'[j].beyond = beyond
          BY <2>1, <2>8, <2>14, <3>2, <4>1
        <5> QED
          BY <2>3, <2>14, <2>19, <3>2, <4>1, <5>1
      <4>2. CASE j # i
        <5>1. j \in 1..(i - 1) /\ j \in 1..Len(assembled) /\ j \in 1..i
          BY <2>3, <2>14, <3>2, <4>2
        <5>2. assembled'[j] = assembled[j] /\ above'[j] = above[j]
          BY <2>14, <5>1
        <5>3. content'[j] = content[j]
          BY <2>3
        <5>4. above[j].beyond < Allocation[j] =>
                /\ content[j] # 0 => assembled[j] # 0
                /\ EstimateTokens(content[j]) + above[j].beyond <= Allocation[j]
                     => assembled[j] = content[j]
          BY <5>1 DEF PromptInv, PromptIsFair
        <5>5. above[j].beyond < Allocation[j]
          BY <3>2, <5>2
        <5> QED
          BY <5>2, <5>3, <5>4, <5>5
      <4> QED
        BY <4>1, <4>2
    <3> QED
      BY <3>1, <3>2 DEF PromptIsFair
  <2> QED
    BY <2>17, <2>21, <2>22, <2>23 DEF PromptInv
<1> QED
  BY <1>1, <1>2 DEF PromptNext

\* The invariant of the assembly of a prompt.
THEOREM PromptInvariant == PromptSpec => []PromptInv
  BY PromptStarts, PromptGoesOn, PTL DEF PromptSpec

\* The prompt of assemble_system_prompt exceeds its budget by one marker, the blank lines
\* between its sections and the rounding of their tokens at most, and a section is shortened
\* or left out only for what markers took beyond their allocations.
THEOREM PromptStaysFair == PromptSpec => []PromptIsFair
<1>1. PromptInv => PromptIsFair
  BY DEF PromptInv
<1> QED
  BY <1>1, PromptInvariant, PTL

------------------------------------------------------------------------------
(* The services together.                                                  *)

\* The invariants of the services.
ServicesInv ==
  /\ SlackInv /\ RepeatInv /\ TicketInv /\ MemoryInv /\ FactsTyped /\ SessionInv
  /\ TasksInv /\ ResultsAreEarned /\ LifeInv /\ PromptInv

\* Every service starts as it does alone.
LEMMA ServicesStartAlone ==
  ServicesInit => /\ SlackInit /\ TicketInit /\ MemoryInit /\ FactInit /\ SessionInit
                  /\ TaskInit /\ LifeInit /\ PromptInit
  BY DEF ServicesInit

\* A step of the services is a step, or none, of each of them.
LEMMA ServicesStepAlone ==
  [ServicesNext]_serviceVars =>
    /\ [SlackNext]_slackVars /\ [TicketNext]_ticketVars /\ [MemoryNext]_memoryVars
    /\ [FactNext]_factVars /\ [SessionNext]_sessionVars /\ [TaskNext]_taskVars
    /\ [LifeNext]_lifeVars /\ [PromptNext]_promptVars
  BY DEF ServicesNext, serviceVars

\* The types of the services follow from their invariants.
LEMMA ServicesAreTyped == ServicesInv => ServicesTypeOK
<1> SUFFICES ASSUME ServicesInv PROVE ServicesTypeOK
  OBVIOUS
<1>1. SlackTypeOK /\ TicketTypeOK /\ MemoryTypeOK /\ SessionTypeOK /\ LifeTypeOK /\ PromptTypeOK
  BY DEF ServicesInv, SlackInv, TicketInv, MemoryInv, SessionInv, LifeInv, PromptInv
<1>2. FactTypeOK
  BY DEF ServicesInv, FactsTyped, FactsAreCounted
<1>3. TaskTypeOK
  BY TasksAreTyped DEF ServicesInv
<1> QED
  BY <1>1, <1>2, <1>3 DEF ServicesTypeOK

\* No service disturbs another: whatever is about one of them alone holds of all.
THEOREM ServicesInvariant == ServicesSafety => []ServicesInv
<1>1. ServicesInit => ServicesInv
  BY ServicesStartAlone, SlackStarts, RepeatsStart, TicketInitInv, MemoryStarts, FactsTypedStart,
     SessionsStart, TaskInitInv, ResultsStart, LifeStarts, PromptStarts DEF ServicesInv
<1>2. ServicesInv /\ [ServicesNext]_serviceVars => ServicesInv'
  <2> SUFFICES ASSUME ServicesInv, [ServicesNext]_serviceVars PROVE ServicesInv'
    OBVIOUS
  <2>1. /\ [SlackNext]_slackVars /\ [TicketNext]_ticketVars /\ [MemoryNext]_memoryVars
        /\ [FactNext]_factVars /\ [SessionNext]_sessionVars /\ [TaskNext]_taskVars
        /\ [LifeNext]_lifeVars /\ [PromptNext]_promptVars
    BY ServicesStepAlone
  <2>2. SlackInv' /\ RepeatInv'
    BY <2>1, SlackGoesOn, RepeatsGoOn DEF ServicesInv
  <2>3. TicketInv'
    BY <2>1, TicketsGoOn DEF ServicesInv
  <2>4. MemoryInv'
    BY <2>1, MemoryGoesOn DEF ServicesInv
  <2>5. FactsTyped'
    BY <2>1, FactsTypedGoOn DEF ServicesInv
  <2>6. SessionInv'
    BY <2>1, SessionsGoOn DEF ServicesInv
  <2>7. TasksInv' /\ ResultsAreEarned'
    BY <2>1, TasksGoOn, ResultsGoOn DEF ServicesInv
  <2>8. LifeInv'
    BY <2>1, LifeGoesOn DEF ServicesInv
  <2>9. PromptInv'
    BY <2>1, PromptGoesOn DEF ServicesInv
  <2> QED
    BY <2>2, <2>3, <2>4, <2>5, <2>6, <2>7, <2>8, <2>9 DEF ServicesInv
<1> QED
  BY <1>1, <1>2, PTL DEF ServicesSafety

\* ServicesTypeOK: everything has its type, in every service.
THEOREM ServicesAreWellTyped == ServicesSafety => []ServicesTypeOK
  BY ServicesInvariant, ServicesAreTyped, PTL

=============================================================================

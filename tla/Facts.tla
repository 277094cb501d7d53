-------------------------------- MODULE Facts --------------------------------
(***************************************************************************)
(* The facts table of an agent: store_facts and the delete tool, in the    *)
(* containers that share the worker's database (the session's and the      *)
(* ephemeral ones).  SQLite in WAL mode: a read outside a transaction sees *)
(* what is committed, a first write opens a transaction that shuts out     *)
(* every other writer until its commit.                                    *)
(***************************************************************************)
EXTENDS Naturals, Sequences, FiniteSetsExt

CONSTANTS
  FactKeys, FactValues,   \* normalized keys and values
  Nil,                    \* the last value of a key that is stored by nobody
  Containers,             \* processes with a connection to the database
  MaxStores               \* bound: calls of store_facts and of the delete tool

ASSUME FactsConstantsOK == Nil \notin FactValues /\ MaxStores \in Nat

VARIABLES
  facts,      \* the committed table, see Table
  txn,        \* the open write transaction: none, or its container and its table
  storing,    \* per container: the facts store_facts has still to write, and what it read
  stores      \* calls so far

factVars == <<facts, txn, storing, stores>>

Row    == [value : FactValues, superseded : BOOLEAN]
\* The rows of each key in insertion order, and two histories that live and die with
\* them: the value stored last, and the keys written on a read that was out of date.
Table  == [rows : [FactKeys -> Seq(Row)], latest : [FactKeys -> FactValues \cup {Nil}],
           raced : SUBSET FactKeys]
Unread == MaxStores * 2 + 1
\* row is the row of the first of todo that was read: 0 for none
NotStoring == [todo |-> <<>>, row |-> Unread]

Active(rows) == {i \in 1..Len(rows) : ~rows[i].superseded}
Holds(c) == \E t \in txn : t.by = c
View(c)  == IF Holds(c) THEN (CHOOSE t \in txn : TRUE).table ELSE facts

FactInit ==
  /\ facts = [rows |-> [k \in FactKeys |-> <<>>], latest |-> [k \in FactKeys |-> Nil],
              raced |-> {}]
  /\ txn = {} /\ stores = 0
  /\ storing = [c \in Containers |-> NotStoring]

\* store_facts is called: by a tool, at the end of a session, by a compaction.
StoreFacts(c, list) ==
  /\ storing[c] = NotStoring /\ ~Holds(c) /\ stores < MaxStores
  /\ storing' = [storing EXCEPT ![c].todo = list]
  /\ stores' = stores + 1
  /\ UNCHANGED <<facts, txn>>

\* migrate_markdown_facts_to_db when a container starts: the same, into an empty table.
MigrateFacts(c, list) == (\A k \in FactKeys : facts.rows[k] = <<>>) /\ StoreFacts(c, list)

\* SELECT ... WHERE key = ? AND superseded = 0: one row of the answer.
ReadFact(c) ==
  /\ storing[c].todo # <<>> /\ storing[c].row = Unread
  /\ LET active == Active(View(c).rows[Head(storing[c].todo).key]) IN
       \E i \in IF active = {} THEN {0} ELSE active :
         storing' = [storing EXCEPT ![c].row = i]
  /\ UNCHANGED <<facts, txn, stores>>

\* the old value is not superseded
WrittenBeside(rows, i, v) ==
  IF i # 0 /\ rows[i].value = v THEN rows ELSE Append(rows, [value |-> v, superseded |-> FALSE])

\* Confirm the row that was read, or supersede it and insert a new one.
Written(rows, i, v) ==
  IF i # 0 /\ rows[i].value = v THEN rows
  ELSE Append([j \in 1..Len(rows) |-> [rows[j] EXCEPT !.superseded = @ \/ j = i]],
              [value |-> v, superseded |-> FALSE])

WriteFact(c) ==
  /\ storing[c].todo # <<>> /\ storing[c].row # Unread
  /\ \A t \in txn : t.by = c
  /\ LET f    == Head(storing[c].todo)
         i    == storing[c].row
         view == View(c)
         fresh == Active(view.rows[f.key]) = {i} \ {0}
     IN txn' = {[by |-> c, table |->
          [rows   |-> [view.rows EXCEPT ![f.key] = Written(@, i, f.value)],
           latest |-> [view.latest EXCEPT ![f.key] = f.value],
           raced  |-> view.raced \cup IF fresh THEN {} ELSE {f.key}]]}
  /\ storing' = [storing EXCEPT ![c] = [todo |-> Tail(@.todo), row |-> Unread]]
  /\ UNCHANGED <<facts, stores>>

CommitFacts(c) ==
  /\ storing[c] = NotStoring /\ Holds(c)
  /\ facts' = View(c) /\ txn' = {}
  /\ UNCHANGED <<storing, stores>>

\* The delete tool: one UPDATE of every active row, committed at once.
DeleteFact(c, k) ==
  /\ storing[c] = NotStoring /\ txn = {} /\ stores < MaxStores
  /\ facts' = [rows   |-> [facts.rows EXCEPT ![k] =
                            [i \in 1..Len(@) |-> [@[i] EXCEPT !.superseded = TRUE]]],
               latest |-> [facts.latest EXCEPT ![k] = Nil],
               raced  |-> facts.raced \ {k}]
  /\ stores' = stores + 1
  /\ UNCHANGED <<txn, storing>>

\* The container ends before its commit, or the database stays locked for too long: what
\* it wrote is rolled back.
StoreFails(c) ==
  /\ storing[c] # NotStoring \/ Holds(c)
  /\ storing' = [storing EXCEPT ![c] = NotStoring]
  /\ txn' = {t \in txn : t.by # c}
  /\ UNCHANGED <<facts, stores>>

Lists == UNION {[1..n -> [key : FactKeys, value : FactValues]] : n \in 1..2}

FactNext ==
  \E c \in Containers :
    \/ \E list \in Lists : StoreFacts(c, list) \/ MigrateFacts(c, list)
    \/ ReadFact(c) \/ WriteFact(c) \/ CommitFacts(c) \/ StoreFails(c)
    \/ \E k \in FactKeys : DeleteFact(c, k)

FactSpec == FactInit /\ [][FactNext]_factVars

------------------------------------------------------------------------------

FactTypeOK ==
  /\ facts \in Table /\ txn \subseteq [by : Containers, table : Table]
  /\ \A c \in Containers :
       storing[c].todo \in Lists \cup {<<>>} /\ storing[c].row \in 0..Unread
  /\ stores \in 0..MaxStores

\* memory.py, store_facts, and ARCHITECTURE.md, Fact Extraction: a key has one active
\* row, with the value stored last, and none once it is deleted; the other values are
\* kept as superseded rows.  Also when containers interleave or end halfway, except for a
\* key that one of them wrote after another had changed the row it had read.
FactIsCurrent ==
  \A k \in FactKeys \ facts.raced :
    LET rows == facts.rows[k]
        v    == facts.latest[k]
    IN {<<i, rows[i].value>> : i \in Active(rows)} = IF v = Nil THEN {} ELSE {<<Len(rows), v>>}

=============================================================================

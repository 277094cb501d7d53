--------------------------- MODULE Sessions_proofs ---------------------------
(***************************************************************************)
(* Theorems about Sessions, for any threads, any number of turns and a     *)
(* history window of any size.                                             *)
(***************************************************************************)
EXTENDS Sessions, FiniteSetTheorems, SequenceTheorems, TLAPS

\* Of what the log has, a turn is part of a history; a query is about one.
TurnsAreLogged ==
  /\ Len(log) <= MaxTurns
  /\ recorded \cup hidden \cup cleared \subseteq 1..Len(log)
  /\ worker.at \in {"query", "split"} => worker.turn \in 1..Len(log)

\* The file of a running worker has the end of the transcript, or is not there: then
\* what was recorded is in the memory, although the messages seeded the transcript.
SavedIsRecent ==
  \A c \in Conversations :
    /\ Len(saved[c]) <= HistoryWindow
    /\ ~Doing("down") => saved[c] \in {<<>>, Recent(transcript[c])}
    /\ saved[c] = <<>> => {t \in recorded \ forgiven : log[t] = c} \subseteq memory

\* A turn that was cleared is in none of the texts that a session can be opened with.
ClearedIsGone ==
  /\ cleared \subseteq hidden
  /\ cleared \cap Range(saved[Web]) = {}
  /\ ~Doing("down") => cleared \cap Range(transcript[Web]) = {}
  /\ Doing("query") => worker.turn \notin cleared

ThreadsKeepTheirOwn == \A c \in Threads : Range(transcript[c]) \subseteq TurnsOf(c)

SessionInv ==
  /\ SessionTypeOK /\ TurnsAreLogged /\ SavedIsRecent /\ ClearedIsGone /\ ThreadsKeepTheirOwn
  /\ TurnsAreRemembered /\ ConversationsStayApart

------------------------------------------------------------------------------
(* Sequences of turns.                                                     *)

\* The end of a transcript that the window keeps.
LEMMA RecentIsTheEnd ==
  ASSUME NEW S, NEW turns \in Seq(S)
  PROVE  /\ Recent(turns) \in Seq(S)
         /\ Len(Recent(turns)) = IF Len(turns) > HistoryWindow THEN HistoryWindow ELSE Len(turns)
         /\ Range(Recent(turns)) \subseteq Range(turns)
         /\ Len(turns) <= HistoryWindow => Recent(turns) = turns
<1> DEFINE n == Len(turns)
           m == IF n > HistoryWindow THEN n - HistoryWindow + 1 ELSE 1
<1>1. n \in Nat /\ HistoryWindow \in Nat \ {0} /\ DOMAIN turns = 1..n
  BY SessionsConstantsOK DEF SessionsConstantsOK
<1>2. m \in Nat /\ m >= 1 /\ \A i \in m..n : turns[i] \in S
  BY <1>1
<1>3. Recent(turns) = SubSeq(turns, m, n)
  BY DEF Recent
<1> HIDE DEF m, n
<1>4. /\ Recent(turns) \in Seq(S)
      /\ Len(Recent(turns)) = IF m <= n THEN n - m + 1 ELSE 0
      /\ \A i \in 1..n - m + 1 : Recent(turns)[i] = turns[m + i - 1]
  BY <1>1, <1>2, <1>3, SubSeqProperties
<1>5. Len(Recent(turns)) = IF n > HistoryWindow THEN HistoryWindow ELSE n
  BY <1>1, <1>4 DEF m
<1>6. Range(Recent(turns)) \subseteq Range(turns)
  <2> SUFFICES ASSUME NEW i \in 1..Len(Recent(turns)) PROVE Recent(turns)[i] \in Range(turns)
    <3>1. DOMAIN Recent(turns) = 1..Len(Recent(turns))
      BY <1>4
    <3> QED
      BY <3>1 DEF Range
  <2>1. i \in 1..n - m + 1 /\ m + i - 1 \in 1..n
    BY <1>1, <1>2, <1>4
  <2> QED
    BY <2>1, <1>4, <1>1 DEF Range
<1>7. ASSUME n <= HistoryWindow PROVE Recent(turns) = turns
  <2>1. m = 1
    BY <1>1, <1>7 DEF m
  <2> QED
    BY <2>1, <1>3, SubSeqFull DEF n
<1> QED
  BY <1>4, <1>5, <1>6, <1>7 DEF n

\* What the window keeps of what it kept is all of it.
LEMMA RecentOfRecent ==
  ASSUME NEW S, NEW turns \in Seq(S)
  PROVE  Recent(Recent(turns)) = Recent(turns)
<1>1. Recent(turns) \in Seq(S) /\ Len(Recent(turns)) <= HistoryWindow
  BY RecentIsTheEnd, SessionsConstantsOK DEF SessionsConstantsOK
<1> QED
  BY <1>1, RecentIsTheEnd

LEMMA RangeOfAppend ==
  ASSUME NEW S, NEW turns \in Seq(S), NEW t \in S
  PROVE  Range(Append(turns, t)) = Range(turns) \cup {t} /\ Append(turns, t) # <<>>
<1> DEFINE longer == Append(turns, t)
<1>1. /\ DOMAIN longer = 1..Len(turns) + 1 /\ DOMAIN turns = 1..Len(turns) /\ Len(turns) \in Nat
      /\ \A i \in 1..Len(turns) : longer[i] = turns[i]
      /\ longer[Len(turns) + 1] = t
  OBVIOUS
<1> HIDE DEF longer
<1>2. \A i \in 1..Len(turns) + 1 : i \in 1..Len(turns) \/ i = Len(turns) + 1
  BY <1>1
<1>3. Range(longer) = Range(turns) \cup {t}
  BY <1>1, <1>2 DEF Range
<1> QED
  BY <1>1, <1>3 DEF longer

\* A set of turns has its elements in order.
Ordered(s) == \A i, j \in DOMAIN s : i < j => s[i] < s[j]
HasOrder(turns) == \E s \in [1..Cardinality(turns) -> turns] : Ordered(s)

LEMMA TurnsHaveOrder ==
  ASSUME NEW n \in Nat, NEW turns \in SUBSET (1..n)
  PROVE  HasOrder(turns)
<1> DEFINE Bad == {k \in Nat : \E S \in SUBSET (1..k) : ~HasOrder(S)}
<1>1. SUFFICES Bad = {}
  OBVIOUS
<1>2. SUFFICES ASSUME Bad # {} PROVE FALSE
  OBVIOUS
<1>3. PICK k \in Bad : \A i \in Bad : ~(<<i, k>> \in OpToRel(<, Nat))
  <2> HIDE DEF Bad
  <2>1. Bad \subseteq Nat
    BY DEF Bad
  <2> QED
    BY <1>2, <2>1, NatLessThanWellFounded, WFMin
<1>4. PICK S \in SUBSET (1..k) : ~HasOrder(S)
  OBVIOUS
<1>5. CASE k = 0
  <2>1. S = {} /\ Cardinality(S) = 0
    <3>1. 1..0 = {}
      OBVIOUS
    <3>2. S = {}
      BY <3>1, <1>4, <1>5
    <3> QED
      BY <3>2, FS_EmptySet
  <2>2. <<>> \in [1..0 -> S] /\ Ordered(<<>>)
    BY <2>1 DEF Ordered
  <2> QED
    BY <1>4, <2>1, <2>2 DEF HasOrder
<1>6. CASE k # 0
  <2>1. k - 1 \in Nat /\ k \in Nat /\ k - 1 < k
    BY <1>6
  <2>2. \A T \in SUBSET (1..k - 1) : HasOrder(T)
    <3>1. <<k - 1, k>> \in OpToRel(<, Nat)
      BY <2>1 DEF OpToRel
    <3>2. k - 1 \notin Bad
      BY <3>1, <1>3
    <3> QED
      BY <3>2, <2>1
  <2> HIDE DEF Bad
  <2>3. k \in S
    BY <2>1, <2>2, <1>4
  <2> DEFINE T == S \ {k}
  <2>4. T \in SUBSET (1..k - 1)
    BY <2>1, <1>4
  <2>5. IsFiniteSet(S) /\ Cardinality(S) \in Nat /\ Cardinality(T) = Cardinality(S) - 1 /\ Cardinality(T) \in Nat
    <3>1. IsFiniteSet(1..k)
      BY <2>1, FS_Interval
    <3>2. IsFiniteSet(S)
      BY <3>1, <1>4, FS_Subset
    <3> QED
      BY <3>2, <2>3, FS_RemoveElement, FS_CardinalityType
  <2>6. PICK s \in [1..Cardinality(T) -> T] : Ordered(s)
    BY <2>2, <2>4 DEF HasOrder
  <2> DEFINE c == Cardinality(T)
             r == [i \in 1..c + 1 |-> IF i = c + 1 THEN k ELSE s[i]]
  <2>7. \A i \in 1..c : s[i] \in S /\ s[i] < k /\ s[i] \in Nat
    <3>1. \A x \in T : x \in S /\ x < k /\ x \in Nat
      BY <2>4, <2>1
    <3> HIDE DEF T
    <3> QED
      BY <3>1, <2>6
  <2>8. r \in [1..Cardinality(S) -> S]
    <3>1. c + 1 = Cardinality(S) /\ c \in Nat
      BY <2>5
    <3> HIDE DEF c, T
    <3> QED
      BY <3>1, <2>7, <2>3
  <2>9. Ordered(r)
    <3> SUFFICES ASSUME NEW i \in 1..c + 1, NEW j \in 1..c + 1, i < j PROVE r[i] < r[j]
      BY DEF Ordered
    <3>0. c \in Nat
      BY <2>5
    <3>1. i \in 1..c /\ r[i] = s[i]
      BY <3>0
    <3>2. CASE j = c + 1
      BY <3>0, <3>1, <3>2, <2>7
    <3>3. CASE j # c + 1
      <4>1. j \in 1..c /\ r[j] = s[j]
        BY <3>0, <3>3
      <4> QED
        BY <4>1, <3>1, <2>6 DEF Ordered
    <3> QED
      BY <3>2, <3>3
  <2> QED
    BY <2>8, <2>9, <1>4 DEF HasOrder
<1> QED
  BY <1>5, <1>6

LEMMA OrderOfTurns ==
  ASSUME NEW n \in Nat, NEW turns \in SUBSET (1..n)
  PROVE  InOrder(turns) \in Seq(turns)
<1>1. PICK s \in [1..Cardinality(turns) -> turns] : \A i, j \in DOMAIN s : i < j => s[i] < s[j]
  BY TurnsHaveOrder DEF HasOrder, Ordered
<1>2. InOrder(turns) \in [1..Cardinality(turns) -> turns]
  BY <1>1 DEF InOrder
<1>3. Cardinality(turns) \in Nat
  <2>1. IsFiniteSet(1..n)
    BY FS_Interval
  <2>2. IsFiniteSet(turns)
    BY <2>1, FS_Subset
  <2> QED
    BY <2>2, FS_CardinalityType
<1> QED
  BY <1>2, <1>3, SeqDef

------------------------------------------------------------------------------
(* The state of a worker and its files.                                    *)

LEMMA Transcripts ==
  ASSUME SessionTypeOK
  PROVE  \A c \in Conversations : \A text \in {transcript[c], saved[c]} :
           /\ text \in Seq(Turns) /\ Recent(text) \in Seq(Turns)
           /\ Range(text) \subseteq Turns /\ Range(Recent(text)) \subseteq Range(text)
           /\ Len(Recent(text)) <= HistoryWindow /\ Recent(Recent(text)) = Recent(text)
           /\ Len(text) <= HistoryWindow => Recent(text) = text
           /\ text # <<>> => Recent(text) # <<>>
           /\ Len(text) \in Nat /\ (text = <<>> <=> Len(text) = 0)
<1> SUFFICES ASSUME NEW c \in Conversations, NEW text \in {transcript[c], saved[c]}
             PROVE  /\ text \in Seq(Turns) /\ Recent(text) \in Seq(Turns)
                    /\ Range(text) \subseteq Turns /\ Range(Recent(text)) \subseteq Range(text)
                    /\ Len(Recent(text)) <= HistoryWindow /\ Recent(Recent(text)) = Recent(text)
                    /\ Len(text) <= HistoryWindow => Recent(text) = text
                    /\ text # <<>> => Recent(text) # <<>>
                    /\ Len(text) \in Nat /\ (text = <<>> <=> Len(text) = 0)
  OBVIOUS
<1>1. text \in Seq(Turns)
  BY DEF SessionTypeOK
<1>2. HistoryWindow \in Nat \ {0} /\ Len(text) \in Nat /\ (text = <<>> <=> Len(text) = 0)
  BY <1>1, SessionsConstantsOK DEF SessionsConstantsOK
<1>3. Range(text) \subseteq Turns
  BY <1>1 DEF Range
<1>4. /\ Recent(text) \in Seq(Turns) /\ Range(Recent(text)) \subseteq Range(text)
      /\ Len(Recent(text)) = IF Len(text) > HistoryWindow THEN HistoryWindow ELSE Len(text)
      /\ Len(text) <= HistoryWindow => Recent(text) = text
  BY <1>1, RecentIsTheEnd
<1>5. Recent(Recent(text)) = Recent(text)
  BY <1>1, RecentOfRecent
<1>6. text # <<>> => Recent(text) # <<>>
  <2>1. Recent(text) = <<>> => Len(Recent(text)) = 0
    BY <1>4
  <2> QED
    BY <2>1, <1>2, <1>4
<1> QED
  BY <1>1, <1>2, <1>3, <1>4, <1>5, <1>6

\* What the messages seed.
LEMMA VisibleTurns ==
  ASSUME SessionTypeOK
  PROVE  /\ Visible \in Seq(1..Len(log)) /\ Range(Visible) \subseteq (1..Len(log)) \ hidden
         /\ Len(Visible) <= HistoryWindow
<1> DEFINE shown == (1..Len(log)) \ hidden
<1>1. InOrder(shown) \in Seq(shown)
  <2>1. Len(log) \in Nat
    BY DEF SessionTypeOK
  <2> QED
    BY <2>1, OrderOfTurns
<1>2. /\ Visible \in Seq(shown)
      /\ Len(Visible) = IF Len(InOrder(shown)) > HistoryWindow THEN HistoryWindow ELSE Len(InOrder(shown))
  <2> HIDE DEF shown
  <2> QED
    BY <1>1, RecentIsTheEnd DEF Visible, shown
<1> HIDE DEF shown
<1>3. Range(Visible) \subseteq shown
  BY <1>2 DEF Range
<1>4. Visible \in Seq(1..Len(log))
  BY <1>2, SeqMonotonic DEF shown
<1> QED
  BY <1>1, <1>2, <1>3, <1>4, SessionsConstantsOK DEF shown, SessionsConstantsOK

\* What is left of a transcript by the end of a turn.
LEMMA Recording ==
  ASSUME SessionTypeOK, NEW c \in Conversations, NEW t \in Turns, Record(c, t)
  PROVE  /\ transcript' = [transcript EXCEPT ![c] = Append(transcript[c], t)]
         /\ saved' = [saved EXCEPT ![c] = Recent(Append(transcript[c], t))]
         /\ recorded' = recorded \cup {t} /\ hidden' = hidden \ {t}
         /\ {transcript', saved'} \subseteq [Conversations -> Seq(Turns)]
         /\ Range(transcript'[c]) = Range(transcript[c]) \cup {t}
         /\ saved'[c] = Recent(transcript'[c]) /\ saved'[c] # <<>>
         /\ Len(saved'[c]) <= HistoryWindow /\ Range(saved'[c]) \subseteq Range(transcript'[c])
<1> DEFINE longer == Append(transcript[c], t)
<1>1. transcript \in [Conversations -> Seq(Turns)] /\ saved \in [Conversations -> Seq(Turns)]
  BY DEF SessionTypeOK
<1>2. longer \in Seq(Turns) /\ Range(longer) = Range(transcript[c]) \cup {t} /\ longer # <<>>
  BY <1>1, RangeOfAppend
<1>3. transcript' = [transcript EXCEPT ![c] = longer] /\ transcript'[c] = longer
  BY <1>1 DEF Record
<1>4. /\ saved' = [saved EXCEPT ![c] = Recent(longer)] /\ saved'[c] = Recent(longer)
      /\ recorded' = recorded \cup {t} /\ hidden' = hidden \ {t}
  BY <1>1, <1>3 DEF Record
<1> HIDE DEF longer
<1>5. /\ Recent(longer) \in Seq(Turns) /\ Range(Recent(longer)) \subseteq Range(longer)
      /\ Len(Recent(longer)) = IF Len(longer) > HistoryWindow THEN HistoryWindow ELSE Len(longer)
  BY <1>2, RecentIsTheEnd
<1>6. Len(longer) \in Nat \ {0} /\ HistoryWindow \in Nat \ {0}
  BY <1>2, SessionsConstantsOK DEF SessionsConstantsOK
<1>7. Recent(longer) # <<>> /\ Len(Recent(longer)) <= HistoryWindow
  BY <1>5, <1>6
<1>8. {transcript', saved'} \subseteq [Conversations -> Seq(Turns)]
  BY <1>1, <1>2, <1>3, <1>4, <1>5
<1> QED
  BY <1>2, <1>3, <1>4, <1>5, <1>7, <1>8 DEF longer

------------------------------------------------------------------------------
(* The inductive invariant.                                                *)

LEMMA SessionsStart == SessionInit => SessionInv
<1> SUFFICES ASSUME SessionInit PROVE SessionInv
  OBVIOUS
<1>1. /\ SessionTypeOK /\ TurnsAreLogged
      /\ \A c \in Conversations : session[c] = {} /\ continuation[c] = {} /\ saved[c] = <<>> /\ transcript[c] = <<>>
  <2>1. MaxTurns \in Nat
    BY SessionsConstantsOK DEF SessionsConstantsOK
  <2>2. \A c \in Conversations : session[c] = {} /\ continuation[c] = {} /\ saved[c] = <<>> /\ transcript[c] = <<>>
    BY DEF SessionInit
  <2>3. TurnsAreLogged
    BY <2>1 DEF SessionInit, TurnsAreLogged
  <2>4. session \in [Conversations -> SUBSET Turns] /\ transcript \in [Conversations -> Seq(Turns)]
        /\ continuation = session /\ saved = transcript
    BY DEF SessionInit
  <2>5. worker \in [at : {"down", "idle", "query", "split"}, turn : 0..MaxTurns]
    BY <2>1 DEF SessionInit
  <2>6. SessionTypeOK
    <3>1. {memory, hidden, recorded, cleared, forgiven} \subseteq SUBSET Turns
      BY DEF SessionInit
    <3>2. log \in Seq(Conversations)
      BY DEF SessionInit
    <3>3. cancel \in BOOLEAN /\ clearing \in BOOLEAN
      BY Zenon DEF SessionInit
    <3> QED
      BY <2>4, <2>5, <3>1, <3>2, <3>3 DEF SessionTypeOK
  <2> QED
    BY <2>2, <2>3, <2>6
<1>2. Range(<<>>) = {} /\ Len(<<>>) = 0 /\ HistoryWindow >= 0
  BY SessionsConstantsOK DEF Range, SessionsConstantsOK
<1>3. recorded = {} /\ cleared = {} /\ Doing("down")
  BY DEF SessionInit, Doing
<1>4. SavedIsRecent /\ TurnsAreRemembered
  BY <1>1, <1>2, <1>3 DEF SavedIsRecent, TurnsAreRemembered
<1>5. ClearedIsGone
  BY <1>3 DEF ClearedIsGone, Doing
<1>6. ThreadsKeepTheirOwn /\ ConversationsStayApart
  BY <1>1, <1>2, <1>3 DEF ThreadsKeepTheirOwn, ConversationsStayApart, Known, Conversations
<1> QED
  BY <1>1, <1>4, <1>5, <1>6 DEF SessionInv

LEMMA SessionShape ==
  ASSUME SessionInv
  PROVE  /\ SessionTypeOK /\ TurnsAreLogged
         /\ session \in [Conversations -> SUBSET Turns] /\ continuation \in [Conversations -> SUBSET Turns]
         /\ transcript \in [Conversations -> Seq(Turns)] /\ saved \in [Conversations -> Seq(Turns)]
         /\ Len(log) \in 0..MaxTurns /\ 1..Len(log) \subseteq Turns /\ MaxTurns \in Nat
         /\ \A c \in Conversations : TurnsOf(c) \subseteq 1..Len(log)
         /\ Web \in Conversations
<1>1. SessionTypeOK /\ TurnsAreLogged
  BY DEF SessionInv
<1>2. MaxTurns \in Nat /\ Web \in Conversations
  BY SessionsConstantsOK DEF SessionsConstantsOK, Conversations
<1>3. Len(log) \in 0..MaxTurns /\ 1..Len(log) \subseteq Turns
  <2>1. Len(log) \in Nat
    BY <1>1 DEF SessionTypeOK
  <2> QED
    BY <1>1, <1>2, <2>1 DEF Turns, TurnsAreLogged
<1>4. \A c \in Conversations : TurnsOf(c) \subseteq 1..Len(log)
  BY DEF TurnsOf
<1>5. /\ session \in [Conversations -> SUBSET Turns] /\ continuation \in [Conversations -> SUBSET Turns]
      /\ transcript \in [Conversations -> Seq(Turns)] /\ saved \in [Conversations -> Seq(Turns)]
  BY <1>1 DEF SessionTypeOK
<1> QED
  BY <1>1, <1>2, <1>3, <1>4, <1>5

LEMMA TypesStay ==
  ASSUME SessionInv, [SessionNext]_sessionVars
  PROVE  SessionTypeOK' /\ TurnsAreLogged'
<1>0. /\ SessionTypeOK /\ TurnsAreLogged
      /\ session \in [Conversations -> SUBSET Turns] /\ continuation \in [Conversations -> SUBSET Turns]
      /\ transcript \in [Conversations -> Seq(Turns)] /\ saved \in [Conversations -> Seq(Turns)]
      /\ Len(log) \in 0..MaxTurns /\ 1..Len(log) \subseteq Turns /\ MaxTurns \in Nat
      /\ \A c \in Conversations : TurnsOf(c) \subseteq 1..Len(log)
      /\ Web \in Conversations
  BY SessionShape
<1> USE DEF SessionTypeOK, TurnsAreLogged
<1>1. CASE StartWorker
  <2>1. transcript' \in [Conversations -> Seq(Turns)]
    <3>1. Visible \in Seq(Turns)
      BY <1>0, VisibleTurns, SeqMonotonic
    <3> QED
      BY <3>1, <1>0, <1>1 DEF StartWorker
  <2>2. \A c \in Conversations : Range(transcript'[c]) \subseteq Turns
    BY <2>1 DEF Range
  <2>3. continuation' \in [Conversations -> SUBSET Turns] /\ session' \in [Conversations -> SUBSET Turns]
    BY <1>1, <2>2 DEF StartWorker
  <2>4. worker' = [at |-> "idle", turn |-> 0] /\ cancel' = FALSE
        /\ UNCHANGED <<saved, memory, log, hidden, clearing, recorded, cleared, forgiven>>
    BY <1>1 DEF StartWorker
  <2>5. TurnsAreLogged'
    BY <1>0, <2>4
  <2>6. SessionTypeOK'
    <3>1. {session', continuation'} \subseteq [Conversations -> SUBSET Turns]
      BY <2>3
    <3>2. {transcript', saved'} \subseteq [Conversations -> Seq(Turns)]
      BY <1>0, <2>1, <2>4
    <3>3. worker' \in [at : {"down", "idle", "query", "split"}, turn : 0..MaxTurns]
      BY <1>0, <2>4
    <3> QED
      BY <1>0, <2>4, <3>1, <3>2, <3>3
  <2> QED
    BY <2>5, <2>6
<1>2. ASSUME NEW c \in Conversations, StartQuery(c) PROVE SessionTypeOK' /\ TurnsAreLogged'
  <2>1. log' = Append(log, c) /\ log' \in Seq(Conversations) /\ Len(log') = Len(log) + 1 /\ Len(log') <= MaxTurns
    BY <1>0, <1>2 DEF StartQuery
  <2> QED
    BY <1>0, <1>2, <2>1 DEF StartQuery
<1>3. ASSUME NEW b \in BOOLEAN, QueryEnds(b) PROVE SessionTypeOK' /\ TurnsAreLogged'
  <2> DEFINE t == worker.turn
             c == log[t]
  <2>1. t \in 1..Len(log) /\ t \in Turns /\ c \in Conversations
    BY <1>0, <1>3 DEF QueryEnds, Doing
  <2>2. Record(c, t) /\ Known(c) \subseteq Turns
    BY <1>0, <1>3, <2>1 DEF QueryEnds, Known
  <2> HIDE DEF t, c
  <2>3. /\ recorded' = recorded \cup {t} /\ hidden' = hidden \ {t}
        /\ {transcript', saved'} \subseteq [Conversations -> Seq(Turns)]
    BY <1>0, <2>1, <2>2, Recording
  <2>4. worker' = (IF b THEN [worker EXCEPT !.at = "split"] ELSE [at |-> "idle", turn |-> 0])
    BY <1>3 DEF QueryEnds
  <2>5. /\ worker' \in [at : {"down", "idle", "query", "split"}, turn : 0..MaxTurns]
        /\ worker'.at \in {"query", "split"} => worker'.turn = t
    <3>1. worker \in [at : {"down", "idle", "query", "split"}, turn : 0..MaxTurns] /\ 0 \in 0..MaxTurns
      BY <1>0
    <3>2. CASE b
      BY <2>4, <3>1, <3>2 DEF t
    <3>3. CASE ~b
      BY <2>4, <3>1, <3>3
    <3> QED
      BY <3>2, <3>3
  <2>6. session' \in [Conversations -> SUBSET Turns] /\ continuation' \in [Conversations -> SUBSET Turns]
    BY <1>0, <1>3, <2>1, <2>2 DEF QueryEnds, c, t
  <2>7. UNCHANGED <<memory, log, cancel, clearing, cleared, forgiven>>
    BY <1>3 DEF QueryEnds
  <2> QED
    BY <1>0, <2>1, <2>3, <2>5, <2>6, <2>7
<1>4. CASE QueryFails
  BY <1>0, <1>4 DEF QueryFails
<1>5. CASE QueryStopped
  <2> DEFINE t == worker.turn
             c == log[t]
  <2>1. t \in 1..Len(log) /\ t \in Turns /\ c \in Conversations
    BY <1>0, <1>5 DEF QueryStopped, Doing
  <2>2. Record(c, t)
    BY <1>5 DEF QueryStopped
  <2> HIDE DEF t, c
  <2>3. /\ recorded' = recorded \cup {t} /\ hidden' = hidden \ {t}
        /\ transcript' \in [Conversations -> Seq(Turns)] /\ saved' \in [Conversations -> Seq(Turns)]
    BY <1>0, <2>1, <2>2, Recording
  <2>4. Range(saved'[c]) \subseteq Turns
    BY <2>1, <2>3 DEF Range
  <2>5. session' \in [Conversations -> SUBSET Turns] /\ continuation' \in [Conversations -> SUBSET Turns]
    BY <1>0, <1>5, <2>1, <2>4 DEF QueryStopped, c, t
  <2>6. worker' = [at |-> "idle", turn |-> 0] /\ cancel' = FALSE /\ UNCHANGED <<memory, log, clearing, cleared, forgiven>>
    BY <1>5 DEF QueryStopped
  <2>7. recorded' \subseteq 1..Len(log) /\ hidden' \subseteq 1..Len(log)
    BY <1>0, <2>1, <2>3
  <2>8. TurnsAreLogged'
    BY <1>0, <2>6, <2>7
  <2>9. SessionTypeOK'
    <3>1. {session', continuation'} \subseteq [Conversations -> SUBSET Turns]
      BY <2>5
    <3>2. {transcript', saved'} \subseteq [Conversations -> Seq(Turns)]
      BY <2>3
    <3>3. {memory', hidden', recorded', cleared', forgiven'} \subseteq SUBSET Turns
      BY <1>0, <2>6, <2>7
    <3>4. worker' \in [at : {"down", "idle", "query", "split"}, turn : 0..MaxTurns]
      BY <1>0, <2>6
    <3> QED
      BY <1>0, <2>6, <3>1, <3>2, <3>3, <3>4
  <2> QED
    BY <2>8, <2>9
<1>6. ASSUME NEW s \in {"written", "made", "none", "unindexed"}, SplitEnds(s)
      PROVE SessionTypeOK' /\ TurnsAreLogged'
  <2> DEFINE c == log[worker.turn]
             all == Range(transcript[c])
  <2>1. c \in Conversations /\ all \subseteq Turns
    <3>1. c \in Conversations
      BY <1>0, <1>6 DEF SplitEnds, Doing
    <3> QED
      BY <3>1, <1>0, Transcripts
  <2>2. Recent(transcript[c]) \in Seq(Turns)
    BY <1>0, <2>1, Transcripts
  <2>3. /\ memory' = IF s \in {"written", "unindexed"} THEN memory \cup all ELSE memory
        /\ continuation' = IF s = "none" THEN continuation ELSE [continuation EXCEPT ![c] = all]
        /\ \/ UNCHANGED <<session, transcript, forgiven>>
           \/ /\ session' = [session EXCEPT ![c] = {}]
              /\ transcript' = [transcript EXCEPT ![c] = Recent(transcript[c])]
              /\ forgiven' = forgiven \cup (all \ (Range(transcript'[c]) \cup memory'))
    BY <1>6 DEF SplitEnds, Forgive
  <2>4. worker' = [at |-> "idle", turn |-> 0] /\ UNCHANGED <<saved, log, hidden, cancel, clearing, recorded, cleared>>
    BY <1>6 DEF SplitEnds
  <2> HIDE DEF c, all
  <2>5. memory' \subseteq Turns /\ continuation' \in [Conversations -> SUBSET Turns]
    BY <1>0, <2>1, <2>3
  <2>6. session' \in [Conversations -> SUBSET Turns] /\ transcript' \in [Conversations -> Seq(Turns)] /\ forgiven' \subseteq Turns
    BY <1>0, <2>1, <2>2, <2>3
  <2> QED
    BY <1>0, <2>4, <2>5, <2>6
<1>7. CASE StopQuery
  BY <1>0, <1>7 DEF StopQuery
<1>8. CASE IdlePoll
  BY <1>0, <1>8 DEF IdlePoll
<1>9. ASSUME NEW b \in BOOLEAN, ClearContext(b) PROVE SessionTypeOK' /\ TurnsAreLogged'
  BY <1>0, <1>9 DEF ClearContext
<1>10. ASSUME NEW b \in BOOLEAN, ClearSession(b) PROVE SessionTypeOK' /\ TurnsAreLogged'
  <2>1. Range(transcript[Web]) \subseteq Turns
    BY <1>0, Transcripts
  <2>2. memory' \subseteq Turns /\ forgiven' \subseteq Turns
    BY <1>0, <1>10, <2>1 DEF ClearSession, Forgive
  <2>3. /\ session' \in [Conversations -> SUBSET Turns] /\ continuation' \in [Conversations -> SUBSET Turns]
        /\ transcript' \in [Conversations -> Seq(Turns)] /\ saved' \in [Conversations -> Seq(Turns)]
    BY <1>0, <1>10 DEF ClearSession
  <2> QED
    BY <1>0, <1>10, <2>2, <2>3, ZenonT(60) DEF ClearSession
<1>11. ASSUME NEW s \in SUBSET Conversations, Shutdown(s) PROVE SessionTypeOK' /\ TurnsAreLogged'
  <2>1. \A c \in Conversations : Range(transcript[c]) \subseteq Turns /\ Recent(transcript[c]) \in Seq(Turns)
    BY <1>0, Transcripts
  <2>2. memory' \subseteq Turns /\ forgiven' \subseteq Turns
    BY <1>0, <1>11, <2>1 DEF Shutdown
  <2>3. saved' \in [Conversations -> Seq(Turns)]
    BY <1>0, <1>11, <2>1 DEF Shutdown
  <2> QED
    BY <1>0, <1>11, <2>2, <2>3 DEF Shutdown
<1>12. CASE WorkerCrashes
  <2>1. \A c \in Conversations : Range(transcript[c]) \subseteq Turns
    BY <1>0, Transcripts
  <2>2. forgiven' \subseteq Turns
    BY <1>0, <1>12, <2>1 DEF WorkerCrashes
  <2> QED
    BY <1>0, <1>12, <2>2 DEF WorkerCrashes
<1>13. CASE UNCHANGED sessionVars
  BY <1>0, <1>13 DEF sessionVars
<1> QED
  BY <1>1, <1>2, <1>3, <1>4, <1>5, <1>6, <1>7, <1>8, <1>9, <1>10, <1>11, <1>12, <1>13 DEF SessionNext

\* A turn that is logged keeps its conversation.
LEMMA LogStays ==
  ASSUME SessionInv, [SessionNext]_sessionVars
  PROVE  /\ \A t \in 1..Len(log) : t \in 1..Len(log') /\ log'[t] = log[t]
         /\ \A c \in Conversations : TurnsOf(c) \subseteq TurnsOf(c)'
<1>1. log \in Seq(Conversations)
  BY DEF SessionInv, SessionTypeOK
<1>2. log' = log \/ \E c \in Conversations : log' = Append(log, c)
  BY DEF SessionNext, sessionVars, StartWorker, QueryFails, QueryStopped, StopQuery, IdlePoll, WorkerCrashes,
     StartQuery, QueryEnds, ClearContext, ClearSession, SplitEnds, Shutdown
<1>3. \A t \in 1..Len(log) : t \in 1..Len(log') /\ log'[t] = log[t]
  BY <1>1, <1>2
<1> QED
  BY <1>3 DEF TurnsOf

LEMMA SavedStays ==
  ASSUME SessionInv, [SessionNext]_sessionVars
  PROVE  SavedIsRecent'
<1> SUFFICES ASSUME NEW d \in Conversations
             PROVE  /\ Len(saved'[d]) <= HistoryWindow
                    /\ worker'.at # "down" => saved'[d] \in {<<>>, Recent(transcript'[d])}
                    /\ saved'[d] = <<>> => \A t \in recorded' \ forgiven' : log'[t] = d => t \in memory'
  BY DEF SavedIsRecent, Doing, Recent
<1> DEFINE Goal == /\ Len(saved'[d]) <= HistoryWindow
                   /\ worker'.at # "down" => saved'[d] \in {<<>>, Recent(transcript'[d])}
                   /\ saved'[d] = <<>> => \A t \in recorded' \ forgiven' : log'[t] = d => t \in memory'
<1>0. /\ SessionTypeOK /\ TurnsAreLogged
      /\ transcript \in [Conversations -> Seq(Turns)] /\ saved \in [Conversations -> Seq(Turns)]
      /\ 1..Len(log) \subseteq Turns
      /\ Len(saved[d]) <= HistoryWindow /\ Recent(saved[d]) = saved[d]
      /\ ~Doing("down") => saved[d] \in {<<>>, Recent(transcript[d])}
      /\ saved[d] = <<>> => \A t \in recorded \ forgiven : log[t] = d => t \in memory
      /\ Recent(Recent(transcript[d])) = Recent(transcript[d])
      /\ Recent(<<>>) = <<>>
      /\ recorded \subseteq 1..Len(log)
  <2>1. SavedIsRecent /\ SessionTypeOK /\ TurnsAreLogged
    BY DEF SessionInv
  <2>2. /\ Len(saved[d]) <= HistoryWindow
        /\ ~Doing("down") => saved[d] \in {<<>>, Recent(transcript[d])}
        /\ saved[d] = <<>> => \A t \in recorded \ forgiven : log[t] = d => t \in memory
    BY <2>1 DEF SavedIsRecent
  <2>3. /\ Recent(saved[d]) = saved[d] /\ Recent(Recent(transcript[d])) = Recent(transcript[d])
    BY <2>1, <2>2, Transcripts
  <2>4. Recent(<<>>) = <<>>
    <3>1. <<>> \in Seq(Turns) /\ Len(<<>>) <= HistoryWindow
      BY SessionsConstantsOK DEF SessionsConstantsOK
    <3> QED
      BY <3>1, RecentIsTheEnd
  <2>5. recorded \subseteq 1..Len(log)
    BY <2>1 DEF TurnsAreLogged
  <2> QED
    BY <2>1, <2>2, <2>3, <2>4, <2>5, SessionShape
<1>1. CASE StartWorker
  <2>1. /\ saved' = saved /\ UNCHANGED <<memory, log, recorded, forgiven>>
        /\ transcript'[d] = saved[d] \/ saved[d] = <<>>
    BY <1>1 DEF StartWorker
  <2> QED
    BY <2>1, <1>0
<1>2. ASSUME NEW c \in Conversations, StartQuery(c) PROVE Goal
  <2>1. UNCHANGED <<memory, saved, transcript, recorded, forgiven>> /\ ~Doing("down")
    BY <1>2 DEF StartQuery, Doing
  <2>2. \A t \in recorded : log'[t] = log[t]
    BY <1>0, LogStays
  <2> QED
    BY <2>1, <2>2, <1>0
<1>3. ASSUME NEW t \in 1..Len(log), NEW c \in Conversations, c = log[t], Record(c, t), ~Doing("down"),
             UNCHANGED <<log, memory, forgiven>>
      PROVE  Goal
  <2>1. /\ transcript' = [transcript EXCEPT ![c] = Append(transcript[c], t)]
        /\ saved' = [saved EXCEPT ![c] = Recent(Append(transcript[c], t))]
        /\ recorded' = recorded \cup {t}
        /\ saved'[c] = Recent(transcript'[c]) /\ saved'[c] # <<>> /\ Len(saved'[c]) <= HistoryWindow
    BY <1>0, <1>3, Recording
  <2>2. CASE c = d
    BY <2>1, <2>2
  <2>3. CASE c # d
    <3>1. transcript'[d] = transcript[d] /\ saved'[d] = saved[d]
      BY <1>0, <2>1, <2>3
    <3>2. \A u \in recorded' : log'[u] = d => u \in recorded
      BY <1>3, <2>1, <2>3
    <3> QED
      BY <3>1, <3>2, <1>0, <1>3
  <2> QED
    BY <2>2, <2>3
<1>4. ASSUME QueryStopped \/ \E b \in BOOLEAN : QueryEnds(b) PROVE Goal
  <2>1. /\ worker.turn \in 1..Len(log) /\ log[worker.turn] \in Conversations
    BY <1>0, <1>4 DEF QueryEnds, QueryStopped, Doing, SessionTypeOK, TurnsAreLogged
  <2>2. Record(log[worker.turn], worker.turn) /\ UNCHANGED <<log, memory, forgiven>> /\ ~Doing("down")
    BY <1>4 DEF QueryEnds, QueryStopped, Doing
  <2> HIDE DEF Goal
  <2> QED
    BY <2>1, <2>2, <1>3
<1>5. ASSUME NEW s \in {"written", "made", "none", "unindexed"}, SplitEnds(s) PROVE Goal
  <2>1. /\ memory \subseteq memory' /\ forgiven \subseteq forgiven' /\ UNCHANGED <<saved, log, recorded>>
        /\ ~Doing("down")
        /\ transcript'[d] \in {transcript[d], Recent(transcript[d])}
    BY <1>0, <1>5 DEF SplitEnds, Forgive, Doing
  <2> QED
    BY <2>1, <1>0
<1>6. ASSUME NEW b \in BOOLEAN, ClearSession(b) PROVE Goal
  <2>1. /\ memory' = (IF b THEN memory \cup Range(transcript[Web]) ELSE memory) /\ UNCHANGED <<log, recorded>>
        /\ forgiven' = forgiven \cup (Range(transcript[Web]) \ (Range(<<>>) \cup memory'))
        /\ transcript' = [transcript EXCEPT ![Web] = <<>>] /\ saved' = [saved EXCEPT ![Web] = <<>>]
        /\ ~Doing("down")
    BY <1>6 DEF ClearSession, Forgive, Doing
  <2>2. CASE d # Web
    BY <2>1, <2>2, <1>0
  <2>3. CASE d = Web
    <3>1. Range(<<>>) = {} /\ Len(<<>>) = 0 /\ HistoryWindow >= 0
      BY SessionsConstantsOK DEF Range, SessionsConstantsOK
    <3>2. transcript'[d] = <<>> /\ saved'[d] = <<>>
      BY <2>1, <2>3, <1>0
    <3>3. \A t \in recorded \ forgiven : log[t] = d => t \in memory \cup Range(transcript[d])
      <4>1. Range(saved[d]) \subseteq Range(transcript[d])
        BY <1>0, <2>1, <3>1, Transcripts
      <4>2. TurnsAreRemembered
        BY DEF SessionInv
      <4> QED
        BY <4>1, <4>2, <2>1 DEF TurnsAreRemembered
    <3> QED
      BY <2>1, <2>3, <3>1, <3>2, <3>3, <1>0
  <2> QED
    BY <2>2, <2>3
<1>7. ASSUME NEW s \in SUBSET Conversations, Shutdown(s) PROVE Goal
  <2>1. /\ memory \subseteq memory' /\ forgiven \subseteq forgiven' /\ UNCHANGED <<log, recorded>>
        /\ worker'.at = "down"
        /\ saved'[d] = IF transcript[d] = <<>> THEN saved[d] ELSE Recent(transcript[d])
    BY <1>7 DEF Shutdown
  <2>2. transcript[d] # <<>> => Recent(transcript[d]) # <<>>
    BY <1>0, Transcripts
  <2>3. Len(Recent(transcript[d])) <= HistoryWindow
    BY <1>0, Transcripts
  <2> QED
    BY <2>1, <2>2, <2>3, <1>0
<1>8. CASE WorkerCrashes
  <2>1. /\ forgiven \subseteq forgiven' /\ worker'.at = "down"
        /\ UNCHANGED <<memory, log, recorded, saved>>
    BY <1>8 DEF WorkerCrashes
  <2> QED
    BY <2>1, <1>0
<1>9. ASSUME UNCHANGED <<saved, transcript, memory, log, recorded, forgiven>>,
             worker'.at = "down" \/ ~Doing("down") \/ worker' = worker
      PROVE  Goal
  BY <1>9, <1>0 DEF Doing
<1>10. ASSUME \/ QueryFails \/ StopQuery \/ IdlePoll \/ UNCHANGED sessionVars
              \/ \E b \in BOOLEAN : ClearContext(b)
       PROVE  Goal
  <2> HIDE DEF Goal
  <2>1. UNCHANGED <<saved, transcript, memory, log, recorded, forgiven>> /\ (~Doing("down") \/ worker' = worker)
    BY <1>10 DEF QueryFails, StopQuery, IdlePoll, ClearContext, sessionVars, Doing
  <2> QED
    BY <2>1, <1>9
<1> QED
  <2>0. StartWorker \/ WorkerCrashes => Goal
    BY <1>1, <1>8
  <2> HIDE DEF Goal
  <2>1. Goal
    BY <1>2, <1>4, <1>5, <1>6, <1>7, <1>10, <2>0 DEF SessionNext
  <2> QED
    BY <2>1 DEF Goal

LEMMA ClearedStays ==
  ASSUME SessionInv, [SessionNext]_sessionVars
  PROVE  ClearedIsGone'
<1>0. /\ SessionTypeOK /\ TurnsAreLogged
      /\ transcript \in [Conversations -> Seq(Turns)] /\ saved \in [Conversations -> Seq(Turns)]
      /\ 1..Len(log) \subseteq Turns /\ Web \in Conversations
      /\ cleared \subseteq hidden /\ hidden \subseteq 1..Len(log)
      /\ cleared \cap Range(saved[Web]) = {}
      /\ ~Doing("down") => cleared \cap Range(transcript[Web]) = {}
      /\ Doing("query") => worker.turn \notin cleared
      /\ Range(Recent(transcript[Web])) \subseteq Range(transcript[Web])
  <2>1. ClearedIsGone /\ SessionTypeOK /\ TurnsAreLogged
    BY DEF SessionInv
  <2>2. Web \in Conversations
    BY SessionShape
  <2>3. Range(Recent(transcript[Web])) \subseteq Range(transcript[Web])
    BY <2>1, <2>2, Transcripts
  <2> QED
    BY <2>1, <2>2, <2>3, SessionShape DEF ClearedIsGone, TurnsAreLogged
<1> USE DEF ClearedIsGone
<1>1. CASE StartWorker
  <2>1. /\ UNCHANGED <<saved, cleared, hidden>> /\ worker'.at = "idle"
        /\ transcript'[Web] \in {saved[Web], Visible}
    BY <1>0, <1>1 DEF StartWorker
  <2>2. Range(Visible) \cap hidden = {}
    BY <1>0, VisibleTurns
  <2> QED
    BY <1>0, <2>1, <2>2 DEF Doing
<1>2. ASSUME NEW c \in Conversations, StartQuery(c) PROVE ClearedIsGone'
  <2>1. UNCHANGED <<saved, transcript, cleared, hidden>> /\ worker'.turn = Len(log') /\ ~Doing("down")
    BY <1>2 DEF StartQuery, Doing
  <2>2. Len(log') \notin 1..Len(log)
    <3>1. log \in Seq(Conversations) /\ log' = Append(log, c)
      BY <1>0, <1>2 DEF StartQuery, SessionTypeOK
    <3> QED
      BY <3>1
  <2> QED
    BY <1>0, <2>1, <2>2
<1>3. CASE QueryStopped \/ \E b \in BOOLEAN : QueryEnds(b)
  <2> DEFINE t == worker.turn
             c == log[t]
  <2>1. t \in 1..Len(log) /\ t \in Turns /\ c \in Conversations /\ t \notin cleared
    BY <1>0, <1>3 DEF QueryEnds, QueryStopped, Doing, SessionTypeOK, TurnsAreLogged
  <2>2. Record(c, t) /\ UNCHANGED <<log, cleared>> /\ ~Doing("down") /\ worker'.at # "query"
    <3>1. worker \in [at : {"down", "idle", "query", "split"}, turn : 0..MaxTurns]
      BY <1>0 DEF SessionTypeOK
    <3> QED
      BY <1>3, <3>1 DEF QueryEnds, QueryStopped, Doing
  <2> HIDE DEF t, c
  <2>3. /\ transcript' = [transcript EXCEPT ![c] = Append(transcript[c], t)]
        /\ saved' = [saved EXCEPT ![c] = Recent(Append(transcript[c], t))]
        /\ hidden' = hidden \ {t}
        /\ Range(transcript'[c]) = Range(transcript[c]) \cup {t}
        /\ Range(saved'[c]) \subseteq Range(transcript'[c])
    BY <1>0, <2>1, <2>2, Recording
  <2>4. CASE c = Web
    BY <1>0, <2>1, <2>2, <2>3, <2>4 DEF Doing
  <2>5. CASE c # Web
    <3>1. transcript'[Web] = transcript[Web] /\ saved'[Web] = saved[Web]
      BY <1>0, <2>3, <2>5
    <3> QED
      BY <1>0, <2>1, <2>2, <2>3, <3>1 DEF Doing
  <2> QED
    BY <2>4, <2>5
<1>4. ASSUME NEW s \in {"written", "made", "none", "unindexed"}, SplitEnds(s) PROVE ClearedIsGone'
  <2>1. /\ UNCHANGED <<saved, cleared, hidden>> /\ ~Doing("down") /\ worker'.at = "idle"
        /\ transcript'[Web] \in {transcript[Web], Recent(transcript[Web])}
    BY <1>0, <1>4 DEF SplitEnds, Doing
  <2> QED
    BY <1>0, <2>1 DEF Doing
<1>5. ASSUME NEW b \in BOOLEAN, ClearSession(b) PROVE ClearedIsGone'
  <2>1. /\ transcript'[Web] = <<>> /\ saved'[Web] = <<>> /\ cleared' \subseteq cleared \cup hidden
        /\ UNCHANGED hidden /\ worker'.at = "idle"
    BY <1>0, <1>5 DEF ClearSession, Doing
  <2>2. Range(<<>>) = {}
    BY DEF Range
  <2> QED
    BY <1>0, <2>1, <2>2 DEF Doing
<1>6. ASSUME NEW s \in SUBSET Conversations, Shutdown(s) PROVE ClearedIsGone'
  <2>1. /\ saved'[Web] \in {saved[Web], Recent(transcript[Web])} /\ UNCHANGED <<cleared, hidden>>
        /\ ~Doing("down") /\ worker'.at = "down"
    BY <1>0, <1>6 DEF Shutdown, Doing
  <2> QED
    BY <1>0, <2>1 DEF Doing
<1>7. ASSUME \/ QueryFails \/ WorkerCrashes \/ StopQuery \/ IdlePoll \/ UNCHANGED sessionVars
             \/ \E b \in BOOLEAN : ClearContext(b)
      PROVE  ClearedIsGone'
  <2>1. /\ UNCHANGED <<saved, transcript, cleared>> /\ hidden \subseteq hidden'
        /\ worker' = worker \/ worker'.at = "down" \/ (worker'.at = "idle" /\ ~Doing("down"))
    BY <1>7 DEF QueryFails, WorkerCrashes, StopQuery, IdlePoll, ClearContext, sessionVars, Doing
  <2> QED
    BY <1>0, <2>1 DEF Doing
<1> QED
  <2> HIDE DEF ClearedIsGone
  <2> QED
    BY <1>1, <1>2, <1>3, <1>4, <1>5, <1>6, <1>7 DEF SessionNext

LEMMA ConversationsStay ==
  ASSUME SessionInv, [SessionNext]_sessionVars
  PROVE  ThreadsKeepTheirOwn' /\ ConversationsStayApart'
<1> DEFINE Own(c) == Range(transcript[c]) \cup Known(c) \cup Range(saved[c])
           Goal == /\ \A c \in Threads : Own(c)' \subseteq TurnsOf(c)'
                   /\ worker'.at # "down" => Known(Web)' \cap cleared' = {}
<1>a. SUFFICES Goal
  BY DEF ThreadsKeepTheirOwn, ConversationsStayApart, Doing
<1>0. /\ SessionTypeOK /\ TurnsAreLogged
      /\ session \in [Conversations -> SUBSET Turns] /\ continuation \in [Conversations -> SUBSET Turns]
      /\ transcript \in [Conversations -> Seq(Turns)] /\ saved \in [Conversations -> Seq(Turns)]
      /\ 1..Len(log) \subseteq Turns /\ Web \in Conversations /\ Web \notin Threads
      /\ Threads \subseteq Conversations
      /\ cleared \cap Range(saved[Web]) = {}
      /\ ~Doing("down") => cleared \cap Range(transcript[Web]) = {} /\ Known(Web) \cap cleared = {}
      /\ Doing("query") => worker.turn \notin cleared
      /\ \A c \in Threads : Own(c) \subseteq TurnsOf(c)
      /\ \A c \in Conversations : Range(Recent(transcript[c])) \subseteq Range(transcript[c])
      /\ \A c \in Threads : TurnsOf(c) \subseteq TurnsOf(c)'
  <2>1. ClearedIsGone /\ SessionTypeOK /\ TurnsAreLogged /\ ConversationsStayApart /\ ThreadsKeepTheirOwn
    BY DEF SessionInv
  <2>2. Threads \subseteq Conversations /\ Web \notin Threads
    BY SessionsConstantsOK DEF Conversations, SessionsConstantsOK
  <2>3. /\ \A c \in Conversations : Range(Recent(transcript[c])) \subseteq Range(transcript[c])
        /\ \A c \in Threads : TurnsOf(c) \subseteq TurnsOf(c)'
    BY <2>1, <2>2, Transcripts, LogStays
  <2>4. \A c \in Threads : Own(c) \subseteq TurnsOf(c)
    BY <2>1 DEF ThreadsKeepTheirOwn, ConversationsStayApart
  <2> HIDE DEF Own
  <2> QED
    BY <2>1, <2>2, <2>3, <2>4, SessionShape DEF ClearedIsGone, ConversationsStayApart
<1> USE DEF Known
<1>1. CASE StartWorker
  <2>1. UNCHANGED <<saved, cleared, hidden>>
    BY <1>1 DEF StartWorker
  <2>2. ASSUME NEW c \in Threads PROVE Own(c)' \subseteq TurnsOf(c)'
    <3>1. transcript'[c] = saved[c] /\ continuation'[c] = Range(saved[c]) /\ session'[c] = {}
      BY <1>0, <1>1 DEF StartWorker
    <3> QED
      BY <1>0, <2>1, <3>1
  <2>3. Known(Web)' \cap cleared' = {}
    <3>1. transcript'[Web] \in {saved[Web], Visible} /\ continuation'[Web] = Range(transcript'[Web]) /\ session'[Web] = {}
      BY <1>0, <1>1 DEF StartWorker
    <3>2. Range(Visible) \cap hidden = {}
      BY <1>0, VisibleTurns
    <3>3. cleared \subseteq hidden
      BY DEF SessionInv, ClearedIsGone
    <3> QED
      BY <1>0, <2>1, <3>1, <3>2, <3>3
  <2> HIDE DEF Own
  <2> QED
    BY <2>2, <2>3
<1>2. CASE \E b \in BOOLEAN : QueryEnds(b)
  <2>0. PICK t \in 1..Len(log), d \in Conversations : t = worker.turn /\ d = log[t]
    <3>1. worker.turn \in 1..Len(log) /\ log[worker.turn] \in Conversations
      BY <1>0, <1>2 DEF QueryEnds, Doing, SessionTypeOK, TurnsAreLogged
    <3> QED
      BY <3>1
  <2>1. t \in 1..Len(log) /\ t \in Turns /\ d \in Conversations /\ t \notin cleared /\ t \in TurnsOf(d)
    BY <1>0, <1>2, <2>0 DEF QueryEnds, Doing, TurnsOf
  <2>2. /\ Record(d, t) /\ UNCHANGED <<log, cleared>> /\ ~Doing("down")
        /\ session' = [session EXCEPT ![d] = Known(d) \cup {t}]
        /\ continuation' = [continuation EXCEPT ![d] = {}]
    BY <1>2, <2>0 DEF QueryEnds, Doing
  <2>3. /\ transcript' = [transcript EXCEPT ![d] = Append(transcript[d], t)]
        /\ saved' = [saved EXCEPT ![d] = Recent(Append(transcript[d], t))]
        /\ Range(transcript'[d]) = Range(transcript[d]) \cup {t}
        /\ Range(saved'[d]) \subseteq Range(transcript'[d])
    BY <1>0, <2>1, <2>2, Recording
  <2>4. /\ Known(d)' = Known(d) \cup {t}
        /\ \A c \in Conversations : c # d => /\ Known(c)' = Known(c)
                                          /\ transcript'[c] = transcript[c] /\ saved'[c] = saved[c]
    BY <1>0, <2>1, <2>2, <2>3
  <2>5. TurnsOf(d)' = TurnsOf(d)
    BY <2>2 DEF TurnsOf
  <2>6. ASSUME NEW c \in Threads PROVE Own(c)' \subseteq TurnsOf(c)'
    <3>1. CASE c = d
      BY <1>0, <2>1, <2>3, <2>4, <2>5, <3>1
    <3>2. CASE c # d
      BY <1>0, <2>4, <3>2
    <3> QED
      BY <3>1, <3>2
  <2>7. Known(Web)' \cap cleared' = {}
    BY <1>0, <2>1, <2>2, <2>4
  <2> HIDE DEF Own
  <2> QED
    BY <2>6, <2>7
<1>3. CASE QueryStopped
  <2>0. PICK t \in 1..Len(log), d \in Conversations : t = worker.turn /\ d = log[t]
    <3>1. worker.turn \in 1..Len(log) /\ log[worker.turn] \in Conversations
      BY <1>0, <1>3 DEF QueryStopped, Doing, SessionTypeOK, TurnsAreLogged
    <3> QED
      BY <3>1
  <2>1. t \in 1..Len(log) /\ t \in Turns /\ d \in Conversations /\ t \notin cleared /\ t \in TurnsOf(d)
    BY <1>0, <1>3, <2>0 DEF QueryStopped, Doing, TurnsOf
  <2>2. /\ Record(d, t) /\ UNCHANGED <<log, cleared>> /\ ~Doing("down")
        /\ session' = [session EXCEPT ![d] = {}]
        /\ continuation' = [continuation EXCEPT ![d] = Range(saved'[d])]
    BY <1>3, <2>0 DEF QueryStopped, Doing
  <2>3. /\ transcript' = [transcript EXCEPT ![d] = Append(transcript[d], t)]
        /\ saved' = [saved EXCEPT ![d] = Recent(Append(transcript[d], t))]
        /\ Range(transcript'[d]) = Range(transcript[d]) \cup {t}
        /\ Range(saved'[d]) \subseteq Range(transcript'[d])
    BY <1>0, <2>1, <2>2, Recording
  <2>4. /\ Known(d)' = Range(saved'[d])
        /\ \A c \in Conversations : c # d => /\ Known(c)' = Known(c)
                                          /\ transcript'[c] = transcript[c] /\ saved'[c] = saved[c]
    BY <1>0, <2>1, <2>2, <2>3
  <2>5. TurnsOf(d)' = TurnsOf(d)
    BY <2>2 DEF TurnsOf
  <2>6. ASSUME NEW c \in Threads PROVE Own(c)' \subseteq TurnsOf(c)'
    <3>1. CASE c = d
      BY <1>0, <2>1, <2>3, <2>4, <2>5, <3>1
    <3>2. CASE c # d
      BY <1>0, <2>4, <3>2
    <3> QED
      BY <3>1, <3>2
  <2>7. Known(Web)' \cap cleared' = {}
    BY <1>0, <2>1, <2>2, <2>3, <2>4
  <2> HIDE DEF Own
  <2> QED
    BY <2>6, <2>7
<1>4. ASSUME NEW s \in {"written", "made", "none", "unindexed"}, SplitEnds(s) PROVE Goal
  <2> DEFINE d == log[worker.turn]
  <2>1. /\ UNCHANGED <<saved, cleared>> /\ ~Doing("down") /\ d \in Conversations
        /\ session' \in {session, [session EXCEPT ![d] = {}]}
        /\ continuation' \in {continuation, [continuation EXCEPT ![d] = Range(transcript[d])]}
        /\ transcript' \in {transcript, [transcript EXCEPT ![d] = Recent(transcript[d])]}
    BY <1>0, <1>4 DEF SplitEnds, Doing, SessionTypeOK, TurnsAreLogged
  <2> HIDE DEF d
  <2>2. \A c \in Conversations :
          /\ session'[c] \subseteq session[c] /\ continuation'[c] \in {continuation[c], Range(transcript[c])}
          /\ Range(transcript'[c]) \subseteq Range(transcript[c])
    BY <1>0, <2>1
  <2>3. \A c \in Threads : Own(c)' \subseteq TurnsOf(c)'
    BY <1>0, <2>1, <2>2
  <2>4. Known(Web)' \cap cleared' = {}
    BY <1>0, <2>1, <2>2
  <2> QED
    BY <2>3, <2>4
<1>5. ASSUME NEW b \in BOOLEAN, ClearSession(b) PROVE Goal
  <2>1. /\ session' = [session EXCEPT ![Web] = {}] /\ continuation' = [continuation EXCEPT ![Web] = {}]
        /\ transcript' = [transcript EXCEPT ![Web] = <<>>] /\ saved' = [saved EXCEPT ![Web] = <<>>]
    BY <1>5 DEF ClearSession
  <2>2. Known(Web)' = {}
    BY <1>0, <2>1
  <2>3. ASSUME NEW c \in Threads PROVE Own(c)' \subseteq TurnsOf(c)'
    <3>1. session'[c] = session[c] /\ continuation'[c] = continuation[c] /\ transcript'[c] = transcript[c] /\ saved'[c] = saved[c]
      BY <1>0, <2>1
    <3> QED
      BY <1>0, <3>1
  <2> HIDE DEF Own
  <2> QED
    BY <2>2, <2>3
<1>6. ASSUME NEW s \in SUBSET Conversations, Shutdown(s) PROVE Goal
  <2>1. /\ \A c \in Conversations : saved'[c] \in {saved[c], Recent(transcript[c])}
        /\ worker'.at = "down" /\ UNCHANGED <<session, continuation, transcript>>
    BY <1>6 DEF Shutdown
  <2>2. \A c \in Threads : Own(c)' \subseteq TurnsOf(c)'
    BY <1>0, <2>1
  <2> QED
    BY <2>1, <2>2
<1>7. ASSUME \/ QueryFails \/ WorkerCrashes \/ StopQuery \/ IdlePoll \/ UNCHANGED sessionVars
             \/ \E b \in BOOLEAN : ClearContext(b)
             \/ \E c \in Conversations : StartQuery(c)
      PROVE  Goal
  <2>1. /\ UNCHANGED <<saved, transcript, session, continuation, cleared>>
        /\ worker' = worker \/ worker'.at = "down" \/ ~Doing("down")
    BY <1>7 DEF QueryFails, WorkerCrashes, StopQuery, IdlePoll, ClearContext, sessionVars, Doing, StartQuery
  <2> QED
    BY <1>0, <2>1 DEF Doing
<1> QED
  <2>0. StartWorker \/ QueryStopped \/ (\E b \in BOOLEAN : QueryEnds(b)) => Goal
    BY <1>1, <1>2, <1>3
  <2> HIDE DEF Goal
  <2> QED
    BY <1>4, <1>5, <1>6, <1>7, <2>0 DEF SessionNext

LEMMA MemoryStays ==
  ASSUME SessionInv, [SessionNext]_sessionVars
  PROVE  TurnsAreRemembered'
<1> SUFFICES ASSUME NEW t \in recorded' \ forgiven'
             PROVE  \/ t \in memory' \cup Range(saved'[log'[t]])
                    \/ worker'.at # "down" /\ t \in Range(transcript'[log'[t]])
  BY DEF TurnsAreRemembered, Doing
<1> DEFINE Goal == \/ t \in memory' \cup Range(saved'[log'[t]])
                   \/ worker'.at # "down" /\ t \in Range(transcript'[log'[t]])
<1>0. /\ SessionTypeOK /\ TurnsAreLogged
      /\ transcript \in [Conversations -> Seq(Turns)] /\ saved \in [Conversations -> Seq(Turns)]
      /\ 1..Len(log) \subseteq Turns /\ Web \in Conversations
      /\ \A c \in Conversations : Range(Recent(transcript[c])) \subseteq Range(transcript[c])
      /\ recorded \subseteq 1..Len(log)
      /\ Range(<<>>) = {}
  <2>1. SessionTypeOK /\ TurnsAreLogged
    BY DEF SessionInv
  <2>2. \A c \in Conversations : Range(Recent(transcript[c])) \subseteq Range(transcript[c])
    BY <2>1, Transcripts
  <2>3. Range(<<>>) = {}
    BY DEF Range
  <2> QED
    BY <2>1, <2>2, <2>3, SessionShape DEF TurnsAreLogged
\* A recorded turn: in the transcript, or no worker is there.
<1>A. ASSUME t \in recorded \ forgiven
      PROVE  /\ log[t] \in Conversations /\ log'[t] = log[t]
             /\ t \in memory \cup Range(saved[log[t]]) \cup Range(transcript[log[t]])
             /\ Doing("down") => t \in memory \cup Range(saved[log[t]])
             /\ ~Doing("down") => t \in memory \cup Range(transcript[log[t]])
             /\ saved[log[t]] = <<>> => t \in memory
             /\ ~Doing("down") => saved[log[t]] \in {<<>>, Recent(transcript[log[t]])}
  <2>1. log[t] \in Conversations /\ log'[t] = log[t]
    BY <1>0, <1>A, LogStays DEF SessionTypeOK
  <2>2. TurnsAreRemembered /\ SavedIsRecent
    BY DEF SessionInv
  <2>3. /\ saved[log[t]] = <<>> => t \in memory
        /\ ~Doing("down") => saved[log[t]] \in {<<>>, Recent(transcript[log[t]])}
    BY <2>1, <2>2, <1>A DEF SavedIsRecent
  <2>4. IF Doing("down") THEN t \in memory \cup Range(saved[log[t]])
        ELSE t \in memory \cup Range(saved[log[t]]) \cup Range(transcript[log[t]])
    BY <2>2, <1>A DEF TurnsAreRemembered
  <2> QED
    BY <2>1, <2>3, <2>4, <1>0
<1>1. CASE StartWorker
  <2>1. t \in recorded \ forgiven /\ UNCHANGED <<memory, saved>> /\ Doing("down")
    BY <1>1 DEF StartWorker
  <2> QED
    BY <2>1, <1>A
<1>2. CASE QueryStopped \/ \E b \in BOOLEAN : QueryEnds(b)
  <2>0. PICK u \in 1..Len(log), d \in Conversations : u = worker.turn /\ d = log[u]
    <3>1. worker.turn \in 1..Len(log) /\ log[worker.turn] \in Conversations
      BY <1>0, <1>2 DEF QueryEnds, QueryStopped, Doing, SessionTypeOK, TurnsAreLogged
    <3> QED
      BY <3>1
  <2>1. Record(d, u) /\ UNCHANGED <<log, memory, forgiven>> /\ ~Doing("down") /\ worker'.at # "down"
    <3>1. worker \in [at : {"down", "idle", "query", "split"}, turn : 0..MaxTurns]
      BY <1>0 DEF SessionTypeOK
    <3> QED
      BY <1>2, <2>0, <3>1 DEF QueryEnds, QueryStopped, Doing
  <2>2. /\ transcript' = [transcript EXCEPT ![d] = Append(transcript[d], u)]
        /\ recorded' = recorded \cup {u}
        /\ Range(transcript'[d]) = Range(transcript[d]) \cup {u}
    BY <1>0, <2>1, Recording
  <2>3. CASE t = u
    BY <2>0, <2>1, <2>2, <2>3
  <2>4. CASE t # u
    <3>1. t \in recorded \ forgiven
      BY <2>1, <2>2, <2>4
    <3>2. Range(transcript[log[t]]) \subseteq Range(transcript'[log[t]])
      BY <2>2, <3>1, <1>A, <1>0
    <3> QED
      BY <2>1, <3>1, <3>2, <1>A
  <2> QED
    BY <2>3, <2>4
<1>3. ASSUME NEW s \in {"written", "made", "none", "unindexed"}, SplitEnds(s) PROVE Goal
  <2>0. PICK d \in Conversations : d = log[worker.turn]
    BY <1>0, <1>3 DEF SplitEnds, Doing, SessionTypeOK, TurnsAreLogged
  <2>1. /\ UNCHANGED <<log, recorded>> /\ memory \subseteq memory' /\ ~Doing("down") /\ worker'.at # "down"
        /\ \/ UNCHANGED <<transcript, forgiven>>
           \/ /\ transcript' = [transcript EXCEPT ![d] = Recent(transcript[d])]
              /\ forgiven' = forgiven \cup (Range(transcript[d]) \ (Range(transcript'[d]) \cup memory'))
    BY <1>3, <2>0 DEF SplitEnds, Forgive, Doing
  <2>2. t \in recorded \ forgiven
    BY <2>1
  <2>3. CASE UNCHANGED <<transcript, forgiven>>
    BY <2>1, <2>2, <2>3, <1>A
  <2>4. CASE /\ transcript' = [transcript EXCEPT ![d] = Recent(transcript[d])]
             /\ forgiven' = forgiven \cup (Range(transcript[d]) \ (Range(transcript'[d]) \cup memory'))
    <3>1. CASE log[t] = d
      BY <2>1, <2>2, <2>4, <3>1, <1>A
    <3>2. CASE log[t] # d
      <4>1. transcript'[log[t]] = transcript[log[t]]
        BY <2>2, <2>4, <3>2, <1>A, <1>0
      <4> QED
        BY <2>1, <2>2, <4>1, <1>A
    <3> QED
      BY <3>1, <3>2
  <2> QED
    BY <2>1, <2>3, <2>4
<1>4. ASSUME NEW b \in BOOLEAN, ClearSession(b) PROVE Goal
  <2>1. /\ UNCHANGED <<log, recorded>> /\ memory \subseteq memory' /\ ~Doing("down") /\ worker'.at # "down"
        /\ transcript' = [transcript EXCEPT ![Web] = <<>>]
        /\ forgiven' = forgiven \cup (Range(transcript[Web]) \ (Range(<<>>) \cup memory'))
    <3>1. memory' = IF b THEN memory \cup Range(transcript[Web]) ELSE memory
      BY <1>4 DEF ClearSession
    <3>2. worker' = worker /\ Doing("idle")
      BY <1>4 DEF ClearSession
    <3> QED
      BY <1>4, <3>1, <3>2 DEF ClearSession, Forgive, Doing
  <2>2. t \in recorded \ forgiven
    BY <2>1
  <2>3. CASE log[t] = Web
    BY <2>1, <2>2, <2>3, <1>A, <1>0
  <2>4. CASE log[t] # Web
    <3>1. transcript'[log[t]] = transcript[log[t]]
      BY <2>1, <2>2, <2>4, <1>A, <1>0
    <3> QED
      BY <2>1, <2>2, <3>1, <1>A
  <2> QED
    BY <2>3, <2>4
<1>5. ASSUME NEW s \in SUBSET Conversations, Shutdown(s) PROVE Goal
  <2>1. /\ UNCHANGED <<log, recorded>> /\ memory \subseteq memory' /\ ~Doing("down")
        /\ saved' = [c \in Conversations |-> IF transcript[c] = <<>> THEN saved[c] ELSE Recent(transcript[c])]
        /\ forgiven \subseteq forgiven'
        /\ \A c \in Conversations : Range(transcript[c]) \ (Range(Recent(transcript[c])) \cup memory') \subseteq forgiven'
    BY <1>5 DEF Shutdown, Doing
  <2>2. t \in recorded \ forgiven
    BY <2>1
  <2>3. t \in memory' \cup Range(Recent(transcript[log[t]]))
    BY <2>1, <2>2, <1>A
  <2>4. transcript[log[t]] = <<>> => t \in memory'
    BY <2>1, <2>2, <1>A, <1>0
  <2>5. transcript[log[t]] # <<>> => saved'[log[t]] = Recent(transcript[log[t]])
    BY <2>1, <2>2, <1>A
  <2> QED
    BY <2>2, <2>3, <2>4, <2>5, <1>A
<1>6. CASE WorkerCrashes
  <2>1. /\ UNCHANGED <<log, recorded, memory, saved>> /\ ~Doing("down")
        /\ forgiven \subseteq forgiven'
        /\ \A c \in Conversations : Range(transcript[c]) \ (Range(Recent(transcript[c])) \cup memory) \subseteq forgiven'
    BY <1>6 DEF WorkerCrashes, Doing
  <2>2. t \in recorded \ forgiven
    BY <2>1
  <2>3. t \in memory \cup Range(Recent(transcript[log[t]]))
    BY <2>1, <2>2, <1>A
  <2> QED
    BY <2>1, <2>2, <2>3, <1>A
<1>7. ASSUME \/ QueryFails \/ StopQuery \/ IdlePoll \/ UNCHANGED sessionVars
             \/ \E b \in BOOLEAN : ClearContext(b)
             \/ \E c \in Conversations : StartQuery(c)
      PROVE  Goal
  <2>1. /\ UNCHANGED <<saved, transcript, memory, recorded, forgiven>>
        /\ worker' = worker \/ (~Doing("down") /\ worker'.at # "down")
    BY <1>7 DEF QueryFails, StopQuery, IdlePoll, ClearContext, sessionVars, Doing, StartQuery
  <2>2. t \in recorded \ forgiven
    BY <2>1
  <2> QED
    BY <2>1, <2>2, <1>A DEF Doing
<1> QED
  <2>0. StartWorker \/ QueryStopped \/ WorkerCrashes \/ (\E b \in BOOLEAN : QueryEnds(b)) => Goal
    BY <1>1, <1>2, <1>6
  <2> HIDE DEF Goal
  <2>1. Goal
    BY <1>3, <1>4, <1>5, <1>7, <2>0 DEF SessionNext
  <2> QED
    BY <2>1 DEF Goal

LEMMA SessionsGoOn == SessionInv /\ [SessionNext]_sessionVars => SessionInv'
<1> SUFFICES ASSUME SessionInv, [SessionNext]_sessionVars PROVE SessionInv'
  OBVIOUS
<1> QED
  BY TypesStay, SavedStays, ClearedStays, ConversationsStay, MemoryStays DEF SessionInv

\* What the worker, the files and the messages say of each other.  For every reachable
\* state of the sessions, whatever is stopped, split, cleared, shut down or killed.
THEOREM SessionsInvariant == SessionSpec => []SessionInv
  BY SessionsStart, SessionsGoOn, PTL DEF SessionSpec

\* A turn that ended is not forgotten: see TurnsAreRemembered.
THEOREM TurnsStayRemembered == SessionSpec => []TurnsAreRemembered
<1>1. SessionInv => TurnsAreRemembered
  BY DEF SessionInv
<1> QED
  BY <1>1, SessionsInvariant, PTL

\* What was cleared does not come back, and threads do not mix: see ConversationsStayApart.
THEOREM ConversationsAreApart == SessionSpec => []ConversationsStayApart
<1>1. SessionInv => ConversationsStayApart
  BY DEF SessionInv
<1> QED
  BY <1>1, SessionsInvariant, PTL

=============================================================================

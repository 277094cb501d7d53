---------------------------- MODULE Memory_proofs ----------------------------
(***************************************************************************)
(* Theorems about Memory, for any number of summaries, continuation files, *)
(* mishaps and requests of the user, and about Facts.                      *)
(***************************************************************************)
EXTENDS Memory, Facts, FiniteSetTheorems, SequenceTheorems, TLAPS

\* What a file tells.
Tells(content) == UNION {content[i] : i \in 1..Len(content)}

\* A day has no more files and chunks than summaries were written.
SizesAreBounded ==
  /\ \A f \in Files : Len(disk[f]) <= summaries
  /\ \A folder \in rebuilder : \A f \in Files : Len(folder[f]) <= summaries
  /\ Cardinality(registry) <= summaries
  /\ writer.at = "register" /\ writer.file \notin registry => Cardinality(registry) < summaries
  /\ writer.at = "register" /\ writer.file # 1 => summaries > 1
  /\ writer.at # "idle" \/ compactor.at # "idle" => summaries > 0

\* The files that a compaction will still replace tell nothing that the distilled text
\* does not tell, or that may be lost; and once it is written <date>.md tells it.
TodoIsTold ==
  /\ compactor.at = "asked" => compactor.todo = compactor.paths \cup {1} /\ compactor.paths # {}
  /\ compactor.at = "drop" => compactor.todo # {}
  /\ compactor.at \in {"asked", "drop"} =>
       \A f \in compactor.todo : Tells(disk[f]) \subseteq compactor.text \cup excepted
  /\ compactor.at = "drop" => compactor.text \subseteq Tells(disk[1]) \cup excepted

\* <date>.md is written, and not indexed yet.
Replacing == compactor.at \in {"drop", "register", "index"}

\* The text that is indexed for a chunk, and its vector.
Near(f, i) ==
  /\ \/ fts[f][i] = Parse(disk[f])[i]
     \/ fts[f][i] = {} /\ (aged \/ (writer.at = "register" /\ f = writer.file))
  /\ vec[f][i] \in {{}, fts[f][i]}

\* What the indexes lack is what a process at work is about to write: the appended chunk,
\* or <date>.md.  Only one of the two works on the index.
IndexIsNear ==
  /\ writer.at # "idle" => ~Collides
  /\ compactor.at = "drop" => 1 \in compactor.todo
  /\ compactor.at \in {"register", "index"} => \A i \in Chunks : vec[1][i] = {}
  /\ writer.at = "vectors" => writer.content = disk[writer.file]
  /\ compactor.at = "vectors" =>
       compactor.content = disk[1] /\ \A i \in Chunks : fts[1][i] = Parse(disk[1])[i]
  /\ \A f \in Files, i \in Chunks : Near(f, i) \/ (Replacing /\ f = 1)

MemoryInv ==
  /\ MemoryTypeOK /\ SizesAreBounded /\ TodoIsTold /\ SummariesSurvive
  /\ writer.at # "idle" => ~aged
  /\ \A folder1, folder2 \in rebuilder : folder1 = folder2
  /\ ~dirty => IndexIsNear

------------------------------------------------------------------------------
(* Files and their chunks.                                                 *)

LEMMA ContentIsSeq ==
  ASSUME NEW content
  PROVE  content \in Content <=> content \in Seq(SUBSET Chunks) /\ Len(content) <= MaxSummaries
<1>1. MaxSummaries \in Nat
  BY MemoryConstantsOK DEF MemoryConstantsOK
<1>2. ASSUME content \in Content
      PROVE  content \in Seq(SUBSET Chunks) /\ Len(content) <= MaxSummaries
  <2>1. PICK n \in 0..MaxSummaries : content \in [1..n -> SUBSET Chunks]
    BY <1>2 DEF Content
  <2>2. n \in Nat /\ n <= MaxSummaries
    BY <1>1, <2>1
  <2>3. content \in Seq(SUBSET Chunks)
    BY <2>1, <2>2, SeqDef
  <2>4. DOMAIN content = 1..n /\ DOMAIN content = 1..Len(content) /\ Len(content) \in Nat
    BY <2>1, <2>3
  <2>5. Len(content) = n
    BY <2>2, <2>4
  <2> QED
    BY <2>2, <2>3, <2>5
<1>3. ASSUME content \in Seq(SUBSET Chunks), Len(content) <= MaxSummaries
      PROVE  content \in Content
  <2>1. Len(content) \in 0..MaxSummaries /\ content \in [1..Len(content) -> SUBSET Chunks]
    BY <1>1, <1>3
  <2> QED
    BY <2>1 DEF Content
<1> QED
  BY <1>2, <1>3

LEMMA ParseGivesText ==
  ASSUME NEW content \in Content
  PROVE  /\ Parse(content) \in [Chunks -> Text]
         /\ \A i \in Chunks : Parse(content)[i] = IF i <= Len(content) THEN content[i] ELSE {}
<1>1. content \in Seq(SUBSET Chunks) /\ Len(content) \in Nat
  BY ContentIsSeq
<1>2. \A i \in Chunks : i <= Len(content) => content[i] \in SUBSET Chunks
  BY <1>1 DEF Chunks
<1> QED
  BY <1>2 DEF Parse, Text

\* An appended chunk is one that was not indexed.
LEMMA ParseOfAppend ==
  ASSUME NEW content \in Content, NEW chunk, NEW i \in Chunks
  PROVE  Parse(content)[i] \in {{}, Parse(Append(content, chunk))[i]}
<1>1. content \in Seq(SUBSET Chunks) /\ Len(content) \in Nat
  BY ContentIsSeq
<1>2. i <= Len(content) => i \in 1..Len(content) /\ Append(content, chunk)[i] = content[i] /\ i <= Len(Append(content, chunk))
  BY <1>1 DEF Chunks
<1> QED
  BY <1>2 DEF Parse

LEMMA TellsOfAppend ==
  ASSUME NEW content \in Content, NEW chunk
  PROVE  Tells(Append(content, chunk)) = Tells(content) \cup chunk
<1> DEFINE longer == Append(content, chunk)
<1>1. content \in Seq(SUBSET Chunks) /\ Len(content) \in Nat
  BY ContentIsSeq
<1>2. /\ Len(longer) = Len(content) + 1 /\ longer[Len(content) + 1] = chunk
      /\ \A i \in 1..Len(content) : longer[i] = content[i]
  BY <1>1
<1> HIDE DEF longer
<1>3. \A i \in 1..Len(longer) : i \in 1..Len(content) \/ i = Len(content) + 1
  BY <1>1, <1>2
<1>4. Len(content) + 1 \in 1..Len(longer) /\ \A i \in 1..Len(content) : i \in 1..Len(longer)
  BY <1>1, <1>2
<1> QED
  BY <1>1, <1>2, <1>3, <1>4 DEF Tells, longer

LEMMA TellsChunks ==
  ASSUME NEW content \in Content
  PROVE  Tells(content) \subseteq Chunks
<1>1. content \in Seq(SUBSET Chunks)
  BY ContentIsSeq
<1> QED
  BY <1>1 DEF Tells

LEMMA ToldIsTold ==
  ASSUME NEW folder
  PROVE  Told(folder) = UNION {Tells(folder[f]) : f \in Files}
  BY DEF Told, Tells

LEMMA EmptyAndSingle ==
  /\ <<>> \in Content /\ Len(<<>>) = 0 /\ Tells(<<>>) = {}
  /\ \A chunk \in SUBSET Chunks : /\ <<chunk>> \in Seq(SUBSET Chunks) /\ Len(<<chunk>>) = 1
                                  /\ Tells(<<chunk>>) = chunk
<1>1. <<>> \in Content /\ Len(<<>>) = 0
  <2>1. <<>> \in Seq(SUBSET Chunks) /\ Len(<<>>) = 0
    OBVIOUS
  <2>2. 0 <= MaxSummaries
    BY MemoryConstantsOK DEF MemoryConstantsOK
  <2> QED
    BY <2>1, <2>2, ContentIsSeq
<1>2. Tells(<<>>) = {}
  BY DEF Tells
<1>3. ASSUME NEW chunk \in SUBSET Chunks PROVE <<chunk>> \in Seq(SUBSET Chunks) /\ Len(<<chunk>>) = 1 /\ Tells(<<chunk>>) = chunk
  <2>1. <<chunk>> \in Seq(SUBSET Chunks) /\ Len(<<chunk>>) = 1 /\ <<chunk>>[1] = chunk
    OBVIOUS
  <2>2. 1..1 = {1}
    OBVIOUS
  <2> QED
    BY <2>1, <2>2 DEF Tells
<1> QED
  BY <1>1, <1>2, <1>3

\* The last of the registered files is one of them.
LEMMA LastIsRegistered ==
  ASSUME NEW paths \in SUBSET Files, paths # {}
  PROVE  LastFile(paths) \in paths
<1> DEFINE N == MaxSummaries + 1
           T == {z \in Nat : z \in 0..N /\ N - z \in paths}
<1>1. N \in Nat /\ Files = 1..N
  BY MemoryConstantsOK DEF MemoryConstantsOK, Files
<1> HIDE DEF N
<1>2. T # {} /\ T \subseteq Nat
  <2>1. PICK x \in paths : TRUE
    OBVIOUS
  <2>2. x \in 1..N /\ N - x \in 0..N /\ N - (N - x) = x
    BY <1>1
  <2>3. N - x \in T
    BY <2>2
  <2> QED
    BY <2>3
<1> HIDE DEF T
<1>3. PICK z \in T : \A y \in T : ~(<<y, z>> \in OpToRel(<, Nat))
  BY <1>2, NatLessThanWellFounded, WFMin
<1>4. ASSUME NEW y \in paths PROVE N - z >= y
  <2>1. y \in 1..N /\ z \in Nat
    BY <1>1, <1>2, <1>3
  <2>2. N - y \in T
    <3>1. N - y \in Nat /\ N - y \in 0..N /\ N - (N - y) = y
      BY <1>1, <2>1
    <3> QED
      BY <3>1 DEF T
  <2>3. ~(N - y < z)
    BY <2>2, <1>3, <2>1, <1>2 DEF OpToRel
  <2> QED
    BY <2>1, <2>3, <1>1
<1>5. N - z \in paths
  BY <1>3 DEF T
<1>6. Max(paths) \in paths
  BY <1>4, <1>5 DEF Max
<1> QED
  BY <1>6 DEF LastFile

LEMMA EmbeddedText ==
  ASSUME vec \in Index, NEW f \in Files, NEW content \in Content, NEW done \in 0..MaxSummaries
  PROVE  /\ Embedded(f, content, done) \in Index
         /\ \A g \in Files \ {f} : Embedded(f, content, done)[g] = vec[g]
         /\ \A i \in Chunks : Embedded(f, content, done)[f][i] \in {{}, Parse(content)[i], vec[f][i]}
<1> DEFINE row == [i \in Chunks |->
                     CASE i <= done /\ i <= Len(content)    -> content[i]
                       [] i = done + 1 /\ i <= Len(content) -> {}
                       [] OTHER                             -> vec[f][i]]
<1>1. /\ Parse(content) \in [Chunks -> Text]
      /\ \A i \in Chunks : Parse(content)[i] = IF i <= Len(content) THEN content[i] ELSE {}
  BY ParseGivesText
<1>2. vec[f] \in [Chunks -> Text] /\ {} \in Text
  BY DEF Index, Text
<1>3. ASSUME NEW i \in Chunks PROVE row[i] \in {{}, Parse(content)[i], vec[f][i]} /\ row[i] \in Text
  <2>1. row[i] \in {{}, Parse(content)[i], vec[f][i]}
    <3>1. CASE i <= done /\ i <= Len(content)
      BY <1>1, <3>1
    <3>2. CASE ~(i <= done /\ i <= Len(content)) /\ i = done + 1 /\ i <= Len(content)
      BY <3>2
    <3>3. CASE ~(i <= done /\ i <= Len(content)) /\ ~(i = done + 1 /\ i <= Len(content))
      BY <3>3
    <3> QED
      BY <3>1, <3>2, <3>3
  <2> QED
    BY <2>1, <1>1, <1>2
<1>4. Embedded(f, content, done) = [vec EXCEPT ![f] = row]
  BY DEF Embedded
<1>5. row \in [Chunks -> Text]
  BY <1>3
<1> HIDE DEF row
<1> QED
  BY <1>3, <1>4, <1>5 DEF Index

------------------------------------------------------------------------------
(* The inductive invariant.                                                *)

LEMMA MemoryShape ==
  ASSUME MemoryInv
  PROVE  /\ MemoryTypeOK /\ SizesAreBounded
         /\ \A f \in Files : /\ disk[f] \in Content /\ disk[f] \in Seq(SUBSET Chunks) /\ Len(disk[f]) \in Nat
                            /\ Parse(disk[f]) \in [Chunks -> Text]
         /\ IsFiniteSet(registry) /\ Cardinality(registry) \in Nat
         /\ 1 \in Files /\ Files = 1..MaxSummaries + 1 /\ Chunks = 1..MaxSummaries
         /\ MaxSummaries \in Nat /\ MaxMishaps \in Nat /\ summaries \in 0..MaxSummaries
         /\ {} \in Text
<1>1. MemoryTypeOK /\ SizesAreBounded
  BY DEF MemoryInv
<1>2. MaxSummaries \in Nat /\ MaxMishaps \in Nat /\ summaries \in 0..MaxSummaries
  BY <1>1, MemoryConstantsOK DEF MemoryConstantsOK, MemoryTypeOK
<1>3. 1 \in Files /\ Files = 1..MaxSummaries + 1 /\ Chunks = 1..MaxSummaries /\ {} \in Text
  BY <1>2 DEF Files, Chunks, Text
<1>4. IsFiniteSet(registry) /\ Cardinality(registry) \in Nat
  <2>1. registry \in SUBSET (1..MaxSummaries + 1)
    BY <1>1, <1>3 DEF MemoryTypeOK
  <2>2. IsFiniteSet(1..MaxSummaries + 1)
    BY <1>2, FS_Interval
  <2>3. IsFiniteSet(registry)
    BY <2>1, <2>2, FS_Subset
  <2> QED
    BY <2>3, FS_CardinalityType
<1>5. ASSUME NEW f \in Files
      PROVE  /\ disk[f] \in Content /\ disk[f] \in Seq(SUBSET Chunks) /\ Len(disk[f]) \in Nat
             /\ Parse(disk[f]) \in [Chunks -> Text]
  <2>1. disk[f] \in Content
    BY <1>1 DEF MemoryTypeOK
  <2> QED
    BY <2>1, ContentIsSeq, ParseGivesText
<1> QED
  BY <1>1, <1>2, <1>3, <1>4, <1>5

\* What writing a summary does.
LEMMA Writing ==
  ASSUME MemoryInv, NEW full \in BOOLEAN, WriteSummary(full)
  PROVE  \E f \in Files :
           /\ disk' = [disk EXCEPT ![f] = Append(disk[f], {summaries + 1})]
           /\ disk'[f] \in Content /\ Len(disk'[f]) = Len(disk[f]) + 1
           /\ Tells(disk'[f]) = Tells(disk[f]) \cup {summaries + 1}
           /\ writer'.at = "register" /\ writer'.file = f /\ writer' \in Writer
           /\ excepted' = (IF f \in compactor.todo THEN excepted \cup {summaries + 1} ELSE excepted)
           /\ summaries + 1 \in Chunks /\ summaries' = summaries + 1
           /\ writer.at = "idle" /\ ~aged /\ dirty' = (dirty \/ Collides) /\ (f # 1 => summaries > 0)
           /\ UNCHANGED <<registry, fts, vec, compactor, rebuilder, due, aged, mishaps>>
<1> DEFINE last == LastFile(registry)
           new  == registry # {} /\ full /\ disk[last] # <<>>
           f    == IF registry = {} THEN 1 ELSE IF new THEN Cardinality(registry) + 1 ELSE last
<1>0. summaries + 1 \in Chunks /\ summaries < MaxSummaries /\ summaries \in Nat
  BY MemoryShape DEF WriteSummary
<1>1. f \in Files
  <2>1. registry # {} => last \in Files
    BY LastIsRegistered, MemoryShape DEF MemoryTypeOK
  <2>2. Cardinality(registry) + 1 \in Files
    <3>1. Cardinality(registry) <= summaries
      BY MemoryShape DEF SizesAreBounded
    <3> QED
      BY <3>1, <1>0, MemoryShape
  <2> HIDE DEF last, new
  <2> QED
    BY <2>1, <2>2, MemoryShape
<1>f. f # 1 => summaries > 0
  <2>1. registry # {} => Cardinality(registry) # 0
    BY MemoryShape, FS_EmptySet
  <2> HIDE DEF last, new
  <2> QED
    BY <2>1, <1>0, MemoryShape DEF SizesAreBounded
<1>2. /\ disk' = [disk EXCEPT ![f] = Append(@, {summaries + 1})]
      /\ writer' = [at |-> "register", file |-> f, fourth |-> new /\ f > MaxContinuation, content |-> <<>>]
      /\ excepted' = (IF f \in compactor.todo THEN excepted \cup {summaries + 1} ELSE excepted)
      /\ dirty' = (dirty \/ Collides) /\ summaries' = summaries + 1
      /\ writer.at = "idle" /\ ~aged
      /\ UNCHANGED <<registry, fts, vec, compactor, rebuilder, due, aged, mishaps>>
  BY DEF WriteSummary
<1>3. (new /\ f > MaxContinuation) \in BOOLEAN
  OBVIOUS
<1> HIDE DEF f, new, last
<1>4. writer' \in Writer /\ writer'.at = "register" /\ writer'.file = f
  <2>1. <<>> \in Content
    BY EmptyAndSingle
  <2> QED
    BY <1>1, <1>2, <1>3, <2>1 DEF Writer
<1>5. /\ disk'[f] = Append(disk[f], {summaries + 1}) /\ disk[f] \in Seq(SUBSET Chunks) /\ disk[f] \in Content
      /\ Len(disk[f]) <= summaries /\ Len(disk[f]) \in Nat
  <2>1. disk \in [Files -> Content] /\ Len(disk[f]) <= summaries
    BY MemoryShape, <1>1 DEF MemoryTypeOK, SizesAreBounded
  <2> QED
    BY <1>1, <1>2, <2>1, MemoryShape
<1>6. Len(disk'[f]) = Len(disk[f]) + 1 /\ disk'[f] \in Seq(SUBSET Chunks) /\ Len(disk'[f]) <= MaxSummaries
  BY <1>0, <1>5, MemoryShape
<1>7. disk'[f] \in Content
  BY <1>6, ContentIsSeq
<1>8. Tells(disk'[f]) = Tells(disk[f]) \cup {summaries + 1}
  BY <1>5, TellsOfAppend
<1> QED
  BY <1>0, <1>1, <1>f, <1>2, <1>4, <1>5, <1>6, <1>7, <1>8

\* The indexes hold texts of chunks.
LEMMA IndexTypes ==
  /\ \A folder \in [Files -> Content] : IndexOf(folder) \in Index
  /\ \A index \in Index, f \in Files : Unindexed(index, f) \in Index
  /\ NoFiles \in [Files -> Content]
<1>1. ASSUME NEW folder \in [Files -> Content] PROVE IndexOf(folder) \in Index
  <2>1. \A f \in Files : Parse(folder[f]) \in [Chunks -> Text]
    BY ParseGivesText
  <2> QED
    BY <2>1 DEF IndexOf, Index
<1>2. ASSUME NEW index \in Index, NEW f \in Files PROVE Unindexed(index, f) \in Index
  BY DEF Unindexed, Index, Text
<1>3. NoFiles \in [Files -> Content]
  BY EmptyAndSingle DEF NoFiles
<1> QED
  BY <1>1, <1>2, <1>3

LEMMA MemoryStarts == MemoryInit => MemoryInv
<1> SUFFICES ASSUME MemoryInit PROVE MemoryInv
  OBVIOUS
<1>1. MaxSummaries \in Nat /\ MaxMishaps \in Nat /\ 1 \in Files
  BY MemoryConstantsOK DEF MemoryConstantsOK, Files
<1>2. /\ disk = NoFiles /\ disk \in [Files -> Content] /\ fts = IndexOf(NoFiles) /\ fts \in Index /\ vec = fts
      /\ registry = {} /\ rebuilder = {} /\ summaries = 0 /\ excepted = {} /\ mishaps = 0
      /\ writer.at = "idle" /\ compactor.at = "idle"
  BY IndexTypes DEF MemoryInit, Idle, Resting
<1>3. writer \in Writer /\ compactor \in Compactor
  BY EmptyAndSingle, <1>1 DEF MemoryInit, Idle, Resting, Writer, Compactor
<1>4. due \in BOOLEAN /\ dirty \in BOOLEAN /\ aged \in BOOLEAN
  BY Zenon DEF MemoryInit
<1>5. MemoryTypeOK
  BY <1>1, <1>2, <1>3, <1>4 DEF MemoryTypeOK
<1>6. SizesAreBounded
  <2>1. \A f \in Files : Len(disk[f]) = 0
    BY <1>2, EmptyAndSingle DEF NoFiles
  <2>2. Cardinality({}) = 0
    BY FS_EmptySet
  <2> QED
    BY <1>2, <2>1, <2>2 DEF SizesAreBounded
<1>7. TodoIsTold /\ SummariesSurvive
  <2>1. 1..0 = {}
    OBVIOUS
  <2> QED
    BY <1>2, <2>1 DEF TodoIsTold, SummariesSurvive
<1>8. IndexIsNear
  <2>1. \A f \in Files, i \in Chunks : fts[f][i] = Parse(disk[f])[i]
    BY <1>2 DEF IndexOf
  <2> QED
    BY <1>2, <2>1 DEF IndexIsNear, Near
<1> QED
  BY <1>2, <1>5, <1>6, <1>7, <1>8 DEF MemoryInv

\* The file that a compaction drops next is one of those it still has to.
LEMMA DropsOne ==
  ASSUME MemoryInv, compactor.at = "drop"
  PROVE  LET f == IF compactor.todo = {1} THEN 1 ELSE Min(compactor.todo \ {1})
         IN  f \in compactor.todo /\ f \in Files /\ (f = 1 => compactor.todo = {1})
<1>1. compactor.todo \in SUBSET Files /\ compactor.todo # {}
  BY MemoryShape DEF MemoryInv, TodoIsTold, MemoryTypeOK, Compactor
<1>2. CASE compactor.todo = {1}
  BY <1>1, <1>2
<1>3. CASE compactor.todo # {1}
  <2> DEFINE S == compactor.todo \ {1}
  <2>1. S # {} /\ S \subseteq Nat /\ S \subseteq Files
    BY <1>1, <1>3, MemoryShape
  <2> HIDE DEF S
  <2>2. PICK x \in S : \A y \in S : ~(<<y, x>> \in OpToRel(<, Nat))
    BY <2>1, NatLessThanWellFounded, WFMin
  <2>3. \A y \in S : x <= y
    <3> SUFFICES ASSUME NEW y \in S PROVE x <= y
      OBVIOUS
    <3>1. x \in Nat /\ y \in Nat
      BY <2>1
    <3>2. ~(y < x)
      BY <3>1, <2>2 DEF OpToRel
    <3> QED
      BY <3>1, <3>2
  <2>4. Min(S) \in S
    BY <2>2, <2>3 DEF Min
  <2> QED
    BY <2>4, <2>1, <1>3 DEF S
<1> QED
  BY <1>2, <1>3

\* What is told by a file alone in a folder.
LEMMA DeletedIsExcepted ==
  ASSUME MemoryInv, NEW f \in Files
  PROVE  /\ Told([NoFiles EXCEPT ![f] = disk[f]]) = Tells(disk[f])
         /\ Tells(disk[f]) \subseteq Chunks
<1> DEFINE folder == [NoFiles EXCEPT ![f] = disk[f]]
<1>1. \A g \in Files : folder[g] = IF g = f THEN disk[f] ELSE <<>>
  BY DEF NoFiles
<1> HIDE DEF folder
<1>2. Told(folder) = UNION {Tells(folder[g]) : g \in Files}
  BY ToldIsTold
<1>3. Told(folder) = Tells(disk[f])
  BY <1>1, <1>2, EmptyAndSingle
<1>4. Tells(disk[f]) \subseteq Chunks
  BY MemoryShape, TellsChunks
<1> QED
  BY <1>3, <1>4 DEF folder

\* What a compaction reads, and what it leaves out, is all that its files tell.
LEMMA Reading ==
  ASSUME MemoryInv, CompactReads
  PROVE  /\ \/ compactor' = compactor /\ excepted' = excepted /\ due' = FALSE
            \/ \E text, gone \in SUBSET Chunks :
                 /\ compactor' = [at |-> "asked", paths |-> registry, text |-> text,
                                  todo |-> registry \cup {1}, content |-> <<>>]
                 /\ excepted' = excepted \cup gone /\ due' = due
                 /\ \A f \in registry \cup {1} : Tells(disk[f]) \subseteq text \cup gone
                 /\ \E f \in registry : disk[f] # <<>>
         /\ UNCHANGED <<disk, registry, fts, vec, writer, rebuilder, summaries, dirty, aged, mishaps>>
<1> DEFINE paths == registry
           read == {f \in paths : disk[f] # <<>>}
           fit == {f \in read : Rank(f, read) <= InputFiles}
           Part(S) == [f \in Files |-> IF f \in S THEN disk[f] ELSE <<>>]
           text == Told(Part(fit))
           gone == Told(Part(read \cup {1})) \ text
<1>1. ASSUME NEW S
      PROVE  Told(Part(S)) \subseteq Chunks /\ \A f \in Files \cap S : Tells(disk[f]) \subseteq Told(Part(S))
  <2> DEFINE folder == Part(S)
  <2>1. \A f \in Files : folder[f] \in Content /\ (f \in S => folder[f] = disk[f])
    BY MemoryShape, EmptyAndSingle
  <2> HIDE DEF folder
  <2>2. \A f \in Files : Tells(folder[f]) \subseteq Chunks
    BY <2>1, TellsChunks
  <2>3. Told(folder) = UNION {Tells(folder[f]) : f \in Files}
    BY ToldIsTold
  <2>4. Told(folder) \subseteq Chunks /\ \A f \in Files \cap S : Tells(disk[f]) \subseteq Told(folder)
    BY <2>1, <2>2, <2>3
  <2> QED
    BY <2>4 DEF folder
<1>2. text \in SUBSET Chunks /\ gone \in SUBSET Chunks
  <2> HIDE DEF Part, fit, read
  <2> QED
    BY <1>1
<1>3. ASSUME NEW f \in registry \cup {1} PROVE Tells(disk[f]) \subseteq text \cup gone
  <2>1. f \in Files /\ registry \subseteq Files
    BY MemoryShape DEF MemoryTypeOK
  <2>2. CASE f \in read \cup {1}
    <3> HIDE DEF Part, fit, read
    <3> QED
      BY <2>1, <2>2, <1>1
  <2>3. CASE f \notin read \cup {1}
    BY <2>3, EmptyAndSingle
  <2> QED
    BY <2>2, <2>3
<1>4. \/ compactor' = compactor /\ excepted' = excepted /\ due' = FALSE
      \/ /\ compactor' = [at |-> "asked", paths |-> registry, text |-> text,
                           todo |-> registry \cup {1}, content |-> <<>>]
         /\ excepted' = excepted \cup gone /\ due' = due /\ read # {}
  BY DEF CompactReads
<1>5. read # {} => \E f \in registry : disk[f] # <<>>
  OBVIOUS
<1>6. UNCHANGED <<disk, registry, fts, vec, writer, rebuilder, summaries, dirty, aged, mishaps>>
  BY DEF CompactReads
<1> HIDE DEF read, text, gone
<1> QED
  BY <1>2, <1>3, <1>4, <1>5, <1>6

LEMMA MemoryTypesStay ==
  ASSUME MemoryInv, [MemoryNext]_memoryVars
  PROVE  MemoryTypeOK' /\ SizesAreBounded'
<1> DEFINE Goal == MemoryTypeOK' /\ SizesAreBounded'
<1>0. /\ disk \in [Files -> Content] /\ registry \subseteq Files /\ fts \in Index /\ vec \in Index
      /\ writer \in Writer /\ compactor \in Compactor /\ rebuilder \subseteq [Files -> Content]
      /\ summaries \in 0..MaxSummaries /\ excepted \subseteq Chunks
      /\ due \in BOOLEAN /\ dirty \in BOOLEAN /\ aged \in BOOLEAN /\ mishaps \in 0..MaxMishaps
      /\ SizesAreBounded
      /\ 1 \in Files /\ Chunks = 1..MaxSummaries /\ MaxSummaries \in Nat /\ MaxMishaps \in Nat
      /\ Idle \in Writer /\ Idle.at = "idle" /\ Resting \in Compactor /\ Resting.at = "idle"
  <2>1. MemoryTypeOK /\ SizesAreBounded /\ 1 \in Files /\ Chunks = 1..MaxSummaries /\ MaxSummaries \in Nat /\ MaxMishaps \in Nat
    BY MemoryShape
  <2>2. Idle \in Writer /\ Idle.at = "idle" /\ Resting \in Compactor /\ Resting.at = "idle"
    BY EmptyAndSingle, <2>1 DEF Idle, Resting, Writer, Compactor
  <2> QED
    BY <2>1, <2>2 DEF MemoryTypeOK
<1>m. Mishap => mishaps' \in 0..MaxMishaps
  BY <1>0 DEF Mishap
<1>b. Collides \in BOOLEAN /\ (\A f : (disk[f] = <<>>) \in BOOLEAN)
  BY DEF Collides
\* Steps that neither write a file nor register one.
<1>A. ASSUME UNCHANGED <<disk, registry, summaries>>, fts' \in Index, vec' \in Index,
             writer' \in Writer, compactor' \in Compactor, rebuilder' \subseteq rebuilder \cup {disk},
             excepted' \subseteq Chunks, due' \in BOOLEAN, dirty' \in BOOLEAN, aged' \in BOOLEAN,
             mishaps' \in 0..MaxMishaps,
             writer'.at # "register" \/ writer' = writer,
             writer'.at # "idle" => writer.at # "idle",
             compactor'.at # "idle" => compactor.at # "idle" \/ summaries > 0
      PROVE  Goal
  <2>1. MemoryTypeOK'
    BY <1>0, <1>A DEF MemoryTypeOK
  <2>2. SizesAreBounded'
    BY <1>0, <1>A DEF SizesAreBounded
  <2> QED
    BY <2>1, <2>2
<1>1. ASSUME NEW full \in BOOLEAN, WriteSummary(full) PROVE Goal
  <2>1. PICK f \in Files :
           /\ disk' = [disk EXCEPT ![f] = Append(disk[f], {summaries + 1})]
           /\ disk'[f] \in Content /\ Len(disk'[f]) = Len(disk[f]) + 1
           /\ writer'.at = "register" /\ writer'.file = f /\ writer' \in Writer
           /\ excepted' = (IF f \in compactor.todo THEN excepted \cup {summaries + 1} ELSE excepted)
           /\ summaries + 1 \in Chunks /\ summaries' = summaries + 1
           /\ writer.at = "idle" /\ dirty' = (dirty \/ Collides) /\ (f # 1 => summaries > 0)
           /\ UNCHANGED <<registry, fts, vec, compactor, rebuilder, due, aged, mishaps>>
    BY <1>1, Writing
  <2>2. disk' \in [Files -> Content] /\ \A g \in Files : g # f => disk'[g] = disk[g]
    BY <2>1, <1>0
  <2>3. dirty' \in BOOLEAN
    BY <2>1, <1>0, <1>b
  <2>4. MemoryTypeOK'
    BY <2>1, <2>2, <2>3, <1>0 DEF MemoryTypeOK
  <2>5. SizesAreBounded'
    <3>1. \A g \in Files : Len(disk'[g]) <= summaries'
      BY <2>1, <2>2, <1>0, MemoryShape DEF SizesAreBounded
    <3>2. \A folder \in rebuilder' : \A g \in Files : Len(folder[g]) <= summaries'
      <4>1. ASSUME NEW folder \in rebuilder, NEW g \in Files PROVE Len(folder[g]) <= summaries + 1
        <5>1. Len(folder[g]) <= summaries /\ folder[g] \in Content
          BY <1>0 DEF SizesAreBounded
        <5>2. Len(folder[g]) \in Nat
          BY <5>1, ContentIsSeq
        <5> QED
          BY <5>1, <5>2, <1>0
      <4> QED
        BY <4>1, <2>1
    <3> QED
      BY <3>1, <3>2, <2>1, <1>0, MemoryShape DEF SizesAreBounded
  <2> QED
    BY <2>4, <2>5
<1>2. ASSUME RegisterSummary PROVE Goal
  <2> DEFINE f == writer.file
  <2>1. f \in Files /\ disk[f] \in Content
    BY <1>0 DEF Writer
  <2>2. /\ registry' = registry \cup {f}
        /\ fts' = [fts EXCEPT ![f] = IF disk[f] = <<>> THEN @ ELSE Parse(disk[f])]
        /\ writer' = (IF disk[f] = <<>> THEN Idle ELSE [writer EXCEPT !.at = "vectors", !.content = disk[f]])
        /\ dirty' = (dirty \/ Collides \/ disk[f] = <<>>) /\ writer.at = "register"
        /\ UNCHANGED <<disk, vec, compactor, rebuilder, due, summaries, excepted, aged, mishaps>>
    BY <1>2 DEF RegisterSummary
  <2> HIDE DEF f
  <2>3. fts' \in Index
    BY <2>1, <2>2, <1>0, ParseGivesText DEF Index
  <2>4. writer' \in Writer /\ writer'.at \in {"idle", "vectors"}
    <3>1. CASE disk[f] = <<>>
      BY <3>1, <2>2, <1>0
    <3>2. CASE disk[f] # <<>>
      BY <3>2, <2>1, <2>2, <1>0 DEF Writer
    <3> QED
      BY <3>1, <3>2
  <2>5. dirty' \in BOOLEAN
    BY <2>2, <1>0, <1>b
  <2>6. MemoryTypeOK'
    BY <2>1, <2>2, <2>3, <2>4, <2>5, <1>0 DEF MemoryTypeOK
  <2>7. Cardinality(registry') <= summaries
    <3>1. Cardinality(registry') = IF f \in registry THEN Cardinality(registry) ELSE Cardinality(registry) + 1
      BY <2>2, FS_AddElement, MemoryShape
    <3> QED
      BY <3>1, <2>2, <1>0, MemoryShape DEF SizesAreBounded, f
  <2>8. SizesAreBounded'
    BY <2>2, <2>4, <2>7, <1>0 DEF SizesAreBounded
  <2> QED
    BY <2>6, <2>8
<1>3. ASSUME RegisterFails \/ WriterCrashes PROVE Goal
  <2>1. /\ writer' = Idle /\ dirty' = TRUE /\ mishaps' \in 0..MaxMishaps
        /\ UNCHANGED <<disk, registry, fts, vec, compactor, rebuilder, due, summaries, excepted, aged>>
    BY <1>3, <1>m, <1>0 DEF RegisterFails, WriterCrashes
  <2> HIDE DEF Goal
  <2> QED
    BY <2>1, <1>A, <1>0
<1>4. ASSUME WorkerBoot PROVE Goal
  <2> DEFINE empty == \A f \in Files, i \in Chunks : fts[f][i] = {}
             text == IF empty THEN IndexOf(disk) ELSE fts
             emb == IF empty THEN IndexOf(disk) ELSE vec
  <2>1. text \in Index /\ emb \in Index /\ IndexOf(NoFiles) \in Index /\ {} \in Text
    BY <1>0, IndexTypes, MemoryShape
  <2>2. /\ IF aged
           THEN /\ vec' = [f \in Files |-> [i \in Chunks |-> IF text[f][i] = {} THEN emb[f][i] ELSE {}]]
                /\ fts' = IndexOf(NoFiles)
           ELSE fts' = text /\ vec' = emb
        /\ dirty' = (dirty \/ Collides) /\ Mishap
        /\ UNCHANGED <<disk, registry, writer, compactor, rebuilder, due, summaries, excepted, aged>>
    BY <1>4 DEF WorkerBoot
  <2> HIDE DEF text, emb, empty
  <2>3. fts' \in Index /\ vec' \in Index
    <3>1. CASE aged
      <4> DEFINE kept(f, i) == IF text[f][i] = {} THEN emb[f][i] ELSE {}
      <4>1. \A f \in Files, i \in Chunks : kept(f, i) \in Text
        BY <2>1 DEF Index
      <4>2. vec' = [f \in Files |-> [i \in Chunks |-> kept(f, i)]] /\ fts' = IndexOf(NoFiles)
        BY <2>2, <3>1
      <4> HIDE DEF kept
      <4> QED
        BY <2>1, <4>1, <4>2 DEF Index
    <3>2. CASE ~aged
      BY <2>1, <2>2, <3>2
    <3> QED
      BY <3>1, <3>2
  <2>4. dirty' \in BOOLEAN
    BY <2>2, <1>0, <1>b
  <2> HIDE DEF Goal
  <2> QED
    BY <2>2, <2>3, <2>4, <1>A, <1>0, <1>m
<1>5. ASSUME NEW done \in 0..MaxSummaries, EmbedSummary(done) PROVE Goal
  <2>1. writer.file \in Files /\ writer.content \in Content /\ writer.fourth \in BOOLEAN
    BY <1>0 DEF Writer
  <2>2. vec' \in Index
    BY <2>1, <1>0, <1>5, EmbeddedText DEF EmbedSummary
  <2>3. /\ due' = (due \/ writer.fourth) /\ writer' = Idle /\ dirty' = (dirty \/ Collides)
        /\ UNCHANGED <<disk, registry, fts, compactor, rebuilder, summaries, excepted, aged, mishaps>>
    BY <1>5 DEF EmbedSummary
  <2>4. dirty' \in BOOLEAN /\ due' \in BOOLEAN
    BY <2>1, <2>3, <1>0, <1>b
  <2> HIDE DEF Goal
  <2> QED
    BY <2>2, <2>3, <2>4, <1>A, <1>0
<1>6. ASSUME CompactReads PROVE Goal
  <2>1. /\ \/ compactor' = compactor /\ excepted' = excepted /\ due' = FALSE
           \/ \E text, gone \in SUBSET Chunks :
                /\ compactor' = [at |-> "asked", paths |-> registry, text |-> text,
                                 todo |-> registry \cup {1}, content |-> <<>>]
                /\ excepted' = excepted \cup gone /\ due' = due
                /\ \A f \in registry \cup {1} : Tells(disk[f]) \subseteq text \cup gone
                /\ \E f \in registry : disk[f] # <<>>
        /\ UNCHANGED <<disk, registry, fts, vec, writer, rebuilder, summaries, dirty, aged, mishaps>>
    BY <1>6, Reading
  <2>2. ASSUME compactor' = compactor, excepted' = excepted, due' = FALSE PROVE Goal
    <3> HIDE DEF Goal
    <3> QED
      BY <2>1, <2>2, <1>A, <1>0
  <2>3. ASSUME NEW text \in SUBSET Chunks, NEW gone \in SUBSET Chunks, NEW f \in registry,
               compactor' = [at |-> "asked", paths |-> registry, text |-> text,
                             todo |-> registry \cup {1}, content |-> <<>>],
               excepted' = excepted \cup gone, due' = due, disk[f] # <<>>
        PROVE  Goal
    <3>1. compactor' \in Compactor
      BY <2>3, <1>0, EmptyAndSingle DEF Compactor
    <3>2. summaries > 0
      <4>1. Len(disk[f]) \in Nat /\ Len(disk[f]) # 0 /\ Len(disk[f]) <= summaries
        BY <2>3, <1>0, MemoryShape DEF SizesAreBounded
      <4> QED
        BY <4>1, <1>0
    <3>3. excepted' \subseteq Chunks
      BY <2>3, <1>0
    <3> HIDE DEF Goal
    <3> QED
      BY <2>1, <2>3, <3>1, <3>2, <3>3, <1>A, <1>0
  <2> HIDE DEF Goal
  <2> QED
    BY <2>1, <2>2, <2>3
<1>7. ASSUME CompactFails \/ \E b \in BOOLEAN : CompactorGone(b) PROVE Goal
  <2>1. /\ compactor' = Resting /\ due' \in BOOLEAN /\ mishaps' \in 0..MaxMishaps /\ dirty' \in BOOLEAN
        /\ UNCHANGED <<disk, registry, fts, vec, writer, rebuilder, summaries, excepted, aged>>
    BY <1>7, <1>m, <1>0 DEF CompactFails, CompactorGone
  <2> HIDE DEF Goal
  <2> QED
    BY <2>1, <1>A, <1>0
<1>8. ASSUME CompactWrites PROVE Goal
  <2>1. /\ disk' = [disk EXCEPT ![1] = <<compactor.text>>] /\ compactor.at = "asked"
        /\ compactor' = [compactor EXCEPT !.at = "drop", !.todo = compactor.paths]
        /\ dirty' = (dirty \/ writer.at # "idle" \/ 1 \notin compactor.paths)
        /\ UNCHANGED <<registry, fts, vec, writer, rebuilder, due, summaries, excepted, aged, mishaps>>
    BY <1>8 DEF CompactWrites, Replaced
  <2>2. summaries > 0
    BY <2>1, <1>0 DEF SizesAreBounded
  <2>3. <<compactor.text>> \in Content /\ Len(<<compactor.text>>) = 1
    <3>1. compactor.text \in SUBSET Chunks
      BY <1>0 DEF Compactor
    <3>2. <<compactor.text>> \in Seq(SUBSET Chunks) /\ Len(<<compactor.text>>) = 1
      BY <3>1, EmptyAndSingle
    <3>3. 1 <= MaxSummaries
      BY <2>2, <1>0
    <3> QED
      BY <3>2, <3>3, ContentIsSeq
  <2>4. compactor' \in Compactor /\ dirty' \in BOOLEAN
    BY <2>1, <1>0 DEF Compactor
  <2>5. MemoryTypeOK'
    BY <2>1, <2>3, <2>4, <1>0 DEF MemoryTypeOK
  <2>6. \A g \in Files : Len(disk'[g]) <= summaries'
    BY <2>1, <2>2, <2>3, <1>0 DEF SizesAreBounded
  <2>7. SizesAreBounded'
    BY <2>1, <2>2, <2>6, <1>0 DEF SizesAreBounded
  <2> QED
    BY <2>5, <2>7
<1>9. ASSUME CompactDrops PROVE Goal
  <2> DEFINE f == IF compactor.todo = {1} THEN 1 ELSE Min(compactor.todo \ {1})
             todo == compactor.todo \ {f}
  <2>1. /\ compactor.at = "drop" /\ fts' = Unindexed(fts, f) /\ vec' = Unindexed(vec, f)
        /\ disk' = (IF f = 1 THEN disk ELSE [disk EXCEPT ![f] = <<>>])
        /\ compactor' = [compactor EXCEPT !.todo = todo, !.at = IF todo = {} THEN "register" ELSE "drop"]
        /\ dirty' = (dirty \/ writer.at # "idle")
        /\ UNCHANGED <<registry, writer, rebuilder, due, summaries, excepted, aged, mishaps>>
    BY <1>9 DEF CompactDrops
  <2>2. f \in Files
    BY <2>1, DropsOne
  <2> HIDE DEF f
  <2>3. disk' \in [Files -> Content] /\ \A g \in Files : disk'[g] \in {<<>>, disk[g]}
    BY <2>1, <2>2, <1>0, EmptyAndSingle
  <2>4. fts' \in Index /\ vec' \in Index
    BY <2>1, <2>2, <1>0, IndexTypes
  <2>5. compactor' \in Compactor /\ dirty' \in BOOLEAN
    BY <2>1, <1>0 DEF Compactor
  <2>6. MemoryTypeOK'
    BY <2>1, <2>3, <2>4, <2>5, <1>0 DEF MemoryTypeOK
  <2>7. \A g \in Files : Len(disk'[g]) <= summaries'
    BY <2>1, <2>3, <1>0, EmptyAndSingle DEF SizesAreBounded
  <2>8. SizesAreBounded'
    BY <2>1, <2>7, <1>0 DEF SizesAreBounded
  <2> QED
    BY <2>6, <2>8
<1>10. ASSUME CompactRegisters PROVE Goal
  <2>1. /\ compactor.at = "register" /\ registry' = {1} /\ compactor' = [compactor EXCEPT !.at = "index"]
        /\ dirty' = (dirty \/ writer.at # "idle")
        /\ UNCHANGED <<disk, fts, vec, writer, rebuilder, due, summaries, excepted, aged, mishaps>>
    BY <1>10 DEF CompactRegisters
  <2>2. compactor' \in Compactor /\ dirty' \in BOOLEAN
    BY <2>1, <1>0 DEF Compactor
  <2>3. MemoryTypeOK'
    BY <2>1, <2>2, <1>0 DEF MemoryTypeOK
  <2>4. SizesAreBounded'
    <3>1. summaries > 0
      BY <2>1, <1>0 DEF SizesAreBounded
    <3>2. Cardinality({1}) = 1
      BY FS_Singleton
    <3>3. writer.at = "register" /\ writer.file \notin {1} => summaries > 1
      BY <2>1, <1>0 DEF SizesAreBounded
    <3> QED
      BY <3>1, <3>2, <3>3, <2>1, <1>0 DEF SizesAreBounded
  <2> QED
    BY <2>3, <2>4
<1>11. ASSUME CompactIndexes PROVE Goal
  <2>1. /\ fts' = [fts EXCEPT ![1] = Parse(disk[1])]
        /\ compactor' = [compactor EXCEPT !.at = "vectors", !.content = disk[1]] /\ compactor.at = "index"
        /\ dirty' = (dirty \/ writer.at # "idle")
        /\ UNCHANGED <<disk, registry, vec, writer, rebuilder, due, summaries, excepted, aged, mishaps>>
    BY <1>11 DEF CompactIndexes
  <2>2. fts' \in Index /\ compactor' \in Compactor /\ dirty' \in BOOLEAN
    BY <2>1, <1>0, ParseGivesText DEF Compactor, Index
  <2> HIDE DEF Goal
  <2> QED
    BY <2>1, <2>2, <1>A, <1>0
<1>12. ASSUME NEW done \in 0..MaxSummaries, CompactEmbeds(done) PROVE Goal
  <2>1. vec' \in Index
    BY <1>0, <1>12, EmbeddedText DEF CompactEmbeds, Compactor
  <2>2. /\ compactor' = Resting /\ due' = FALSE /\ dirty' = (dirty \/ writer.at # "idle")
        /\ UNCHANGED <<disk, registry, fts, writer, rebuilder, summaries, excepted, aged, mishaps>>
    BY <1>12 DEF CompactEmbeds
  <2>3. dirty' \in BOOLEAN
    BY <2>2, <1>0
  <2> HIDE DEF Goal
  <2> QED
    BY <2>1, <2>2, <2>3, <1>A, <1>0
<1>13. ASSUME RebuildReads PROVE Goal
  <2>1. /\ rebuilder' = {disk} /\ mishaps' \in 0..MaxMishaps
        /\ UNCHANGED <<disk, registry, fts, vec, writer, compactor, due, summaries, excepted, dirty, aged>>
    BY <1>13, <1>m DEF RebuildReads
  <2> HIDE DEF Goal
  <2> QED
    BY <2>1, <1>A, <1>0
<1>14. ASSUME NEW embeds \in BOOLEAN, RebuildWrites(embeds) PROVE Goal
  <2> DEFINE read == CHOOSE folder \in rebuilder : TRUE
  <2>1. read \in [Files -> Content]
    BY <1>0, <1>14 DEF RebuildWrites
  <2>2. /\ fts' = IndexOf(read) /\ vec' = (IF embeds THEN IndexOf(read) ELSE IndexOf(NoFiles))
        /\ dirty' = (read # disk \/ writer.at # "idle" \/ Collides) /\ rebuilder' = {}
        /\ UNCHANGED <<disk, registry, writer, compactor, due, summaries, excepted, aged, mishaps>>
    BY <1>14 DEF RebuildWrites
  <2> HIDE DEF read
  <2>3. fts' \in Index /\ vec' \in Index /\ dirty' \in BOOLEAN
    BY <2>1, <2>2, IndexTypes, <1>b
  <2> HIDE DEF Goal
  <2> QED
    BY <2>2, <2>3, <1>A, <1>0
<1>15. ASSUME NEW f \in Files, NEW embeds \in BOOLEAN, ReindexFile(f, embeds) PROVE Goal
  <2>1. /\ fts' = [fts EXCEPT ![f] = Parse(disk[f])] /\ mishaps' \in 0..MaxMishaps
        /\ vec' = [vec EXCEPT ![f] = IF embeds THEN Parse(disk[f]) ELSE [i \in Chunks |-> {}]]
        /\ dirty' = (dirty \/ Collides)
        /\ UNCHANGED <<disk, registry, writer, compactor, rebuilder, due, summaries, excepted, aged>>
    BY <1>15, <1>m DEF ReindexFile
  <2>2. Parse(disk[f]) \in [Chunks -> Text] /\ [i \in Chunks |-> {}] \in [Chunks -> Text]
    BY <1>0, ParseGivesText, MemoryShape
  <2>3. fts' \in Index /\ vec' \in Index
    BY <2>1, <2>2, <1>0 DEF Index
  <2>4. dirty' \in BOOLEAN
    BY <2>1, <1>0, <1>b
  <2> HIDE DEF Goal
  <2> QED
    BY <2>1, <2>3, <2>4, <1>A, <1>0
<1>16. ASSUME NEW f \in Files, NEW i \in Chunks, NEW text \in {Edited, {}}, EditEntry(f, i, text) PROVE Goal
  <2>1. PICK new \in {text, {}} : vec' = [vec EXCEPT ![f][i] = new]
    BY <1>16 DEF EditEntry
  <2>2. /\ fts' = [fts EXCEPT ![f][i] = text] /\ mishaps' \in 0..MaxMishaps /\ dirty' = TRUE
        /\ UNCHANGED <<disk, registry, writer, compactor, rebuilder, due, summaries, excepted, aged>>
    BY <1>16, <1>m DEF EditEntry
  <2>3. text \in Text /\ new \in Text
    BY <2>1 DEF Text
  <2>4. fts' \in Index /\ vec' \in Index
    BY <2>1, <2>2, <2>3, <1>0 DEF Index
  <2> HIDE DEF Goal
  <2> QED
    BY <2>2, <2>4, <1>A, <1>0
<1>17. ASSUME NEW f \in Files, DeleteFile(f) PROVE Goal
  <2>1. /\ disk' = [disk EXCEPT ![f] = <<>>] /\ registry' = registry \ {f}
        /\ fts' = Unindexed(fts, f) /\ vec' = Unindexed(vec, f) /\ mishaps' \in 0..MaxMishaps
        /\ excepted' = excepted \cup Told([NoFiles EXCEPT ![f] = disk[f]])
        /\ dirty' = (dirty \/ writer.at # "idle" \/ compactor.at # "idle")
        /\ UNCHANGED <<writer, compactor, rebuilder, due, summaries, aged>>
    BY <1>17, <1>m DEF DeleteFile
  <2>2. excepted' \subseteq Chunks
    BY <2>1, <1>0, DeletedIsExcepted
  <2>3. disk' \in [Files -> Content] /\ fts' \in Index /\ vec' \in Index /\ dirty' \in BOOLEAN
        /\ \A g \in Files : disk'[g] \in {<<>>, disk[g]}
    BY <2>1, <1>0, IndexTypes, EmptyAndSingle
  <2>4. MemoryTypeOK'
    BY <2>1, <2>2, <2>3, <1>0 DEF MemoryTypeOK
  <2>5. Cardinality(registry') \in Nat /\ Cardinality(registry') <= Cardinality(registry) /\ (f \in registry => Cardinality(registry') < Cardinality(registry))
    <3>1. Cardinality(registry') = IF f \in registry THEN Cardinality(registry) - 1 ELSE Cardinality(registry)
      BY <2>1, MemoryShape, FS_RemoveElement
    <3>2. IsFiniteSet(registry')
      BY <2>1, MemoryShape, FS_RemoveElement
    <3> QED
      BY <3>1, <3>2, MemoryShape, FS_CardinalityType
  <2>6. \A g \in Files : Len(disk'[g]) <= summaries'
    BY <2>1, <2>3, <1>0, EmptyAndSingle DEF SizesAreBounded
  <2>7. SizesAreBounded'
    <3>1. Cardinality(registry') <= summaries /\ (writer.at = "register" /\ writer.file \notin registry' => Cardinality(registry') < summaries)
      BY <2>1, <2>5, <1>0, MemoryShape DEF SizesAreBounded
    <3> QED
      BY <2>1, <2>6, <3>1, <1>0 DEF SizesAreBounded
  <2> QED
    BY <2>4, <2>7
<1>18. ASSUME Ages PROVE Goal
  <2>1. /\ aged' = TRUE
        /\ UNCHANGED <<disk, registry, fts, vec, writer, compactor, rebuilder, due, summaries, excepted, dirty, mishaps>>
    BY <1>18 DEF Ages
  <2> HIDE DEF Goal
  <2> QED
    BY <2>1, <1>A, <1>0
<1>19. ASSUME UNCHANGED memoryVars PROVE Goal
  <2>1. UNCHANGED <<disk, registry, fts, vec, writer, compactor, rebuilder, due, summaries, excepted, dirty, aged, mishaps>>
    BY <1>19 DEF memoryVars
  <2> HIDE DEF Goal
  <2> QED
    BY <2>1, <1>A, <1>0
<1> QED
  <2>1. \/ RegisterSummary \/ RegisterFails \/ WriterCrashes \/ WorkerBoot \/ CompactReads
        \/ CompactWrites \/ CompactDrops \/ CompactRegisters \/ CompactIndexes \/ RebuildReads \/ Ages
        \/ UNCHANGED memoryVars
        => Goal
    BY <1>2, <1>3, <1>4, <1>6, <1>8, <1>9, <1>10, <1>11, <1>13, <1>18, <1>19
  <2> HIDE DEF Goal
  <2>2. Goal
    BY <2>1, <1>1, <1>5, <1>7, <1>12, <1>14, <1>15, <1>16, <1>17 DEF MemoryNext
  <2> QED
    BY <2>2 DEF Goal

LEMMA SummariesStay ==
  ASSUME MemoryInv, [MemoryNext]_memoryVars
  PROVE  TodoIsTold' /\ SummariesSurvive'
<1> DEFINE Survive == \A e \in 1..summaries : e \in excepted \/ \E f \in Files : e \in Tells(disk[f])
           Goal == TodoIsTold' /\ Survive'
<1>a. /\ SummariesSurvive <=> Survive
      /\ SummariesSurvive' <=> Survive'
  <2>1. Told(disk) = UNION {Tells(disk[f]) : f \in Files} /\ Told(disk') = UNION {Tells(disk'[f]) : f \in Files}
    BY ToldIsTold
  <2> QED
    BY <2>1 DEF SummariesSurvive
<1>b. SUFFICES Goal
  BY <1>a
<1>0. /\ disk \in [Files -> Content] /\ registry \subseteq Files
      /\ compactor \in Compactor /\ summaries \in Nat
      /\ TodoIsTold /\ Survive /\ 1 \in Files
      /\ Resting.at = "idle"
  BY <1>a, MemoryShape DEF MemoryInv, MemoryTypeOK, Resting
<1> HIDE DEF Survive
<1>A. ASSUME UNCHANGED <<disk, summaries>>, excepted \subseteq excepted',
             compactor' = compactor \/ compactor'.at \notin {"asked", "drop"}
      PROVE  Goal
  <2>1. Survive'
    BY <1>0, <1>A DEF Survive
  <2>2. TodoIsTold'
    BY <1>0, <1>A DEF TodoIsTold
  <2> QED
    BY <2>1, <2>2
<1>1. ASSUME NEW full \in BOOLEAN, WriteSummary(full) PROVE Goal
  <2>1. PICK f \in Files :
           /\ disk' = [disk EXCEPT ![f] = Append(disk[f], {summaries + 1})]
           /\ Tells(disk'[f]) = Tells(disk[f]) \cup {summaries + 1}
           /\ excepted' = (IF f \in compactor.todo THEN excepted \cup {summaries + 1} ELSE excepted)
           /\ summaries' = summaries + 1 /\ compactor' = compactor
    BY <1>1, Writing
  <2>2. \A g \in Files : Tells(disk[g]) \subseteq Tells(disk'[g]) /\ (g # f => disk'[g] = disk[g])
    BY <2>1, <1>0
  <2>3. Survive'
    <3>1. \A e \in 1..summaries + 1 : e \in 1..summaries \/ e = summaries + 1
      BY <1>0
    <3> QED
      BY <3>1, <2>1, <2>2, <1>0 DEF Survive
  <2>4. TodoIsTold'
    <3>1. compactor.todo \subseteq Files
      BY <1>0 DEF Compactor
    <3>2. compactor.at \in {"asked", "drop"} => \A g \in compactor.todo : Tells(disk'[g]) \subseteq compactor.text \cup excepted'
      <4> SUFFICES ASSUME compactor.at \in {"asked", "drop"}, NEW g \in compactor.todo
                   PROVE  Tells(disk'[g]) \subseteq compactor.text \cup excepted'
        OBVIOUS
      <4>1. Tells(disk[g]) \subseteq compactor.text \cup excepted
        BY <1>0 DEF TodoIsTold
      <4>2. CASE g = f
        BY <4>1, <4>2, <2>1
      <4>3. CASE g # f
        BY <4>1, <4>3, <2>1, <2>2, <3>1
      <4> QED
        BY <4>2, <4>3
    <3> QED
      BY <3>2, <2>1, <2>2, <1>0 DEF TodoIsTold
  <2> QED
    BY <2>3, <2>4
<1>2. ASSUME CompactReads PROVE Goal
  <2>1. \/ compactor' = compactor /\ excepted' = excepted /\ due' = FALSE
        \/ \E text, gone \in SUBSET Chunks :
             /\ compactor' = [at |-> "asked", paths |-> registry, text |-> text,
                              todo |-> registry \cup {1}, content |-> <<>>]
             /\ excepted' = excepted \cup gone /\ due' = due
             /\ \A f \in registry \cup {1} : Tells(disk[f]) \subseteq text \cup gone
             /\ \E f \in registry : disk[f] # <<>>
    BY <1>2, Reading
  <2>2. UNCHANGED <<disk, summaries>> /\ excepted \subseteq excepted'
    BY <1>2, <2>1, Reading
  <2>3. ASSUME compactor' = compactor PROVE Goal
    <3> HIDE DEF Goal
    <3> QED
      BY <2>2, <2>3, <1>A
  <2>4. ASSUME NEW text \in SUBSET Chunks, NEW gone \in SUBSET Chunks,
               compactor' = [at |-> "asked", paths |-> registry, text |-> text,
                             todo |-> registry \cup {1}, content |-> <<>>],
               excepted' = excepted \cup gone,
               \A f \in registry \cup {1} : Tells(disk[f]) \subseteq text \cup gone,
               NEW f \in registry
        PROVE  Goal
    <3>1. TodoIsTold'
      BY <2>2, <2>4 DEF TodoIsTold
    <3>2. Survive'
      BY <2>2, <1>0 DEF Survive
    <3> QED
      BY <3>1, <3>2
  <2> HIDE DEF Goal
  <2> QED
    BY <2>1, <2>3, <2>4
<1>3. ASSUME CompactWrites PROVE Goal
  <2>1. /\ disk' = [disk EXCEPT ![1] = <<compactor.text>>] /\ compactor.at = "asked"
        /\ compactor' = [compactor EXCEPT !.at = "drop", !.todo = compactor.paths]
        /\ UNCHANGED <<summaries, excepted>>
    BY <1>3 DEF CompactWrites, Replaced
  <2>2. /\ compactor'.at = "drop" /\ compactor'.todo = compactor.paths /\ compactor'.text = compactor.text
        /\ compactor.todo = compactor.paths \cup {1} /\ compactor.paths # {} /\ compactor.paths \subseteq Files
        /\ \A f \in compactor.todo : Tells(disk[f]) \subseteq compactor.text \cup excepted
    BY <2>1, <1>0 DEF TodoIsTold, Compactor
  <2>3. disk'[1] = <<compactor.text>> /\ Tells(disk'[1]) = compactor.text /\ \A g \in Files : g # 1 => disk'[g] = disk[g]
    <3>1. compactor.text \in SUBSET Chunks
      BY <1>0 DEF Compactor
    <3> QED
      BY <3>1, <2>1, <1>0, EmptyAndSingle
  <2>4. TodoIsTold'
    BY <2>1, <2>2, <2>3 DEF TodoIsTold
  <2>5. Survive'
    BY <2>1, <2>2, <2>3, <1>0 DEF Survive
  <2> QED
    BY <2>4, <2>5
<1>4. ASSUME CompactDrops PROVE Goal
  <2> DEFINE f == IF compactor.todo = {1} THEN 1 ELSE Min(compactor.todo \ {1})
             todo == compactor.todo \ {f}
  <2>1. /\ compactor.at = "drop"
        /\ disk' = (IF f = 1 THEN disk ELSE [disk EXCEPT ![f] = <<>>])
        /\ compactor' = [compactor EXCEPT !.todo = todo, !.at = IF todo = {} THEN "register" ELSE "drop"]
        /\ UNCHANGED <<summaries, excepted>>
    BY <1>4 DEF CompactDrops
  <2>2. f \in compactor.todo /\ f \in Files
    BY <2>1, DropsOne
  <2> HIDE DEF f
  <2>3. /\ disk'[1] = disk[1]
        /\ \A g \in Files : disk'[g] = disk[g] \/ (g = f /\ Tells(disk'[g]) = {})
    BY <2>1, <2>2, <1>0, EmptyAndSingle
  <2>4. /\ \A g \in compactor.todo : Tells(disk[g]) \subseteq compactor.text \cup excepted
        /\ compactor.text \subseteq Tells(disk[1]) \cup excepted
    BY <2>1, <1>0 DEF TodoIsTold
  <2>5. compactor'.text = compactor.text /\ compactor'.todo = todo /\ compactor'.at = (IF todo = {} THEN "register" ELSE "drop")
    BY <2>1, <1>0 DEF Compactor
  <2>6. compactor.todo \subseteq Files
    BY <1>0 DEF Compactor
  <2>7. TodoIsTold'
    BY <2>1, <2>3, <2>4, <2>5, <2>6 DEF TodoIsTold
  <2>8. Survive'
    BY <2>1, <2>2, <2>3, <2>4, <1>0 DEF Survive
  <2> QED
    BY <2>7, <2>8
<1>5. ASSUME NEW f \in Files, DeleteFile(f) PROVE Goal
  <2>1. /\ disk' = [disk EXCEPT ![f] = <<>>] /\ UNCHANGED <<compactor, summaries>>
        /\ excepted' = excepted \cup Tells(disk[f])
    BY <1>5, DeletedIsExcepted DEF DeleteFile
  <2>2. \A g \in Files : disk'[g] = disk[g] \/ (g = f /\ Tells(disk'[g]) = {})
    BY <2>1, <1>0, EmptyAndSingle
  <2>3. compactor.todo \subseteq Files
    BY <1>0 DEF Compactor
  <2>4. TodoIsTold'
    <3>1. compactor.at = "drop" => compactor.text \subseteq Tells(disk'[1]) \cup excepted'
      BY <2>1, <2>2, <1>0 DEF TodoIsTold
    <3>2. compactor.at \in {"asked", "drop"} => \A g \in compactor.todo : Tells(disk'[g]) \subseteq compactor.text \cup excepted'
      BY <2>1, <2>2, <2>3, <1>0 DEF TodoIsTold
    <3> QED
      BY <2>1, <3>1, <3>2, <1>0 DEF TodoIsTold
  <2>5. Survive'
    BY <2>1, <2>2, <1>0 DEF Survive
  <2> QED
    BY <2>4, <2>5
<1>6. ASSUME NEW b \in BOOLEAN, NEW done \in 0..MaxSummaries,
             \/ CompactFails \/ CompactorGone(b) \/ CompactRegisters \/ CompactIndexes \/ CompactEmbeds(done)
      PROVE  Goal
  <2>1. UNCHANGED <<disk, summaries, excepted>> /\ compactor'.at \notin {"asked", "drop"}
    BY <1>6, <1>0 DEF CompactFails, CompactorGone, CompactRegisters, CompactIndexes, CompactEmbeds, Compactor
  <2> HIDE DEF Goal
  <2> QED
    BY <2>1, <1>A
<1> QED
  <2> HIDE DEF Goal
  <2>1. TRUE \in BOOLEAN /\ 0 \in 0..MaxSummaries
    BY MemoryShape
  <2>2. \A b \in BOOLEAN, done \in 0..MaxSummaries :
          \/ CompactFails \/ CompactorGone(b) \/ CompactRegisters \/ CompactIndexes \/ CompactEmbeds(done)
          => Goal
    BY <1>6
  <2>3. CompactFails \/ CompactRegisters \/ CompactIndexes => Goal
    BY <2>1, <2>2
  <2>4. (\E b \in BOOLEAN : CompactorGone(b)) \/ (\E done \in 0..MaxSummaries : CompactEmbeds(done)) => Goal
    BY <2>1, <2>2
  <2>5. \/ RegisterSummary \/ RegisterFails \/ WriterCrashes \/ WorkerBoot \/ RebuildReads \/ Ages
        \/ UNCHANGED memoryVars \/ (\E done \in 0..MaxSummaries : EmbedSummary(done))
        \/ (\E b \in BOOLEAN : RebuildWrites(b))
        \/ (\E f \in Files, b \in BOOLEAN : ReindexFile(f, b))
        \/ (\E f \in Files, i \in Chunks, text \in {Edited, {}} : EditEntry(f, i, text))
        => UNCHANGED <<disk, summaries, excepted, compactor>>
    BY DEF RegisterSummary, RegisterFails, WriterCrashes, WorkerBoot, EmbedSummary, RebuildReads, Ages,
       RebuildWrites, ReindexFile, EditEntry, memoryVars
  <2>6. UNCHANGED <<disk, summaries, excepted, compactor>> => Goal
    BY <1>A
  <2> QED
    BY <2>3, <2>4, <2>5, <2>6, <1>1, <1>2, <1>3, <1>4, <1>5 DEF MemoryNext

\* No file of an old day is being written, and one rebuild is under way at most.
LEMMA OneAtATime ==
  ASSUME MemoryInv, [MemoryNext]_memoryVars
  PROVE  /\ (writer.at # "idle" => ~aged)'
         /\ (\A folder1, folder2 \in rebuilder : folder1 = folder2)'
<1>0. /\ writer.at # "idle" => ~aged
      /\ \A folder1, folder2 \in rebuilder : folder1 = folder2
      /\ Idle.at = "idle" /\ writer \in Writer
  BY MemoryShape DEF MemoryInv, Idle, MemoryTypeOK
<1>1. (writer'.at # "idle" => writer.at # "idle" \/ ~aged) /\ (aged' = aged \/ writer'.at = "idle")
  <2>1. ASSUME NEW full \in BOOLEAN, WriteSummary(full) PROVE ~aged /\ aged' = aged
    BY <2>1 DEF WriteSummary
  <2>2. ASSUME RegisterSummary PROVE writer.at # "idle" /\ aged' = aged
    BY <2>2 DEF RegisterSummary
  <2>3. ASSUME Ages PROVE writer'.at = "idle"
    BY <2>3 DEF Ages
  <2>4. ASSUME NEW done \in 0..MaxSummaries, EmbedSummary(done) PROVE writer' = Idle
    BY <2>4 DEF EmbedSummary
  <2>5. RegisterFails \/ WriterCrashes => writer' = Idle
    BY DEF RegisterFails, WriterCrashes
  <2>6. \/ WorkerBoot \/ CompactReads \/ CompactFails \/ CompactWrites \/ CompactDrops \/ CompactRegisters
        \/ CompactIndexes \/ RebuildReads \/ UNCHANGED memoryVars
        \/ (\E done \in 0..MaxSummaries : CompactEmbeds(done))
        \/ (\E b \in BOOLEAN : CompactorGone(b) \/ RebuildWrites(b))
        \/ (\E f \in Files, b \in BOOLEAN : ReindexFile(f, b))
        \/ (\E f \in Files, i \in Chunks, text \in {Edited, {}} : EditEntry(f, i, text))
        \/ (\E f \in Files : DeleteFile(f))
        => UNCHANGED <<writer, aged>>
    BY DEF WorkerBoot, CompactReads, CompactFails, CompactWrites, CompactDrops, CompactRegisters,
       CompactIndexes, CompactEmbeds, CompactorGone, RebuildReads, RebuildWrites, ReindexFile, EditEntry,
       DeleteFile, memoryVars
  <2> QED
    BY <2>1, <2>2, <2>3, <2>4, <2>5, <2>6, <1>0 DEF MemoryNext
<1>2. rebuilder' = rebuilder \/ rebuilder' = {} \/ rebuilder' = {disk}
  BY DEF MemoryNext, memoryVars, WriteSummary, RegisterSummary, RegisterFails, EmbedSummary, WriterCrashes,
     WorkerBoot, CompactReads, CompactFails, CompactWrites, CompactDrops, CompactRegisters, CompactIndexes,
     CompactEmbeds, CompactorGone, RebuildReads, RebuildWrites, ReindexFile, EditEntry, DeleteFile, Ages
<1> QED
  BY <1>0, <1>1, <1>2

LEMMA IndexStays ==
  ASSUME MemoryInv, [MemoryNext]_memoryVars, ~dirty'
  PROVE  IndexIsNear'
<1> DEFINE Goal == IndexIsNear'
<1>0. /\ disk \in [Files -> Content] /\ fts \in Index /\ vec \in Index
      /\ writer \in Writer /\ compactor \in Compactor /\ rebuilder \subseteq [Files -> Content]
      /\ (writer.at # "idle" => ~aged)
      /\ 1 \in Files /\ Idle.at = "idle" /\ Resting.at = "idle" /\ dirty \in BOOLEAN
  BY MemoryShape DEF MemoryInv, MemoryTypeOK, Idle, Resting
<1>n. ~dirty => IndexIsNear
  BY DEF MemoryInv
<1>t. /\ \A f \in Files, i \in Chunks : Parse(disk[f])[i] = Parse(disk[f])[i]
      /\ \A f \in Files : disk[f] \in Content
      /\ \A i \in Chunks : Parse(<<>>)[i] = {}
  BY <1>0, EmptyAndSingle DEF Parse, Chunks
\* Steps that leave the files, the indexes and the writer alone.
<1>A. ASSUME UNCHANGED <<disk, fts, vec, writer, dirty, aged>>,
             \/ compactor' = compactor
             \/ compactor.at \notin {"drop", "register", "index"} /\ compactor'.at \in {"idle", "asked"}
      PROVE  Goal
  BY <1>A, <1>n DEF IndexIsNear, Near, Replacing, Collides
<1>1. ASSUME NEW full \in BOOLEAN, WriteSummary(full) PROVE Goal
  <2>1. PICK f \in Files :
           /\ disk' = [disk EXCEPT ![f] = Append(disk[f], {summaries + 1})]
           /\ writer'.at = "register" /\ writer'.file = f
           /\ writer.at = "idle" /\ ~aged /\ dirty' = (dirty \/ Collides)
           /\ UNCHANGED <<fts, vec, compactor, aged>>
    BY <1>1, Writing
  <2>2. /\ IndexIsNear /\ ~Collides /\ ~Collides' /\ ~Replacing /\ compactor.at # "vectors"
    BY <2>1, <1>n DEF Collides, Replacing
  <2>3. /\ \A g \in Files : g # f => disk'[g] = disk[g]
        /\ disk'[f] = Append(disk[f], {summaries + 1})
    BY <2>1, <1>0
  <2>4. \A i \in Chunks : Parse(disk[f])[i] \in {{}, Parse(disk'[f])[i]}
    BY <2>3, <1>t, ParseOfAppend
  <2>5. ASSUME NEW g \in Files, NEW i \in Chunks PROVE Near(g, i)'
    <3>1. Near(g, i)
      BY <2>2 DEF IndexIsNear
    <3>2. fts[g][i] = Parse(disk[g])[i] /\ vec[g][i] \in {{}, fts[g][i]}
      BY <3>1, <2>1 DEF Near
    <3>3. CASE g = f
      BY <3>2, <3>3, <2>1, <2>4 DEF Near
    <3>4. CASE g # f
      BY <3>2, <3>4, <2>1, <2>3 DEF Near
    <3> QED
      BY <3>3, <3>4
  <2> QED
    BY <2>1, <2>2, <2>5 DEF IndexIsNear, Collides
<1>2. ASSUME RegisterSummary PROVE Goal
  <2> DEFINE f == writer.file
  <2>1. f \in Files
    BY <1>0 DEF Writer
  <2>2. /\ fts' = [fts EXCEPT ![f] = Parse(disk[f])]
        /\ writer' = [writer EXCEPT !.at = "vectors", !.content = disk[f]]
        /\ ~dirty /\ ~Collides /\ writer.at = "register"
        /\ UNCHANGED <<disk, vec, compactor, aged>>
    BY <1>2 DEF RegisterSummary
  <2>3. writer'.at = "vectors" /\ writer'.content = disk[f] /\ writer'.file = f
    BY <2>2, <1>0 DEF Writer
  <2>4. /\ IndexIsNear /\ ~Collides' /\ ~Replacing /\ compactor.at # "vectors"
    BY <2>2, <1>n DEF Collides, Replacing
  <2>5. fts'[f] = Parse(disk[f]) /\ \A g \in Files : g # f => fts'[g] = fts[g]
    BY <2>1, <2>2, <1>0 DEF Index
  <2>6. ASSUME NEW g \in Files, NEW i \in Chunks PROVE Near(g, i)'
    <3>1. Near(g, i)
      BY <2>4 DEF IndexIsNear
    <3>2. CASE g = f
      BY <3>1, <3>2, <2>2, <2>5 DEF Near
    <3>3. CASE g # f
      BY <3>1, <3>3, <2>2, <2>5 DEF Near
    <3> QED
      BY <3>2, <3>3
  <2> QED
    BY <2>2, <2>3, <2>4, <2>6 DEF IndexIsNear, Collides
<1>3. ASSUME NEW done \in 0..MaxSummaries, EmbedSummary(done) PROVE Goal
  <2> DEFINE f == writer.file
  <2>1. f \in Files /\ writer.content \in Content
    BY <1>0 DEF Writer
  <2>2. /\ vec' = Embedded(f, writer.content, done) /\ writer' = Idle
        /\ ~dirty /\ ~Collides /\ writer.at = "vectors"
        /\ UNCHANGED <<disk, fts, compactor, aged>>
    BY <1>3 DEF EmbedSummary
  <2>3. /\ IndexIsNear /\ ~Collides' /\ ~Replacing /\ compactor.at # "vectors" /\ writer.content = disk[f]
    BY <2>2, <1>n DEF Collides, Replacing, IndexIsNear
  <2>4. /\ \A g \in Files : g # f => vec'[g] = vec[g]
        /\ \A i \in Chunks : vec'[f][i] \in {{}, Parse(disk[f])[i], vec[f][i]}
    BY <2>1, <2>2, <2>3, <1>0, EmbeddedText
  <2>5. ASSUME NEW g \in Files, NEW i \in Chunks PROVE Near(g, i)'
    <3>1. Near(g, i) /\ ~aged
      BY <2>2, <2>3, <1>0 DEF IndexIsNear
    <3>2. CASE g = f
      BY <3>1, <3>2, <2>2, <2>4 DEF Near
    <3>3. CASE g # f
      BY <3>1, <3>3, <2>2, <2>4 DEF Near
    <3> QED
      BY <3>2, <3>3
  <2> QED
    BY <2>2, <2>3, <2>5, <1>0 DEF IndexIsNear, Collides
<1>4. ASSUME WorkerBoot PROVE Goal
  <2> DEFINE empty == \A f \in Files, i \in Chunks : fts[f][i] = {}
             text == IF empty THEN IndexOf(disk) ELSE fts
             emb == IF empty THEN IndexOf(disk) ELSE vec
  <2>1. /\ IF aged
           THEN /\ vec' = [f \in Files |-> [i \in Chunks |-> IF text[f][i] = {} THEN emb[f][i] ELSE {}]]
                /\ fts' = IndexOf(NoFiles)
           ELSE fts' = text /\ vec' = emb
        /\ ~dirty /\ ~Collides /\ writer.at = "idle"
        /\ UNCHANGED <<disk, writer, compactor, aged>>
    BY <1>4 DEF WorkerBoot
  <2>2. /\ IndexIsNear /\ ~Collides' /\ ~Replacing /\ compactor.at # "vectors"
    BY <2>1, <1>n DEF Collides, Replacing
  <2>3. ASSUME NEW f \in Files, NEW i \in Chunks
        PROVE  /\ text[f][i] = Parse(disk[f])[i] \/ (text[f][i] = {} /\ aged)
               /\ emb[f][i] \in {{}, text[f][i]}
    <3>1. CASE empty
      BY <3>1 DEF IndexOf
    <3>2. CASE ~empty
      BY <3>2, <2>1, <2>2 DEF IndexIsNear, Near
    <3> QED
      BY <3>1, <3>2
  <2>e. \A f \in Files, i \in Chunks : IndexOf(NoFiles)[f][i] = {}
    BY <1>t DEF IndexOf, NoFiles
  <2> HIDE DEF text, emb, empty
  <2>4. ASSUME NEW f \in Files, NEW i \in Chunks PROVE Near(f, i)'
    <3>1. CASE aged
      <4>1. fts' = IndexOf(NoFiles)
        BY <2>1, <3>1
      <4>2. vec' = [g \in Files |-> [j \in Chunks |-> IF text[g][j] = {} THEN emb[g][j] ELSE {}]]
        BY <2>1, <3>1
      <4>3. vec'[f][i] = IF text[f][i] = {} THEN emb[f][i] ELSE {}
        BY <4>2
      <4>4. fts'[f][i] = {}
        BY <4>1, <2>e
      <4> QED
        BY <4>3, <4>4, <2>3, <2>1, <3>1 DEF Near
    <3>2. CASE ~aged
      BY <2>1, <2>3, <3>2 DEF Near
    <3> QED
      BY <3>1, <3>2
  <2> QED
    BY <2>1, <2>2, <2>4 DEF IndexIsNear, Collides
<1>5. ASSUME CompactReads PROVE Goal
  <2>1. compactor.at = "idle" /\ UNCHANGED <<disk, fts, vec, writer, dirty, aged>>
    BY <1>5, Reading DEF CompactReads
  <2>2. compactor' = compactor \/ compactor'.at = "asked"
    <3>1. \/ compactor' = compactor
          \/ \E text, gone \in SUBSET Chunks :
               compactor' = [at |-> "asked", paths |-> registry, text |-> text,
                             todo |-> registry \cup {1}, content |-> <<>>]
      BY <1>5, Reading
    <3> QED
      BY <3>1
  <2> QED
    BY <2>1, <2>2, <1>A
<1>6. ASSUME CompactFails \/ \E b \in BOOLEAN : CompactorGone(b) PROVE Goal
  <2>1. /\ compactor.at = "asked" /\ compactor' = Resting
        /\ UNCHANGED <<disk, fts, vec, writer, dirty, aged>>
    BY <1>6, <1>0 DEF CompactFails, CompactorGone
  <2> QED
    BY <2>1, <1>0, <1>A
<1>7. ASSUME CompactWrites PROVE Goal
  <2>1. /\ disk' = [disk EXCEPT ![1] = <<compactor.text>>] /\ compactor.at = "asked"
        /\ compactor' = [compactor EXCEPT !.at = "drop", !.todo = compactor.paths]
        /\ ~dirty /\ writer.at = "idle" /\ 1 \in compactor.paths
        /\ UNCHANGED <<fts, vec, writer, aged>>
    BY <1>7 DEF CompactWrites, Replaced
  <2>2. compactor'.at = "drop" /\ compactor'.todo = compactor.paths /\ Replacing'
    BY <2>1, <1>0 DEF Compactor, Replacing
  <2>3. IndexIsNear /\ ~Replacing /\ \A g \in Files : g # 1 => disk'[g] = disk[g]
    BY <2>1, <1>n, <1>0 DEF Replacing
  <2>4. ASSUME NEW g \in Files, NEW i \in Chunks, g # 1 PROVE Near(g, i)'
    <3>1. Near(g, i)
      BY <2>3 DEF IndexIsNear
    <3> QED
      BY <3>1, <2>1, <2>3, <2>4 DEF Near
  <2> QED
    BY <2>1, <2>2, <2>4 DEF IndexIsNear
<1>8. ASSUME CompactDrops PROVE Goal
  <2>1. PICK f \in Files, todo \in SUBSET Files :
          /\ f \in compactor.todo /\ todo = compactor.todo \ {f} /\ (f = 1 => compactor.todo = {1})
          /\ fts' = Unindexed(fts, f) /\ vec' = Unindexed(vec, f)
          /\ disk' = (IF f = 1 THEN disk ELSE [disk EXCEPT ![f] = <<>>])
          /\ compactor' = [compactor EXCEPT !.todo = todo, !.at = IF todo = {} THEN "register" ELSE "drop"]
    <3> DEFINE f == IF compactor.todo = {1} THEN 1 ELSE Min(compactor.todo \ {1})
               todo == compactor.todo \ {f}
    <3>1. /\ fts' = Unindexed(fts, f) /\ vec' = Unindexed(vec, f)
          /\ disk' = (IF f = 1 THEN disk ELSE [disk EXCEPT ![f] = <<>>])
          /\ compactor' = [compactor EXCEPT !.todo = todo, !.at = IF todo = {} THEN "register" ELSE "drop"]
      BY <1>8 DEF CompactDrops
    <3>2. f \in compactor.todo /\ f \in Files /\ (f = 1 => compactor.todo = {1})
      BY <1>8, DropsOne DEF CompactDrops
    <3>3. todo \in SUBSET Files
      BY <1>0 DEF Compactor
    <3> HIDE DEF f
    <3> QED
      BY <3>1, <3>2, <3>3
  <2>2. /\ compactor.at = "drop" /\ ~dirty /\ writer.at = "idle" /\ UNCHANGED <<writer, aged>>
    BY <1>8 DEF CompactDrops
  <2>3. compactor'.todo = todo /\ compactor'.at = (IF todo = {} THEN "register" ELSE "drop") /\ Replacing'
    BY <2>1, <1>0 DEF Compactor, Replacing
  <2>4. /\ \A i \in Chunks : fts'[f][i] = {} /\ vec'[f][i] = {}
        /\ \A g \in Files : g # f => fts'[g] = fts[g] /\ vec'[g] = vec[g] /\ disk'[g] = disk[g]
        /\ f # 1 => disk'[f] = <<>>
    BY <2>1, <1>0 DEF Unindexed, Index
  <2>5. IndexIsNear /\ 1 \in compactor.todo
    BY <2>2, <1>n DEF IndexIsNear
  <2>6. (todo = {} <=> f = 1) /\ (f # 1 => 1 \in todo)
    BY <2>1, <2>5
  <2>7. ASSUME NEW g \in Files, NEW i \in Chunks, g # 1 PROVE Near(g, i)'
    <3>1. CASE g = f
      BY <3>1, <2>4, <2>7, <1>t DEF Near
    <3>2. CASE g # f
      <4>1. Near(g, i)
        BY <2>5, <2>7 DEF IndexIsNear
      <4> QED
        BY <4>1, <3>2, <2>2, <2>4 DEF Near
    <3> QED
      BY <3>1, <3>2
  <2>8. \A i \in Chunks : f = 1 => vec'[1][i] = {}
    BY <2>4
  <2> QED
    BY <2>2, <2>3, <2>6, <2>7, <2>8 DEF IndexIsNear
<1>9. ASSUME CompactRegisters PROVE Goal
  <2>1. /\ compactor.at = "register" /\ compactor' = [compactor EXCEPT !.at = "index"]
        /\ ~dirty /\ writer.at = "idle" /\ UNCHANGED <<disk, fts, vec, writer, aged>>
    BY <1>9 DEF CompactRegisters
  <2>2. compactor'.at = "index"
    BY <2>1, <1>0 DEF Compactor
  <2>3. IndexIsNear
    BY <2>1, <1>n
  <2> QED
    BY <2>1, <2>2, <2>3 DEF IndexIsNear, Near, Replacing
<1>10. ASSUME CompactIndexes PROVE Goal
  <2>1. /\ fts' = [fts EXCEPT ![1] = Parse(disk[1])] /\ compactor.at = "index"
        /\ compactor' = [compactor EXCEPT !.at = "vectors", !.content = disk[1]]
        /\ ~dirty /\ writer.at = "idle" /\ UNCHANGED <<disk, vec, writer, aged>>
    BY <1>10 DEF CompactIndexes
  <2>2. compactor'.at = "vectors" /\ compactor'.content = disk[1] /\ ~Replacing'
    BY <2>1, <1>0 DEF Compactor, Replacing
  <2>3. IndexIsNear /\ \A i \in Chunks : vec[1][i] = {}
    BY <2>1, <1>n DEF IndexIsNear
  <2>4. fts'[1] = Parse(disk[1]) /\ \A g \in Files : g # 1 => fts'[g] = fts[g]
    BY <2>1, <1>0 DEF Index
  <2>5. ASSUME NEW g \in Files, NEW i \in Chunks PROVE Near(g, i)'
    <3>1. CASE g = 1
      BY <3>1, <2>1, <2>3, <2>4 DEF Near
    <3>2. CASE g # 1
      <4>1. Near(g, i)
        BY <2>3, <3>2 DEF IndexIsNear
      <4> QED
        BY <4>1, <3>2, <2>1, <2>4 DEF Near
    <3> QED
      BY <3>1, <3>2
  <2> QED
    BY <2>1, <2>2, <2>4, <2>5 DEF IndexIsNear
<1>11. ASSUME NEW done \in 0..MaxSummaries, CompactEmbeds(done) PROVE Goal
  <2>1. /\ vec' = Embedded(1, compactor.content, done) /\ compactor' = Resting /\ compactor.at = "vectors"
        /\ ~dirty /\ writer.at = "idle" /\ UNCHANGED <<disk, fts, writer, aged>>
    BY <1>11 DEF CompactEmbeds
  <2>2. /\ IndexIsNear /\ ~Replacing /\ compactor.content = disk[1]
        /\ \A i \in Chunks : fts[1][i] = Parse(disk[1])[i]
    BY <2>1, <1>n DEF IndexIsNear, Replacing
  <2>3. /\ \A g \in Files : g # 1 => vec'[g] = vec[g]
        /\ \A i \in Chunks : vec'[1][i] \in {{}, Parse(disk[1])[i], vec[1][i]}
    BY <2>1, <2>2, <1>0, <1>t, EmbeddedText
  <2>4. ASSUME NEW g \in Files, NEW i \in Chunks PROVE Near(g, i)'
    <3>1. Near(g, i)
      BY <2>2 DEF IndexIsNear
    <3>2. CASE g = 1
      BY <3>1, <3>2, <2>1, <2>2, <2>3 DEF Near
    <3>3. CASE g # 1
      BY <3>1, <3>3, <2>1, <2>3 DEF Near
    <3> QED
      BY <3>2, <3>3
  <2> QED
    BY <2>1, <2>4, <1>0 DEF IndexIsNear
<1>12. ASSUME NEW embeds \in BOOLEAN, RebuildWrites(embeds) PROVE Goal
  <2> DEFINE read == CHOOSE folder \in rebuilder : TRUE
  <2>r. /\ fts' = IndexOf(read) /\ vec' = (IF embeds THEN IndexOf(read) ELSE IndexOf(NoFiles))
        /\ dirty' = (read # disk \/ writer.at # "idle" \/ Collides)
        /\ UNCHANGED <<disk, writer, compactor, aged>>
    BY <1>12 DEF RebuildWrites
  <2> HIDE DEF read
  <2>1. /\ fts' = IndexOf(disk) /\ vec' = (IF embeds THEN IndexOf(disk) ELSE IndexOf(NoFiles))
        /\ writer.at = "idle" /\ ~Collides /\ UNCHANGED <<disk, writer, compactor, aged>>
    BY <2>r
  <2>2. \A f \in Files, i \in Chunks : IndexOf(disk)[f][i] = Parse(disk[f])[i] /\ IndexOf(NoFiles)[f][i] = {}
    BY <1>t DEF IndexOf, NoFiles
  <2>3. \A f \in Files, i \in Chunks : Near(f, i)'
    BY <2>1, <2>2 DEF Near
  <2> QED
    BY <2>1, <2>3 DEF IndexIsNear, Collides
<1>13. ASSUME NEW f \in Files, NEW embeds \in BOOLEAN, ReindexFile(f, embeds) PROVE Goal
  <2>1. /\ fts' = [fts EXCEPT ![f] = Parse(disk[f])]
        /\ vec' = [vec EXCEPT ![f] = IF embeds THEN Parse(disk[f]) ELSE [i \in Chunks |-> {}]]
        /\ ~dirty /\ ~Collides /\ UNCHANGED <<disk, writer, compactor, aged>>
    BY <1>13 DEF ReindexFile
  <2>2. /\ IndexIsNear /\ ~Collides' /\ ~Replacing
    BY <2>1, <1>n DEF Collides, Replacing
  <2>3. /\ fts'[f] = Parse(disk[f]) /\ \A i \in Chunks : vec'[f][i] \in {{}, Parse(disk[f])[i]}
        /\ \A g \in Files : g # f => fts'[g] = fts[g] /\ vec'[g] = vec[g]
    BY <2>1, <1>0 DEF Index
  <2>4. ASSUME NEW g \in Files, NEW i \in Chunks PROVE Near(g, i)'
    <3>1. Near(g, i)
      BY <2>2 DEF IndexIsNear
    <3>2. CASE g = f
      BY <3>2, <2>1, <2>3 DEF Near
    <3>3. CASE g # f
      BY <3>1, <3>3, <2>1, <2>3 DEF Near
    <3> QED
      BY <3>2, <3>3
  <2> QED
    BY <2>1, <2>2, <2>4 DEF IndexIsNear, Collides
<1>14. ASSUME NEW f \in Files, DeleteFile(f) PROVE Goal
  <2>1. /\ disk' = [disk EXCEPT ![f] = <<>>] /\ fts' = Unindexed(fts, f) /\ vec' = Unindexed(vec, f)
        /\ ~dirty /\ writer.at = "idle" /\ compactor.at = "idle" /\ UNCHANGED <<writer, compactor, aged>>
    BY <1>14 DEF DeleteFile
  <2>2. /\ \A i \in Chunks : fts'[f][i] = {} /\ vec'[f][i] = {}
        /\ \A g \in Files : g # f => fts'[g] = fts[g] /\ vec'[g] = vec[g] /\ disk'[g] = disk[g]
        /\ disk'[f] = <<>>
    BY <2>1, <1>0 DEF Unindexed, Index
  <2>3. IndexIsNear /\ ~Replacing
    BY <2>1, <1>n DEF Replacing
  <2>4. ASSUME NEW g \in Files, NEW i \in Chunks PROVE Near(g, i)'
    <3>1. Near(g, i)
      BY <2>3 DEF IndexIsNear
    <3>2. CASE g = f
      BY <3>2, <2>2, <1>t DEF Near
    <3>3. CASE g # f
      BY <3>1, <3>3, <2>1, <2>2 DEF Near
    <3> QED
      BY <3>2, <3>3
  <2> QED
    BY <2>1, <2>4 DEF IndexIsNear
<1>15. ASSUME Ages PROVE Goal
  <2>1. /\ aged' = TRUE /\ writer.at = "idle" /\ UNCHANGED <<disk, fts, vec, writer, compactor, dirty>>
    BY <1>15 DEF Ages
  <2>2. IndexIsNear
    BY <2>1, <1>n
  <2> QED
    BY <2>1, <2>2 DEF IndexIsNear, Near, Replacing
<1>16. ASSUME RebuildReads \/ UNCHANGED memoryVars PROVE Goal
  <2>1. UNCHANGED <<disk, fts, vec, writer, compactor, dirty, aged>>
    BY <1>16 DEF RebuildReads, memoryVars
  <2> QED
    BY <2>1, <1>A
<1>17. ~(\/ RegisterFails \/ WriterCrashes
         \/ \E f \in Files, i \in Chunks, text \in {Edited, {}} : EditEntry(f, i, text))
  BY DEF RegisterFails, WriterCrashes, EditEntry
<1>18. \/ RegisterSummary \/ WorkerBoot \/ CompactReads \/ CompactFails \/ CompactWrites \/ CompactDrops
       \/ CompactRegisters \/ CompactIndexes \/ Ages \/ RebuildReads \/ UNCHANGED memoryVars
       \/ (\E b \in BOOLEAN : CompactorGone(b))
       => Goal
  BY <1>2, <1>4, <1>5, <1>6, <1>7, <1>8, <1>9, <1>10, <1>15, <1>16
<1> HIDE DEF Goal
<1>19. Goal
  BY <1>1, <1>3, <1>11, <1>12, <1>13, <1>14, <1>17, <1>18 DEF MemoryNext
<1> QED
  BY <1>19 DEF Goal

------------------------------------------------------------------------------
(* Theorems.                                                               *)

LEMMA MemoryGoesOn == MemoryInv /\ [MemoryNext]_memoryVars => MemoryInv'
<1> SUFFICES ASSUME MemoryInv, [MemoryNext]_memoryVars PROVE MemoryInv'
  OBVIOUS
<1>1. MemoryTypeOK' /\ SizesAreBounded' /\ TodoIsTold' /\ SummariesSurvive'
  BY MemoryTypesStay, SummariesStay
<1>2. ~dirty' => IndexIsNear'
  BY IndexStays
<1>3. (writer.at # "idle" => ~aged)' /\ (\A folder1, folder2 \in rebuilder : folder1 = folder2)'
  BY OneAtATime
<1> QED
  BY <1>1, <1>2, <1>3 DEF MemoryInv

\* The inductive invariant of the memory files, their registry and the two indexes, under
\* every interleaving of the session's container, the compaction and the orchestrator.
THEOREM MemoryInvariant == MemorySpec => []MemoryInv
  BY MemoryStarts, MemoryGoesOn, PTL DEF MemorySpec

\* No summary is lost: a compaction that is killed at any of its steps, tried again, or
\* overtaken by an append, leaves every summary in some file, but for the named losses.
THEOREM SummariesAreKept == MemorySpec => []SummariesSurvive
<1>1. MemoryInv => SummariesSurvive
  BY DEF MemoryInv
<1> QED
  BY <1>1, MemoryInvariant, PTL

\* At rest the full text index holds what the files hold, and no vector stands for an
\* older text than its chunk's.
THEOREM IndexesMatch == MemorySpec => []IndexMatchesFiles
<1>1. MemoryInv => IndexMatchesFiles
  <2> SUFFICES ASSUME MemoryInv, writer.at = "idle", compactor.at = "idle", ~dirty,
                      NEW f \in Files, NEW i \in Chunks
               PROVE  /\ fts[f][i] = Parse(disk[f])[i] \/ (aged /\ fts[f][i] = {})
                      /\ vec[f][i] \in {{}, fts[f][i]}
    BY DEF IndexMatchesFiles
  <2>1. IndexIsNear /\ ~Replacing
    BY DEF MemoryInv, Replacing
  <2> QED
    BY <2>1 DEF IndexIsNear, Near
<1> QED
  BY <1>1, MemoryInvariant, PTL

------------------------------------------------------------------------------
(***************************************************************************)
(* The facts, for any keys, values, containers and any number of calls.    *)
(***************************************************************************)

Fact == [key : FactKeys, value : FactValues]

\* FactIsCurrent, of a table that is committed or of one that may be.
IsCurrent(table) ==
  \A k \in FactKeys \ table.raced :
    {<<i, table.rows[k][i].value>> : i \in Active(table.rows[k])}
      = IF table.latest[k] = Nil THEN {} ELSE {<<Len(table.rows[k]), table.latest[k]>>}

Tables == {facts} \cup {t.table : t \in txn}

FactInv ==
  /\ facts \in Table /\ txn \subseteq [by : Containers, table : Table]
  /\ storing \in [Containers -> [todo : Seq(Fact), row : Nat]]
  /\ \A table \in Tables : IsCurrent(table)

------------------------------------------------------------------------------

LEMMA ViewIsTable ==
  ASSUME FactInv, NEW c \in Containers
  PROVE  View(c) \in Table /\ IsCurrent(View(c))
<1>1. CASE ~Holds(c)
  BY <1>1 DEF FactInv, View, Tables
<1>2. CASE Holds(c)
  <2>1. PICK t \in txn : View(c) = t.table
    BY <1>2 DEF View, Holds
  <2> QED
    BY <2>1 DEF FactInv, Tables
<1> QED
  BY <1>1, <1>2

\* store_facts leaves one active row, if there was no other than the one it had read.
LEMMA WrittenIsCurrent ==
  ASSUME NEW rows \in Seq(Row), NEW i \in Nat, NEW v \in FactValues
  PROVE  /\ Written(rows, i, v) \in Seq(Row)
         /\ \/ Written(rows, i, v) = rows /\ i # 0 /\ rows[i].value = v
            \/ /\ Len(Written(rows, i, v)) = Len(rows) + 1
               /\ Written(rows, i, v)[Len(rows) + 1].value = v
               /\ Active(rows) \subseteq {i}
                    => Active(Written(rows, i, v)) = {Len(rows) + 1}
<1>1. CASE i # 0 /\ rows[i].value = v
  BY <1>1 DEF Written
<1>2. CASE ~(i # 0 /\ rows[i].value = v)
  <2> DEFINE marked == [j \in 1..Len(rows) |-> [rows[j] EXCEPT !.superseded = @ \/ j = i]]
             new    == [value |-> v, superseded |-> FALSE]
  <2>1. Written(rows, i, v) = Append(marked, new)
    BY <1>2 DEF Written
  <2>2. Len(rows) \in Nat /\ \A j \in 1..Len(rows) : rows[j] \in Row
    OBVIOUS
  <2>3. \A j \in 1..Len(rows) : marked[j] \in Row
    <3> SUFFICES ASSUME NEW j \in 1..Len(rows) PROVE marked[j] \in Row
      OBVIOUS
    <3>1. marked[j] = [rows[j] EXCEPT !.superseded = rows[j].superseded \/ j = i]
      OBVIOUS
    <3>2. (rows[j].superseded \/ j = i) \in BOOLEAN
      OBVIOUS
    <3> QED
      BY <2>2, <3>1, <3>2 DEF Row
  <2>4. \A j \in 1..Len(rows) : marked[j].superseded <=> (rows[j].superseded \/ j = i)
    <3> SUFFICES ASSUME NEW j \in 1..Len(rows)
                 PROVE  marked[j].superseded <=> (rows[j].superseded \/ j = i)
      OBVIOUS
    <3>1. rows[j] \in Row
      BY <2>2
    <3> QED
      BY <3>1 DEF Row
  <2>5. marked \in Seq(Row) /\ Len(marked) = Len(rows)
    <3>1. marked \in [1..Len(rows) -> Row]
      BY <2>3
    <3> QED
      BY <2>2, <3>1
  <2>6. new \in Row /\ new.value = v /\ ~new.superseded
    BY DEF Row
  <2> HIDE DEF marked, new
  <2> DEFINE W == Append(marked, new)
  <2>7. /\ W \in Seq(Row) /\ Len(W) = Len(rows) + 1 /\ W[Len(rows) + 1] = new
        /\ \A j \in 1..Len(rows) : W[j] = marked[j]
    BY <2>2, <2>5, <2>6
  <2> HIDE DEF W
  <2>8. ASSUME Active(rows) \subseteq {i} PROVE Active(W) = {Len(rows) + 1}
    <3>1. ASSUME NEW j \in 1..Len(rows) PROVE W[j].superseded
      BY <2>4, <2>7, <2>8, <3>1 DEF Active
    <3>2. ~W[Len(rows) + 1].superseded
      BY <2>6, <2>7
    <3>3. 1..Len(W) = 1..Len(rows) \cup {Len(rows) + 1}
      BY <2>2, <2>7
    <3> QED
      BY <3>1, <3>2, <3>3 DEF Active
  <2> QED
    BY <2>1, <2>6, <2>7, <2>8 DEF W
<1> QED
  BY <1>1, <1>2

LEMMA WriteIsCurrent ==
  ASSUME FactInv, NEW c \in Containers, WriteFact(c)
  PROVE  /\ txn' \subseteq [by : Containers, table : Table]
         /\ \A t \in txn' : IsCurrent(t.table)
<1> DEFINE f     == Head(storing[c].todo)
           i     == storing[c].row
           view  == View(c)
           fresh == Active(view.rows[f.key]) = {i} \ {0}
           table == [rows   |-> [view.rows EXCEPT ![f.key] = Written(@, i, f.value)],
                     latest |-> [view.latest EXCEPT ![f.key] = f.value],
                     raced  |-> view.raced \cup IF fresh THEN {} ELSE {f.key}]
<1>1. txn' = {[by |-> c, table |-> table]}
  BY DEF WriteFact
<1>2. f \in Fact /\ i \in Nat
  <2>1. storing[c].todo \in Seq(Fact) /\ storing[c].todo # <<>> /\ storing[c].row \in Nat
    BY DEF FactInv, WriteFact
  <2> QED
    BY <2>1
<1>3. f.key \in FactKeys /\ f.value \in FactValues /\ f.value # Nil
  BY <1>2, FactsConstantsOK DEF Fact, FactsConstantsOK
<1>4. view \in Table /\ IsCurrent(view)
  BY ViewIsTable
<1> HIDE DEF f, i, view
<1>5. view.rows[f.key] \in Seq(Row)
  BY <1>3, <1>4 DEF Table
<1> DEFINE new == Written(view.rows[f.key], i, f.value)
<1>6. /\ new \in Seq(Row)
      /\ \/ new = view.rows[f.key] /\ i # 0 /\ view.rows[f.key][i].value = f.value
         \/ /\ Len(new) = Len(view.rows[f.key]) + 1
            /\ new[Len(view.rows[f.key]) + 1].value = f.value
            /\ Active(view.rows[f.key]) \subseteq {i}
                 => Active(new) = {Len(view.rows[f.key]) + 1}
  <2> DEFINE rows == view.rows[f.key]
             v    == f.value
  <2>1. rows \in Seq(Row) /\ v \in FactValues
    BY <1>3, <1>5
  <2> HIDE DEF rows, v
  <2>2. /\ Written(rows, i, v) \in Seq(Row)
        /\ \/ Written(rows, i, v) = rows /\ i # 0 /\ rows[i].value = v
           \/ /\ Len(Written(rows, i, v)) = Len(rows) + 1
              /\ Written(rows, i, v)[Len(rows) + 1].value = v
              /\ Active(rows) \subseteq {i}
                   => Active(Written(rows, i, v)) = {Len(rows) + 1}
    BY <1>2, <2>1, WrittenIsCurrent
  <2> QED
    BY <2>2 DEF rows, v
<1>7. /\ table.rows = [view.rows EXCEPT ![f.key] = new]
      /\ table.latest = [view.latest EXCEPT ![f.key] = f.value]
      /\ table.raced = view.raced \cup IF fresh THEN {} ELSE {f.key}
  OBVIOUS
<1> HIDE DEF new, table, fresh
<1>8. table \in Table
  <2>1. table.rows \in [FactKeys -> Seq(Row)] /\ table.latest \in [FactKeys -> FactValues \cup {Nil}]
    BY <1>3, <1>4, <1>6, <1>7 DEF Table
  <2>2. table.raced \subseteq FactKeys
    BY <1>3, <1>4, <1>7 DEF Table
  <2>3. table = [rows |-> table.rows, latest |-> table.latest, raced |-> table.raced]
    BY DEF table
  <2> QED
    BY <2>1, <2>2, <2>3 DEF Table
<1>9. \A k \in FactKeys \ {f.key} : table.rows[k] = view.rows[k] /\ table.latest[k] = view.latest[k]
  BY <1>4, <1>7 DEF Table
<1>10. table.rows[f.key] = new /\ table.latest[f.key] = f.value
  BY <1>3, <1>4, <1>7 DEF Table
<1>11. ASSUME f.key \notin table.raced
       PROVE  {<<j, new[j].value>> : j \in Active(new)} = {<<Len(new), f.value>>}
  <2>1. Active(view.rows[f.key]) = {i} \ {0} /\ f.key \notin view.raced
    BY <1>7, <1>11 DEF fresh
  <2>2. {<<j, view.rows[f.key][j].value>> : j \in Active(view.rows[f.key])}
          = IF view.latest[f.key] = Nil THEN {} ELSE {<<Len(view.rows[f.key]), view.latest[f.key]>>}
    BY <1>3, <1>4, <2>1 DEF IsCurrent
  <2>3. Active(view.rows[f.key]) \subseteq {i}
    BY <2>1
  <2>4. CASE new = view.rows[f.key] /\ i # 0 /\ view.rows[f.key][i].value = f.value
    <3>1. Active(new) = {i}
      BY <2>1, <2>4
    <3>2. <<i, new[i].value>> \in {<<j, new[j].value>> : j \in Active(new)}
      BY <3>1
    <3>3. <<i, new[i].value>> = <<Len(new), view.latest[f.key]>>
      BY <2>2, <2>4, <3>2
    <3>4. i = Len(new)
      BY <3>3
    <3> QED
      BY <2>4, <3>1, <3>4
  <2>5. CASE /\ Len(new) = Len(view.rows[f.key]) + 1
             /\ new[Len(view.rows[f.key]) + 1].value = f.value
             /\ Active(new) = {Len(view.rows[f.key]) + 1}
    BY <2>5
  <2> QED
    BY <1>6, <2>3, <2>4, <2>5
<1>12. IsCurrent(table)
  <2> SUFFICES ASSUME NEW k \in FactKeys \ table.raced
               PROVE  {<<j, table.rows[k][j].value>> : j \in Active(table.rows[k])}
                        = IF table.latest[k] = Nil THEN {}
                          ELSE {<<Len(table.rows[k]), table.latest[k]>>}
    BY DEF IsCurrent
  <2>1. CASE k = f.key
    BY <1>3, <1>10, <1>11, <2>1
  <2>2. CASE k # f.key
    <3>1. k \notin view.raced
      BY <1>7
    <3>2. table.rows[k] = view.rows[k] /\ table.latest[k] = view.latest[k]
      BY <1>9, <2>2
    <3> QED
      BY <1>4, <3>1, <3>2 DEF IsCurrent
  <2> QED
    BY <2>1, <2>2
<1> QED
  BY <1>1, <1>8, <1>12

LEMMA DeleteIsCurrent ==
  ASSUME FactInv, NEW c \in Containers, NEW k \in FactKeys, DeleteFact(c, k)
  PROVE  facts' \in Table /\ IsCurrent(facts')
<1> DEFINE old == facts.rows[k]
           new == [i \in 1..Len(old) |-> [old[i] EXCEPT !.superseded = TRUE]]
<1>1. facts \in Table /\ IsCurrent(facts) /\ old \in Seq(Row)
  BY DEF FactInv, Tables, Table
<1>2. /\ facts'.rows = [facts.rows EXCEPT ![k] = new]
      /\ facts'.latest = [facts.latest EXCEPT ![k] = Nil]
      /\ facts'.raced = facts.raced \ {k}
      /\ facts' = [rows |-> facts'.rows, latest |-> facts'.latest, raced |-> facts'.raced]
  BY DEF DeleteFact
<1> HIDE DEF old
<1>3. new \in Seq(Row) /\ Active(new) = {}
  <2>1. \A i \in 1..Len(old) : old[i] \in Row
    BY <1>1
  <2>2. \A i \in 1..Len(old) : new[i] \in Row /\ new[i].superseded
    BY <2>1 DEF Row
  <2>3. Len(old) \in Nat /\ new \in [1..Len(old) -> Row]
    BY <1>1, <2>2
  <2>4. new \in Seq(Row) /\ Len(new) = Len(old)
    BY <2>3
  <2> QED
    BY <2>2, <2>4 DEF Active
<1> HIDE DEF new
<1>4. facts' \in Table
  BY <1>1, <1>2, <1>3, ZenonT(60) DEF Table
<1>5. facts'.rows[k] = new /\ facts'.latest[k] = Nil
  BY <1>1, <1>2 DEF Table
<1>6. \A q \in FactKeys \ {k} : facts'.rows[q] = facts.rows[q] /\ facts'.latest[q] = facts.latest[q]
  BY <1>1, <1>2 DEF Table
<1>7. ASSUME NEW q \in FactKeys \ facts'.raced
      PROVE  {<<i, facts'.rows[q][i].value>> : i \in Active(facts'.rows[q])}
               = IF facts'.latest[q] = Nil THEN {}
                 ELSE {<<Len(facts'.rows[q]), facts'.latest[q]>>}
  <2>1. CASE q = k
    BY <1>3, <1>5, <2>1
  <2>2. CASE q # k
    <3>1. q \notin facts.raced
      BY <1>2, <2>2
    <3>2. facts'.rows[q] = facts.rows[q] /\ facts'.latest[q] = facts.latest[q]
      BY <1>6, <2>2
    <3> QED
      BY <1>1, <3>1, <3>2 DEF IsCurrent
  <2> QED
    BY <2>1, <2>2
<1> QED
  BY <1>4, <1>7 DEF IsCurrent

LEMMA FactsStart == FactInit => FactInv
<1> SUFFICES ASSUME FactInit PROVE FactInv
  OBVIOUS
<1>1. facts \in Table
  BY DEF FactInit, Table
<1>2. storing \in [Containers -> [todo : Seq(Fact), row : Nat]] \/ Unread \notin Nat
  BY DEF FactInit, NotStoring
<1>3. Unread \in Nat
  BY FactsConstantsOK DEF Unread, FactsConstantsOK
<1>4. \A k \in FactKeys : Active(facts.rows[k]) = {} /\ facts.latest[k] = Nil
  BY DEF FactInit, Active
<1>5. IsCurrent(facts)
  BY <1>4 DEF IsCurrent
<1> QED
  BY <1>1, <1>2, <1>3, <1>5 DEF FactInit, FactInv, Tables

LEMMA FactsGoOn == FactInv /\ [FactNext]_factVars => FactInv'
<1> SUFFICES ASSUME FactInv, [FactNext]_factVars PROVE FactInv'
  OBVIOUS
<1>1. Unread \in Nat /\ NotStoring \in [todo : Seq(Fact), row : Nat]
  BY FactsConstantsOK DEF Unread, FactsConstantsOK, NotStoring
<1>2. ASSUME facts' \in Table, IsCurrent(facts'), txn' \subseteq txn,
             storing' \in [Containers -> [todo : Seq(Fact), row : Nat]]
      PROVE  FactInv'
  BY <1>2 DEF FactInv, Tables
<1>3. facts \in Table /\ IsCurrent(facts) /\ storing \in [Containers -> [todo : Seq(Fact), row : Nat]]
  BY DEF FactInv, Tables
<1>4. ASSUME NEW c \in Containers, NEW list \in Lists, StoreFacts(c, list) PROVE FactInv'
  <2>1. PICK n \in 1..2 : list \in [1..n -> Fact]
    BY DEF Lists, Fact
  <2>2. list \in Seq(Fact)
    BY <2>1
  <2> QED
    BY <1>2, <1>3, <1>4, <2>2 DEF StoreFacts
<1>5. ASSUME NEW c \in Containers, ReadFact(c) PROVE FactInv'
  <2>1. PICK i \in Nat : storing' = [storing EXCEPT ![c].row = i]
    <3>1. PICK i \in {0} \cup Active(View(c).rows[Head(storing[c].todo).key]) :
             storing' = [storing EXCEPT ![c].row = i]
      BY <1>5 DEF ReadFact
    <3>2. storing[c].todo \in Seq(Fact) /\ storing[c].todo # <<>>
      BY <1>3, <1>5 DEF ReadFact
    <3>3. Head(storing[c].todo).key \in FactKeys
      <4>1. Head(storing[c].todo) \in Fact
        BY <3>2
      <4> QED
        BY <4>1 DEF Fact
    <3>4. View(c).rows[Head(storing[c].todo).key] \in Seq(Row)
      BY <3>3, ViewIsTable DEF Table
    <3>5. i \in Nat
      BY <3>4 DEF Active
    <3> QED
      BY <3>1, <3>5
  <2> QED
    BY <1>2, <1>3, <1>5, <2>1 DEF ReadFact
<1>6. ASSUME NEW c \in Containers, WriteFact(c) PROVE FactInv'
  <2>1. Tail(storing[c].todo) \in Seq(Fact)
    BY <1>3, <1>6 DEF WriteFact
  <2>2. storing' \in [Containers -> [todo : Seq(Fact), row : Nat]]
    BY <1>1, <1>3, <1>6, <2>1 DEF WriteFact
  <2>3. UNCHANGED facts
    BY <1>6 DEF WriteFact
  <2> QED
    BY <1>3, <1>6, <2>2, <2>3, WriteIsCurrent DEF FactInv, Tables
<1>7. ASSUME NEW c \in Containers, CommitFacts(c) PROVE FactInv'
  BY <1>2, <1>3, <1>7, ViewIsTable DEF CommitFacts
<1>8. ASSUME NEW c \in Containers, StoreFails(c) PROVE FactInv'
  BY <1>1, <1>2, <1>3, <1>8 DEF StoreFails
<1>9. ASSUME NEW c \in Containers, NEW k \in FactKeys, DeleteFact(c, k) PROVE FactInv'
  BY <1>2, <1>3, <1>9, DeleteIsCurrent DEF DeleteFact
<1>10. CASE UNCHANGED factVars
  BY <1>2, <1>3, <1>10 DEF factVars
<1> QED
  BY <1>4, <1>5, <1>6, <1>7, <1>8, <1>9, <1>10 DEF FactNext, MigrateFacts

------------------------------------------------------------------------------
(* The types of the facts: no key has more rows than the calls so far      *)
(* could write, so that no row is taken for Unread.                        *)

\* The facts that the calls in progress have still to write.
Pending == {p \in Containers \X {1, 2} : p[2] <= Len(storing[p[1]].todo)}

FactsAreCounted ==
  /\ FactTypeOK /\ IsFiniteSet(Pending)
  /\ \A table \in Tables : \A k \in FactKeys :
       Len(table.rows[k]) + Cardinality(Pending) <= 2 * stores

FactsTyped == FactInv /\ FactsAreCounted

LEMMA FactsTypedStart == FactInit => FactsTyped
<1> SUFFICES ASSUME FactInit PROVE FactsTyped
  OBVIOUS
<1>1. FactInv
  BY FactsStart
<1>2. FactTypeOK
  BY <1>1, FactsConstantsOK
     DEF FactInv, FactTypeOK, FactInit, NotStoring, Unread, FactsConstantsOK
<1>3. Pending = {}
  BY DEF Pending, FactInit, NotStoring
<1>4. FactsAreCounted
  BY <1>2, <1>3, FS_EmptySet DEF FactsAreCounted, FactInit, Tables
<1> QED
  BY <1>1, <1>4 DEF FactsTyped

\* A container alone changes what it has to write: its facts are counted by themselves.
LEMMA PendingChanges ==
  ASSUME NEW S, NEW T, NEW c, IsFiniteSet(S)
  PROVE  /\ T \subseteq S => IsFiniteSet(T) /\ Cardinality(T) <= Cardinality(S)
         /\ T \subseteq S \cup {<<c, 1>>, <<c, 2>>} =>
              IsFiniteSet(T) /\ Cardinality(T) <= Cardinality(S) + 2
         /\ \A p \in S : T \subseteq S \ {p} =>
              IsFiniteSet(T) /\ Cardinality(T) <= Cardinality(S) - 1
<1>1. T \subseteq S => IsFiniteSet(T) /\ Cardinality(T) <= Cardinality(S)
  BY FS_Subset
<1>2. PICK n \in Nat : n = Cardinality(S)
  BY FS_CardinalityType
<1>3. ASSUME T \subseteq S \cup {<<c, 1>>, <<c, 2>>}
      PROVE  IsFiniteSet(T) /\ Cardinality(T) <= Cardinality(S) + 2
  <2>1. IsFiniteSet(S \cup {<<c, 1>>}) /\ Cardinality(S \cup {<<c, 1>>}) \in {n, n + 1}
    BY <1>2, FS_AddElement
  <2>2. PICK m \in Nat : m = Cardinality(S \cup {<<c, 1>>}) /\ m <= n + 1
    BY <2>1
  <2>3. /\ IsFiniteSet((S \cup {<<c, 1>>}) \cup {<<c, 2>>})
        /\ Cardinality((S \cup {<<c, 1>>}) \cup {<<c, 2>>}) \in {m, m + 1}
    BY <2>1, <2>2, FS_AddElement
  <2>4. (S \cup {<<c, 1>>}) \cup {<<c, 2>>} = S \cup {<<c, 1>>, <<c, 2>>}
    OBVIOUS
  <2>5. /\ IsFiniteSet(T) /\ Cardinality(T) <= Cardinality(S \cup {<<c, 1>>, <<c, 2>>})
        /\ Cardinality(T) \in Nat
    <3>1. IsFiniteSet(T) /\ Cardinality(T) <= Cardinality(S \cup {<<c, 1>>, <<c, 2>>})
      BY <1>3, <2>3, <2>4, FS_Subset
    <3> QED
      BY <3>1, FS_CardinalityType
  <2> QED
    BY <1>2, <2>2, <2>3, <2>4, <2>5
<1>4. ASSUME NEW p \in S, T \subseteq S \ {p}
      PROVE  IsFiniteSet(T) /\ Cardinality(T) <= Cardinality(S) - 1
  <2>1. IsFiniteSet(S \ {p}) /\ Cardinality(S \ {p}) = n - 1
    BY <1>2, FS_RemoveElement
  <2> QED
    BY <1>2, <1>4, <2>1, FS_Subset
<1> QED
  BY <1>1, <1>3, <1>4

LEMMA WriteIsCounted ==
  ASSUME FactsTyped, NEW c \in Containers, WriteFact(c), IsFiniteSet(Pending'),
         Cardinality(Pending') <= Cardinality(Pending) - 1
  PROVE  \A table \in Tables' : \A k \in FactKeys :
           Len(table.rows[k]) + Cardinality(Pending') <= 2 * stores
<1> SUFFICES ASSUME NEW table \in Tables', NEW k \in FactKeys
             PROVE  Len(table.rows[k]) + Cardinality(Pending') <= 2 * stores
  OBVIOUS
<1>1. PICK n \in Nat, m \in Nat, s \in Nat :
        n = Cardinality(Pending) /\ m = Cardinality(Pending') /\ m <= n - 1 /\ s = stores
  BY FS_CardinalityType DEF FactsTyped, FactsAreCounted, FactTypeOK
<1>2. \A old \in Tables \cup {View(c)} :
        /\ old \in Table /\ old.rows[k] \in Seq(Row)
        /\ \A q \in FactKeys : Len(old.rows[q]) + n <= 2 * s
  <2>1. View(c) \in Tables
    <3>1. CASE ~Holds(c)
      BY <3>1 DEF View, Tables
    <3>2. CASE Holds(c)
      BY <3>2 DEF View, Holds, Tables
    <3> QED
      BY <3>1, <3>2
  <2>2. ASSUME NEW old \in Tables PROVE old \in Table /\ old.rows[k] \in Seq(Row)
    <3>1. old \in Table
      BY DEF FactsTyped, FactInv, Tables
    <3> QED
      BY <3>1 DEF Table
  <2> QED
    BY <1>1, <2>1, <2>2 DEF FactsTyped, FactsAreCounted
<1>3. CASE table \in Tables
  <2>1. Len(table.rows[k]) \in Nat /\ Len(table.rows[k]) + n <= 2 * s
    BY <1>2, <1>3
  <2> QED
    BY <1>1, <2>1
<1>4. CASE table \notin Tables
  <2> DEFINE f   == Head(storing[c].todo)
             old == View(c)
  <2>1. table.rows = [old.rows EXCEPT ![f.key] = Written(@, storing[c].row, f.value)]
    <3> DEFINE new ==
                  [rows   |-> [old.rows EXCEPT ![f.key] = Written(@, storing[c].row, f.value)],
                   latest |-> [old.latest EXCEPT ![f.key] = f.value],
                   raced  |-> old.raced \cup IF Active(old.rows[f.key]) = {storing[c].row} \ {0}
                                             THEN {} ELSE {f.key}]
    <3>1. new.rows = [old.rows EXCEPT ![f.key] = Written(@, storing[c].row, f.value)]
      OBVIOUS
    <3>2. txn' = {[by |-> c, table |-> new]} /\ facts' = facts
      BY DEF WriteFact
    <3> HIDE DEF new
    <3>3. PICK t \in txn' : table = t.table
      BY <1>4, <3>2 DEF Tables
    <3>4. table = new
      BY <3>2, <3>3
    <3> QED
      BY <3>1, <3>4
  <2>2. f \in Fact /\ storing[c].row \in Nat
    <3>1. storing[c].todo \in Seq(Fact) /\ storing[c].todo # <<>> /\ storing[c].row \in Nat
      BY DEF FactsTyped, FactInv, WriteFact
    <3> QED
      BY <3>1
  <2>3. f.key \in FactKeys /\ f.value \in FactValues
    BY <2>2 DEF Fact
  <2>4. old \in Table /\ old.rows[k] \in Seq(Row) /\ Len(old.rows[k]) + n <= 2 * s
    BY <1>2
  <2> HIDE DEF f, old
  <2>5. Len(table.rows[k]) <= Len(old.rows[k]) + 1 /\ Len(table.rows[k]) \in Nat
    <3>1. CASE k = f.key
      <4>1. PICK rows \in Seq(Row) : rows = old.rows[k]
        BY <2>4
      <4>2. table.rows[k] = Written(rows, storing[c].row, f.value)
        BY <2>1, <2>3, <2>4, <3>1, <4>1 DEF Table
      <4>3. PICK new \in Seq(Row) : /\ new = Written(rows, storing[c].row, f.value)
                                    /\ new = rows \/ Len(new) = Len(rows) + 1
        BY <2>2, <2>3, WrittenIsCurrent
      <4> QED
        BY <4>1, <4>2, <4>3
    <3>2. CASE k # f.key
      BY <2>1, <2>3, <2>4, <3>2 DEF Table
    <3> QED
      BY <3>1, <3>2
  <2>6. Len(old.rows[k]) \in Nat
    BY <2>4
  <2> QED
    BY <1>1, <2>4, <2>5, <2>6
<1> QED
  BY <1>3, <1>4

LEMMA FactsTypedGoOn == FactsTyped /\ [FactNext]_factVars => FactsTyped'
<1> SUFFICES ASSUME FactsTyped, [FactNext]_factVars PROVE FactsTyped'
  OBVIOUS
<1>0. FactInv /\ FactInv'
  BY FactsGoOn DEF FactsTyped
<1>1. /\ storing \in [Containers -> [todo : Seq(Fact), row : Nat]]
      /\ \A c \in Containers : storing[c].todo \in Lists \cup {<<>>} /\ storing[c].row \in 0..Unread
      /\ MaxStores \in Nat /\ stores \in 0..MaxStores /\ Unread \in Nat /\ Unread = MaxStores * 2 + 1
      /\ <<>> \in Lists \cup {<<>>} /\ IsFiniteSet(Pending) /\ Cardinality(Pending) \in Nat
  BY <1>0, FactsConstantsOK, FS_CardinalityType
     DEF FactsTyped, FactsAreCounted, FactInv, FactTypeOK, Unread, FactsConstantsOK
<1>2. ASSUME stores' \in 0..MaxStores, IsFiniteSet(Pending'),
             \A c \in Containers : storing'[c].todo \in Lists \cup {<<>>} /\ storing'[c].row \in 0..Unread,
             \A table \in Tables' : \A k \in FactKeys :
               Len(table.rows[k]) + Cardinality(Pending') <= 2 * stores'
      PROVE  FactsTyped'
  <2>1. FactTypeOK'
    BY <1>0, <1>2 DEF FactInv, FactTypeOK, Unread
  <2> QED
    BY <1>0, <1>2, <2>1 DEF FactsTyped, FactsAreCounted
\* Neither more tables nor more to write.
<1>3. ASSUME stores' = stores, Tables' \subseteq Tables, Pending' \subseteq Pending,
             \A c \in Containers : storing'[c].todo \in Lists \cup {<<>>} /\ storing'[c].row \in 0..Unread
      PROVE  FactsTyped'
  <2>1. IsFiniteSet(Pending') /\ Cardinality(Pending') <= Cardinality(Pending) /\ Cardinality(Pending') \in Nat
    <3>1. IsFiniteSet(Pending') /\ Cardinality(Pending') <= Cardinality(Pending)
      BY <1>1, <1>3, FS_Subset
    <3> QED
      BY <3>1, FS_CardinalityType
  <2>2. ASSUME NEW table \in Tables', NEW k \in FactKeys
        PROVE  Len(table.rows[k]) + Cardinality(Pending') <= 2 * stores'
    <3>1. /\ table \in Tables /\ table \in Table
          /\ Len(table.rows[k]) + Cardinality(Pending) <= 2 * stores
      BY <1>0, <1>3 DEF FactsTyped, FactsAreCounted, FactInv, Tables
    <3>2. Len(table.rows[k]) \in Nat
      BY <3>1 DEF Table
    <3> QED
      BY <1>1, <1>3, <2>1, <3>1, <3>2
  <2> QED
    BY <1>1, <1>2, <1>3, <2>1, <2>2
<1>4. ASSUME NEW c \in Containers, NEW list \in Lists, StoreFacts(c, list) PROVE FactsTyped'
  <2>1. /\ storing' = [storing EXCEPT ![c].todo = list] /\ stores' = stores + 1 /\ stores < MaxStores
        /\ Tables' = Tables /\ storing[c] = NotStoring
    BY <1>4 DEF StoreFacts, Tables
  <2>2. Pending' \subseteq Pending \cup {<<c, 1>>, <<c, 2>>}
    BY <1>1, <2>1 DEF Pending
  <2>3. IsFiniteSet(Pending') /\ Cardinality(Pending') <= Cardinality(Pending) + 2
    BY <1>1, <2>2, PendingChanges
  <2>4. \A d \in Containers : storing'[d].todo \in Lists \cup {<<>>} /\ storing'[d].row \in 0..Unread
    BY <1>1, <2>1
  <2>5. ASSUME NEW table \in Tables', NEW k \in FactKeys
        PROVE  Len(table.rows[k]) + Cardinality(Pending') <= 2 * stores'
    <3>1. table \in Tables
      BY <2>1
    <3>2. table \in Table /\ Len(table.rows[k]) + Cardinality(Pending) <= 2 * stores
      BY <1>0, <3>1 DEF FactsTyped, FactsAreCounted, FactInv, Tables
    <3>3. Len(table.rows[k]) \in Nat /\ Cardinality(Pending') \in Nat
      BY <2>3, <3>2, FS_CardinalityType DEF Table
    <3>4. PICK len \in Nat, n \in Nat, m \in Nat, s \in Nat :
            /\ len = Len(table.rows[k]) /\ n = Cardinality(Pending) /\ m = Cardinality(Pending')
            /\ s = stores
      BY <1>1, <3>3
    <3>5. len + n <= 2 * s /\ m <= n + 2 /\ stores' = s + 1
      BY <2>1, <2>3, <3>2, <3>4
    <3>6. len + m <= 2 * (s + 1)
      BY <3>5
    <3> QED
      BY <3>4, <3>5, <3>6
  <2>6. stores' \in 0..MaxStores
    BY <1>1, <2>1
  <2> QED
    BY <1>2, <2>3, <2>4, <2>5, <2>6
<1>5. ASSUME NEW c \in Containers, ReadFact(c) PROVE FactsTyped'
  <2> DEFINE rows == View(c).rows[Head(storing[c].todo).key]
  <2>1. PICK i \in {0} \cup Active(rows) : storing' = [storing EXCEPT ![c].row = i]
    BY <1>5 DEF ReadFact
  <2>2. Head(storing[c].todo).key \in FactKeys
    <3>1. storing[c].todo \in Seq(Fact) /\ storing[c].todo # <<>>
      BY <1>1, <1>5 DEF ReadFact
    <3>2. Head(storing[c].todo) \in Fact
      BY <3>1
    <3> QED
      BY <3>2 DEF Fact
  <2>3. rows \in Seq(Row) /\ Len(rows) + Cardinality(Pending) <= 2 * stores
    <3>1. View(c) \in Tables
      <4>1. CASE ~Holds(c)
        BY <4>1 DEF View, Tables
      <4>2. CASE Holds(c)
        BY <4>2 DEF View, Holds, Tables
      <4> QED
        BY <4>1, <4>2
    <3> QED
      BY <1>0, <2>2, <3>1, ViewIsTable DEF FactsTyped, FactsAreCounted, Table
  <2> HIDE DEF rows
  <2>4. i \in 0..Unread
    <3>1. Len(rows) \in Nat /\ Len(rows) <= Unread
      BY <1>1, <2>3
    <3> QED
      BY <1>1, <2>1, <3>1 DEF Active
  <2>5. \A d \in Containers : storing'[d].todo = storing[d].todo /\ storing'[d].row \in 0..Unread
    BY <1>1, <2>1, <2>4
  <2>6. Pending' = Pending
    BY <2>5 DEF Pending
  <2> QED
    BY <1>1, <1>3, <1>5, <2>5, <2>6 DEF ReadFact, Tables
<1>6. ASSUME NEW c \in Containers, WriteFact(c) PROVE FactsTyped'
  <2> DEFINE todo == storing[c].todo
  <2>1. /\ todo \in Lists /\ todo # <<>> /\ stores' = stores
        /\ storing' = [storing EXCEPT ![c] = [todo |-> Tail(storing[c].todo), row |-> Unread]]
    BY <1>1, <1>6 DEF WriteFact
  <2>2. Tail(todo) \in Lists \cup {<<>>} /\ Len(todo) \in {1, 2} /\ Len(Tail(todo)) = Len(todo) - 1
    <3>1. PICK n \in 1..2 : todo \in [1..n -> Fact]
      BY <2>1 DEF Lists, Fact
    <3>2. todo \in Seq(Fact) /\ Len(todo) = n
      BY <3>1
    <3>3. PICK rest \in Seq(Fact) : rest = Tail(todo) /\ Len(rest) = n - 1
      <4>1. Tail(todo) \in Seq(Fact) /\ Len(Tail(todo)) = n - 1
        BY <2>1, <3>2
      <4> QED
        BY <4>1
    <3>4. CASE n = 1
      <4>1. rest = <<>>
        BY <3>3, <3>4, EmptySeq
      <4> QED
        BY <3>2, <3>3, <3>4, <4>1
    <3>5. CASE n = 2
      <4>1. rest \in [1..Len(rest) -> Fact]
        BY LenProperties
      <4>2. Len(rest) = 1
        BY <3>3, <3>5
      <4>3. rest \in Lists
        BY <4>1, <4>2 DEF Lists, Fact
      <4> QED
        BY <3>2, <3>3, <3>5, <4>2, <4>3
    <3> QED
      BY <3>4, <3>5
  <2>3. /\ storing'[c].todo = Tail(todo) /\ storing'[c].row = Unread
        /\ \A d \in Containers : d # c => storing'[d] = storing[d]
    BY <1>1, <2>1
  <2> HIDE DEF todo
  <2>4. <<c, Len(todo)>> \in Pending /\ Pending' \subseteq Pending \ {<<c, Len(todo)>>}
    <3>1. <<c, Len(todo)>> \in Pending
      <4>1. PICK n \in {1, 2} : n = Len(todo) /\ n <= Len(storing[c].todo)
        BY <2>2 DEF todo
      <4>2. <<c, n>> \in Containers \X {1, 2} /\ <<c, n>>[1] = c /\ <<c, n>>[2] = n
        BY <4>1
      <4> QED
        BY <4>1, <4>2 DEF Pending
    <3>2. ASSUME NEW p \in Pending' PROVE p \in Pending /\ p # <<c, Len(todo)>>
      <4>1. p \in Containers \X {1, 2} /\ p[2] <= Len(storing'[p[1]].todo)
        BY DEF Pending
      <4>2. CASE p[1] = c
        <5>1. PICK n \in {1, 2} : n = Len(todo)
          BY <2>2
        <5>2. p[2] <= n - 1 /\ p[2] \in {1, 2}
          BY <2>2, <2>3, <4>1, <4>2, <5>1
        <5>3. p[2] <= Len(storing[p[1]].todo) /\ p[2] # n
          BY <4>2, <5>1, <5>2 DEF todo
        <5> QED
          BY <4>1, <5>1, <5>3 DEF Pending
      <4>3. CASE p[1] # c
        BY <2>3, <4>1, <4>3 DEF Pending
      <4> QED
        BY <4>2, <4>3
    <3> QED
      BY <3>1, <3>2
  <2>5. IsFiniteSet(Pending') /\ Cardinality(Pending') <= Cardinality(Pending) - 1
    BY <1>1, <2>4, PendingChanges
  <2>6. \A table \in Tables' : \A k \in FactKeys :
          Len(table.rows[k]) + Cardinality(Pending') <= 2 * stores'
    BY <1>6, <2>1, <2>5, WriteIsCounted
  <2>7. \A d \in Containers : storing'[d].todo \in Lists \cup {<<>>} /\ storing'[d].row \in 0..Unread
    <3> SUFFICES ASSUME NEW d \in Containers
                 PROVE  storing'[d].todo \in Lists \cup {<<>>} /\ storing'[d].row \in 0..Unread
      OBVIOUS
    <3>1. CASE d = c
      <4>1. storing'[d].todo \in Lists \cup {<<>>}
        BY <2>2, <2>3, <3>1
      <4>2. storing'[d].row = Unread
        BY <2>3, <3>1
      <4>3. Unread \in 0..Unread
        BY <1>1
      <4> QED
        BY <4>1, <4>2, <4>3
    <3>2. CASE d # c
      BY <1>1, <2>3, <3>2
    <3> QED
      BY <3>1, <3>2
  <2> QED
    BY <1>1, <1>2, <2>1, <2>5, <2>6, <2>7
<1>7. ASSUME NEW c \in Containers, CommitFacts(c) PROVE FactsTyped'
  <2>1. View(c) \in Tables
    BY <1>7 DEF CommitFacts, View, Holds, Tables
  <2>2. Tables' \subseteq Tables /\ Pending' = Pending /\ stores' = stores /\ storing' = storing
    BY <1>7, <2>1 DEF CommitFacts, Tables, Pending
  <2> QED
    BY <1>1, <1>3, <2>2
<1>8. ASSUME NEW c \in Containers, StoreFails(c) PROVE FactsTyped'
  <2>1. storing' = [storing EXCEPT ![c] = NotStoring] /\ Tables' \subseteq Tables /\ stores' = stores
    BY <1>8 DEF StoreFails, Tables
  <2>2. /\ storing'[c].todo = <<>> /\ storing'[c].row = Unread
        /\ \A d \in Containers : d # c => storing'[d] = storing[d]
    BY <1>1, <2>1 DEF NotStoring
  <2>3. Pending' \subseteq Pending
    BY <2>2 DEF Pending
  <2> QED
    BY <1>1, <1>3, <2>1, <2>2, <2>3
<1>9. ASSUME NEW c \in Containers, NEW k \in FactKeys, DeleteFact(c, k) PROVE FactsTyped'
  <2>1. /\ Tables' = {facts'} /\ facts \in Tables /\ facts \in Table /\ Pending' = Pending
        /\ stores' = stores + 1 /\ stores < MaxStores /\ storing' = storing
    BY <1>0, <1>9 DEF DeleteFact, Tables, Pending, FactInv
  <2>2. ASSUME NEW q \in FactKeys PROVE Len(facts'.rows[q]) = Len(facts.rows[q]) /\ facts.rows[q] \in Seq(Row)
    <3>1. facts.rows \in [FactKeys -> Seq(Row)]
      BY <2>1 DEF Table
    <3>2. facts'.rows = [facts.rows EXCEPT ![k] =
                           [i \in 1..Len(facts.rows[k]) |-> [facts.rows[k][i] EXCEPT !.superseded = TRUE]]]
      BY <1>9 DEF DeleteFact
    <3>3. CASE q # k
      BY <3>1, <3>2, <3>3
    <3>4. CASE q = k
      <4>1. PICK rows \in Seq(Row) : rows = facts.rows[k]
        BY <3>1
      <4>2. facts'.rows[q] = [i \in 1..Len(rows) |-> [rows[i] EXCEPT !.superseded = TRUE]]
        BY <3>1, <3>2, <3>4, <4>1
      <4>3. Len(facts'.rows[q]) = Len(rows)
        BY <4>2
      <4> QED
        BY <3>4, <4>1, <4>3
    <3> QED
      BY <3>3, <3>4
  <2>3. ASSUME NEW table \in Tables', NEW q \in FactKeys
        PROVE  Len(table.rows[q]) + Cardinality(Pending') <= 2 * stores'
    <3>1. Len(facts.rows[q]) + Cardinality(Pending) <= 2 * stores /\ Len(facts.rows[q]) \in Nat
      BY <2>1, <2>2 DEF FactsTyped, FactsAreCounted
    <3>2. Len(table.rows[q]) = Len(facts.rows[q])
      BY <2>1, <2>2
    <3> QED
      BY <1>1, <2>1, <3>1, <3>2
  <2> QED
    BY <1>1, <1>2, <2>1, <2>3
<1>10. CASE UNCHANGED factVars
  BY <1>1, <1>3, <1>10 DEF factVars, Tables, Pending
<1> QED
  BY <1>4, <1>5, <1>6, <1>7, <1>8, <1>9, <1>10 DEF FactNext, MigrateFacts

------------------------------------------------------------------------------
(* Theorems about the facts.                                               *)

\* What is committed and what an open transaction would commit is current, whoever stores
\* or deletes what meanwhile and whichever container ends halfway.
THEOREM FactsInvariant == FactSpec => []FactInv
  BY FactsStart, FactsGoOn, PTL DEF FactSpec

\* store_facts: no key has more rows than its calls so far could write, at two facts each,
\* and everything has its type.
THEOREM FactsTypesInvariant == FactSpec => []FactsTyped
  BY FactsTypedStart, FactsTypedGoOn, PTL DEF FactSpec

\* A key that nobody wrote on an outdated read has one active row, the last inserted, with
\* the value that store_facts stored last, and none after the delete tool.
THEOREM FactsAreCurrent == FactSpec => []FactIsCurrent
<1>1. FactInv => FactIsCurrent
  BY DEF FactInv, Tables, IsCurrent, FactIsCurrent
<1> QED
  BY <1>1, FactsInvariant, PTL

=============================================================================

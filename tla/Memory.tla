------------------------------- MODULE Memory -------------------------------
(***************************************************************************)
(* The memory files of one day of one agent, their registry, and the two   *)
(* search indexes over them.  Three processes share them without a lock:   *)
(* the session's container appends summaries, an ephemeral container       *)
(* compacts the day's files into one, and the orchestrator rebuilds, edits *)
(* and deletes on request.                                                 *)
(*                                                                         *)
(* A summary is a number, in the order they were written; a chunk is the   *)
(* set of the summaries it tells, and a distilled chunk is taken to tell   *)
(* what it was distilled from.  File 1 is <date>.md, file n is <date>-n.md.*)
(***************************************************************************)
EXTENDS Naturals, Sequences, FiniteSetsExt

CONSTANTS
  MaxContinuation,   \* MAX_CONTINUATION_FILES, 3 in the code
  InputFiles,        \* full files that fit in MAX_SUMMARY_INPUT, 6 in the code
  MaxSummaries,      \* bound: summaries written on the day
  MaxMishaps         \* bound: crashes, failures and requests of the user

ASSUME MemoryConstantsOK ==
  /\ MaxContinuation \in Nat \ {0} /\ InputFiles \in Nat \ {0}
  /\ MaxSummaries \in Nat /\ MaxMishaps \in Nat

VARIABLES
  disk,         \* the files: a sequence of chunks, <<>> for a file that is not there
  registry,     \* the files in table memory_files
  fts, vec,     \* memory_fts and memory_vec: the text indexed for each chunk, {} for none
  writer,       \* the session's container, see Writer
  compactor,    \* the ephemeral container, see Compactor
  rebuilder,    \* the files read by a full rebuild that has not written its tables yet
  due,          \* a compaction of the day is scheduled
  summaries,    \* summaries written so far
  excepted,     \* history: summaries that may be lost, see the actions that add to it
  dirty,        \* history: the indexes may differ from the files until a rebuild
  aged,         \* the day is past the retention period
  mishaps

memoryVars == <<disk, registry, fts, vec, writer, compactor, rebuilder, due, summaries,
                excepted, dirty, aged, mishaps>>

Files   == 1..(MaxSummaries + 1)
Chunks  == 1..MaxSummaries
Edited  == {0}       \* a chunk whose text in the indexes was replaced by the user
Text    == {Edited} \cup SUBSET Chunks
Index   == [Files -> [Chunks -> Text]]
NoFiles == [f \in Files |-> <<>>]

Content   == UNION {[1..n -> SUBSET Chunks] : n \in 0..MaxSummaries}
\* fourth says that the file is one more than a day should have
Writer    == [at : {"idle", "register", "vectors"}, file : Files, fourth : BOOLEAN,
              content : Content]
Idle      == [at |-> "idle", file |-> 1, fourth |-> FALSE, content |-> <<>>]
\* todo: the files that will still be replaced or removed
Compactor == [at : {"idle", "asked", "drop", "register", "index", "vectors"},
              paths : SUBSET Files, text : SUBSET Chunks, todo : SUBSET Files,
              content : Content]
Resting   == [at |-> "idle", paths |-> {}, text |-> {}, todo |-> {}, content |-> <<>>]

\* parse_memory_chunks: the chunks of a file, by their keys.
Parse(content) == [i \in Chunks |-> IF i <= Len(content) THEN content[i] ELSE {}]
IndexOf(folder) == [f \in Files |-> Parse(folder[f])]
Told(folder) == UNION {UNION {folder[f][i] : i \in 1..Len(folder[f])} : f \in Files}

MemoryInit ==
  /\ disk = NoFiles /\ registry = {} /\ fts = IndexOf(NoFiles) /\ vec = IndexOf(NoFiles)
  /\ writer = Idle /\ compactor = Resting /\ rebuilder = {}
  /\ due = FALSE /\ summaries = 0 /\ excepted = {} /\ dirty = FALSE /\ aged = FALSE
  /\ mishaps = 0

Mishap == mishaps < MaxMishaps /\ mishaps' = mishaps + 1

\* ORDER BY file_path: "<date>-2.md" sorts before "<date>-3.md", and both before
\* "<date>.md", which is the last one whenever it is registered.
LastFile(paths) == IF 1 \in paths THEN 1 ELSE Max(paths)
Rank(f, paths) ==
  IF f = 1 THEN Cardinality(paths) ELSE Cardinality({g \in paths \ {1} : g <= f})

\* The vectors of a file's chunks, replaced one by one: when the embedding of one fails
\* its old vector is already gone, and those after it are left as they were.
Embedded(f, content, done) ==
  [vec EXCEPT ![f] = [i \in Chunks |->
     CASE i <= done /\ i <= Len(content)    -> content[i]
       [] i = done + 1 /\ i <= Len(content) -> {}
       [] OTHER                             -> vec[f][i]]]

\* only the first chunk of the file
UnindexedHead(index, f) == [index EXCEPT ![f][1] = {}]

\* delete_memory_index.
Unindexed(index, f) == [index EXCEPT ![f] = [i \in Chunks |-> {}]]

------------------------------------------------------------------------------
\* The session's container: run_session_end and _split_session.

\* Another process is embedding: index_memory_vectors keeps its write transaction open
\* across every call to the embedding service.
Locked == compactor.at = "vectors" \/ rebuilder # {}

\* What a step of the writer means to a compaction that has begun to change the index.
Collides == compactor.at \in {"drop", "register", "index", "vectors"}

\* write_memory_file up to the file.  full says whether the last file has room.
WriteSummary(full) ==
  /\ writer.at = "idle" /\ summaries < MaxSummaries /\ ~aged
  /\ LET last == LastFile(registry)
         new  == registry # {} /\ full /\ disk[last] # <<>>
         f    == IF registry = {} THEN 1
                 ELSE IF new THEN Cardinality(registry) + 1 ELSE last
         e    == summaries + 1
     IN /\ disk' = [disk EXCEPT ![f] = Append(@, {e})]
        /\ writer' = [at |-> "register", file |-> f, fourth |-> new /\ f > MaxContinuation,
                      content |-> <<>>]
        \* the compaction that has read this file, or not seen it, will remove it
        /\ excepted' = IF f \in compactor.todo THEN excepted \cup {e} ELSE excepted
        /\ dirty' = (dirty \/ Collides)
  /\ summaries' = summaries + 1
  /\ UNCHANGED <<registry, fts, vec, compactor, rebuilder, due, aged, mishaps>>

\* ... the row and the full text index.  The file may be gone by now, removed by a
\* compaction or by the user: its row stays.
RegisterSummary ==
  /\ writer.at = "register"
  /\ LET f == writer.file IN
       /\ registry' = registry \cup {f}
       /\ fts' = [fts EXCEPT ![f] = IF disk[f] = <<>> THEN @ ELSE Parse(disk[f])]
       /\ writer' = IF disk[f] = <<>> THEN Idle
                    ELSE [writer EXCEPT !.at = "vectors", !.content = disk[f]]
       /\ dirty' = (dirty \/ Collides \/ disk[f] = <<>>)
  /\ UNCHANGED <<disk, vec, compactor, rebuilder, due, summaries, excepted, aged, mishaps>>

\* ... or the database is locked: the exception is swallowed and the file is not indexed.
RegisterFails ==
  /\ writer.at = "register" /\ Locked
  /\ writer' = Idle
  /\ dirty' = TRUE
  /\ UNCHANGED <<disk, registry, fts, vec, compactor, rebuilder, due, summaries, excepted,
                 aged, mishaps>>

\* index_memory_vectors, for the text the file had when it was read; a compaction is
\* asked for when the file was one too many.
EmbedSummary(done) ==
  /\ writer.at = "vectors"
  /\ vec' = Embedded(writer.file, writer.content, done)
  /\ due' = (due \/ writer.fourth)
  /\ writer' = Idle
  /\ dirty' = (dirty \/ Collides)
  /\ UNCHANGED <<disk, registry, fts, compactor, rebuilder, summaries, excepted, aged, mishaps>>

WriterCrashes ==
  /\ Mishap /\ writer.at # "idle"
  /\ writer' = Idle
  /\ dirty' = TRUE
  /\ UNCHANGED <<disk, registry, fts, vec, compactor, rebuilder, due, summaries, excepted, aged>>

\* The start of a worker: the index is filled when it is empty, and entries past the
\* retention period leave it, each vector with the text of its chunk.
WorkerBoot ==
  /\ writer.at = "idle" /\ Mishap
  /\ LET empty == \A f \in Files, i \in Chunks : fts[f][i] = {}
         text  == IF empty THEN IndexOf(disk) ELSE fts
         emb   == IF empty THEN IndexOf(disk) ELSE vec
     IN IF aged
        THEN /\ vec' = [f \in Files |-> [i \in Chunks |->
                          IF text[f][i] = {} THEN emb[f][i] ELSE {}]]
             /\ fts' = IndexOf(NoFiles)
        ELSE fts' = text /\ vec' = emb
  /\ dirty' = (dirty \/ Collides)
  /\ UNCHANGED <<disk, registry, writer, compactor, rebuilder, due, summaries, excepted, aged>>

------------------------------------------------------------------------------
\* The ephemeral container: compact_memory_files.

\* The files are read and Claude is asked, with as much of the text as fits.
CompactReads ==
  /\ compactor.at = "idle" /\ due
  /\ LET paths == registry
         read  == {f \in paths : disk[f] # <<>>}
         fit   == {f \in read : Rank(f, read) <= InputFiles}
         text  == Told([f \in Files |-> IF f \in fit THEN disk[f] ELSE <<>>])
         \* cut off, or in a <date>.md that has lost its row: it is replaced unread
         gone  == Told([f \in Files |-> IF f \in read \cup {1} THEN disk[f] ELSE <<>>]) \ text
     IN IF Cardinality(paths) < 2 \/ read = {}
        THEN due' = FALSE /\ UNCHANGED <<compactor, excepted>>
        ELSE /\ compactor' = [at |-> "asked", paths |-> paths, text |-> text,
                              todo |-> paths \cup {1}, content |-> <<>>]
             /\ excepted' = excepted \cup gone
             /\ UNCHANGED due
  /\ UNCHANGED <<disk, registry, fts, vec, writer, rebuilder, summaries, dirty, aged, mishaps>>

\* No answer in SUMMARIZE_TIMEOUT, or an empty one.  The task is completed all the same.
CompactFails ==
  /\ compactor.at = "asked" /\ Mishap
  /\ compactor' = Resting /\ due' = FALSE
  /\ UNCHANGED <<disk, registry, fts, vec, writer, rebuilder, summaries, excepted, dirty, aged>>

\* the files of the day that are registered by now
ReplacedNow == registry

Replaced == compactor.paths

\* The distilled text replaces <date>.md.
CompactWrites ==
  /\ compactor.at = "asked"
  /\ disk' = [disk EXCEPT ![1] = <<compactor.text>>]
  /\ compactor' = [compactor EXCEPT !.at = "drop", !.todo = Replaced]
  /\ dirty' = (dirty \/ writer.at # "idle" \/ 1 \notin compactor.paths)
  /\ UNCHANGED <<registry, fts, vec, writer, rebuilder, due, summaries, excepted, aged, mishaps>>

\* delete_memory_index for each path, and the continuation files are removed.
CompactDrops ==
  /\ compactor.at = "drop"
  /\ LET f == IF compactor.todo = {1} THEN 1 ELSE Min(compactor.todo \ {1})
         todo == compactor.todo \ {f}
     IN /\ fts' = Unindexed(fts, f) /\ vec' = Unindexed(vec, f)
        /\ disk' = IF f = 1 THEN disk ELSE [disk EXCEPT ![f] = <<>>]
        /\ compactor' = [compactor EXCEPT !.todo = todo,
                                          !.at = IF todo = {} THEN "register" ELSE "drop"]
  /\ dirty' = (dirty \/ writer.at # "idle")
  /\ UNCHANGED <<registry, writer, rebuilder, due, summaries, excepted, aged, mishaps>>

\* The rows of the date are replaced by the one of <date>.md.
CompactRegisters ==
  /\ compactor.at = "register"
  /\ registry' = {1}
  /\ compactor' = [compactor EXCEPT !.at = "index"]
  /\ dirty' = (dirty \/ writer.at # "idle")
  /\ UNCHANGED <<disk, fts, vec, writer, rebuilder, due, summaries, excepted, aged, mishaps>>

CompactIndexes ==
  /\ compactor.at = "index"
  /\ fts' = [fts EXCEPT ![1] = Parse(disk[1])]
  /\ compactor' = [compactor EXCEPT !.at = "vectors", !.content = disk[1]]
  /\ dirty' = (dirty \/ writer.at # "idle")
  /\ UNCHANGED <<disk, registry, vec, writer, rebuilder, due, summaries, excepted, aged, mishaps>>

CompactEmbeds(done) ==
  /\ compactor.at = "vectors"
  /\ vec' = Embedded(1, compactor.content, done)
  /\ compactor' = Resting /\ due' = FALSE
  /\ dirty' = (dirty \/ writer.at # "idle")
  /\ UNCHANGED <<disk, registry, fts, writer, rebuilder, summaries, excepted, aged, mishaps>>

\* The container is killed, by the timeout of its task or a restart: the task is tried
\* again as long as it has retries left.
CompactorGone(again) ==
  /\ compactor.at # "idle" /\ Mishap
  /\ compactor' = Resting /\ due' = again
  /\ dirty' = (dirty \/ compactor.at # "asked")
  /\ UNCHANGED <<disk, registry, fts, vec, writer, rebuilder, summaries, excepted, aged>>

------------------------------------------------------------------------------
\* The orchestrator, on behalf of the user.

\* _full_rebuild reads every file ...
RebuildReads ==
  /\ rebuilder = {} /\ Told(disk) # {} /\ Mishap
  /\ rebuilder' = {disk}
  /\ UNCHANGED <<disk, registry, fts, vec, writer, compactor, due, summaries, excepted, dirty, aged>>

\* ... and makes the tables again in an executor, without the vectors if the embedding
\* service does not answer.
RebuildWrites(embeds) ==
  /\ rebuilder # {}
  /\ LET read == CHOOSE folder \in rebuilder : TRUE IN
       /\ fts' = IndexOf(read)
       /\ vec' = IF embeds THEN IndexOf(read) ELSE IndexOf(NoFiles)
       \* a step of another process that has yet to follow works on the old tables
       /\ dirty' = (read # disk \/ writer.at # "idle" \/ Collides)
  /\ rebuilder' = {}
  /\ UNCHANGED <<disk, registry, writer, compactor, due, summaries, excepted, aged, mishaps>>

\* reindex_memory_file, and _reindex_chunks for all the chunks of a file.
ReindexFile(f, embeds) ==
  /\ Mishap /\ disk[f] # <<>>
  /\ fts' = [fts EXCEPT ![f] = Parse(disk[f])]
  /\ vec' = [vec EXCEPT ![f] = IF embeds THEN Parse(disk[f]) ELSE [i \in Chunks |-> {}]]
  /\ dirty' = (dirty \/ Collides)
  /\ UNCHANGED <<disk, registry, writer, compactor, rebuilder, due, summaries, excepted, aged>>

\* update_index_entry and delete_index_entry: the indexes differ from the file by intent.
EditEntry(f, i, text) ==
  /\ Mishap /\ fts[f][i] # {}
  /\ fts' = [fts EXCEPT ![f][i] = text]
  /\ \E new \in {text, {}} : vec' = [vec EXCEPT ![f][i] = new]
  /\ dirty' = TRUE
  /\ UNCHANGED <<disk, registry, writer, compactor, rebuilder, due, summaries, excepted, aged>>

\* delete_memory_file.
DeleteFile(f) ==
  /\ Mishap /\ disk[f] # <<>>
  /\ disk' = [disk EXCEPT ![f] = <<>>] /\ registry' = registry \ {f}
  /\ fts' = Unindexed(fts, f) /\ vec' = Unindexed(vec, f)
  /\ excepted' = excepted \cup Told([NoFiles EXCEPT ![f] = disk[f]])
  /\ dirty' = (dirty \/ writer.at # "idle" \/ compactor.at # "idle")
  /\ UNCHANGED <<writer, compactor, rebuilder, due, summaries, aged>>

\* The retention period of the day's entries ends.
Ages ==
  /\ ~aged /\ writer.at = "idle" /\ aged' = TRUE
  /\ UNCHANGED <<disk, registry, fts, vec, writer, compactor, rebuilder, due, summaries,
                 excepted, dirty, mishaps>>

MemoryNext ==
  \/ \E full \in BOOLEAN : WriteSummary(full)
  \/ RegisterSummary \/ RegisterFails \/ WriterCrashes \/ WorkerBoot
  \/ \E done \in 0..MaxSummaries : EmbedSummary(done) \/ CompactEmbeds(done)
  \/ CompactReads \/ CompactFails \/ CompactWrites \/ CompactDrops \/ CompactRegisters
  \/ CompactIndexes
  \/ \E b \in BOOLEAN : CompactorGone(b) \/ RebuildWrites(b)
  \/ RebuildReads \/ Ages
  \/ \E f \in Files :
       \/ DeleteFile(f)
       \/ \E embeds \in BOOLEAN : ReindexFile(f, embeds)
       \/ \E i \in Chunks, text \in {Edited, {}} : EditEntry(f, i, text)

MemorySpec == MemoryInit /\ [][MemoryNext]_memoryVars

------------------------------------------------------------------------------

MemoryTypeOK ==
  /\ disk \in [Files -> Content] /\ registry \subseteq Files /\ fts \in Index /\ vec \in Index
  /\ writer \in Writer /\ compactor \in Compactor /\ rebuilder \subseteq [Files -> Content]
  /\ summaries \in 0..MaxSummaries /\ excepted \subseteq Chunks
  /\ due \in BOOLEAN /\ dirty \in BOOLEAN /\ aged \in BOOLEAN /\ mishaps \in 0..MaxMishaps

\* Whatever a compaction does, wherever it is killed and however often it is tried again,
\* every summary is told by some file, unless the user deleted its file, it did not fit
\* in what Claude is asked to distil, it was appended, while a compaction waited for the
\* answer, to a file that the compaction then replaces, or the user had deleted <date>.md
\* under a compaction, which writes it again without its row, for the next to replace.
SummariesSurvive == (1..summaries) \subseteq Told(disk) \cup excepted

\* When nobody is at work the full text index holds what the files hold, chunk by chunk,
\* and no vector stands for an older text than its chunk's, also after a summary was
\* appended, the day compacted or the index rebuilt: all but the cases that set dirty.
IndexMatchesFiles ==
  writer.at = "idle" /\ compactor.at = "idle" /\ ~dirty =>
    \A f \in Files, i \in Chunks :
      /\ fts[f][i] = Parse(disk[f])[i] \/ (aged /\ fts[f][i] = {})
      /\ vec[f][i] \in {{}, fts[f][i]}

=============================================================================

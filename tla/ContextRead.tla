---------------------------- MODULE ContextRead ----------------------------
(***************************************************************************)
(* internal/contextread: smart reads of files.  Build renders a file, in   *)
(* full or as a delta against the snapshot of the last read, and keeps     *)
(* snapshots and rendered results in one file that every tokman process    *)
(* loads and replaces; a process keeps rendered results in memory too.     *)
(* The file system is modelled by inodes, because Save writes to a file    *)
(* whose name all processes share.                                         *)
(***************************************************************************)
EXTENDS Integers, SequencesExt

CONSTANTS
  Process,       \* tokman processes, each with one Build at a time
  Path, Content,
  Long,          \* contents of more than maxContentBytes
  Trimmed,       \* the first maxContentBytes of each of them
  NoContent,     \* no snapshot
  MaxSnapshots, MaxRenders,
  MaxMemo        \* capacity of renderCache

ASSUME ReadAssumption ==
  /\ NoContent \notin Content
  /\ Long \subseteq Content /\ Trimmed \in Content \ Long
  /\ MaxSnapshots \in Nat \ {0} /\ MaxRenders \in Nat \ {0} /\ MaxMemo \in Nat \ {0}

VARIABLES
  dir,        \* the inodes of the store's file and of its ".tmp", 0 for none
  inode,      \* what the inodes hold
  buildPc,    \* per process: where Build is
  job,        \* what it reads: path, mode, content, saveSnapshot
  toSave,     \* the store it is about to save
  fd,         \* the inode it has open for writing, 0 for none
  after,      \* where it goes when Save has returned
  shown,      \* what it answers
  memo,       \* renderCache, least recently used first
  basis,      \* history: the snapshot of the path when the read began
  seen        \* history: the contents saved last, of all paths, in this order

processVars == <<buildPc, job, toSave, fd, after, shown, basis>>
diskVars == <<dir, inode, seen>>
readVars == <<diskVars, processVars, memo>>

\* A store keeps its entries in the order of UpdatedAt.
Whole(s, r) == [state |-> "whole", snaps |-> s, renders |-> r]
NewStore == Whole(<< >>, << >>)
Broken(state) == [NewStore EXCEPT !.state = state]
Size(st) == Len(st.snaps) + Len(st.renders)

Inode == 1..3
Job == [path : Path, mode : {"full", "delta"}, content : Content, save : BOOLEAN]
NotShown == [kind |-> "none", from |-> NoContent, to |-> NoContent, cut |-> FALSE]
Failed == [NotShown EXCEPT !.kind = "error"]

NoJob == [path |-> NoContent, mode |-> "full", content |-> NoContent, save |-> FALSE]

\* A call of Build that ends leaves what is on disk and in renderCache.
Ended(p) ==
  /\ buildPc' = [buildPc EXCEPT ![p] = "idle"]
  /\ job' = [job EXCEPT ![p] = NoJob] /\ toSave' = [toSave EXCEPT ![p] = NewStore]
  /\ fd' = [fd EXCEPT ![p] = 0] /\ after' = [after EXCEPT ![p] = "idle"]
  /\ shown' = [shown EXCEPT ![p] = NotShown] /\ basis' = [basis EXCEPT ![p] = NoContent]

ReadInit ==
  /\ dir = [store |-> 0, tmp |-> 0] /\ inode = [i \in Inode |-> Broken("empty")]
  /\ seen = << >> /\ memo = [p \in Process |-> << >>]
  /\ buildPc = [p \in Process |-> "idle"]
  /\ job = [p \in Process |-> NoJob]
  /\ toSave = [p \in Process |-> NewStore] /\ fd = [p \in Process |-> 0]
  /\ after = [p \in Process |-> "idle"] /\ shown = [p \in Process |-> NotShown]
  /\ basis = [p \in Process |-> NoContent]

-----------------------------------------------------------------------------
\* Load: a missing file is an empty store, a file that does not parse is an
\* error.
Loaded == IF dir.store = 0 THEN NewStore ELSE inode[dir.store]
LoadOK == Loaded.state = "whole"

\* Path, content and options; the snapshot is not part of it.
cacheKey(j) == <<j.path, j.mode, j.content, j.save>>

\* The entries are a map in the code: a key has at most one.
Dropped(entries, key) ==
  LET places == {i \in DOMAIN entries : entries[i].key = key}
  IN  IF places = {} THEN entries ELSE RemoveAt(entries, CHOOSE i \in places : TRUE)

\* Mutant: the oldest entries are kept.
pruneNewest(entries, max) == SubSeq(entries, 1, IF Len(entries) < max THEN Len(entries) ELSE max)

prune(entries, max) ==
  SubSeq(entries, Len(entries) - (IF Len(entries) < max THEN Len(entries) ELSE max) + 1,
         Len(entries))

\* A content is stored up to maxContentBytes.
trimContent(content) == IF content \in Long THEN Trimmed ELSE content

\* An output is too: one that shows a long content, or a delta against the
\* head of one, may be longer than that.
trimOutput(out) ==
  {out} \union IF out.to \in Long \/ out.from = Trimmed THEN {[out EXCEPT !.cut = TRUE]} ELSE {}

\* Put and PutRender replace the entry of their key and prune the oldest.
Put(st, path, content) ==
  [st EXCEPT !.snaps = prune(Append(Dropped(@, path),
                                    [key |-> path, content |-> trimContent(content)]),
                             MaxSnapshots)]
PutRender(st, key, out) ==
  [st EXCEPT !.renders =
     prune(Append(Dropped(@, key), [key |-> key, output |-> out]), MaxRenders)]

\* renderCache.Set, and the refresh of a Get.
Remember(p, key, out) ==
  memo' = [memo EXCEPT ![p] = prune(Append(Dropped(@, key), [key |-> key, output |-> out]),
                                    MaxMemo)]

Found(entries, key) == {e \in Range(entries) : e.key = key}

SnapshotOf(st, path) ==
  LET snaps == Found(st.snaps, path)
  IN  IF snaps = {} THEN NoContent ELSE (CHOOSE e \in snaps : TRUE).content

Goto(p, l) == buildPc' = [buildPc EXCEPT ![p] = l]

\* A command reads a file, whatever it holds by now, and calls Build.
Begin(p) ==
  /\ buildPc[p] = "idle"
  /\ \E j \in Job :
       /\ j.mode = "full" => ~j.save
       /\ job' = [job EXCEPT ![p] = j]
       /\ basis' = [basis EXCEPT ![p] = SnapshotOf(Loaded, j.path)]
  /\ Goto(p, "lookup")
  /\ UNCHANGED <<diskVars, toSave, fd, after, shown, memo>>

Answer(p, out) ==
  /\ shown' = [shown EXCEPT ![p] = out]
  /\ Goto(p, "answered")
  /\ Remember(p, cacheKey(job[p]), out)
  /\ UNCHANGED <<diskVars, job, toSave, fd, after, basis>>

Persisted(key) == IF LoadOK THEN Found(Loaded.renders, key) ELSE {}

\* A rendered result in renderCache for the key is the answer.
Recall(p) ==
  /\ buildPc[p] = "lookup"
  /\ \E e \in Found(memo[p], cacheKey(job[p])) : Answer(p, e.output)

\* renderCache has none, or it has expired: loadPersistedRender.
Lookup(p) ==
  /\ buildPc[p] = "lookup"
  /\ \E e \in Persisted(cacheKey(job[p])) : Answer(p, e.output)

LookupFails(p) ==
  /\ buildPc[p] = "lookup"
  /\ Persisted(cacheKey(job[p])) = {}
  /\ Goto(p, "apply")
  /\ memo' = [memo EXCEPT ![p] = Dropped(@, cacheKey(job[p]))]
  /\ UNCHANGED <<diskVars, job, toSave, fd, after, shown, basis>>

\* ApplyMode in a mode that depends on the content only.
ApplyFull(p) ==
  /\ buildPc[p] = "apply" /\ job[p].mode = "full"
  /\ shown' = [shown EXCEPT ![p] = [NotShown EXCEPT !.kind = "full", !.to = job[p].content]]
  /\ Goto(p, "render")
  /\ UNCHANGED <<diskVars, job, toSave, fd, after, basis, memo>>

\* applyDeltaRead: the delta against the snapshot, which Put and Save replace.
ApplyDelta(p) ==
  /\ buildPc[p] = "apply" /\ job[p].mode = "delta"
  /\ shown' = [shown EXCEPT ![p] =
       IF LoadOK
         THEN [kind |-> "delta", from |-> SnapshotOf(Loaded, job[p].path), to |-> job[p].content,
               cut |-> FALSE]
         ELSE Failed]
  /\ IF LoadOK /\ job[p].save
       THEN /\ toSave' = [toSave EXCEPT ![p] = Put(Loaded, job[p].path, job[p].content)]
            /\ after' = [after EXCEPT ![p] = "render"]
       ELSE UNCHANGED <<toSave, after>>
  /\ Goto(p, IF ~LoadOK THEN "answered" ELSE IF job[p].save THEN "open" ELSE "render")
  /\ UNCHANGED <<diskVars, job, fd, basis, memo>>

\* renderCache.Set and savePersistedRender, which gives up if the store does
\* not load.
Render(p) ==
  /\ buildPc[p] = "render"
  /\ Remember(p, cacheKey(job[p]), shown[p])
  /\ IF LoadOK
       THEN /\ \E out \in trimOutput(shown[p]) :
                 toSave' = [toSave EXCEPT ![p] = PutRender(Loaded, cacheKey(job[p]), out)]
            /\ after' = [after EXCEPT ![p] = "answered"]
       ELSE UNCHANGED <<toSave, after>>
  /\ Goto(p, IF LoadOK THEN "open" ELSE "answered")
  /\ UNCHANGED <<diskVars, job, fd, shown, basis>>

-----------------------------------------------------------------------------
\* Save: os.WriteFile opens the temporary file and truncates it...
Free == Inode \ ({dir.store, dir.tmp} \union {fd[q] : q \in Process})
Truncate(p, name) ==
  /\ buildPc[p] = "open"
  /\ LET i == IF dir[name] # 0 THEN dir[name] ELSE CHOOSE i \in Free : \A k \in Free : i <= k
     IN  /\ dir' = [dir EXCEPT ![name] = i]
         /\ inode' = [inode EXCEPT ![i] = Broken("empty")]
         /\ fd' = [fd EXCEPT ![p] = i]
  /\ Goto(p, "write")
  /\ UNCHANGED <<seen, job, toSave, after, shown, basis, memo>>

\* Mutant: the store's own file is written.
OpenInPlace(p) == Truncate(p, "store")

OpenTmp(p) == Truncate(p, "tmp")

\* ...then writes, over what another process wrote to the same inode...
WriteTmp(p) ==
  /\ buildPc[p] = "write"
  /\ LET old == inode[fd[p]]
     IN  inode' = [inode EXCEPT ![fd[p]] =
           IF old.state = "garbled" \/ Size(old) > Size(toSave[p]) THEN Broken("garbled")
                                                                ELSE toSave[p]]
  /\ fd' = [fd EXCEPT ![p] = 0]
  /\ Goto(p, "rename")
  /\ UNCHANGED <<dir, seen, job, toSave, after, shown, basis, memo>>

\* ...and Save renames, which frees the old file, and fails if another process
\* has renamed already.
Rename(p) ==
  /\ buildPc[p] = "rename"
  /\ IF dir.tmp # 0
       THEN /\ dir' = [store |-> dir.tmp, tmp |-> 0]
            /\ inode' = [i \in Inode |->
                           IF i \in {dir.tmp} \union {fd[q] : q \in Process} THEN inode[i]
                                                                           ELSE Broken("empty")]
            /\ seen' = IF after[p] = "render"
                         THEN Append(Dropped(seen, job[p].path),
                                     [key |-> job[p].path, content |-> job[p].content])
                         ELSE seen
            /\ Goto(p, after[p]) /\ UNCHANGED shown
       ELSE /\ UNCHANGED diskVars
            /\ Goto(p, "answered")
            /\ shown' = [shown EXCEPT ![p] = IF after[p] = "render" THEN Failed ELSE @]
  /\ UNCHANGED <<job, toSave, fd, after, basis, memo>>

\* Build returns.
Reply(p) == buildPc[p] = "answered" /\ Ended(p) /\ UNCHANGED <<diskVars, memo>>

\* The process ends or is killed; its file is closed.
Crash(p) ==
  /\ Ended(p)
  /\ memo' = [memo EXCEPT ![p] = << >>]
  /\ UNCHANGED diskVars

Build(p) ==
  \/ Begin(p) \/ Recall(p) \/ Lookup(p) \/ LookupFails(p) \/ ApplyFull(p) \/ ApplyDelta(p) \/ Render(p)
  \/ OpenTmp(p) \/ WriteTmp(p) \/ Rename(p) \/ Reply(p)

ReadNext == \E p \in Process : Build(p) \/ Crash(p)

ReadSpec == ReadInit /\ [][ReadNext]_readVars

-----------------------------------------------------------------------------
\* "Save writes the store back to disk atomically": wherever a process is
\* killed, the file is missing or holds a whole store.  A file that does not
\* load stays: every later read that would replace it loads it first.
StoreAlwaysLoads == LoadOK

\* The snapshots are the last entries of s, trimmed, as many as there is room for.
AreLast(snaps, s) ==
  LET older == Len(s) - Len(snaps)
  IN  /\ Len(snaps) <= MaxSnapshots
      /\ older >= 0 /\ (older > 0 => Len(snaps) = MaxSnapshots)
      /\ \A i \in DOMAIN snaps :
           snaps[i] = [key |-> s[older + i].key, content |-> trimContent(s[older + i].content)]

\* The snapshots are of the paths that were saved last, as many as the store
\* holds, each with what was read of its path the last time a read of it was
\* saved, up to maxContentBytes; a read killed in its Save counts if it got as
\* far as the rename (Put, trimContent, prune, Save).
SnapshotsAreCurrent == AreLast(Loaded.snaps, seen)

\* "Snapshot stores the last seen contents for a path so future reads can
\* emit deltas": a delta is against the snapshot there was when the read began.
DeltaFromLastSeen ==
  \A p \in Process :
    buildPc[p] = "answered" /\ job[p].mode = "delta" /\ shown[p] # Failed =>
      shown[p].from = basis[p]
=============================================================================

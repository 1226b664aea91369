----------------------------- MODULE AtomicFile -----------------------------
(***************************************************************************)
(* The write path of attr.Write, system call by system call.  SaveMode and *)
(* WAL.writeEntry are the same statements: create path.tmp, write, fsync,  *)
(* close, rename over path; on an error remove path.tmp.                   *)
(*                                                                         *)
(* A directory entry names an inode.  The name path.tmp is fixed, so every *)
(* writer of a file works on the same one.  Storage Element calls these    *)
(* functions without a lock on the file, so calls may overlap: path.tmp is *)
(* then truncated, written and renamed by several writers at once.         *)
(***************************************************************************)
EXTENDS Integers

CONSTANTS
  Writers,    \* goroutines that write this file
  Values,     \* encoded contents
  Length,     \* their length in bytes
  Inodes,     \* bound: inodes in use at a time
  NoInode,    \* the name does not exist
  Absent,     \* there is no file to read
  Empty,      \* content of a file that was created or truncated
  Torn,       \* content that is no value: partly written, or two mixed
  NoValue     \* nothing is being written

ASSUME FileAssumption ==
  /\ Length \in [Values -> Nat \ {0}]
  /\ NoInode \notin Inodes
  /\ {Absent, Empty, Torn, NoValue} \intersect Values = {}
  /\ NoValue \notin {Absent, Torn} /\ Absent \notin {Empty, Torn} /\ Empty # Torn

VARIABLES
  file,      \* inode named path
  tmp,       \* inode named path.tmp
  content,   \* content of each inode, as the kernel sees it
  synced,    \* inodes whose content is on the platter
  older,     \* inodes path may still name on the platter
  pc, fd, val, \* per writer: next system call, open file, value to write
  mixed      \* history: inodes in use while calls overlapped

vars == <<file, tmp, content, synced, older, pc, fd, val, mixed>>

Contents == Values \union {Empty, Torn}

Names == Inodes \union {NoInode}

\* What a reader of path gets: attr.Read, LoadMode, readEntry.
ValueOf(i) == IF i = NoInode THEN Absent ELSE content[i]

Open(w) == pc[w] # "idle"

Free == {i \in Inodes : /\ i \notin {file, tmp} \union older
                        /\ \A w \in Writers : Open(w) => fd[w] # i}

\* A call goes on to its next system call.
Step(w, from, to) ==
  /\ pc[w] = from
  /\ pc' = [pc EXCEPT ![w] = to]
  /\ UNCHANGED <<fd, val>>

Return(w, from) ==
  /\ pc[w] = from
  /\ pc' = [pc EXCEPT ![w] = "idle"]
  /\ fd' = [fd EXCEPT ![w] = NoInode]
  /\ val' = [val EXCEPT ![w] = NoValue]

\* History: i is opened by w.  With other calls under way, their inodes are no
\* longer one writer's; alone, i starts afresh.
Mark(w, i) ==
  LET others == {u \in Writers \ {w} : Open(u)} IN
  mixed' = IF others = {} THEN mixed \ {i}
           ELSE mixed \union {i} \union {fd[u] : u \in others}

\* os.Create: an existing path.tmp is truncated, whoever uses it.
Create(w, v) ==
  /\ pc[w] = "idle"
  /\ pc' = [pc EXCEPT ![w] = "write"]
  /\ \E i \in IF tmp = NoInode THEN Free ELSE {tmp} :
       /\ tmp' = i
       /\ fd' = [fd EXCEPT ![w] = i]
       /\ content' = [content EXCEPT ![i] = Empty]
       /\ synced' = synced \ {i}
       /\ Mark(w, i)
  /\ val' = [val EXCEPT ![w] = v]
  /\ UNCHANGED <<file, older>>

\* v written from offset 0 over content c, by a file opened on its own.
Overwrite(c, v) ==
  IF c \in Values /\ Length[c] > Length[v] THEN Torn
  ELSE IF c = Torn THEN Torn ELSE v

Write(w) ==
  /\ \/ /\ Step(w, "write", "sync")
        /\ content' = [content EXCEPT ![fd[w]] = Overwrite(@, val[w])]
     \/ /\ Step(w, "write", "cleanup")
        /\ content' = [content EXCEPT ![fd[w]] = Torn]
  /\ synced' = synced \ {fd[w]}
  /\ UNCHANGED <<file, tmp, older, mixed>>

\* Mutant of Sync: no fsync.
SyncSkipped(w) ==
  /\ Step(w, "sync", "rename")
  /\ UNCHANGED <<file, tmp, content, synced, older, mixed>>

\* f.Sync and f.Close.
Sync(w) ==
  /\ \/ Step(w, "sync", "rename") /\ synced' = synced \union {fd[w]}
     \/ Step(w, "sync", "cleanup") /\ UNCHANGED synced
  /\ UNCHANGED <<file, tmp, content, older, mixed>>

\* os.Rename publishes the inode path.tmp names by now; it may name none.
Rename(w) ==
  /\ \/ /\ Return(w, "rename")
        /\ tmp # NoInode
        /\ file' = tmp
        /\ tmp' = NoInode
        /\ older' = older \union {file}
     \/ /\ Step(w, "rename", "cleanup")
        /\ UNCHANGED <<file, tmp, older>>
  /\ UNCHANGED <<content, synced, mixed>>

\* os.Remove(tmpPath); the caller gets the error.
CleanUp(w) ==
  /\ Return(w, "cleanup")
  /\ tmp' = NoInode
  /\ UNCHANGED <<file, content, synced, older, mixed>>

\* Mutant of Delete: path.tmp is put in place of path.
DeleteRestores(w) ==
  /\ ~Open(w)
  /\ file' = tmp
  /\ tmp' = NoInode
  /\ older' = older \union {file}
  /\ UNCHANGED <<content, synced, pc, fd, val, mixed>>

\* attr.Delete.
Delete(w) ==
  /\ ~Open(w)
  /\ file' = NoInode
  /\ older' = older \union {file}
  /\ UNCHANGED <<tmp, content, synced, pc, fd, val, mixed>>

AllIdle ==
  /\ pc' = [w \in Writers |-> "idle"]
  /\ fd' = [w \in Writers |-> NoInode]
  /\ val' = [w \in Writers |-> NoValue]

\* The process dies; the kernel keeps what it was given.
Crash ==
  /\ AllIdle
  /\ UNCHANGED <<file, tmp, content, synced, older, mixed>>

\* The kernel writes the directory and the files back.
Flush ==
  /\ older' = {}
  /\ synced' = Inodes
  /\ UNCHANGED <<file, tmp, content, pc, fd, val, mixed>>

\* The node loses power: content without fsync is anything; the directory is
\* never fsynced, so a rename may be undone.  Inodes without a name are freed.
PowerLoss ==
  /\ AllIdle
  /\ file' \in older \union {file}
  /\ tmp' \in {NoInode, tmp, file} \ {file'}
  /\ LET named == {file', tmp'} \ {NoInode} IN
     \E s \in SUBSET (named \ synced) : \E lost \in [s -> {Empty, Torn}] :
       content' = [i \in Inodes |-> IF i \in s THEN lost[i]
                                   ELSE IF i \in named THEN content[i] ELSE Empty]
  /\ synced' = Inodes
  /\ older' = {}
  /\ mixed' = mixed \intersect {file', tmp'}

Init ==
  /\ file = NoInode /\ tmp = NoInode
  /\ content = [i \in Inodes |-> Empty]
  /\ synced = Inodes
  /\ older = {}
  /\ pc = [w \in Writers |-> "idle"]
  /\ fd = [w \in Writers |-> NoInode]
  /\ val = [w \in Writers |-> NoValue]
  /\ mixed = {}

Next ==
  \/ \E w \in Writers : \/ \E v \in Values : Create(w, v)
                        \/ Write(w) \/ Sync(w) \/ Rename(w) \/ CleanUp(w)
                        \/ Delete(w)
  \/ Crash \/ Flush \/ PowerLoss

Spec == Init /\ [][Next]_vars

-----------------------------------------------------------------------------
(* Properties                                                              *)

\* Every variable holds a value of its kind.
TypeOK ==
  /\ file \in Names /\ tmp \in Names
  /\ content \in [Inodes -> Contents]
  /\ synced \in SUBSET Inodes
  /\ older \in SUBSET Names
  /\ pc \in [Writers -> {"idle", "write", "sync", "rename", "cleanup"}]
  /\ fd \in [Writers -> Names]
  /\ val \in [Writers -> Values \union {NoValue}]
  /\ mixed \in SUBSET Names

\* Whoever reads the file, after whatever failure, finds a whole value or no
\* file at all (attr.Write, SaveMode, writeEntry), unless the file itself was
\* written by calls that overlapped: other overlaps, before or after, do it no
\* harm.
NeverTorn == file \notin mixed => ValueOf(file) \in Values \union {Absent}

\* What a reader can rely on.
Known(i) == IF i \in mixed THEN Torn ELSE ValueOf(i)

InWriting(w) ==
  IF ~Open(w) THEN NoValue ELSE IF fd[w] \in mixed THEN Torn ELSE val[w]

Cell == INSTANCE AtomicCell WITH
  Anything <- Torn,
  cell     <- Known(file),
  past     <- {Known(i) : i \in older},
  pending  <- [w \in Writers |-> InWriting(w)]

\* The five system calls are one atomic step, as long as no other call for the
\* file is under way: a write that succeeds replaced the value, a write that
\* fails left it alone.  Calls that overlap leave anything behind, until a call
\* that overlaps with none replaces it.
IsAtomicCell == Cell!Spec

=============================================================================

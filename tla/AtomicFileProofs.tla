-------------------------- MODULE AtomicFileProofs --------------------------
(***************************************************************************)
(* For any number of writers: a file that one call wrote alone is whole,   *)
(* whatever fails, and every step is a step of AtomicCell.                 *)
(***************************************************************************)
EXTENDS AtomicFile, TLAPS

\* A published inode that one call wrote is whole and on the platter.
Published ==
  \A i \in older \union {file} :
    i # NoInode /\ i \notin mixed => i \in synced /\ content[i] \in Values

\* path.tmp is not the inode of a published file.
Apart == tmp # NoInode => tmp \notin older \union {file}

\* A call that overlapped with none is the only one under way, and path.tmp
\* names its inode.
Alone ==
  \A w \in Writers : Open(w) =>
    /\ val[w] \in Values /\ fd[w] \in Inodes
    /\ fd[w] \in mixed => (tmp # NoInode => tmp \in mixed)
    /\ fd[w] \notin mixed =>
         /\ \A u \in Writers \ {w} : ~Open(u)
         /\ fd[w] = tmp
         /\ pc[w] = "write" => content[tmp] = Empty
         /\ pc[w] \in {"sync", "rename"} => content[tmp] = val[w]
         /\ pc[w] = "rename" => tmp \in synced

FileInv ==
  /\ TypeOK /\ NoInode \notin mixed
  /\ Published /\ Apart /\ Alone

\* The initial state satisfies the invariant.
LEMMA FileInit == Init => FileInv
  BY DEF Init, FileInv, TypeOK, Published, Apart, Alone, Open, Names, Contents

\* What a call that goes on to its next system call, or returns, leaves of the
\* other calls.
LEMMA PcFacts ==
  ASSUME TypeOK, NEW w \in Writers
  PROVE  /\ \A from, to \in {"idle", "write", "sync", "rename", "cleanup"} :
              Step(w, from, to) =>
                /\ pc[w] = from /\ pc'[w] = to
                /\ \A u \in Writers : u # w => pc'[u] = pc[u]
                /\ pc' \in [Writers -> {"idle", "write", "sync", "rename", "cleanup"}]
                /\ fd' = fd /\ val' = val
         /\ \A from \in {"rename", "cleanup"} :
              Return(w, from) =>
                /\ pc[w] = from /\ pc'[w] = "idle"
                /\ \A u \in Writers : u # w =>
                     pc'[u] = pc[u] /\ fd'[u] = fd[u] /\ val'[u] = val[u]
                /\ pc' \in [Writers -> {"idle", "write", "sync", "rename", "cleanup"}]
                /\ fd' \in [Writers -> Names]
                /\ val' \in [Writers -> Values \union {NoValue}]
  BY DEF TypeOK, Step, Return, Names

\* Each system call preserves the invariant.
LEMMA FileStep ==
  ASSUME FileInv, [Next]_vars
  PROVE  FileInv'
<1> USE DEF FileInv
<1>1. ASSUME NEW w \in Writers, NEW v \in Values, Create(w, v)
      PROVE  FileInv'
  <2> DEFINE others == {u \in Writers \ {w} : Open(u)}
  <2>1. PICK i \in IF tmp = NoInode THEN Free ELSE {tmp} :
          /\ tmp' = i
          /\ fd' = [fd EXCEPT ![w] = i]
          /\ content' = [content EXCEPT ![i] = Empty]
          /\ synced' = synced \ {i}
          /\ Mark(w, i)
    BY <1>1 DEF Create
  <2>2. /\ pc[w] = "idle" /\ pc' = [pc EXCEPT ![w] = "write"]
        /\ val' = [val EXCEPT ![w] = v]
        /\ UNCHANGED <<file, older>>
    BY <1>1 DEF Create
  <2>3. i \in Inodes /\ i # NoInode /\ i \notin older \union {file}
    BY <2>1, FileAssumption DEF TypeOK, Names, Apart, Free
  <2>4. mixed' = IF others = {} THEN mixed \ {i}
                 ELSE mixed \union {i} \union {fd[u] : u \in others}
    BY <2>1 DEF Mark
  <2>5. \A u \in others : fd[u] \in Inodes /\ fd[u] # NoInode
    BY FileAssumption DEF Alone
  <2>6. TypeOK' /\ NoInode \notin mixed'
    BY <2>1, <2>2, <2>3, <2>4, <2>5 DEF TypeOK, Names, Contents
  <2>7. Published'
    BY <2>1, <2>2, <2>3, <2>4 DEF Published, TypeOK, Names
  <2>8. Apart'
    BY <2>1, <2>2, <2>3 DEF Apart
  <2>9. /\ fd'[w] = i /\ pc'[w] = "write" /\ val'[w] = v
        /\ \A u \in Writers : u # w =>
             fd'[u] = fd[u] /\ pc'[u] = pc[u] /\ val'[u] = val[u]
    BY <2>1, <2>2, <2>3 DEF TypeOK, Names
  <2>10. CASE others = {}
    <3>1. \A u \in Writers : u # w => pc[u] = "idle"
      BY <2>10 DEF Open
    <3>2. content'[i] = Empty
      BY <2>1, <2>3 DEF TypeOK
    <3> QED  BY <2>1, <2>3, <2>4, <2>6, <2>7, <2>8, <2>9, <2>10, <3>1, <3>2
             DEF Alone, Open
  <2>11. CASE others # {}
    <3>1. mixed' = mixed \union {i} \union {fd[u] : u \in others}
      BY <2>4, <2>11
    <3>2. \A u \in Writers : u # w /\ Open(u)' => u \in others
      BY <2>9 DEF Open
    <3>3. \A u \in Writers : Open(u)' =>
            val'[u] \in Values /\ fd'[u] \in Inodes /\ fd'[u] \in mixed'
      BY <2>3, <2>9, <3>1, <3>2 DEF Alone, Open
    <3>4. Alone'
      BY <2>1, <3>1, <3>3 DEF Alone
    <3> QED  BY <2>6, <2>7, <2>8, <3>4
  <2> QED  BY <2>10, <2>11
<1>2. ASSUME NEW w \in Writers, Write(w)
      PROVE  FileInv'
  <2>1. PICK to \in {"sync", "cleanup"} :
          /\ Step(w, "write", to)
          /\ content' = [content EXCEPT ![fd[w]] =
               IF to = "sync" THEN Overwrite(content[fd[w]], val[w]) ELSE Torn]
    BY <1>2 DEF Write, TypeOK
  <2>2. synced' = synced \ {fd[w]} /\ UNCHANGED <<file, tmp, older, mixed>>
    BY <1>2 DEF Write
  <2>3. /\ pc[w] = "write" /\ pc'[w] = to
        /\ \A u \in Writers : u # w => pc'[u] = pc[u]
        /\ pc' \in [Writers -> {"idle", "write", "sync", "rename", "cleanup"}]
        /\ fd' = fd /\ val' = val
    BY <2>1, PcFacts
  <2>4. Open(w) /\ val[w] \in Values /\ fd[w] \in Inodes
    BY <2>3 DEF Alone, Open
  <2>5. /\ Overwrite(content[fd[w]], val[w]) \in Contents
        /\ content[fd[w]] = Empty => Overwrite(content[fd[w]], val[w]) = val[w]
    BY <2>4, FileAssumption DEF Overwrite, Contents
  <2>6. TypeOK' /\ NoInode \notin mixed'
    BY <2>1, <2>2, <2>3, <2>4, <2>5 DEF TypeOK, Contents
  <2>7. \A i \in older \union {file} : i # NoInode /\ i \notin mixed => i # fd[w]
    BY <2>4 DEF Alone, Apart
  <2>8. Published' /\ Apart'
    BY <2>1, <2>2, <2>7 DEF Published, Apart, TypeOK, Names
  <2>9. ASSUME NEW u \in Writers, Open(u)'
        PROVE  /\ val'[u] \in Values /\ fd'[u] \in Inodes
               /\ fd'[u] \in mixed' => (tmp' # NoInode => tmp' \in mixed')
               /\ fd'[u] \notin mixed' =>
                    /\ \A x \in Writers \ {u} : ~Open(x)'
                    /\ fd'[u] = tmp'
                    /\ pc'[u] = "write" => content'[tmp'] = Empty
                    /\ pc'[u] \in {"sync", "rename"} => content'[tmp'] = val'[u]
                    /\ pc'[u] = "rename" => tmp' \in synced'
    <3>1. Open(u) /\ (u # w => Open(w))
      BY <2>3, <2>9 DEF Open
    <3>2. /\ val[u] \in Values /\ fd[u] \in Inodes
          /\ fd[u] \in mixed => (tmp # NoInode => tmp \in mixed)
          /\ fd[u] \notin mixed => (\A x \in Writers \ {u} : ~Open(x)) /\ fd[u] = tmp
      BY <3>1 DEF Alone
    <3>3. ASSUME fd[u] \notin mixed
          PROVE  /\ u = w /\ fd[w] = tmp /\ content[tmp] = Empty
                 /\ \A x \in Writers \ {u} : ~Open(x)'
      BY <2>3, <2>4, <3>1, <3>2, <3>3 DEF Alone, Open
    <3>4. ASSUME fd[u] \notin mixed
          PROVE  to = "sync" => content'[tmp] = val[u]
      BY <2>1, <2>4, <2>5, <3>3, <3>4 DEF TypeOK
    <3> QED  BY <2>2, <2>3, <3>2, <3>3, <3>4
  <2>10. Alone'
    BY <2>9 DEF Alone, Open
  <2> QED  BY <2>6, <2>8, <2>10
<1>3. ASSUME NEW w \in Writers, Sync(w)
      PROVE  FileInv'
  <2>1. PICK to \in {"rename", "cleanup"} :
          /\ Step(w, "sync", to)
          /\ synced' = IF to = "rename" THEN synced \union {fd[w]} ELSE synced
    BY <1>3 DEF Sync
  <2>2. UNCHANGED <<file, tmp, content, older, mixed>>
    BY <1>3 DEF Sync
  <2>3. /\ pc[w] = "sync" /\ pc'[w] = to
        /\ \A u \in Writers : u # w => pc'[u] = pc[u]
        /\ pc' \in [Writers -> {"idle", "write", "sync", "rename", "cleanup"}]
        /\ fd' = fd /\ val' = val
    BY <2>1, PcFacts
  <2>4. Open(w) /\ fd[w] \in Inodes
    BY <2>3 DEF Alone, Open
  <2>5. TypeOK' /\ NoInode \notin mixed'
    BY <2>1, <2>2, <2>3, <2>4 DEF TypeOK
  <2>6. Published' /\ Apart'
    BY <2>1, <2>2 DEF Published, Apart
  <2>7. Alone'
    BY <2>1, <2>2, <2>3, <2>4 DEF Alone, Open
  <2> QED  BY <2>5, <2>6, <2>7
<1>4. ASSUME NEW w \in Writers, Rename(w)
      PROVE  FileInv'
  <2>0. UNCHANGED <<content, synced, mixed>>
    BY <1>4 DEF Rename
  <2>1. CASE /\ Return(w, "rename") /\ tmp # NoInode
             /\ file' = tmp /\ tmp' = NoInode /\ older' = older \union {file}
    <3>1. /\ pc[w] = "rename" /\ pc'[w] = "idle"
          /\ \A u \in Writers : u # w =>
               pc'[u] = pc[u] /\ fd'[u] = fd[u] /\ val'[u] = val[u]
          /\ pc' \in [Writers -> {"idle", "write", "sync", "rename", "cleanup"}]
          /\ fd' \in [Writers -> Names]
          /\ val' \in [Writers -> Values \union {NoValue}]
      BY <2>1, PcFacts
    <3>2. Open(w)
      BY <3>1 DEF Open
    <3>3. tmp \notin mixed =>
            /\ fd[w] = tmp /\ tmp \in synced /\ content[tmp] \in Values
            /\ \A u \in Writers \ {w} : ~Open(u)
      BY <2>1, <3>1, <3>2 DEF Alone
    <3>4. TypeOK' /\ NoInode \notin mixed'
      BY <2>0, <2>1, <3>1 DEF TypeOK, Names
    <3>5. Published' /\ Apart'
      BY <2>0, <2>1, <3>3 DEF Published, Apart
    <3>6. \A u \in Writers : Open(u)' => u # w /\ Open(u)
      BY <3>1 DEF Open
    <3>7. ASSUME NEW u \in Writers, Open(u)'
          PROVE  val'[u] \in Values /\ fd'[u] \in Inodes /\ fd'[u] \in mixed'
      BY <2>0, <3>1, <3>2, <3>6, <3>7 DEF Alone
    <3>8. Alone'
      BY <2>1, <3>7 DEF Alone
    <3> QED  BY <3>4, <3>5, <3>8
  <2>2. CASE Step(w, "rename", "cleanup") /\ UNCHANGED <<file, tmp, older>>
    <3>1. /\ pc[w] = "rename" /\ pc'[w] = "cleanup"
          /\ \A u \in Writers : u # w => pc'[u] = pc[u]
          /\ pc' \in [Writers -> {"idle", "write", "sync", "rename", "cleanup"}]
          /\ fd' = fd /\ val' = val
      BY <2>2, PcFacts
    <3>2. TypeOK' /\ NoInode \notin mixed'
      BY <2>0, <2>2, <3>1 DEF TypeOK
    <3>3. Published' /\ Apart'
      BY <2>0, <2>2 DEF Published, Apart
    <3>4. Alone'
      BY <2>0, <2>2, <3>1 DEF Alone, Open
    <3> QED  BY <3>2, <3>3, <3>4
  <2> QED  BY <1>4, <2>1, <2>2 DEF Rename
<1>5. ASSUME NEW w \in Writers, CleanUp(w)
      PROVE  FileInv'
  <2>1. /\ Return(w, "cleanup") /\ tmp' = NoInode
        /\ UNCHANGED <<file, content, synced, older, mixed>>
    BY <1>5 DEF CleanUp
  <2>2. /\ pc[w] = "cleanup" /\ pc'[w] = "idle"
        /\ \A u \in Writers : u # w =>
             pc'[u] = pc[u] /\ fd'[u] = fd[u] /\ val'[u] = val[u]
        /\ pc' \in [Writers -> {"idle", "write", "sync", "rename", "cleanup"}]
        /\ fd' \in [Writers -> Names]
        /\ val' \in [Writers -> Values \union {NoValue}]
    BY <2>1, PcFacts
  <2>3. TypeOK' /\ NoInode \notin mixed'
    BY <2>1, <2>2 DEF TypeOK, Names
  <2>4. Published' /\ Apart'
    BY <2>1 DEF Published, Apart
  <2>5. ASSUME NEW u \in Writers, Open(u)'
        PROVE  val'[u] \in Values /\ fd'[u] \in Inodes /\ fd'[u] \in mixed'
    BY <2>1, <2>2, <2>5 DEF Alone, Open
  <2>6. Alone'
    BY <2>1, <2>5 DEF Alone
  <2> QED  BY <2>3, <2>4, <2>6
<1>6. ASSUME NEW w \in Writers, Delete(w)
      PROVE  FileInv'
  <2> USE <1>6 DEF Delete
  <2>1. TypeOK' /\ NoInode \notin mixed'
    BY DEF TypeOK, Names
  <2>2. Published' /\ Apart'
    BY DEF Published, Apart
  <2>3. Alone'
    BY DEF Alone, Open
  <2> QED  BY <2>1, <2>2, <2>3
<1>7. CASE Crash
  BY <1>7 DEF Crash, AllIdle, TypeOK, Names, Published, Apart, Alone, Open
<1>8. CASE Flush
  BY <1>8 DEF Flush, TypeOK, Published, Apart, Alone, Open, Names
<1>9. CASE PowerLoss
  <2> DEFINE named == {file', tmp'} \ {NoInode}
  <2> USE <1>9 DEF PowerLoss, AllIdle
  <2>1. PICK s \in SUBSET (named \ synced) : \E lost \in [s -> {Empty, Torn}] :
          content' = [i \in Inodes |-> IF i \in s THEN lost[i]
                                      ELSE IF i \in named THEN content[i] ELSE Empty]
    OBVIOUS
  <2>2. PICK lost \in [s -> {Empty, Torn}] :
          content' = [i \in Inodes |-> IF i \in s THEN lost[i]
                                      ELSE IF i \in named THEN content[i] ELSE Empty]
    BY <2>1
  <2>3. \A i \in named : i \in synced /\ i \in Inodes => content'[i] = content[i]
    BY <2>2
  <2>4. TypeOK' /\ NoInode \notin mixed'
    BY <2>2 DEF TypeOK, Names, Contents
  <2>5. file' \in mixed => file' \in mixed'
    OBVIOUS
  <2>6. Published'
    BY <2>3, <2>5 DEF Published, TypeOK, Names
  <2>7. Apart' /\ Alone'
    BY DEF Apart, Alone, Open
  <2> QED  BY <2>4, <2>6, <2>7
<1>10. CASE UNCHANGED vars
  BY <1>10 DEF vars, TypeOK, Published, Apart, Alone, Open
<1> QED  BY <1>1, <1>2, <1>3, <1>4, <1>5, <1>6, <1>7, <1>8, <1>9, <1>10 DEF Next

\* Along every behaviour the invariant holds.
LEMMA FileInvariant == Spec => []FileInv
<1>1. FileInv /\ [Next]_vars => FileInv'
  BY FileStep
<1> QED  BY <1>1, FileInit, PTL DEF Spec

\* attr.Write, SaveMode and writeEntry never let a reader see a partial file,
\* after an error, a crash or a power failure, unless calls that overlapped
\* wrote it.
THEOREM WholeUnlessMixed == Spec => []NeverTorn
<1>1. FileInv => NeverTorn
  BY DEF FileInv, Published, NeverTorn, ValueOf
<1> QED  BY <1>1, FileInvariant, PTL

-----------------------------------------------------------------------------
(* The refinement                                                          *)

\* Every system call is a step of the atomic cell, or none.
LEMMA CellStep ==
  ASSUME FileInv, [Next]_vars
  PROVE  [Cell!Next]_(Cell!vars)
<1> USE DEF FileInv
<1> DEFINE cells == Known(file)
           pasts == {Known(i) : i \in older}
           pends == [w \in Writers |-> InWriting(w)]
<1>0. /\ cells' = cells /\ pasts' = pasts /\ pends' = pends => UNCHANGED Cell!vars
  BY DEF Cell!vars
<1>w. \A w \in Writers : pends[w] # NoValue <=> Open(w)
  BY FileAssumption DEF InWriting, Alone
<1>1. ASSUME NEW w \in Writers, NEW v \in Values, Create(w, v)
      PROVE  Cell!Next
  <2> DEFINE others == {u \in Writers \ {w} : Open(u)}
  <2>1. PICK i \in IF tmp = NoInode THEN Free ELSE {tmp} :
          /\ fd' = [fd EXCEPT ![w] = i]
          /\ content' = [content EXCEPT ![i] = Empty]
          /\ Mark(w, i)
    BY <1>1 DEF Create
  <2>2. /\ pc[w] = "idle" /\ pc' = [pc EXCEPT ![w] = "write"]
        /\ val' = [val EXCEPT ![w] = v]
        /\ UNCHANGED <<file, older>>
    BY <1>1 DEF Create
  <2>3. i \in Inodes /\ i \notin older \union {file}
    BY <2>1 DEF TypeOK, Names, Apart, Free
  <2>4. mixed' = IF others = {} THEN mixed \ {i}
                 ELSE mixed \union {i} \union {fd[u] : u \in others}
    BY <2>1 DEF Mark
  <2>5. \A u \in others : fd[u] \notin mixed => fd[u] \notin older \union {file}
    BY FileAssumption DEF Alone, Apart
  <2>6. \A j \in older \union {file} : Known(j)' = Known(j)
    BY <2>1, <2>3, <2>4, <2>5 DEF Known, ValueOf, TypeOK, Names
  <2>7. cells' = cells /\ pasts' = pasts
    BY <2>2, <2>6
  <2>8. /\ fd'[w] = i /\ pc'[w] = "write" /\ val'[w] = v
        /\ \A u \in Writers : u # w =>
             fd'[u] = fd[u] /\ pc'[u] = pc[u] /\ val'[u] = val[u]
    BY <2>1, <2>2, <2>3 DEF TypeOK, Names
  <2>9. CASE others = {}
    <3>1. \A u \in Writers : ~Open(u)
      BY <2>2, <2>9 DEF Open
    <3>2. pends' = [pends EXCEPT ![w] = v]
      BY <2>4, <2>8, <2>9, <3>1 DEF InWriting, Open
    <3>3. Cell!BeginAlone(w, v)
      BY <1>w, <2>7, <3>1, <3>2 DEF Cell!BeginAlone, Cell!Writing
    <3> QED  BY <3>3 DEF Cell!Next
  <2>10. CASE others # {}
    <3>1. mixed' = mixed \union {i} \union {fd[u] : u \in others}
      BY <2>4, <2>10
    <3>2. \A u \in Writers : u \in others \union {w} => InWriting(u)' = Torn
      BY <2>8, <3>1 DEF InWriting, Open
    <3>3. \A u \in Writers : u \notin others \union {w} => InWriting(u)' = NoValue
      BY <2>8 DEF InWriting, Open
    <3>4. Cell!Writing = others
      BY <1>w, <2>2 DEF Cell!Writing, Open
    <3>5. pends' = [u \in Writers |->
                      IF u \in Cell!Writing \union {w} THEN Torn ELSE NoValue]
      BY <3>2, <3>3, <3>4
    <3>6. Cell!BeginBeside(w)
      BY <2>7, <2>10, <3>4, <3>5 DEF Cell!BeginBeside
    <3> QED  BY <3>6 DEF Cell!Next
  <2> QED  BY <2>9, <2>10
<1>2. ASSUME NEW w \in Writers, Write(w)
      PROVE  UNCHANGED Cell!vars
  <2>1. PICK to \in {"sync", "cleanup"} : Step(w, "write", to)
    BY <1>2 DEF Write
  <2>2. /\ UNCHANGED <<file, older, mixed>>
        /\ \A i \in Inodes : i # fd[w] => content'[i] = content[i]
    BY <1>2 DEF Write, TypeOK
  <2>3. /\ pc[w] = "write" /\ pc'[w] = to
        /\ \A u \in Writers : u # w => pc'[u] = pc[u]
        /\ fd' = fd /\ val' = val
    BY <2>1, PcFacts
  <2>4. \A i \in older \union {file} : i # NoInode /\ i \notin mixed => i # fd[w]
    BY <2>3 DEF Alone, Apart, Open
  <2>5. \A i \in older \union {file} : Known(i)' = Known(i)
    BY <2>2, <2>4 DEF Known, ValueOf, TypeOK, Names
  <2>6. cells' = cells /\ pasts' = pasts
    BY <2>2, <2>5
  <2>7. \A u \in Writers : InWriting(u)' = InWriting(u)
    BY <2>2, <2>3 DEF InWriting, Open
  <2>8. pends' = pends
    BY <2>7
  <2> QED  BY <1>0, <2>6, <2>8
<1>3. ASSUME NEW w \in Writers, Sync(w)
      PROVE  UNCHANGED Cell!vars
  <2>1. PICK to \in {"rename", "cleanup"} : Step(w, "sync", to)
    BY <1>3 DEF Sync
  <2>2. UNCHANGED <<file, content, older, mixed>>
    BY <1>3 DEF Sync
  <2>3. /\ pc[w] = "sync" /\ pc'[w] = to
        /\ \A u \in Writers : u # w => pc'[u] = pc[u]
        /\ fd' = fd /\ val' = val
    BY <2>1, PcFacts
  <2>4. cells' = cells /\ pasts' = pasts
    BY <2>2 DEF Known, ValueOf
  <2>5. \A u \in Writers : InWriting(u)' = InWriting(u)
    BY <2>2, <2>3 DEF InWriting, Open
  <2>6. pends' = pends
    BY <2>5
  <2> QED  BY <1>0, <2>4, <2>6
<1>4. ASSUME NEW w \in Writers, Rename(w)
      PROVE  Cell!Next \/ UNCHANGED Cell!vars
  <2>0. UNCHANGED <<content, mixed>>
    BY <1>4 DEF Rename
  <2>1. CASE Step(w, "rename", "cleanup") /\ UNCHANGED <<file, tmp, older>>
    <3>1. cells' = cells /\ pasts' = pasts
      BY <2>0, <2>1 DEF Known, ValueOf
    <3>2. /\ pc[w] = "rename" /\ pc'[w] = "cleanup"
          /\ \A u \in Writers : u # w => pc'[u] = pc[u]
          /\ fd' = fd /\ val' = val
      BY <2>1, PcFacts
    <3>3. \A u \in Writers : InWriting(u)' = InWriting(u)
      BY <2>0, <3>2 DEF InWriting, Open
    <3>4. pends' = pends
      BY <3>3
    <3> QED  BY <1>0, <3>1, <3>4
  <2>2. CASE /\ Return(w, "rename") /\ tmp # NoInode
             /\ file' = tmp /\ tmp' = NoInode /\ older' = older \union {file}
    <3>1. /\ pc[w] = "rename" /\ pc'[w] = "idle"
          /\ \A u \in Writers : u # w =>
               pc'[u] = pc[u] /\ fd'[u] = fd[u] /\ val'[u] = val[u]
      BY <2>2, PcFacts
    <3>2. Open(w)
      BY <3>1 DEF Open
    <3>3. Known(tmp) = InWriting(w)
      BY <2>2, <3>1, <3>2 DEF Known, ValueOf, InWriting, Alone
    <3>4. \A i : Known(i)' = Known(i)
      BY <2>0 DEF Known, ValueOf
    <3>5. cells' = pends[w] /\ pasts' = pasts \union {cells}
      BY <2>2, <3>3, <3>4
    <3>6. InWriting(w)' = NoValue
      BY <3>1 DEF InWriting, Open
    <3>7. \A u \in Writers : u # w => InWriting(u)' = InWriting(u)
      BY <2>0, <3>1 DEF InWriting, Open
    <3>8. pends' = [pends EXCEPT ![w] = NoValue]
      BY <3>6, <3>7
    <3>9. Cell!Take(w)
      BY <1>w, <3>2, <3>5, <3>8 DEF Cell!Take, Cell!Replace, Cell!Writing
    <3> QED  BY <3>9 DEF Cell!Next
  <2> QED  BY <1>4, <2>1, <2>2 DEF Rename
<1>5. ASSUME NEW w \in Writers, CleanUp(w)
      PROVE  Cell!Next
  <2>1. Return(w, "cleanup") /\ UNCHANGED <<file, content, older, mixed>>
    BY <1>5 DEF CleanUp
  <2>2. /\ pc[w] = "cleanup" /\ pc'[w] = "idle"
        /\ \A u \in Writers : u # w =>
             pc'[u] = pc[u] /\ fd'[u] = fd[u] /\ val'[u] = val[u]
    BY <2>1, PcFacts
  <2>3. cells' = cells /\ pasts' = pasts
    BY <2>1 DEF Known, ValueOf
  <2>4. InWriting(w)' = NoValue
    BY <2>2 DEF InWriting, Open
  <2>5. \A u \in Writers : u # w => InWriting(u)' = InWriting(u)
    BY <2>1, <2>2 DEF InWriting, Open
  <2>6. pends' = [pends EXCEPT ![w] = NoValue]
    BY <2>4, <2>5
  <2>7. Cell!Abandon(w)
    BY <1>w, <2>2, <2>3, <2>6 DEF Cell!Abandon, Cell!Writing, Open
  <2> QED  BY <2>7 DEF Cell!Next
<1>6. ASSUME NEW w \in Writers, Delete(w)
      PROVE  Cell!Next
  <2>1. file' = NoInode /\ older' = older \union {file}
        /\ UNCHANGED <<content, pc, fd, val, mixed>>
    BY <1>6 DEF Delete
  <2>2. \A i : Known(i)' = Known(i)
    BY <2>1 DEF Known, ValueOf
  <2>3. cells' = Absent /\ pasts' = pasts \union {cells}
    BY <2>1, <2>2 DEF Known, ValueOf
  <2>4. \A u \in Writers : InWriting(u)' = InWriting(u)
    BY <2>1 DEF InWriting, Open
  <2>5. pends' = pends
    BY <2>4
  <2>6. Cell!Remove(w)
    BY <1>6, <1>w, <2>3, <2>5
       DEF Delete, Cell!Remove, Cell!Replace, Cell!Writing
  <2> QED  BY <2>6 DEF Cell!Next
<1>7. CASE Crash
  <2>1. cells' = cells /\ pasts' = pasts
    BY <1>7 DEF Crash, Known, ValueOf
  <2>2. pends' = [w \in Writers |-> NoValue]
    BY <1>7 DEF Crash, AllIdle, InWriting, Open
  <2>3. Cell!Crash
    BY <2>1, <2>2 DEF Cell!Crash, Cell!Nothing
  <2> QED  BY <2>3 DEF Cell!Next
<1>8. CASE Flush
  <2>1. cells' = cells /\ pasts' = {}
    BY <1>8 DEF Flush, Known, ValueOf
  <2>2. pends' = pends
    BY <1>8 DEF Flush, InWriting, Open
  <2>3. Cell!Flush
    BY <2>1, <2>2 DEF Cell!Flush
  <2> QED  BY <2>3 DEF Cell!Next
<1>9. CASE PowerLoss
  <2>1. file' \in older \union {file} /\ older' = {}
    BY <1>9 DEF PowerLoss
  <2>2. file' # NoInode /\ file' \notin mixed => content'[file'] = content[file']
    BY <1>9, <2>1 DEF PowerLoss, Published, TypeOK, Names
  <2>3. file' \in mixed <=> file' \in mixed'
    BY <1>9 DEF PowerLoss
  <2>4. Known(file)' = Known(file')
    BY <2>2, <2>3 DEF Known, ValueOf
  <2>5. cells' \in pasts \union {cells} /\ pasts' = {}
    BY <2>1, <2>4
  <2>6. pends' = [w \in Writers |-> NoValue]
    BY <1>9 DEF PowerLoss, AllIdle, InWriting, Open
  <2>7. Cell!PowerLoss
    BY <2>5, <2>6 DEF Cell!PowerLoss, Cell!Nothing
  <2> QED  BY <2>7 DEF Cell!Next
<1>10. CASE UNCHANGED vars
  <2>1. cells' = cells /\ pasts' = pasts
    BY <1>10 DEF vars, Known, ValueOf
  <2>2. pends' = pends
    BY <1>10 DEF vars, InWriting, Open
  <2> QED  BY <1>0, <2>1, <2>2
<1> QED  BY <1>1, <1>2, <1>3, <1>4, <1>5, <1>6, <1>7, <1>8, <1>9, <1>10 DEF Next

\* The initial states are initial states of the atomic cell.
LEMMA CellInit == Init => Cell!Init
  BY DEF Init, Cell!Init, Cell!Nothing, Known, ValueOf, InWriting, Open

\* The write path implements a cell that is replaced in one step as long as no
\* calls overlap, and that calls that overlap may leave as anything: what
\* StorageElement takes attr.Write and SaveMode to be.
THEOREM WriteIsAtomic == Spec => IsAtomicCell
<1>1. FileInv /\ [Next]_vars => [Cell!Next]_(Cell!vars)
  BY CellStep
<1> QED  BY <1>1, CellInit, FileInvariant, PTL DEF Spec, IsAtomicCell, Cell!Spec

=============================================================================

------------------------- MODULE RegistrySyncProofs -------------------------
(***************************************************************************)
(* Proofs about RegistrySync, for every number of files, of overlapping    *)
(* synchronisations and of changes, and every page size.                   *)
(***************************************************************************)
EXTENDS RegistrySync, SequenceTheorems, TLAPS

-----------------------------------------------------------------------------
(* The listing as a sequence.                                              *)

\* A file is inserted: what stood from there on moves one place back.
LEMMA Inserted ==
  ASSUME NEW S, NEW l \in Seq(S), NEW i \in 1..Len(l) + 1, NEW e \in S
  PROVE  /\ InsertAt(l, i, e) \in Seq(S)
         /\ Len(InsertAt(l, i, e)) = Len(l) + 1
         /\ \A j \in 1..Len(l) + 1 : InsertAt(l, i, e)[j] =
               IF j < i THEN l[j] ELSE IF j = i THEN e ELSE l[j - 1]
<1>1. SubSeq(l, 1, i - 1) \in Seq(S) /\ Len(SubSeq(l, 1, i - 1)) = i - 1
      /\ \A j \in 1..i - 1 : SubSeq(l, 1, i - 1)[j] = l[j]
  OBVIOUS
<1>2. SubSeq(l, i, Len(l)) \in Seq(S) /\ Len(SubSeq(l, i, Len(l))) = Len(l) + 1 - i
      /\ \A j \in 1..Len(l) + 1 - i : SubSeq(l, i, Len(l))[j] = l[i + j - 1]
  OBVIOUS
<1>3. <<e>> \in Seq(S) /\ Len(<<e>>) = 1 /\ <<e>>[1] = e
  OBVIOUS
<1> DEFINE front == SubSeq(l, 1, i - 1) \o <<e>>
<1>4. front \in Seq(S) /\ Len(front) = i
      /\ \A j \in 1..i : front[j] = IF j < i THEN l[j] ELSE e
  BY <1>1, <1>3, ConcatProperties
<1>5. InsertAt(l, i, e) = front \o SubSeq(l, i, Len(l))
  BY DEF InsertAt
<1> HIDE DEF front
<1> QED
  BY <1>2, <1>4, <1>5, ConcatProperties

\* A file is removed: what stood behind it moves one place forward.
LEMMA Removed ==
  ASSUME NEW S, NEW l \in Seq(S), NEW i \in 1..Len(l)
  PROVE  /\ RemoveAt(l, i) \in Seq(S)
         /\ Len(RemoveAt(l, i)) = Len(l) - 1
         /\ \A j \in 1..Len(l) - 1 : RemoveAt(l, i)[j] =
               IF j < i THEN l[j] ELSE l[j + 1]
<1> DEFINE front == SubSeq(l, 1, i - 1)
           back == SubSeq(l, i + 1, Len(l))
<1>1. front \in Seq(S) /\ Len(front) = i - 1 /\ \A j \in 1..i - 1 : front[j] = l[j]
  OBVIOUS
<1>2. back \in Seq(S) /\ Len(back) = Len(l) - i /\ \A j \in 1..Len(l) - i : back[j] = l[i + j]
  OBVIOUS
<1>3. RemoveAt(l, i) = front \o back
  BY DEF RemoveAt
<1>4. i \in Nat /\ Len(l) \in Nat /\ 1 <= i /\ i <= Len(l)
  OBVIOUS
<1> HIDE DEF front, back
<1>5. /\ front \o back \in Seq(S)
      /\ Len(front \o back) = Len(front) + Len(back)
      /\ \A j \in 1..Len(front) + Len(back) :
            (front \o back)[j] = IF j <= Len(front) THEN front[j] ELSE back[j - Len(front)]
  BY <1>1, <1>2, ConcatProperties
<1>6. ASSUME NEW j \in 1..Len(l) - 1
      PROVE  (front \o back)[j] = IF j < i THEN l[j] ELSE l[j + 1]
  <2>1. CASE j < i
    BY <1>1, <1>2, <1>4, <1>5, <2>1
  <2>2. CASE ~(j < i)
    <3>1. j - (i - 1) \in 1..Len(l) - i /\ j \in 1..Len(front) + Len(back) /\ ~(j <= Len(front))
      BY <1>1, <1>2, <1>4, <2>2
    <3>2. back[j - (i - 1)] = l[i + (j - (i - 1))] /\ i + (j - (i - 1)) = j + 1
      BY <1>2, <1>4, <3>1
    <3> QED
      BY <1>1, <1>5, <2>2, <3>1, <3>2
  <2> QED
    BY <2>1, <2>2
<1> QED
  BY <1>1, <1>2, <1>3, <1>4, <1>5, <1>6

-----------------------------------------------------------------------------
(* Types.  A synchronisation under way has a row in hand, and one that     *)
(* writes a page has a page; the listing names each file once, and only    *)
(* files that have metadata.                                               *)

ListingOK ==
  /\ \A i, j \in 1..Len(listing) : listing[i] = listing[j] => i = j
  /\ \A i \in 1..Len(listing) : listing[i] \in uploaded /\ meta[listing[i]] # None

InHand(s) ==
  /\ sync[s].pc # "idle" => sync[s].row # None
  /\ sync[s].pc = "upsert" => sync[s].page # <<>>

TypeInv == TypeOK /\ ListingOK /\ \A s \in Syncs : InHand(s)

\* A page holds the files behind the offset, with their metadata, as many as fit.
LEMMA PageOK ==
  ASSUME TypeInv, NEW o \in Nat
  PROVE  /\ Page(o) \in Seq(Listed)
         /\ Len(Page(o)) \in 0..PageSize
         /\ Len(Page(o)) < PageSize => o + Len(Page(o)) >= Len(listing)
         /\ Page(o) # <<>> => o + Len(Page(o)) <= Len(listing)
         /\ Page(o) = <<>> => o >= Len(listing)
         /\ \A i \in 1..Len(Page(o)) :
               /\ o + i \in 1..Len(listing)
               /\ Page(o)[i].file = listing[o + i]
               /\ Page(o)[i].meta = meta[listing[o + i]]
<1> DEFINE n == Len(listing) - o
           k == IF n < 0 THEN 0 ELSE IF n < PageSize THEN n ELSE PageSize
<1>1. listing \in Seq(Files) /\ Len(listing) \in Nat /\ PageSize \in Nat \ {0}
  BY RegistryOK DEF TypeInv, TypeOK, RegistryOK
<1>2. k \in Nat /\ n \in Int /\ k <= PageSize /\ (k # 0 => k <= n)
      /\ (k < PageSize => n <= k)
  BY <1>1
<1>3. Page(o) = [i \in 1..k |-> [file |-> listing[o + i], meta |-> meta[listing[o + i]]]]
  BY DEF Page
<1> HIDE DEF k
<1>4. \A i \in 1..k : o + i \in 1..Len(listing)
  BY <1>1, <1>2
<1>5. \A i \in 1..k : [file |-> listing[o + i], meta |-> meta[listing[o + i]]] \in Listed
  BY <1>1, <1>4 DEF TypeInv, TypeOK, ListingOK, Listed
<1>6. Page(o) \in Seq(Listed) /\ Len(Page(o)) = k /\ DOMAIN Page(o) = 1..k
  <2>1. Page(o) \in [1..k -> Listed]
    BY <1>3, <1>5
  <2>2. Page(o) \in Seq(Listed)
    BY <1>2, <2>1, IsASeq
  <2> QED
    BY <1>2, <2>1, <2>2, LenProperties
<1>7. \A i \in 1..k : Page(o)[i].file = listing[o + i] /\ Page(o)[i].meta = meta[listing[o + i]]
  BY <1>3
<1>8. Page(o) = <<>> <=> k = 0
  BY <1>2, <1>6
<1> QED
  BY <1>1, <1>2, <1>4, <1>6, <1>7, <1>8

\* A synchronisation takes a step: what it holds afterwards is in order.
LEMMA SyncTyped ==
  ASSUME TypeInv, NEW s \in Syncs, NEW r \in Syncing,
         sync' = [sync EXCEPT ![s] = r],
         r.pc # "idle" => r.row # None,
         r.pc = "upsert" => r.page # <<>>
  PROVE  sync' \in [Syncs -> Syncing] /\ \A t \in Syncs : InHand(t)'
<1>1. sync \in [Syncs -> Syncing] /\ \A t \in Syncs : InHand(t)
  BY DEF TypeInv, TypeOK
<1>2. sync' \in [Syncs -> Syncing]
  BY <1>1
<1>3. \A t \in Syncs : sync'[t] = IF t = s THEN r ELSE sync[t]
  BY <1>1
<1> QED
  BY <1>1, <1>2, <1>3 DEF InHand

LEMMA TypeInit == Init => TypeInv
<1> SUFFICES ASSUME Init PROVE TypeInv
  OBVIOUS
<1>1. listing \in Seq(Files)
  BY DEF Init
<1>2. ListingOK
  BY <1>1 DEF Init, ListingOK, IsInjective, ToSet
<1>3. uploaded \subseteq Files
  BY <1>1 DEF Init, ToSet
<1>4. sync \in [Syncs -> Syncing] /\ \A s \in Syncs : InHand(s)
  BY DEF Init, IdleSync, Syncing, Steps, InHand
<1> QED
  BY <1>1, <1>2, <1>3, <1>4 DEF Init, TypeInv, TypeOK

\* What the environment does keeps the types.
LEMMA TypeSE ==
  ASSUME TypeInv, SENext, alone' = {}
  PROVE  TypeInv'
<1>1. ASSUME NEW f \in Files, NEW d \in Descs, NEW i \in 1..Len(listing) + 1, SEUpload(f, d, i)
      PROVE  TypeInv'
  <2>1. listing \in Seq(Files) /\ f \notin uploaded
    BY <1>1 DEF TypeInv, TypeOK, SEUpload
  <2>0. listing' = InsertAt(listing, i, f)
    BY <1>1 DEF SEUpload
  <2>2. listing' \in Seq(Files) /\ Len(listing') = Len(listing) + 1
        /\ \A j \in 1..Len(listing) + 1 : listing'[j] =
               IF j < i THEN listing[j] ELSE IF j = i THEN f ELSE listing[j - 1]
    BY SMTT(20), <1>1, <2>0, <2>1, Inserted
  <2>3. [status |-> "active", desc |-> d] \in Meta /\ [status |-> "active", desc |-> d] # None
    BY <1>1, NoneOK DEF Meta, Statuses, NoneOK
  <2>4. \A j \in 1..Len(listing) : listing[j] \in uploaded /\ meta[listing[j]] # None /\ listing[j] # f
    BY <2>1 DEF TypeInv, ListingOK
  <2>5. Len(listing) \in Nat /\ \A j \in 1..Len(listing') :
           \/ j < i /\ j \in 1..Len(listing) /\ listing'[j] = listing[j]
           \/ j = i /\ listing'[j] = f
           \/ j > i /\ j - 1 \in 1..Len(listing) /\ listing'[j] = listing[j - 1]
    BY <2>1, <2>2
  <2>6. \A j \in 1..Len(listing') : listing'[j] \in uploaded' /\ meta'[listing'[j]] # None
    BY <1>1, <2>1, <2>3, <2>4, <2>5 DEF TypeInv, TypeOK, SEUpload
  <2>7. \A j, k \in 1..Len(listing') : listing'[j] = listing'[k] => j = k
    BY SMTT(20), <2>4, <2>5 DEF TypeInv, ListingOK
  <2>8. ListingOK'
    BY <2>6, <2>7 DEF ListingOK
  <2> QED
    BY <1>1, <2>2, <2>3, <2>8 DEF TypeInv, TypeOK, InHand, SEUpload, Event, dbVars
<1>2. ASSUME NEW f \in Files, NEW m \in Meta, SEModify(f, m)
      PROVE  TypeInv'
  BY <1>2, NoneOK DEF TypeInv, TypeOK, InHand, ListingOK, SEModify, Event, dbVars, NoneOK
<1>3. ASSUME NEW i \in 1..Len(listing), SECollect(i)
      PROVE  TypeInv'
  <2>1. listing \in Seq(Files) /\ listing[i] \in Files
    BY <1>3 DEF TypeInv, TypeOK
  <2>2. listing' \in Seq(Files) /\ Len(listing') = Len(listing) - 1
        /\ \A j \in 1..Len(listing) - 1 : listing'[j] =
               IF j < i THEN listing[j] ELSE listing[j + 1]
    BY <1>3, <2>1, Removed DEF SECollect
  <2>5. Len(listing) \in Nat /\ \A j \in 1..Len(listing') :
           \/ j < i /\ j \in 1..Len(listing) /\ listing'[j] = listing[j]
           \/ j >= i /\ j + 1 \in 1..Len(listing) /\ listing'[j] = listing[j + 1]
    BY <1>3, <2>1, <2>2
  <2>6. \A j, k \in 1..Len(listing') : listing'[j] = listing'[k] => j = k
    BY <1>3, <2>5 DEF TypeInv, ListingOK
  <2>7. \A j \in 1..Len(listing') : listing'[j] # listing[i]
    BY <1>3, <2>5 DEF TypeInv, ListingOK
  <2>8. \A j \in 1..Len(listing') : listing'[j] \in uploaded' /\ meta'[listing'[j]] # None
    BY <1>3, <2>1, <2>5, <2>7 DEF TypeInv, TypeOK, ListingOK, SECollect
  <2>3. ListingOK'
    BY <2>6, <2>8 DEF ListingOK
  <2>4. sync' \in [Syncs -> Syncing] /\ \A s \in Syncs : InHand(s)'
    BY ZenonT(60), <1>3 DEF TypeInv, TypeOK, InHand, SECollect, Syncing
  <2> QED
    BY <1>3, <2>2, <2>3, <2>4 DEF TypeInv, TypeOK, SECollect, Event, dbVars
<1>4. ASSUME NEW m \in Modes, SETransition(m)
      PROVE  TypeInv'
  BY <1>4 DEF TypeInv, TypeOK, InHand, ListingOK, SETransition, Event, dbVars
<1> QED
  BY <1>1, <1>2, <1>3, <1>4 DEF SENext

LEMMA TypeAdmin ==
  ASSUME TypeInv, AdminNext \/ ClientNext, alone' = {}
  PROVE  TypeInv'
<1> USE DEF TypeInv, TypeOK, InHand, ListingOK, Event, seVars, dbVars
<1>1. ASSUME NEW id \in Ids, NEW n \in Names, CreateSE(id, n)
      PROVE  TypeInv'
  BY <1>1 DEF CreateSE, Row
<1>2. CASE DeleteSE
  BY <1>2 DEF DeleteSE, DropRow
<1>3. ASSUME NEW n \in Names, UpdateSERead(n)
      PROVE  TypeInv'
  BY <1>3 DEF UpdateSERead, Row
<1>4. CASE UpdateSEWrite
  BY <1>4 DEF UpdateSEWrite, WriteRow
<1>5. ASSUME NEW f \in Files, NEW d \in Descs, Register(f, d)
      PROVE  TypeInv'
  BY <1>5 DEF Register, Row, Record, Statuses
<1>6. ASSUME NEW f \in Files, NEW m \in Meta, UpdateFileRead(f, m)
      PROVE  TypeInv'
  BY <1>6 DEF UpdateFileRead, Record, Meta
<1>7. CASE UpdateFileWrite
  BY <1>7 DEF UpdateFileWrite, Record
<1>8. ASSUME NEW f \in Files, DeleteFile(f)
      PROVE  TypeInv'
  BY <1>8 DEF DeleteFile, SoftDelete, Record, Statuses
<1> QED
  BY <1>1, <1>2, <1>3, <1>4, <1>5, <1>6, <1>7, <1>8 DEF AdminNext, ClientNext

\* The steps of a synchronisation keep the types.
LEMMA TypeSync ==
  ASSUME TypeInv, NEW s \in Syncs, SyncBegin(s) \/ SyncStep(s)
  PROVE  TypeInv'
<1> USE DEF seVars, dbVars
<1>0. /\ sync \in [Syncs -> Syncing] /\ sync[s] \in Syncing
      /\ sync[s].pc # "idle" => sync[s].row \in Row
      /\ sync[s].pc = "upsert" => sync[s].page # <<>>
      /\ IdleSync \in Syncing /\ IdleSync.pc = "idle"
  BY DEF TypeInv, TypeOK, InHand, Syncing, IdleSync, Steps
<1>1. CASE SyncBegin(s)
  <2> DEFINE r == [IdleSync EXCEPT !.pc = "info", !.row = row]
  <2>1. r \in Syncing /\ r.row = row /\ r.pc = "info"
    BY <1>0, <1>1 DEF TypeInv, TypeOK, Syncing, Steps
  <2>2. sync' = [sync EXCEPT ![s] = r] /\ row # None
    BY <1>1 DEF SyncBegin
  <2> HIDE DEF r
  <2>3. sync' \in [Syncs -> Syncing] /\ \A t \in Syncs : InHand(t)'
    BY <2>1, <2>2, SyncTyped
  <2> QED
    BY <1>1, <2>3 DEF TypeInv, TypeOK, ListingOK, SyncBegin
<1>2. CASE SyncInfo(s) /\ alone' = alone \cap {s}
  <2> DEFINE r == [sync[s] EXCEPT !.pc = "list", !.row.mode = seMode, !.still = ToSet(listing)]
  <2>1. ToSet(listing) \subseteq Files
    BY DEF TypeInv, TypeOK, ToSet
  <2>2. [sync[s].row EXCEPT !.mode = seMode] \in Row
    BY <1>0, <1>2 DEF TypeInv, TypeOK, SyncInfo, Row
  <2>3. r = [sync[s] EXCEPT !.pc = "list", !.row = [sync[s].row EXCEPT !.mode = seMode],
                            !.still = ToSet(listing)]
    BY <1>0 DEF Syncing
  <2>4. r \in Syncing /\ r.row # None /\ r.pc = "list"
    BY <1>0, <2>1, <2>2, <2>3, NoneOK DEF Syncing, Steps, NoneOK
  <2>5. sync' = [sync EXCEPT ![s] = r]
    BY <1>2 DEF SyncInfo
  <2> HIDE DEF r
  <2>6. sync' \in [Syncs -> Syncing] /\ \A t \in Syncs : InHand(t)'
    BY <2>4, <2>5, SyncTyped
  <2> QED
    BY <1>2, <2>6 DEF TypeInv, TypeOK, ListingOK, SyncInfo
<1>3. CASE SyncList(s) /\ alone' = alone \cap {s}
  <2> DEFINE p == Page(sync[s].offset)
             r == [sync[s] EXCEPT !.pc = IF p = <<>> THEN "mark" ELSE "upsert",
                                  !.ids = @ \cup FilesOf(p), !.page = p,
                                  !.offset = @ + Len(p), !.got = Len(p)]
  <2>1. sync[s].offset \in Nat
    BY <1>0 DEF Syncing
  <2>2. p \in Seq(Listed) /\ Len(p) \in Nat
    <3>1. p \in Seq(Listed)
      BY <2>1, PageOK
    <3> QED
      BY <3>1, LenProperties
  <2>5. sync' = [sync EXCEPT ![s] = r] /\ sync[s].pc = "list"
    BY <1>3 DEF SyncList
  <2> HIDE DEF p
  <2>3. FilesOf(p) \subseteq Files
    <3>1. \A i \in 1..Len(p) : p[i] \in Listed
      BY <2>2, ElementOfSeq
    <3> QED
      BY <3>1 DEF FilesOf, Listed
  <2>4. r \in Syncing /\ r.row = sync[s].row /\ r.page = p /\ (r.pc = "upsert" => p # <<>>)
    <3>1. (IF p = <<>> THEN "mark" ELSE "upsert") \in Steps
      BY DEF Steps
    <3>2. sync[s].ids \cup FilesOf(p) \in SUBSET Files /\ sync[s].offset + Len(p) \in Nat
      BY <1>0, <2>1, <2>2, <2>3 DEF Syncing
    <3>3. r \in Syncing
      BY <1>0, <2>2, <3>1, <3>2 DEF Syncing
    <3>4. r.row = sync[s].row /\ r.page = p /\ r.pc = IF p = <<>> THEN "mark" ELSE "upsert"
      BY <1>0 DEF Syncing
    <3> HIDE DEF r
    <3> QED
      BY <3>3, <3>4
  <2>6. sync[s].row # None
    BY <2>5 DEF TypeInv, InHand
  <2> HIDE DEF r
  <2>7. sync' \in [Syncs -> Syncing] /\ \A t \in Syncs : InHand(t)'
    BY <2>4, <2>5, <2>6, SyncTyped
  <2> QED
    BY <1>3, <2>7 DEF TypeInv, TypeOK, ListingOK, SyncList
<1>4. CASE SyncUpsert(s) /\ alone' = alone \cap {s}
  <2> DEFINE p == sync[s].page
             r == [sync[s] EXCEPT !.page = Tail(@),
                                  !.pc = IF Len(sync[s].page) > 1 THEN "upsert"
                                         ELSE IF sync[s].got < PageSize THEN "mark" ELSE "list"]
  <2>1. p \in Seq(Listed) /\ p # <<>> /\ sync[s].row \in Row /\ sync[s].row # None
    BY <1>0, <1>4 DEF TypeInv, InHand, Syncing, SyncUpsert
  <2>2. Head(p) \in Listed /\ Tail(p) \in Seq(Listed) /\ Len(Tail(p)) = Len(p) - 1 /\ Len(p) \in Nat
    BY <2>1, HeadTailProperties
  <2>3. Len(p) > 1 => Tail(p) # <<>>
    <3>1. Tail(p) \in Seq(Listed)
      BY <2>2
    <3>2. Tail(p) = <<>> <=> Len(Tail(p)) = 0
      BY <3>1, EmptySeq
    <3> HIDE DEF p
    <3> QED
      BY <2>2, <3>2
  <2>4. registry' \in [Files -> Record \cup {None}]
    BY <1>4, <2>1, <2>2 DEF TypeInv, TypeOK, SyncUpsert, Upsert, Listed, Meta, Record, Row
  <2>5. r \in Syncing /\ r.row = sync[s].row /\ r.page = Tail(p) /\ (r.pc = "upsert" => Len(p) > 1)
    BY <1>0, <2>2 DEF Syncing, Steps
  <2>6. sync' = [sync EXCEPT ![s] = r]
    BY <1>4 DEF SyncUpsert
  <2> HIDE DEF r, p
  <2>7. sync' \in [Syncs -> Syncing] /\ \A t \in Syncs : InHand(t)'
    BY <2>1, <2>3, <2>5, <2>6, SyncTyped
  <2> QED
    BY <1>4, <2>4, <2>7 DEF TypeInv, TypeOK, ListingOK, SyncUpsert
<1>5. CASE (SyncReject(s) \/ SyncFail(s)) /\ alone' = alone \cap {s}
  <2>1. sync' = [sync EXCEPT ![s] = IdleSync]
    BY <1>5 DEF SyncReject, SyncFail
  <2>2. sync' \in [Syncs -> Syncing] /\ \A t \in Syncs : InHand(t)'
    BY <1>0, <2>1, SyncTyped
  <2> QED
    BY <1>5, <2>2 DEF TypeInv, TypeOK, ListingOK, SyncReject, SyncFail, Event
<1>6. CASE SyncMark(s) /\ alone' = alone \cap {s}
  <2> DEFINE r == [sync[s] EXCEPT !.pc = "update"]
  <2>1. r \in Syncing /\ r.row = sync[s].row /\ r.pc = "update"
    BY <1>0 DEF Syncing, Steps
  <2>2. sync' = [sync EXCEPT ![s] = r] /\ sync[s].row # None
    BY <1>6 DEF SyncMark, TypeInv, InHand
  <2> HIDE DEF r
  <2>3. sync' \in [Syncs -> Syncing] /\ \A t \in Syncs : InHand(t)'
    BY <2>1, <2>2, SyncTyped
  <2>4. registry' \in [Files -> Record \cup {None}]
    BY <1>6 DEF TypeInv, TypeOK, SyncMark, MarkDeletedExcept, Record, Statuses
  <2> QED
    BY <1>6, <2>3, <2>4 DEF TypeInv, TypeOK, ListingOK, SyncMark
<1>7. CASE SyncUpdate(s) /\ alone' = alone \cap {s}
  <2>1. sync' = [sync EXCEPT ![s] = IdleSync] /\ row' \in Row \cup {None}
    BY <1>0, <1>7 DEF TypeInv, TypeOK, SyncUpdate, WriteRow
  <2>2. sync' \in [Syncs -> Syncing] /\ \A t \in Syncs : InHand(t)'
    BY <1>0, <2>1, SyncTyped
  <2> QED
    BY <1>7, <2>1, <2>2 DEF TypeInv, TypeOK, ListingOK, SyncUpdate
<1> QED
  BY <1>1, <1>2, <1>3, <1>4, <1>5, <1>6, <1>7 DEF SyncStep

LEMMA TypeStep == TypeInv /\ [Next]_vars => TypeInv'
<1>1. ASSUME TypeInv, UNCHANGED vars PROVE TypeInv'
  BY <1>1 DEF TypeInv, TypeOK, InHand, ListingOK, vars, seVars, dbVars
<1> QED
  BY <1>1, TypeSE, TypeAdmin, TypeSync DEF Next

LEMMA TypeAlways == Spec => []TypeInv
BY TypeInit, TypeStep, PTL DEF Spec

\* Every variable keeps its type.
THEOREM TypeCorrect == Spec => []TypeOK
<1>1. TypeInv => TypeOK
  BY DEF TypeInv
<1> QED
  BY <1>1, TypeAlways, PTL

-----------------------------------------------------------------------------
(* No record outlives the row of its SE, though synchronisations do.       *)

LEMMA OrphansStep == TypeInv /\ NoOrphans /\ [Next]_vars => NoOrphans'
<1> SUFFICES ASSUME TypeInv, NoOrphans, [Next]_vars PROVE NoOrphans'
  OBVIOUS
<1> USE DEF NoOrphans
<1>0. row \in Row \cup {None} /\ registry \in [Files -> Record \cup {None}]
      /\ sync \in [Syncs -> Syncing]
  BY DEF TypeInv, TypeOK
<1>1. CASE UNCHANGED <<row, registry>>
  BY <1>1
<1>2. ASSUME NEW id \in Ids, NEW n \in Names, CreateSE(id, n) PROVE NoOrphans'
  BY <1>2 DEF CreateSE
<1>3. CASE DeleteSE
  BY <1>0, <1>3 DEF DeleteSE, DropRow
<1>4. ASSUME NEW r \in Row, row' = WriteRow(r), registry' = registry PROVE NoOrphans'
  BY <1>0, <1>4, NoneOK DEF WriteRow, NoneOK
<1>5. ASSUME NEW f \in Files, NEW d \in Descs, Register(f, d) PROVE NoOrphans'
  BY <1>0, <1>5 DEF Register, dbVars
<1>6. CASE UpdateFileWrite
  BY <1>0, <1>6 DEF TypeInv, TypeOK, UpdateFileWrite, Record
<1>7. ASSUME NEW f \in Files, DeleteFile(f) PROVE NoOrphans'
  BY <1>0, <1>7 DEF DeleteFile, SoftDelete, Record
<1>8. ASSUME NEW s \in Syncs, SyncUpsert(s) PROVE NoOrphans'
  BY <1>0, <1>8 DEF SyncUpsert, Upsert, Insertable
<1>9. ASSUME NEW s \in Syncs, SyncMark(s) PROVE NoOrphans'
  BY <1>0, <1>9 DEF SyncMark, MarkDeletedExcept, Record
<1>10. CASE SENext
  BY <1>1, <1>10 DEF SENext, SEUpload, SEModify, SECollect, SETransition, dbVars
<1>11. CASE AdminNext
  <2>1. ASSUME NEW n \in Names, UpdateSERead(n) PROVE NoOrphans'
    BY <1>1, <2>1 DEF UpdateSERead, dbVars
  <2>2. CASE UpdateSEWrite
    BY <1>4, <2>2 DEF TypeInv, TypeOK, UpdateSEWrite
  <2> QED
    BY <1>2, <1>3, <1>11, <2>1, <2>2 DEF AdminNext
<1>12. CASE ClientNext
  <2>1. ASSUME NEW f \in Files, NEW m \in Meta, UpdateFileRead(f, m) PROVE NoOrphans'
    BY <1>1, <2>1 DEF UpdateFileRead, dbVars
  <2> QED
    BY <1>5, <1>6, <1>7, <1>12, <2>1 DEF ClientNext
<1>13. ASSUME NEW s \in Syncs, SyncBegin(s) \/ SyncStep(s) PROVE NoOrphans'
  <2>1. CASE SyncUpdate(s)
    <3>1. sync[s].row \in Row
      BY <1>0, <2>1 DEF TypeInv, InHand, SyncUpdate, Syncing
    <3> QED
      BY <1>4, <2>1, <3>1 DEF SyncUpdate
  <2>2. CASE SyncBegin(s) \/ SyncInfo(s) \/ SyncList(s) \/ SyncReject(s) \/ SyncFail(s)
    BY <1>1, <2>2 DEF SyncBegin, SyncInfo, SyncList, SyncReject, SyncFail, dbVars
  <2> QED
    BY <1>8, <1>9, <1>13, <2>1, <2>2 DEF SyncStep
<1>14. CASE UNCHANGED vars
  BY <1>1, <1>14 DEF vars, dbVars
<1> QED
  BY <1>10, <1>11, <1>12, <1>13, <1>14 DEF Next

LEMMA OrphansAlways == Spec => []NoOrphans
<1>1. Init => NoOrphans
  BY DEF Init, NoOrphans
<1> QED
  BY <1>1, TypeAlways, OrphansStep, PTL DEF Spec

\* Every record belongs to the present row of the SE, however many rows it had
\* and however long the synchronisations begun with an earlier one take.
THEOREM RecordsHaveTheirRow == Spec => []NoOrphans
BY OrphansAlways

-----------------------------------------------------------------------------
(* Paging.  A file that was there when the listing began, and that no      *)
(* removal has moved across the offset, is in the pages read or stands     *)
(* behind the offset.                                                      *)

Ahead(s) ==
  /\ sync[s].still \subseteq ToSet(listing)
  /\ \A p \in 1..Len(listing) :
        listing[p] \in sync[s].still => listing[p] \in sync[s].ids \/ p > sync[s].offset

Through(s) ==
  sync[s].pc = "mark" \/ (sync[s].pc = "upsert" /\ sync[s].got < PageSize)

SkipInv(s) ==
  /\ sync[s].pc \in {"idle", "info"} => sync[s].offset = 0
  /\ sync[s].pc \in {"list", "upsert", "mark"} => Ahead(s)
  /\ Through(s) => sync[s].still \subseteq sync[s].ids

PagingInv == \A s \in Syncs : SkipInv(s)

\* Nothing of the listing changes, nor of this synchronisation.
LEMMA SkipSame ==
  ASSUME NEW s \in Syncs, SkipInv(s), listing' = listing, sync'[s] = sync[s]
  PROVE  SkipInv(s)'
BY DEF SkipInv, Ahead, Through, ToSet

LEMMA SkipUpload ==
  ASSUME TypeInv, NEW s \in Syncs, SkipInv(s),
         NEW f \in Files, NEW d \in Descs, NEW i \in 1..Len(listing) + 1, SEUpload(f, d, i)
  PROVE  SkipInv(s)'
<1>1. listing' = InsertAt(listing, i, f) /\ sync' = sync /\ f \notin uploaded
  BY DEF SEUpload
<1>2. listing \in Seq(Files) /\ Len(listing) \in Nat /\ sync[s].offset \in Nat
  BY DEF TypeInv, TypeOK, Syncing
<1>3. Len(listing') = Len(listing) + 1
      /\ \A j \in 1..Len(listing) + 1 : listing'[j] =
             IF j < i THEN listing[j] ELSE IF j = i THEN f ELSE listing[j - 1]
  BY SMTT(20), <1>1, <1>2, Inserted
<1>4. listing' \in Seq(Files)
  BY <1>1, <1>2, Inserted
<1>5. ASSUME Ahead(s) PROVE Ahead(s)'
  <2>1. f \notin sync[s].still
    BY <1>1, <1>5 DEF Ahead, ToSet, TypeInv, ListingOK
  <2>2. \A j \in 1..Len(listing) : \E k \in 1..Len(listing') : listing'[k] = listing[j]
    <3> TAKE j \in 1..Len(listing)
    <3>1. CASE j < i
      BY <1>2, <1>3, <3>1
    <3>2. CASE ~(j < i)
      <4>1. j + 1 \in 1..Len(listing) + 1 /\ ~(j + 1 < i) /\ j + 1 # i /\ (j + 1) - 1 = j
        BY <1>2, <3>2
      <4> QED
        BY <1>3, <4>1
    <3> QED
      BY <3>1, <3>2
  <2>3. sync[s].still \subseteq ToSet(listing')
    BY <1>2, <1>4, <1>5, <2>2 DEF Ahead, ToSet
  <2>4. ASSUME NEW p \in 1..Len(listing'), listing'[p] \in sync[s].still
        PROVE  listing'[p] \in sync[s].ids \/ p > sync[s].offset
    <3>1. CASE p < i
      BY <1>2, <1>3, <1>5, <2>4, <3>1 DEF Ahead
    <3>2. CASE p > i
      <4>1. p - 1 \in 1..Len(listing) /\ listing'[p] = listing[p - 1]
        BY <1>2, <1>3, <3>2
      <4> QED
        BY <1>2, <1>5, <2>4, <4>1 DEF Ahead
    <3> QED
      BY <1>3, <2>1, <2>4, <3>1, <3>2
  <2> QED
    BY <1>1, <2>3, <2>4 DEF Ahead
<1> QED
  BY <1>1, <1>5 DEF SkipInv, Through

LEMMA SkipCollect ==
  ASSUME TypeInv, NEW s \in Syncs, SkipInv(s), NEW i \in 1..Len(listing), SECollect(i)
  PROVE  SkipInv(s)'
<1> DEFINE o == sync[s].offset
<1>1. listing' = RemoveAt(listing, i)
      /\ sync'[s] = [sync[s] EXCEPT !.still = @ \ Skipped(s, i)]
  BY DEF SECollect
<1>2. listing \in Seq(Files) /\ Len(listing) \in Nat /\ o \in Nat /\ sync[s] \in Syncing
  BY DEF TypeInv, TypeOK, Syncing
<1>3. Len(listing') = Len(listing) - 1 /\ listing' \in Seq(Files)
      /\ \A j \in 1..Len(listing) - 1 : listing'[j] =
             IF j < i THEN listing[j] ELSE listing[j + 1]
  BY <1>1, <1>2, Removed
<1>4. /\ sync'[s].pc = sync[s].pc /\ sync'[s].offset = o /\ sync'[s].ids = sync[s].ids
      /\ sync'[s].got = sync[s].got
      /\ sync'[s].still = sync[s].still \ Skipped(s, i)
  BY <1>1, <1>2 DEF Syncing
<1>5. listing[i] \in Skipped(s, i)
  BY DEF Skipped
<1>6. ASSUME Ahead(s) PROVE Ahead(s)'
  <2>1. \A j \in 1..Len(listing) : j # i => \E k \in 1..Len(listing') : listing'[k] = listing[j]
    <3> SUFFICES ASSUME NEW j \in 1..Len(listing), j # i
                 PROVE  \E k \in 1..Len(listing') : listing'[k] = listing[j]
      OBVIOUS
    <3>1. CASE j < i
      BY <1>2, <1>3, <3>1
    <3>2. CASE ~(j < i)
      <4>1. j - 1 \in 1..Len(listing) - 1 /\ ~(j - 1 < i) /\ (j - 1) + 1 = j
        BY <1>2, <3>2
      <4> QED
        BY <1>3, <4>1
    <3> QED
      BY <3>1, <3>2
  <2>2. sync'[s].still \subseteq ToSet(listing')
    <3> SUFFICES ASSUME NEW f \in sync[s].still, f # listing[i] PROVE f \in ToSet(listing')
      BY <1>4, <1>5
    <3>1. PICK j \in DOMAIN listing : listing[j] = f
      BY <1>6 DEF Ahead, ToSet
    <3>2. PICK k \in 1..Len(listing') : listing'[k] = listing[j]
      BY <1>2, <2>1, <3>1
    <3> QED
      BY <1>3, <3>1, <3>2 DEF ToSet
  <2>3. ASSUME NEW p \in 1..Len(listing'), listing'[p] \in sync'[s].still
        PROVE  listing'[p] \in sync'[s].ids \/ p > o
    <3>1. listing'[p] \in sync[s].still /\ listing'[p] \notin Skipped(s, i)
      BY <1>4, <2>3
    <3>2. CASE p < i
      BY <1>2, <1>3, <1>4, <1>6, <3>1, <3>2 DEF Ahead
    <3>3. CASE ~(p < i)
      <4>1. p + 1 \in 1..Len(listing) /\ listing'[p] = listing[p + 1]
        BY <1>2, <1>3, <3>3
      <4>2. listing[p + 1] \in sync[s].ids \/ p + 1 > o
        BY <1>6, <3>1, <4>1 DEF Ahead
      <4>3. CASE p = o
        <5>1. i <= o /\ o < Len(listing)
          BY <1>2, <3>3, <4>1, <4>3
        <5> QED
          BY <3>1, <4>1, <4>3, <5>1 DEF Skipped
      <4> QED
        BY <1>2, <1>4, <4>1, <4>2, <4>3
    <3> QED
      BY <3>2, <3>3
  <2> QED
    BY <1>4, <2>2, <2>3 DEF Ahead
<1> QED
  BY <1>4, <1>6 DEF SkipInv, Through

LEMMA SkipList ==
  ASSUME TypeInv, NEW s \in Syncs, SkipInv(s), SyncList(s)
  PROVE  SkipInv(s)'
<1> DEFINE o == sync[s].offset
           q == Page(o)
<1>1. /\ sync'[s].pc = (IF q = <<>> THEN "mark" ELSE "upsert")
      /\ sync'[s].ids = sync[s].ids \cup FilesOf(q) /\ sync'[s].offset = o + Len(q)
      /\ sync'[s].got = Len(q) /\ sync'[s].still = sync[s].still
      /\ listing' = listing /\ sync[s].pc = "list"
  BY DEF SyncList, TypeInv, TypeOK, Syncing, seVars
<1>2. listing \in Seq(Files) /\ Len(listing) \in Nat /\ o \in Nat /\ PageSize \in Nat \ {0}
  BY RegistryOK DEF TypeInv, TypeOK, Syncing, RegistryOK
<1>3. /\ Len(q) \in 0..PageSize
      /\ Len(q) < PageSize => o + Len(q) >= Len(listing)
      /\ q = <<>> => o >= Len(listing)
      /\ q # <<>> => o + Len(q) <= Len(listing)
      /\ \A i \in 1..Len(q) : o + i \in 1..Len(listing) /\ q[i].file = listing[o + i]
  BY <1>2, PageOK
<1> HIDE DEF q
<1>4. Ahead(s)
  BY <1>1 DEF SkipInv
<1>5. \A p \in 1..Len(listing) : p > o /\ p <= o + Len(q) => listing[p] \in FilesOf(q)
  <2> SUFFICES ASSUME NEW p \in 1..Len(listing), p > o, p <= o + Len(q)
               PROVE  listing[p] \in FilesOf(q)
    OBVIOUS
  <2>1. p - o \in 1..Len(q) /\ o + (p - o) = p
    BY SMTT(20), <1>2, <1>3
  <2> QED
    BY <1>3, <2>1 DEF FilesOf
<1>6. Ahead(s)'
  BY <1>1, <1>2, <1>3, <1>4, <1>5 DEF Ahead
<1>7. ASSUME q = <<>> \/ Len(q) < PageSize PROVE sync'[s].still \subseteq sync'[s].ids
  <2>1. \A p \in 1..Len(listing) : listing[p] \in sync'[s].still => listing[p] \in sync'[s].ids
    <3> SUFFICES ASSUME NEW p \in 1..Len(listing), listing[p] \in sync[s].still,
                        listing[p] \notin sync[s].ids
                 PROVE  listing[p] \in FilesOf(q)
      BY <1>1
    <3>1. p > o
      BY <1>4 DEF Ahead
    <3>2. p <= o + Len(q)
      BY <1>2, <1>3, <1>7, <3>1
    <3> QED
      BY <1>5, <3>1, <3>2
  <2> QED
    BY <1>1, <1>2, <1>4, <2>1 DEF Ahead, ToSet
<1> QED
  BY <1>1, <1>6, <1>7 DEF SkipInv, Through

\* The other steps of a synchronisation read no page.
LEMMA SkipRest ==
  ASSUME TypeInv, NEW s \in Syncs, SkipInv(s), SyncBegin(s) \/ SyncStep(s), ~SyncList(s)
  PROVE  SkipInv(s)'
<1>0. sync \in [Syncs -> Syncing] /\ sync[s] \in Syncing
  BY DEF TypeInv, TypeOK
<1>1. CASE SyncBegin(s)
  BY <1>0, <1>1 DEF SyncBegin, SkipInv, Through, IdleSync
<1>2. CASE SyncInfo(s)
  <2>1. /\ sync'[s].pc = "list" /\ sync'[s].still = ToSet(listing)
        /\ sync'[s].offset = sync[s].offset /\ listing' = listing
    BY <1>0, <1>2 DEF SyncInfo, Syncing, seVars
  <2>2. sync[s].offset = 0
    BY <1>2 DEF SyncInfo, SkipInv
  <2>3. Len(listing) \in Nat
    BY DEF TypeInv, TypeOK
  <2> QED
    BY <2>1, <2>2, <2>3 DEF SkipInv, Ahead, Through
<1>3. CASE SyncUpsert(s)
  <2>1. /\ sync'[s].pc = (IF Len(sync[s].page) > 1 THEN "upsert"
                          ELSE IF sync[s].got < PageSize THEN "mark" ELSE "list")
        /\ sync'[s].still = sync[s].still /\ sync'[s].ids = sync[s].ids
        /\ sync'[s].offset = sync[s].offset /\ sync'[s].got = sync[s].got
        /\ listing' = listing
    BY <1>0, <1>3 DEF SyncUpsert, Syncing, seVars
  <2>2. sync[s].pc = "upsert"
    BY <1>3 DEF SyncUpsert
  <2> QED
    BY <2>1, <2>2 DEF SkipInv, Ahead, Through
<1>4. CASE SyncMark(s)
  <2>1. sync'[s].pc = "update"
    BY <1>0, <1>4 DEF SyncMark, Syncing
  <2> QED
    BY <2>1 DEF SkipInv, Through
<1>5. CASE SyncReject(s) \/ SyncUpdate(s) \/ SyncFail(s)
  BY <1>0, <1>5 DEF SyncReject, SyncUpdate, SyncFail, SkipInv, Through, IdleSync
<1> QED
  BY <1>1, <1>2, <1>3, <1>4, <1>5 DEF SyncStep

LEMMA PagingStep == TypeInv /\ PagingInv /\ [Next]_vars => PagingInv'
<1> SUFFICES ASSUME TypeInv, PagingInv, [Next]_vars, NEW s \in Syncs PROVE SkipInv(s)'
  BY DEF PagingInv
<1>0. SkipInv(s) /\ sync \in [Syncs -> Syncing]
  BY DEF PagingInv, TypeInv, TypeOK
<1>1. CASE SENext
  <2>1. ASSUME NEW f \in Files, NEW m \in Meta, SEModify(f, m) PROVE SkipInv(s)'
    BY <1>0, <2>1, SkipSame DEF SEModify
  <2>2. ASSUME NEW m \in Modes, SETransition(m) PROVE SkipInv(s)'
    BY <1>0, <2>2, SkipSame DEF SETransition
  <2> QED
    BY <1>0, <1>1, <2>1, <2>2, SkipUpload, SkipCollect DEF SENext
<1>2. CASE AdminNext \/ ClientNext \/ UNCHANGED vars
  <2>1. listing' = listing /\ sync' = sync
    BY <1>2 DEF AdminNext, ClientNext, CreateSE, DeleteSE, UpdateSERead, UpdateSEWrite, Register,
                UpdateFileRead, UpdateFileWrite, DeleteFile, vars, seVars
  <2> QED
    BY <1>0, <2>1, SkipSame
<1>3. ASSUME NEW t \in Syncs, SyncBegin(t) \/ SyncStep(t) PROVE SkipInv(s)'
  <2>1. CASE t = s
    BY <1>0, <1>3, <2>1, SkipList, SkipRest
  <2>2. CASE t # s
    <3>1. listing' = listing /\ sync'[s] = sync[s]
      BY <1>0, <1>3, <2>2 DEF SyncBegin, SyncStep, SyncInfo, SyncList, SyncUpsert, SyncReject, SyncMark,
                              SyncUpdate, SyncFail, seVars
    <3> QED
      BY <1>0, <3>1, SkipSame
  <2> QED
    BY <2>1, <2>2
<1> QED
  BY <1>1, <1>2, <1>3 DEF Next

\* A synchronisation about to mark files deleted has listed every file that was
\* in the SE throughout, but for at most one per removal, whatever the page size
\* and however uploads and removals moved the pages under it.
THEOREM NothingIsSkipped == Spec => []NothingSkipped
<1>1. Init => PagingInv
  BY DEF Init, PagingInv, SkipInv, Through, IdleSync
<1>2. PagingInv => NothingSkipped
  BY DEF PagingInv, SkipInv, Through, NothingSkipped
<1> QED
  BY <1>1, <1>2, TypeAlways, PagingStep, PTL DEF Spec

-----------------------------------------------------------------------------
(* A synchronisation nobody comes across.                                  *)

\* The registry shows this file as the SE has it.
Shown(f) == /\ registry[f] # None
            /\ registry[f].status = meta[f].status
            /\ registry[f].desc = meta[f].desc

Read(o) == {listing[p] : p \in 1..o}

ExactInv(s) ==
  LET x == sync[s] IN
  /\ x.pc \in {"info", "list", "upsert", "mark"} => row # None /\ row.id = x.row.id
  /\ x.pc = "info" => x.offset = 0 /\ x.ids = {}
  /\ x.pc \in {"list", "upsert"} => x.offset <= Len(listing) /\ x.ids = Read(x.offset)
  /\ x.pc = "list" => \A f \in x.ids : Shown(f)
  /\ x.pc = "upsert" =>
       /\ \A f \in x.ids : f \in FilesOf(x.page) \/ Shown(f)
       /\ \A k \in 1..Len(x.page) : x.page[k].meta = meta[x.page[k].file]
       /\ x.got < PageSize => x.offset = Len(listing)
  /\ x.pc = "mark" => x.ids = ToSet(listing) /\ \A f \in x.ids : Shown(f)
  /\ x.pc = "update" => (x.ids # {} => FilesAgree)

AloneInv == \A s \in alone : ExactInv(s)

LEMMA ReadAll ==
  ASSUME TypeInv
  PROVE  Read(Len(listing)) = ToSet(listing) /\ Read(0) = {}
<1>1. DOMAIN listing = 1..Len(listing)
  BY DEF TypeInv, TypeOK
<1> QED
  BY <1>1 DEF Read, ToSet

LEMMA ExactList ==
  ASSUME TypeInv, NEW s \in Syncs, ExactInv(s), SyncList(s)
  PROVE  ExactInv(s)'
<1> DEFINE o == sync[s].offset
           q == Page(o)
<1>1. /\ sync'[s].pc = (IF q = <<>> THEN "mark" ELSE "upsert")
      /\ sync'[s].ids = sync[s].ids \cup FilesOf(q) /\ sync'[s].offset = o + Len(q)
      /\ sync'[s].got = Len(q) /\ sync'[s].page = q /\ sync'[s].row = sync[s].row
      /\ UNCHANGED <<listing, meta, registry, row>> /\ sync[s].pc = "list"
  BY DEF SyncList, TypeInv, TypeOK, Syncing, seVars, dbVars
<1>2. listing \in Seq(Files) /\ Len(listing) \in Nat /\ o \in Nat /\ PageSize \in Nat \ {0}
  BY RegistryOK DEF TypeInv, TypeOK, Syncing, RegistryOK
<1>3. /\ Len(q) \in 0..PageSize
      /\ Len(q) < PageSize => o + Len(q) >= Len(listing)
      /\ q = <<>> => o >= Len(listing)
      /\ q # <<>> => o + Len(q) <= Len(listing)
      /\ \A i \in 1..Len(q) : /\ o + i \in 1..Len(listing) /\ q[i].file = listing[o + i]
                              /\ q[i].meta = meta[listing[o + i]]
  BY <1>2, PageOK
<1>4. q \in Seq(Listed)
  BY <1>2, PageOK
<1> HIDE DEF q
<1>5. /\ row # None /\ row.id = sync[s].row.id
      /\ o <= Len(listing) /\ sync[s].ids = Read(o) /\ \A f \in sync[s].ids : Shown(f)
  BY <1>1 DEF ExactInv
<1>6. sync'[s].row = sync[s].row /\ row' = row /\ (\A f \in Files : Shown(f)' <=> Shown(f))
  BY <1>1 DEF Shown
<1>7. CASE q = <<>>
  <2>1. Len(q) = 0 /\ FilesOf(q) = {}
    BY <1>4, <1>7, EmptySeq DEF FilesOf
  <2>2. o = Len(listing)
    BY <1>2, <1>3, <1>5, <1>7
  <2>3. sync'[s].ids = ToSet(listing)
    BY <1>1, <1>5, <2>1, <2>2, ReadAll
  <2>4. \A f \in sync'[s].ids : Shown(f)'
    BY <1>1, <1>5, <2>1 DEF Shown
  <2> QED
    BY <1>1, <1>5, <1>7, <2>3, <2>4 DEF ExactInv
<1>8. CASE q # <<>>
  <2>1. o + Len(q) <= Len(listing) /\ (Len(q) < PageSize => o + Len(q) = Len(listing)) /\ Len(q) \in Nat
    BY <1>2, <1>3, <1>8
  <2>2. FilesOf(q) = {listing[o + i] : i \in 1..Len(q)}
    BY <1>3 DEF FilesOf
  <2>3. sync'[s].ids = Read(o + Len(q))
    <3>1. \A p \in 1..o + Len(q) : p \in 1..o \/ (p - o \in 1..Len(q) /\ o + (p - o) = p)
      BY <1>2, <2>1
    <3>2. \A i \in 1..Len(q) : o + i \in 1..o + Len(q)
      BY <1>2, <2>1
    <3>3. \A p \in 1..o : p \in 1..o + Len(q)
      BY <1>2, <2>1
    <3>4. Read(o + Len(q)) = Read(o) \cup FilesOf(q)
      BY <2>2, <3>1, <3>2, <3>3 DEF Read
    <3> QED
      BY <1>1, <1>5, <3>4
  <2>4. \A f \in sync'[s].ids : f \in FilesOf(sync'[s].page) \/ Shown(f)'
    BY <1>1, <1>5 DEF Shown
  <2>5. \A k \in 1..Len(q) : q[k].meta = meta'[q[k].file]
    BY <1>1, <1>3
  <2>6. sync'[s].ids = {listing'[p] : p \in 1..sync'[s].offset}
    BY <1>1, <2>3 DEF Read
  <2>7. sync'[s].pc = "upsert" /\ Len(listing') = Len(listing)
    BY <1>1, <1>8
  <2> QED
    BY <1>1, <1>5, <2>1, <2>4, <2>5, <2>6, <2>7 DEF ExactInv, Read
<1> QED
  BY <1>7, <1>8

LEMMA ExactUpsert ==
  ASSUME TypeInv, NEW s \in Syncs, ExactInv(s), SyncUpsert(s)
  PROVE  ExactInv(s)'
<1> DEFINE q == sync[s].page
<1>0. sync[s].pc = "upsert" /\ sync \in [Syncs -> Syncing]
  BY DEF SyncUpsert, TypeInv, TypeOK
<1>1. q \in Seq(Listed) /\ q # <<>> /\ sync[s].row \in Row
  BY <1>0 DEF TypeInv, InHand, Syncing
<1>2. /\ sync'[s].pc = (IF Len(q) > 1 THEN "upsert"
                        ELSE IF sync[s].got < PageSize THEN "mark" ELSE "list")
      /\ sync'[s].ids = sync[s].ids /\ sync'[s].offset = sync[s].offset
      /\ sync'[s].got = sync[s].got /\ sync'[s].page = Tail(q) /\ sync'[s].row = sync[s].row
      /\ UNCHANGED <<listing, meta, row>>
  BY <1>0 DEF SyncUpsert, Syncing, seVars
<1>3. registry' = Upsert(registry, sync[s].row.id, Head(q))
  BY DEF SyncUpsert
<1> HIDE DEF q
<1>4. /\ Head(q) = q[1] /\ Head(q) \in Listed /\ Len(q) \in Nat /\ Len(q) >= 1
      /\ Tail(q) \in Seq(Listed) /\ Len(Tail(q)) = Len(q) - 1
      /\ \A k \in 1..Len(q) - 1 : Tail(q)[k] = q[k + 1]
  BY <1>1, HeadTailProperties, EmptySeq, LenProperties
<1>5. /\ row # None /\ row.id = sync[s].row.id
      /\ sync[s].offset <= Len(listing) /\ sync[s].ids = Read(sync[s].offset)
      /\ \A f \in sync[s].ids : f \in FilesOf(q) \/ Shown(f)
      /\ \A k \in 1..Len(q) : q[k].meta = meta[q[k].file]
      /\ sync[s].got < PageSize => sync[s].offset = Len(listing)
  BY <1>0 DEF ExactInv, q
<1>6. Head(q).meta = meta[Head(q).file] /\ Head(q).file \in Files
  BY <1>4, <1>5 DEF Listed
<1>7. ASSUME NEW f \in Files, f = Head(q).file PROVE Shown(f)'
  <2>1. registry'[f].status = Head(q).meta.status /\ registry'[f].desc = Head(q).meta.desc
        /\ registry'[f] \in Record
    BY <1>1, <1>3, <1>4, <1>6, <1>7 DEF TypeInv, TypeOK, Upsert, Listed, Meta, Record, Row
  <2>2. registry'[f] # None
    BY <2>1, NoneOK
  <2> QED
    BY <1>2, <1>6, <1>7, <2>1, <2>2 DEF Shown
<1>8. ASSUME NEW f \in Files, f # Head(q).file, Shown(f) PROVE Shown(f)'
  BY <1>2, <1>3, <1>6, <1>8 DEF TypeInv, TypeOK, Upsert, Shown
<1>9. \A f \in FilesOf(q) : f = Head(q).file \/ f \in FilesOf(Tail(q))
  <2> SUFFICES ASSUME NEW k \in 1..Len(q), k # 1 PROVE q[k].file \in FilesOf(Tail(q))
    BY <1>4 DEF FilesOf
  <2>1. k - 1 \in 1..Len(Tail(q)) /\ Tail(q)[k - 1] = q[k]
    BY <1>4
  <2> QED
    BY <2>1 DEF FilesOf
<1>10. sync[s].ids \subseteq Files
  BY <1>0 DEF Syncing
<1>11. ASSUME NEW f \in sync[s].ids, f \notin FilesOf(Tail(q)) PROVE Shown(f)'
  <2>1. f \in Files /\ (f = Head(q).file \/ Shown(f))
    BY <1>5, <1>9, <1>10, <1>11
  <2> QED
    BY <1>7, <1>8, <2>1
<1>12. CASE Len(q) > 1
  <2>1. \A k \in 1..Len(Tail(q)) : Tail(q)[k].meta = meta[Tail(q)[k].file]
    BY <1>4, <1>5
  <2>2. sync'[s].ids = {listing'[p] : p \in 1..sync'[s].offset}
    BY <1>2, <1>5 DEF Read
  <2>3. \A f \in sync'[s].ids : f \in FilesOf(sync'[s].page) \/ Shown(f)'
    BY <1>2, <1>11
  <2>4. sync'[s].pc = "upsert" /\ row' # None /\ row'.id = sync'[s].row.id
        /\ Len(listing') = Len(listing) /\ meta' = meta
    BY <1>2, <1>5, <1>12
  <2> QED
    BY <1>2, <1>5, <2>1, <2>2, <2>3, <2>4 DEF ExactInv, Read
<1>13. CASE ~(Len(q) > 1)
  <2>1. Len(Tail(q)) = 0
    BY <1>4, <1>13
  <2>2. FilesOf(Tail(q)) = {}
    BY <2>1 DEF FilesOf
  <2>3. \A f \in sync[s].ids : Shown(f)'
    BY <1>11, <2>2
  <2>4. sync[s].got < PageSize => sync[s].ids = ToSet(listing)
    BY <1>5, ReadAll
  <2> QED
    BY <1>2, <1>5, <1>13, <2>3, <2>4 DEF ExactInv, Read
<1> QED
  BY <1>12, <1>13

LEMMA ExactMark ==
  ASSUME TypeInv, NoOrphans, NEW s \in Syncs, ExactInv(s), SyncMark(s)
  PROVE  ExactInv(s)'
<1>1. /\ sync'[s].pc = "update" /\ sync'[s].ids = sync[s].ids
      /\ registry' = MarkDeletedExcept(registry, sync[s].row.id, sync[s].ids)
      /\ UNCHANGED <<listing, meta>> /\ sync[s].pc = "mark"
  BY DEF SyncMark, TypeInv, TypeOK, Syncing, seVars
<1>2. /\ row # None /\ row.id = sync[s].row.id
      /\ sync[s].ids = ToSet(listing) /\ \A f \in sync[s].ids : Shown(f)
  BY <1>1 DEF ExactInv
<1>3. ASSUME sync[s].ids # {} PROVE FilesAgree'
  <2>1. ASSUME NEW f \in Files, f \in ToSet(listing) PROVE Shown(f)'
    <3>1. registry'[f] = registry[f]
      BY <1>1, <1>2, <2>1 DEF MarkDeletedExcept
    <3> QED
      BY <1>1, <1>2, <2>1, <3>1 DEF Shown
  <2>2. ASSUME NEW f \in Files, f \notin ToSet(listing), registry[f] # None
        PROVE  registry'[f].status = "deleted"
    BY <1>1, <1>2, <1>3, <2>2 DEF MarkDeletedExcept, NoOrphans, TypeInv, TypeOK, Record
  <2>3. ASSUME NEW f \in Files, registry[f] = None PROVE registry'[f] = None
    BY <1>1, <2>3 DEF MarkDeletedExcept
  <2> QED
    BY <1>1, <2>1, <2>2, <2>3 DEF FilesAgree, Shown
<1> QED
  BY <1>1, <1>3 DEF ExactInv

LEMMA ExactRest ==
  ASSUME TypeInv, NEW s \in Syncs, SyncBegin(s) \/ (ExactInv(s) /\ SyncStep(s)),
         ~SyncList(s), ~SyncUpsert(s), ~SyncMark(s)
  PROVE  ExactInv(s)'
<1>0. sync \in [Syncs -> Syncing] /\ sync[s] \in Syncing /\ Len(listing) \in Nat
  BY DEF TypeInv, TypeOK
<1>1. CASE SyncBegin(s)
  <2>1. sync'[s].pc = "info" /\ sync'[s].row = row /\ sync'[s].offset = 0 /\ sync'[s].ids = {}
        /\ row' = row /\ row # None
    BY <1>0, <1>1 DEF SyncBegin, IdleSync, dbVars
  <2> QED
    BY <2>1 DEF ExactInv
<1>2. CASE SyncInfo(s) /\ ExactInv(s)
  <2>1. /\ sync'[s].pc = "list" /\ sync'[s].offset = sync[s].offset /\ sync'[s].ids = sync[s].ids
        /\ sync'[s].row.id = sync[s].row.id /\ row' = row /\ listing' = listing /\ sync[s].pc = "info"
    <3>1. sync[s].row \in Row
      BY <1>0, <1>2 DEF TypeInv, InHand, SyncInfo, Syncing
    <3> QED
      BY <1>0, <1>2, <3>1 DEF SyncInfo, Syncing, Row, seVars, dbVars
  <2>2. row # None /\ row.id = sync[s].row.id /\ sync[s].offset = 0 /\ sync[s].ids = {}
    BY <1>2, <2>1 DEF ExactInv
  <2>3. Read(0) = {}
    BY DEF Read
  <2>4. Read(0)' = {}
    BY DEF Read
  <2> QED
    BY <1>0, <2>1, <2>2, <2>4 DEF ExactInv, Read
<1>3. CASE SyncReject(s) \/ SyncUpdate(s) \/ SyncFail(s)
  <2>1. sync'[s].pc = "idle"
    BY <1>0, <1>3 DEF SyncReject, SyncUpdate, SyncFail, IdleSync
  <2> QED
    BY <2>1 DEF ExactInv
<1> QED
  BY <1>1, <1>2, <1>3 DEF SyncStep

LEMMA AloneStep == TypeInv /\ NoOrphans /\ AloneInv /\ [Next]_vars => AloneInv'
<1> SUFFICES ASSUME TypeInv, NoOrphans, AloneInv, [Next]_vars, NEW s \in alone' PROVE ExactInv(s)'
  BY DEF AloneInv
<1>1. CASE UNCHANGED vars
  <2>1. ExactInv(s)
    BY <1>1 DEF AloneInv, vars
  <2> QED
    BY <1>1, <2>1 DEF ExactInv, Shown, Read, FilesAgree, vars, seVars, dbVars
<1>2. ASSUME NEW t \in Syncs, SyncBegin(t) \/ SyncStep(t) PROVE ExactInv(s)'
  <2>1. s = t /\ (SyncBegin(s) \/ (SyncStep(s) /\ s \in alone))
    BY <1>2 DEF SyncBegin, SyncStep
  <2>2. SyncBegin(s) \/ (SyncStep(s) /\ ExactInv(s))
    BY <2>1 DEF AloneInv
  <2>3. SyncList(s) \/ SyncUpsert(s) \/ SyncMark(s) => ExactInv(s) \/ SyncBegin(s)
    BY <2>2
  <2>4. SyncBegin(s) => ~(SyncList(s) \/ SyncUpsert(s) \/ SyncMark(s))
    BY DEF SyncBegin, SyncList, SyncUpsert, SyncMark
  <2> QED
    BY <1>2, <2>1, <2>2, <2>3, <2>4, ExactList, ExactUpsert, ExactMark, ExactRest
<1> QED
  BY <1>1, <1>2 DEF Next

\* A synchronisation that met nobody from its beginning to its end leaves the
\* registry in agreement with the SE, file by file, unless the SE is empty.
THEOREM ExactWhenAlone == Spec => []SyncExact
<1>1. Init => AloneInv
  BY DEF Init, AloneInv
<1>2. AloneInv => SyncExact
  BY DEF AloneInv, ExactInv, SyncExact
<1> QED
  BY <1>1, <1>2, TypeAlways, OrphansAlways, AloneStep, PTL DEF Spec

=============================================================================

-------------------------- MODULE FileCacheProofs --------------------------
(***************************************************************************)
(* Theorems about FileCache, for any processes, keys, entries, files and   *)
(* faults.                                                                 *)
(***************************************************************************)
EXTENDS FileCache, SequenceTheorems, TLAPS

Data == Entry \X Nat

\* The first pieces of an entry, or all of them.
Starts(e, s) == Len(s) <= Pieces[e] /\ \A n \in 1..Len(s) : s[n] = <<e, n>>

----------------------------------------------------------------------------
(* The invariant                                                           *)

\* A name, or an open file, says which key a file is for.
Holds(i, k) == dir[k] = i \/ \E p \in Proc : fd[p] = i /\ key[p] = k

\* Every file belongs to one key, whatever is done to it, and holds the start of
\* one of its entries unless two Puts had it open.
FilesInv ==
    /\ \A i \in Inode, k, l \in Key : Holds(i, k) /\ Holds(i, l) => k = l
    /\ \A i \in Inode, k \in Key :
         Holds(i, k) /\ i \notin mixed => \E e \in Answers[k] : Starts(e, file[i])

\* Two Puts with one file open have mixed it.
ApartInv ==
    \A p, q \in Proc :
      pc[p] = "put" /\ pc[q] = "put" /\ fd[p] = fd[q] => p = q \/ fd[p] \in mixed

\* A Put has written the start of its entry, and nothing else is in its file.
WriterInv(p) ==
    pc[p] = "put" =>
      /\ entry[p] \in Answers[key[p]]
      /\ Starts(entry[p], done[p])
      /\ fd[p] \notin mixed => file[fd[p]] = done[p]

\* A reader has read the start of its file.
ReaderInv(p) ==
    pc[p] \in {"get", "list"} /\ alone[p] =>
      /\ fd[p] \notin mixed
      /\ Len(done[p]) <= Len(file[fd[p]])
      /\ \A n \in 1..Len(done[p]) : done[p][n] = file[fd[p]][n]

KeyInv(p) ==
    /\ pc[p] \in {"get", "list", "put", "rows"} => key[p] \in Key
    /\ pc[p] \notin {"get", "list", "put"} => done[p] = <<>>

FoundInv(p) ==
    /\ reply[p] # None /\ reply[p].alone => reply[p].value \in Answers[reply[p].key]
    /\ \A e \in listed[p] : e.alone => e.value \in Answers[e.key]

ProcessInv(p) == WriterInv(p) /\ ReaderInv(p) /\ KeyInv(p) /\ FoundInv(p)

FileInv ==
    /\ TypeOK /\ FilesInv /\ ApartInv
    /\ reply = [p \in Proc |-> reply[p]] /\ listed = [p \in Proc |-> listed[p]]
    /\ \A p \in Proc : ProcessInv(p)

LEMMA FoundIsResult == FileInv => TypeOK /\ HitIsResult /\ ListedIsWhole
BY DEF FileInv, ProcessInv, FoundInv, HitIsResult, ListedIsWhole

----------------------------------------------------------------------------
(* What is read                                                            *)

LEMMA AnswerType ==
    ASSUME NEW k \in Key, NEW e \in Answers[k]
    PROVE  e \in Entry /\ Pieces[e] \in Nat \ {0}
BY AnswersAssumption, PiecesAssumption

LEMMA WholeType ==
    ASSUME NEW e \in Entry
    PROVE  /\ Whole(e) \in Seq(Data) /\ Len(Whole(e)) = Pieces[e] /\ Pieces[e] \in Nat \ {0}
           /\ \A i \in 1..Pieces[e] : Whole(e)[i] = <<e, i>>
BY PiecesAssumption DEF Whole, Data

\* Two entries have different files.
LEMMA WholeOfOne ==
    ASSUME NEW e \in Entry, NEW f \in Entry, Whole(e) = Whole(f)
    PROVE  e = f
<1>1. Whole(e)[1] = <<e, 1>> /\ Whole(f)[1] = <<f, 1>>
  BY WholeType
<1> QED
  BY <1>1

\* The start of an entry that decodes is the entry.
LEMMA StartIsWhole ==
    ASSUME NEW e \in Entry, NEW t \in Seq(Data), t # <<>>, Starts(e, t), Complete(t)
    PROVE  Value(t) = e
<1>1. PICK f \in Entry : Len(t) = Pieces[f] /\ t[Len(t)] = <<f, Pieces[f]>>
  BY DEF Complete
<1>2. Pieces[e] \in Nat /\ Pieces[f] \in Nat \ {0} /\ Len(t) \in Nat
  BY WholeType, LenProperties
<1>3. f = e
  BY <1>1, <1>2 DEF Starts
<1>4. Whole(e) \in Seq(Data) /\ Len(Whole(e)) = Len(t)
      /\ \A i \in 1..Len(t) : Whole(e)[i] = t[i]
  <2>1. Len(t) = Pieces[e] /\ \A i \in 1..Len(t) : t[i] = <<e, i>>
    BY <1>1, <1>3 DEF Starts
  <2> QED
    BY <2>1, WholeType
<1>5. t = Whole(e)
  BY <1>4, SeqEqual
<1>6. \A f2 \in Entry : t = Whole(f2) => f2 = e
  BY <1>5, WholeOfOne
<1> QED
  BY <1>5, <1>6 DEF Value

\* A reader alone with its file finds a next piece of the entry whose start it has
\* read.
LEMMA NextOfStart ==
    ASSUME FileInv, NEW p \in Proc, pc[p] \in {"get", "list"}, alone[p], ~ AtEnd(p)
    PROVE  /\ Reads(p) \in Seq(Data) /\ Reads(p) # <<>>
           /\ Len(Reads(p)) <= Len(file[fd[p]])
           /\ \A n \in 1..Len(Reads(p)) : Reads(p)[n] = file[fd[p]][n]
           /\ \E e \in Answers[key[p]] : Starts(e, Reads(p))
<1>1. /\ fd[p] \in Inode /\ key[p] \in Key /\ done[p] \in Seq(Data)
      /\ file[fd[p]] \in Seq(Data \union {None})
  BY DEF FileInv, TypeOK, ProcessInv, KeyInv, Data
<1>2. /\ fd[p] \notin mixed /\ Len(done[p]) <= Len(file[fd[p]])
      /\ \A n \in 1..Len(done[p]) : done[p][n] = file[fd[p]][n]
  BY DEF FileInv, ProcessInv, ReaderInv
<1>3. PICK e \in Answers[key[p]] : Starts(e, file[fd[p]])
  BY <1>1, <1>2 DEF FileInv, FilesInv, Holds
<1>4. /\ Len(done[p]) \in Nat /\ Len(file[fd[p]]) \in Nat
      /\ Len(done[p]) + 1 \in 1..Len(file[fd[p]])
  BY <1>1, <1>2, LenProperties DEF AtEnd
<1>5. e \in Entry /\ Pieces[e] \in Nat
  BY <1>1, AnswerType
<1> DEFINE m == Len(done[p]) + 1
           f == file[fd[p]]
<1>10. Len(f) <= Pieces[e] /\ \A n \in 1..Len(f) : f[n] = <<e, n>>
  BY <1>3 DEF Starts
<1>11. m \in 1..Len(f) /\ NextPiece(p) = f[m] /\ m \in Nat
  BY <1>4 DEF NextPiece
<1> HIDE DEF m, f
<1>6. NextPiece(p) = <<e, m>> /\ NextPiece(p) \in Data
  <2>1. f[m] = <<e, m>>
    BY <1>10, <1>11
  <2>2. <<e, m>> \in Data
    BY <1>5, <1>11 DEF Data
  <2> QED
    BY <1>11, <2>1, <2>2
<1>7. /\ Reads(p) \in Seq(Data) /\ Len(Reads(p)) = m /\ Reads(p)[m] = NextPiece(p)
      /\ \A n \in 1..Len(done[p]) : Reads(p)[n] = done[p][n]
  BY <1>1, <1>6, AppendProperties DEF Reads, m
<1>8. \A n \in 1..m : Reads(p)[n] = f[n]
  BY <1>2, <1>4, <1>7, <1>11 DEF m, f
<1>9. Starts(e, Reads(p))
  <2>1. m <= Pieces[e] /\ 1..m \subseteq 1..Len(f)
    BY <1>4, <1>5, <1>10, <1>11 DEF f
  <2> QED
    BY <1>7, <1>8, <1>10, <2>1 DEF Starts
<1> QED
  BY <1>4, <1>7, <1>8, <1>9, <1>11, EmptySeq DEF f, m

\* So what such a reader finds is an entry of its key.
LEMMA FoundValue ==
    ASSUME FileInv, NEW p \in Proc, pc[p] \in {"get", "list"}, Decoded(p)
    PROVE  Found(p).alone => Found(p).value \in Answers[Found(p).key]
<1> SUFFICES ASSUME alone[p] PROVE Value(Reads(p)) \in Answers[key[p]]
  BY DEF Found
<1>1. ~ AtEnd(p) /\ Complete(Reads(p)) /\ key[p] \in Key
  BY DEF Decoded, FileInv, ProcessInv, KeyInv
<1>2. PICK e \in Answers[key[p]] : Starts(e, Reads(p))
  BY <1>1, NextOfStart
<1>3. e \in Entry /\ Reads(p) \in Seq(Data) /\ Reads(p) # <<>>
  BY <1>1, NextOfStart, AnswerType
<1>4. Value(Reads(p)) = e
  BY <1>1, <1>2, <1>3, StartIsWhole
<1> QED
  BY <1>4

----------------------------------------------------------------------------
(* The steps                                                               *)

\* Everybody but p stays as he is.
OthersStay(p) ==
    \A q \in Proc \ {p} :
      /\ pc'[q] = pc[q] /\ key'[q] = key[q] /\ fd'[q] = fd[q] /\ done'[q] = done[q]
      /\ entry'[q] = entry[q] /\ (alone'[q] <=> alone[q])
      /\ reply'[q] = reply[q] /\ listed'[q] = listed[q]

\* No file that somebody has, or gets, changes.
FilesStay ==
    \A i \in Inode :
      (\E k \in Key : dir'[k] = i) \/ (\E q \in Proc : fd'[q] = i) =>
        file'[i] = file[i] /\ (i \in mixed' <=> i \in mixed)

\* A step that writes to no file keeps the invariant if its own process does.
LEMMA StepKeeps ==
    ASSUME FileInv, TypeOK', NEW p \in Proc, OthersStay(p), FilesStay,
           \A i \in Inode, k \in Key : Holds(i, k)' => Holds(i, k),
           pc'[p] # "put" \/ (pc[p] = "put" /\ fd'[p] = fd[p]),
           reply' = [q \in Proc |-> reply'[q]], listed' = [q \in Proc |-> listed'[q]],
           ProcessInv(p)'
    PROVE  FileInv'
<1>1. FilesInv'
  <2>1. \A i \in Inode, k, l \in Key : Holds(i, k)' /\ Holds(i, l)' => k = l
    BY DEF FileInv, FilesInv
  <2>2. ASSUME NEW i \in Inode, NEW k \in Key, Holds(i, k)', i \notin mixed'
        PROVE  \E e \in Answers[k] : Starts(e, file'[i])
    <3>1. file'[i] = file[i] /\ i \notin mixed
      BY <2>2 DEF FilesStay, Holds
    <3> QED
      BY <2>2, <3>1 DEF FileInv, FilesInv
  <2> QED
    BY <2>1, <2>2 DEF FilesInv, Starts
<1>2. \A q \in Proc : pc'[q] = "put" => pc[q] = "put" /\ fd'[q] = fd[q]
  BY DEF OthersStay
<1>3. \A q \in Proc : pc[q] \in {"get", "list", "put"} /\ fd'[q] = fd[q] =>
        /\ file'[fd[q]] = file[fd[q]] /\ (fd[q] \in mixed' <=> fd[q] \in mixed)
  BY DEF FilesStay, FileInv, TypeOK
<1>4. ApartInv'
  BY <1>2, <1>3 DEF FileInv, ApartInv
<1>5. ASSUME NEW q \in Proc \ {p} PROVE ProcessInv(q)'
  <2>1. /\ pc'[q] = pc[q] /\ key'[q] = key[q] /\ fd'[q] = fd[q] /\ done'[q] = done[q]
        /\ entry'[q] = entry[q] /\ (alone'[q] <=> alone[q])
        /\ reply'[q] = reply[q] /\ listed'[q] = listed[q]
    BY <1>5 DEF OthersStay
  <2>2. ProcessInv(q)
    BY <1>5 DEF FileInv
  <2>3. pc[q] \in {"get", "list", "put"} =>
          file'[fd[q]] = file[fd[q]] /\ (fd[q] \in mixed' <=> fd[q] \in mixed)
    BY <1>3, <1>5, <2>1
  <2>4. WriterInv(q)'
    BY <2>1, <2>2, <2>3 DEF ProcessInv, WriterInv, Starts
  <2>5. ReaderInv(q)'
    BY <2>1, <2>2, <2>3 DEF ProcessInv, ReaderInv
  <2>6. KeyInv(q)' /\ FoundInv(q)'
    BY <2>1, <2>2 DEF ProcessInv, KeyInv, FoundInv
  <2> QED
    BY <2>4, <2>5, <2>6 DEF ProcessInv
<1> QED
  BY <1>1, <1>4, <1>5 DEF FileInv

\* A step of p that leaves the files alone and opens none for writing.
LEMMA LocalKeeps ==
    ASSUME FileInv, NEW p \in Proc, TypeOK', OthersStay(p), UNCHANGED <<dir, file, mixed>>,
           pc'[p] # "put",
           reply' = [q \in Proc |-> reply'[q]], listed' = [q \in Proc |-> listed'[q]],
           \/ fd'[p] = None
           \/ fd'[p] = fd[p] /\ key'[p] = key[p]
           \/ \E k \in Key : fd'[p] = dir[k] /\ key'[p] = k,
           ProcessInv(p)'
    PROVE  FileInv'
<1>1. FilesStay
  BY DEF FilesStay
<1>2. \A i \in Inode, k \in Key : Holds(i, k)' => Holds(i, k)
  BY FileNoneAssumption DEF OthersStay, Holds
<1> QED
  BY <1>1, <1>2, StepKeeps

LEMMA ReclaimStays == ASSUME Reclaim, DOMAIN file = Inode PROVE FilesStay
BY DEF Reclaim, FilesStay, Free

LEMMA ReclaimType ==
    ASSUME TypeOK, Reclaim
    PROVE  /\ file' \in [Inode -> Seq((Entry \X Nat) \union {None})]
           /\ mixed' \subseteq Inode
BY EmptySeq DEF TypeOK, Reclaim

\* The end of an operation, or of one file of a List.
LEMMA CloseKeeps ==
    ASSUME FileInv, NEW p \in Proc, Close(p), NEW c \in {"idle", "next"},
           pc' = [pc EXCEPT ![p] = c],
           entry' = [entry EXCEPT ![p] = entry'[p]], entry'[p] \in Entry \union {None},
           names' = [names EXCEPT ![p] = names'[p]], names'[p] \subseteq Key,
           reply' = [reply EXCEPT ![p] = reply'[p]],
           listed' = [listed EXCEPT ![p] = listed'[p]],
           FoundInv(p)'
    PROVE  FileInv'
<1>1. /\ UNCHANGED dir /\ fd' = [fd EXCEPT ![p] = None]
      /\ key' = [key EXCEPT ![p] = None] /\ done' = [done EXCEPT ![p] = <<>>]
      /\ alone' = [alone EXCEPT ![p] = TRUE] /\ Reclaim
  BY DEF Close
<1>2. /\ TypeOK
      /\ reply = [q \in Proc |-> reply[q]] /\ listed = [q \in Proc |-> listed[q]]
      /\ None \notin Inode /\ None \notin Key
  BY FileNoneAssumption DEF FileInv
<1>3. TypeOK'
  <2>1. /\ dir' \in [Key -> Inode \union {None}]
        /\ pc' \in [Proc -> {"idle", "get", "next", "list", "rows", "put", "clear"}]
        /\ key' \in [Proc -> Key \union {None}] /\ fd' \in [Proc -> Inode \union {None}]
        /\ \A q \in Proc : fd'[q] # None <=> pc'[q] \in {"get", "list", "put"}
        /\ done' \in [Proc -> Seq(Entry \X Nat)]
        /\ entry' \in [Proc -> Entry \union {None}]
        /\ names' \in [Proc -> SUBSET Key]
    BY <1>1, <1>2, EmptySeq DEF TypeOK
  <2>2. alone' \in [Proc -> BOOLEAN]
    BY <1>1, <1>2 DEF TypeOK
  <2> QED
    BY <1>1, <1>2, <2>1, <2>2, ReclaimType DEF TypeOK
<1>4. OthersStay(p)
  BY <1>1, <1>2 DEF OthersStay, TypeOK
<1>5. FilesStay
  BY <1>1, <1>2, ReclaimStays DEF TypeOK
<1>6. \A i \in Inode, k \in Key : Holds(i, k)' => Holds(i, k)
  BY <1>1, <1>2 DEF Holds, TypeOK
<1>7. /\ pc'[p] = c /\ done'[p] = <<>>
      /\ reply' = [q \in Proc |-> reply'[q]] /\ listed' = [q \in Proc |-> listed'[q]]
  BY <1>1, <1>2 DEF TypeOK
<1>8. ProcessInv(p)'
  BY <1>7 DEF ProcessInv, WriterInv, ReaderInv, KeyInv
<1> QED
  BY <1>3, <1>4, <1>5, <1>6, <1>7, <1>8, StepKeeps

LEMMA ReturnKeeps ==
    ASSUME FileInv, NEW p \in Proc, Return(p),
           reply' = [reply EXCEPT ![p] = reply'[p]],
           listed' = [listed EXCEPT ![p] = listed'[p]],
           FoundInv(p)'
    PROVE  FileInv'
<1>1. /\ Close(p) /\ pc' = [pc EXCEPT ![p] = "idle"]
      /\ entry' = [entry EXCEPT ![p] = None] /\ names' = [names EXCEPT ![p] = {}]
  BY DEF Return, Goto
<1>2. /\ entry' = [entry EXCEPT ![p] = entry'[p]] /\ entry'[p] \in Entry \union {None}
      /\ names' = [names EXCEPT ![p] = names'[p]] /\ names'[p] \subseteq Key
  BY <1>1 DEF FileInv, TypeOK
<1> QED
  BY <1>1, <1>2, CloseKeeps

\* What a process has found before stays.
LEMMA FoundStays ==
    ASSUME FileInv, NEW p \in Proc, UNCHANGED <<reply, listed>>
    PROVE  /\ reply' = [reply EXCEPT ![p] = reply'[p]]
           /\ listed' = [listed EXCEPT ![p] = listed'[p]]
           /\ FoundInv(p)'
<1>1. reply = [q \in Proc |-> reply[q]] /\ listed = [q \in Proc |-> listed[q]]
  BY DEF FileInv
<1>2. FoundInv(p)
  BY DEF FileInv, ProcessInv
<1>3. reply' = [reply EXCEPT ![p] = reply'[p]]
  BY <1>1
<1>4. listed' = [listed EXCEPT ![p] = listed'[p]]
  BY <1>1
<1>5. FoundInv(p)'
  BY <1>1, <1>2 DEF FoundInv
<1> QED
  BY <1>3, <1>4, <1>5

LEMMA FoundReset ==
    ASSUME FileInv, NEW p \in Proc, reply' = [reply EXCEPT ![p] = None],
           listed' = listed \/ listed' = [listed EXCEPT ![p] = {}]
    PROVE  /\ reply' = [reply EXCEPT ![p] = reply'[p]]
           /\ listed' = [listed EXCEPT ![p] = listed'[p]]
           /\ FoundInv(p)'
<1>1. reply = [q \in Proc |-> reply[q]] /\ listed = [q \in Proc |-> listed[q]]
  BY DEF FileInv
<1>2. FoundInv(p)
  BY DEF FileInv, ProcessInv
<1>3. reply' = [reply EXCEPT ![p] = reply'[p]]
  BY <1>1
<1>4. listed' = [listed EXCEPT ![p] = listed'[p]]
  BY <1>1
<1>5. FoundInv(p)'
  BY <1>1, <1>2 DEF FoundInv
<1> QED
  BY <1>3, <1>4, <1>5

LEMMA GetKeeps ==
    ASSUME FileInv, NEW p \in Proc, GetStep(p)
    PROVE  FileInv'
<1> USE DEF Goto
<1>1. /\ TypeOK /\ ProcessInv(p)
      /\ reply = [q \in Proc |-> reply[q]] /\ listed = [q \in Proc |-> listed[q]]
      /\ None \notin Inode
  BY FileNoneAssumption DEF FileInv
<1>2. ASSUME NEW k \in Key, GetOpen(p, k) PROVE FileInv'
  <2>1. /\ pc[p] = "idle" /\ dir[k] # None
        /\ fd' = [fd EXCEPT ![p] = dir[k]] /\ alone' = [alone EXCEPT ![p] = dir[k] \notin mixed]
        /\ pc' = [pc EXCEPT ![p] = "get"] /\ key' = [key EXCEPT ![p] = k]
        /\ reply' = [reply EXCEPT ![p] = None]
        /\ UNCHANGED <<dir, file, done, entry, names, listed, mixed>>
    BY <1>2 DEF GetOpen, Open
  <2>2. alone' \in [Proc -> BOOLEAN] /\ (alone'[p] => dir[k] \notin mixed)
    BY <1>1, <2>1 DEF TypeOK
  <2>3. TypeOK'
    BY <1>1, <2>1, <2>2 DEF TypeOK
  <2>4. OthersStay(p)
    BY <1>1, <2>1 DEF OthersStay, TypeOK
  <2>5. /\ reply' = [q \in Proc |-> reply'[q]] /\ listed' = [q \in Proc |-> listed'[q]]
        /\ FoundInv(p)'
    BY <1>1, <2>1 DEF ProcessInv, FoundInv
  <2>6. /\ pc'[p] = "get" /\ fd'[p] = dir[k] /\ key'[p] = k /\ done'[p] = <<>>
    BY <1>1, <2>1 DEF TypeOK, ProcessInv, KeyInv
  <2>7. dir[k] \in Inode /\ Len(file[dir[k]]) \in Nat
    BY <1>1, <2>1, LenProperties DEF TypeOK
  <2>8. ProcessInv(p)'
    BY <2>1, <2>2, <2>5, <2>6, <2>7 DEF ProcessInv, WriterInv, ReaderInv, KeyInv
  <2> QED
    BY <2>1, <2>3, <2>4, <2>5, <2>6, <2>8, LocalKeeps
<1>3. ASSUME NEW k \in Key, GetMissing(p, k) PROVE FileInv'
  <2>1. /\ pc[p] = "idle" /\ reply' = [reply EXCEPT ![p] = None]
        /\ UNCHANGED <<dir, file, pc, key, fd, done, entry, names, listed, mixed, alone>>
    BY <1>3 DEF GetMissing, local, history
  <2>2. TypeOK' /\ OthersStay(p)
    BY <1>1, <2>1 DEF OthersStay, TypeOK
  <2>3. /\ reply' = [q \in Proc |-> reply'[q]] /\ listed' = [q \in Proc |-> listed'[q]]
        /\ FoundInv(p)'
    BY <1>1, <2>1 DEF ProcessInv, FoundInv
  <2>4. ProcessInv(p)'
    BY <1>1, <2>1, <2>3 DEF ProcessInv, WriterInv, ReaderInv, KeyInv
  <2> QED
    BY <2>1, <2>2, <2>3, <2>4, LocalKeeps
<1>4. CASE ReadPiece(p)
  <2>1. /\ pc[p] \in {"get", "list"} /\ ~ AtEnd(p) /\ NextPiece(p) # None
        /\ done' = [done EXCEPT ![p] = Reads(p)]
        /\ UNCHANGED <<dir, file, pc, key, fd, entry, names, reply, listed, mixed, alone>>
    BY <1>4 DEF ReadPiece, history
  <2>2. Reads(p) \in Seq(Entry \X Nat)
    <3>1. /\ fd[p] \in Inode /\ done[p] \in Seq(Data)
          /\ file[fd[p]] \in Seq(Data \union {None})
      BY <1>1, <2>1 DEF TypeOK, Data
    <3>2. Len(done[p]) + 1 \in 1..Len(file[fd[p]])
      BY <2>1, <3>1, LenProperties DEF AtEnd
    <3>3. NextPiece(p) \in Data
      BY <2>1, <3>1, <3>2, ElementOfSeq DEF NextPiece
    <3> QED
      BY <3>1, <3>3, AppendProperties DEF Reads, Data
  <2>3. TypeOK' /\ OthersStay(p)
    BY <1>1, <2>1, <2>2 DEF OthersStay, TypeOK
  <2>4. reply' = [q \in Proc |-> reply'[q]] /\ listed' = [q \in Proc |-> listed'[q]]
    BY <1>1, <2>1
  <2>5. done'[p] = Reads(p)
    BY <1>1, <2>1 DEF TypeOK
  <2>6. ReaderInv(p)'
    <3> SUFFICES ASSUME alone[p]
                 PROVE  /\ fd[p] \notin mixed /\ Len(Reads(p)) <= Len(file[fd[p]])
                        /\ \A n \in 1..Len(Reads(p)) : Reads(p)[n] = file[fd[p]][n]
      BY <2>1, <2>5 DEF ReaderInv
    <3>1. fd[p] \notin mixed
      BY <1>1, <2>1 DEF ProcessInv, ReaderInv
    <3> QED
      BY <2>1, <3>1, NextOfStart
  <2>7. WriterInv(p)' /\ KeyInv(p)' /\ FoundInv(p)'
    BY <1>1, <2>1 DEF ProcessInv, WriterInv, KeyInv, FoundInv
  <2> QED
    BY <2>1, <2>3, <2>4, <2>6, <2>7, LocalKeeps DEF ProcessInv
<1>5. CASE GetHit(p)
  <2>1. /\ pc[p] = "get" /\ Decoded(p) /\ Return(p)
        /\ reply' = [reply EXCEPT ![p] = Found(p)] /\ UNCHANGED listed
    BY <1>5 DEF GetHit
  <2>2. Found(p).alone => Found(p).value \in Answers[Found(p).key]
    BY <2>1, FoundValue
  <2>3. reply' = [reply EXCEPT ![p] = reply'[p]] /\ reply'[p] = Found(p)
    BY <1>1, <2>1
  <2>4. listed' = [listed EXCEPT ![p] = listed'[p]] /\ listed'[p] = listed[p]
    BY <1>1, <2>1
  <2>5. FoundInv(p)'
    BY <1>1, <2>2, <2>3, <2>4 DEF ProcessInv, FoundInv
  <2> QED
    BY <2>1, <2>3, <2>4, <2>5, ReturnKeeps
<1>6. CASE GetMiss(p)
  BY <1>6, ReturnKeeps, FoundStays DEF GetMiss
<1> QED
  BY <1>2, <1>3, <1>4, <1>5, <1>6 DEF GetStep

LEMMA ListKeeps ==
    ASSUME FileInv, NEW p \in Proc, ListStep(p)
    PROVE  FileInv'
<1> USE DEF Goto
<1>1. /\ TypeOK /\ ProcessInv(p)
      /\ reply = [q \in Proc |-> reply[q]] /\ listed = [q \in Proc |-> listed[q]]
      /\ None \notin Inode
  BY FileNoneAssumption DEF FileInv
<1>2. CASE ListNames(p)
  <2>1. /\ pc[p] = "idle" /\ pc' = [pc EXCEPT ![p] = "next"]
        /\ names' = [names EXCEPT ![p] = names'[p]] /\ names'[p] \subseteq Key
        /\ reply' = [reply EXCEPT ![p] = None]
        /\ UNCHANGED <<dir, file, key, fd, done, entry, listed, mixed, alone>>
    BY <1>1, <1>2 DEF ListNames, ReadDir, history, TypeOK
  <2>2. TypeOK' /\ OthersStay(p)
    BY <1>1, <2>1 DEF OthersStay, TypeOK
  <2>3. /\ reply' = [q \in Proc |-> reply'[q]] /\ listed' = [q \in Proc |-> listed'[q]]
        /\ FoundInv(p)'
    BY <1>1, <2>1 DEF ProcessInv, FoundInv
  <2>4. pc'[p] = "next"
    BY <1>1, <2>1 DEF TypeOK
  <2>5. ProcessInv(p)'
    BY <1>1, <2>1, <2>3, <2>4 DEF ProcessInv, WriterInv, ReaderInv, KeyInv
  <2> QED
    BY <2>1, <2>2, <2>3, <2>4, <2>5, LocalKeeps
<1>3. CASE ListOpen(p)
  <2>1. PICK k \in names[p] :
          /\ names' = [names EXCEPT ![p] = @ \ {k}]
          /\ \/ dir[k] # None /\ Open(p, dir[k])
                /\ Goto(p, "list") /\ key' = [key EXCEPT ![p] = k]
             \/ UNCHANGED <<pc, key, fd, alone>>
    BY <1>3 DEF ListOpen
  <2>2. /\ pc[p] = "next" /\ UNCHANGED <<dir, file, done, entry, reply, listed, mixed>>
    BY <1>3 DEF ListOpen
  <2>3. k \in Key /\ done[p] = <<>> /\ names' \in [Proc -> SUBSET Key]
    BY <1>1, <2>1, <2>2 DEF TypeOK, ProcessInv, KeyInv
  <2>4. /\ reply' = [q \in Proc |-> reply'[q]] /\ listed' = [q \in Proc |-> listed'[q]]
        /\ FoundInv(p)'
    BY <1>1, <2>2 DEF ProcessInv, FoundInv
  <2>5. CASE dir[k] # None /\ Open(p, dir[k])
               /\ Goto(p, "list") /\ key' = [key EXCEPT ![p] = k]
    <3>1. /\ dir[k] \in Inode /\ pc' = [pc EXCEPT ![p] = "list"]
          /\ fd' = [fd EXCEPT ![p] = dir[k]]
          /\ alone' = [alone EXCEPT ![p] = dir[k] \notin mixed]
          /\ key' = [key EXCEPT ![p] = k]
      BY <1>1, <2>3, <2>5 DEF Open, TypeOK
    <3>2. alone' \in [Proc -> BOOLEAN] /\ (alone'[p] => dir[k] \notin mixed)
      BY <1>1, <3>1 DEF TypeOK
    <3>3. TypeOK'
      BY <1>1, <2>2, <2>3, <3>1, <3>2 DEF TypeOK
    <3>4. OthersStay(p)
      BY <1>1, <2>2, <3>1 DEF OthersStay, TypeOK
    <3>5. /\ pc'[p] = "list" /\ fd'[p] = dir[k] /\ key'[p] = k /\ done'[p] = <<>>
      BY <1>1, <2>2, <2>3, <3>1 DEF TypeOK
    <3>6. Len(file[dir[k]]) \in Nat
      BY <1>1, <3>1, LenProperties DEF TypeOK
    <3>7. ProcessInv(p)'
      BY <2>2, <2>3, <2>4, <3>2, <3>5, <3>6 DEF ProcessInv, WriterInv, ReaderInv, KeyInv
    <3> QED
      BY <2>2, <2>3, <2>4, <3>3, <3>4, <3>5, <3>7, LocalKeeps
  <2>6. CASE UNCHANGED <<pc, key, fd, alone>>
    <3>1. TypeOK' /\ OthersStay(p)
      BY <1>1, <2>2, <2>3, <2>6 DEF OthersStay, TypeOK
    <3>2. ProcessInv(p)'
      BY <1>1, <2>2, <2>4, <2>6 DEF ProcessInv, WriterInv, ReaderInv, KeyInv
    <3> QED
      BY <2>2, <2>4, <2>6, <3>1, <3>2, LocalKeeps
  <2> QED
    BY <2>1, <2>5, <2>6
<1>4. CASE ListEntry(p)
  <2>1. /\ pc[p] = "list" /\ Decoded(p) /\ Close(p) /\ pc' = [pc EXCEPT ![p] = "next"]
        /\ listed' = [listed EXCEPT ![p] = @ \union {Found(p)}]
        /\ UNCHANGED <<entry, names, reply>>
    BY <1>4 DEF ListEntry
  <2>2. Found(p).alone => Found(p).value \in Answers[Found(p).key]
    BY <2>1, FoundValue
  <2>3. /\ listed' = [listed EXCEPT ![p] = listed'[p]]
        /\ listed'[p] = listed[p] \union {Found(p)}
    BY <1>1, <2>1
  <2>4. reply' = [reply EXCEPT ![p] = reply'[p]] /\ reply'[p] = reply[p]
    BY <1>1, <2>1
  <2>5. FoundInv(p)'
    BY <1>1, <2>2, <2>3, <2>4 DEF ProcessInv, FoundInv
  <2>6. /\ entry' = [entry EXCEPT ![p] = entry'[p]] /\ entry'[p] \in Entry \union {None}
        /\ names' = [names EXCEPT ![p] = names'[p]] /\ names'[p] \subseteq Key
    BY <1>1, <2>1 DEF TypeOK
  <2> QED
    BY <2>1, <2>3, <2>4, <2>5, <2>6, CloseKeeps
<1>5. CASE ListSkip(p)
  <2>1. /\ Close(p) /\ pc' = [pc EXCEPT ![p] = "next"]
        /\ UNCHANGED <<entry, names, reply, listed>>
    BY <1>5 DEF ListSkip
  <2>2. /\ entry' = [entry EXCEPT ![p] = entry'[p]] /\ entry'[p] \in Entry \union {None}
        /\ names' = [names EXCEPT ![p] = names'[p]] /\ names'[p] \subseteq Key
    BY <1>1, <2>1 DEF TypeOK
  <2> QED
    BY <2>1, <2>2, FoundStays, CloseKeeps
<1>6. CASE ListReturn(p)
  <2>1. Return(p) /\ listed' = [listed EXCEPT ![p] = {}] /\ UNCHANGED reply
    BY <1>6 DEF ListReturn
  <2>2. listed' = [listed EXCEPT ![p] = listed'[p]] /\ listed'[p] = {}
    BY <1>1, <2>1
  <2>3. reply' = [reply EXCEPT ![p] = reply'[p]] /\ reply'[p] = reply[p]
    BY <1>1, <2>1
  <2>4. FoundInv(p)'
    BY <1>1, <2>2, <2>3 DEF ProcessInv, FoundInv
  <2> QED
    BY <2>1, <2>2, <2>3, <2>4, ReturnKeeps
<1> QED
  BY <1>2, <1>3, <1>4, <1>5, <1>6 DEF ListStep

\* os.Create: the file is the key's before, or nobody's.
LEMMA PutOpenKeeps ==
    ASSUME FileInv, NEW p \in Proc, PutOpen(p)
    PROVE  FileInv'
<1> DEFINE k == key[p]
<1>1. PICK i \in IF dir[k] = None THEN Free ELSE {dir[k]} :
        /\ dir' = [dir EXCEPT ![k] = i]
        /\ file' = [file EXCEPT ![i] = <<>>]
        /\ fd' = [fd EXCEPT ![p] = i]
        /\ mixed' = IF \E q \in Proc : pc[q] = "put" /\ fd[q] = i
                      THEN mixed \union {i} ELSE mixed \ {i}
        /\ alone' = [q \in Proc |-> alone[q] /\ fd[q] # i]
  BY DEF PutOpen, Create, Cut
<1>2. PICK e \in Answers[k] : entry' = [entry EXCEPT ![p] = e]
  BY DEF PutOpen
<1>3. /\ pc[p] = "rows" /\ pc' = [pc EXCEPT ![p] = "put"]
      /\ UNCHANGED <<key, done, names, reply, listed>>
  BY DEF PutOpen, Goto
<1>4. TypeOK /\ ProcessInv(p) /\ None \notin Inode /\ <<>> \in Seq((Entry \X Nat) \union {None})
  BY FileNoneAssumption, EmptySeq DEF FileInv
<1>5. k \in Key /\ done[p] = <<>> /\ fd[p] = None
  BY <1>3, <1>4 DEF ProcessInv, KeyInv, TypeOK
<1>6. i \in Inode /\ e \in Entry /\ Pieces[e] \in Nat \ {0}
  BY <1>1, <1>2, <1>4, <1>5, AnswerType DEF Free, TypeOK
<1> HIDE DEF k
<1>7. TypeOK'
  <2>1. alone' \in [Proc -> BOOLEAN]
    BY <1>1
  <2>2. mixed' \subseteq Inode
    BY <1>1, <1>4, <1>6 DEF TypeOK
  <2>3. /\ dir' \in [Key -> Inode \union {None}]
        /\ file' \in [Inode -> Seq((Entry \X Nat) \union {None})]
        /\ pc' \in [Proc -> {"idle", "get", "next", "list", "rows", "put", "clear"}]
        /\ key' \in [Proc -> Key \union {None}] /\ fd' \in [Proc -> Inode \union {None}]
        /\ \A q \in Proc : fd'[q] # None <=> pc'[q] \in {"get", "list", "put"}
        /\ done' \in [Proc -> Seq(Entry \X Nat)]
        /\ entry' \in [Proc -> Entry \union {None}]
        /\ names' \in [Proc -> SUBSET Key]
    BY <1>1, <1>2, <1>3, <1>4, <1>5, <1>6 DEF TypeOK
  <2> QED
    BY <2>1, <2>2, <2>3 DEF TypeOK
<1>8. /\ file'[i] = <<>> /\ \A j \in Inode : j # i => file'[j] = file[j]
      /\ \A j \in Inode : j # i => (j \in mixed' <=> j \in mixed)
      /\ \A q \in Proc : q # p => /\ pc'[q] = pc[q] /\ fd'[q] = fd[q]
                                  /\ entry'[q] = entry[q]
      /\ pc'[p] = "put" /\ fd'[p] = i /\ entry'[p] = e
  BY <1>1, <1>2, <1>3, <1>4, <1>6 DEF TypeOK
<1>9. \A q \in Proc : alone'[q] => alone[q] /\ fd[q] # i
  BY <1>1
<1>10. FilesInv'
  <2>1. \A l \in Key : Holds(i, l) => l = k
    BY <1>1, <1>4, <1>5, <1>6 DEF Free, Holds, FileInv, FilesInv
  <2>2. \A j \in Inode, l \in Key : Holds(j, l)' => IF j = i THEN l = k ELSE Holds(j, l)
    BY <1>1, <1>3, <1>4, <1>5, <1>6, <1>8, <2>1 DEF Holds, TypeOK, k
  <2>3. \A j \in Inode, l, m \in Key : Holds(j, l)' /\ Holds(j, m)' => l = m
    BY <2>2 DEF FileInv, FilesInv
  <2>4. Starts(e, <<>>)
    BY <1>6, EmptySeq DEF Starts
  <2>5. ASSUME NEW j \in Inode, NEW l \in Key, Holds(j, l)', j \notin mixed'
        PROVE  \E f \in Answers[l] : Starts(f, file'[j])
    BY <1>2, <1>8, <2>2, <2>4, <2>5 DEF FileInv, FilesInv
  <2> QED
    BY <2>3, <2>5 DEF FilesInv, Starts
<1>11. ApartInv'
  <2>1. \A q \in Proc : pc[q] = "put" /\ fd[q] = i => i \in mixed'
    BY <1>1
  <2> QED
    BY <1>3, <1>4, <1>6, <1>8, <2>1 DEF FileInv, ApartInv, TypeOK
<1>12. ASSUME NEW q \in Proc PROVE ProcessInv(q)'
  <2>1. ProcessInv(q)
    BY DEF FileInv
  <2>2. KeyInv(q)' /\ FoundInv(q)'
    BY <1>3, <1>4, <1>5, <1>8, <2>1 DEF ProcessInv, KeyInv, FoundInv, k
  <2>3. CASE q = p
    <3>1. Starts(e, <<>>)
      BY <1>6, EmptySeq DEF Starts
    <3>2. WriterInv(q)' /\ ReaderInv(q)'
      BY <1>2, <1>3, <1>5, <1>8, <2>3, <3>1 DEF WriterInv, ReaderInv, Starts, k
    <3> QED
      BY <2>2, <3>2 DEF ProcessInv
  <2>4. CASE q # p
    <3>1. pc[q] \in {"get", "list", "put"} => fd[q] \in Inode
      BY <1>4 DEF TypeOK
    <3>2. pc[q] = "put" /\ fd[q] = i => i \in mixed'
      BY <1>1
    <3>3. WriterInv(q)'
      BY <1>3, <1>8, <2>1, <2>4, <3>1, <3>2 DEF ProcessInv, WriterInv, Starts
    <3>4. ReaderInv(q)'
      BY <1>3, <1>8, <1>9, <2>1, <2>4, <3>1 DEF ProcessInv, ReaderInv
    <3> QED
      BY <2>2, <3>3, <3>4 DEF ProcessInv
  <2> QED
    BY <2>3, <2>4
<1> QED
  BY <1>3, <1>7, <1>10, <1>11, <1>12 DEF FileInv

\* A piece is written.
LEMMA PutWriteKeeps ==
    ASSUME FileInv, NEW p \in Proc, PutWrite(p)
    PROVE  FileInv'
<1> DEFINE n == Len(done[p]) + 1
           e == entry[p]
           i == fd[p]
           t == Append(done[p], <<e, n>>)
           f == Written(file[i], n, <<e, n>>)
           top == IF n > Len(file[i]) THEN n ELSE Len(file[i])
<1>1. /\ pc[p] = "put" /\ Len(done[p]) < Pieces[e]
      /\ done' = [done EXCEPT ![p] = t]
      /\ file' = [file EXCEPT ![i] = f]
      /\ UNCHANGED <<dir, pc, key, fd, entry, names, reply, listed, mixed, alone>>
  BY DEF PutWrite, history
<1>2. TypeOK /\ ProcessInv(p) /\ WriterInv(p)
  BY DEF FileInv, ProcessInv
<1>3. i \in Inode /\ key[p] \in Key /\ e \in Answers[key[p]] /\ done[p] \in Seq(Data)
  BY <1>1, <1>2 DEF TypeOK, ProcessInv, KeyInv, WriterInv, Data
<1>4. /\ e \in Entry /\ Pieces[e] \in Nat /\ n \in Nat \ {0} /\ n <= Pieces[e]
      /\ <<e, n>> \in Data
  BY <1>1, <1>3, AnswerType, LenProperties DEF Data
<1>5. /\ Starts(e, done[p]) /\ (i \notin mixed => file[i] = done[p])
  BY <1>1, <1>2 DEF WriterInv
<1>6. /\ t \in Seq(Data) /\ Len(t) = n /\ t[n] = <<e, n>>
      /\ \A j \in 1..(n - 1) : t[j] = done[p][j]
  BY <1>3, <1>4, AppendProperties
<1>7. /\ Len(file[i]) \in Nat /\ file[i] \in Seq(Data \union {None})
      /\ \A j \in 1..Len(file[i]) : file[i][j] \in Data \union {None}
  BY <1>2, <1>3, LenProperties DEF TypeOK, Data
<1>8. n = Len(done[p]) + 1 /\ Len(done[p]) \in Nat
  BY <1>3, LenProperties
<1> HIDE DEF t, e, i, n
<1>9. top \in Nat /\ f \in [1..top -> Data \union {None}] /\ f[n] = <<e, n>>
      /\ \A j \in 1..Len(file[i]) : j # n => f[j] = file[i][j]
  BY <1>4, <1>7 DEF Written
<1> HIDE DEF f
<1>10. f \in Seq(Data \union {None}) /\ Len(f) = top
  <2>1. f \in Seq(Data \union {None})
    BY <1>9, SeqDef
  <2>2. Len(f) \in Nat /\ DOMAIN f = 1..Len(f) /\ DOMAIN f = 1..top
    BY <1>9, <2>1, LenProperties
  <2> QED
    BY <1>9, <2>1, <2>2
<1>11. i \notin mixed => f = t
  <2> SUFFICES ASSUME i \notin mixed PROVE f = t
    OBVIOUS
  <2>1. file[i] = done[p] /\ Len(file[i]) = n - 1
    BY <1>5, <1>8
  <2>2. Len(f) = n
    BY <1>4, <1>9, <1>10, <2>1
  <2>4. ASSUME NEW j \in 1..n PROVE f[j] = t[j]
    <3>1. CASE j = n
      BY <1>6, <1>9, <3>1
    <3>2. CASE j # n
      <4>1. j \in 1..(n - 1)
        BY <1>4, <3>2
      <4>2. f[j] = file[i][j] /\ t[j] = done[p][j]
        BY <1>6, <1>9, <2>1, <3>2, <4>1
      <4> QED BY <2>1, <4>2
    <3> QED BY <3>1, <3>2
  <2>3. t \in Seq(Data \union {None})
    BY <1>6 DEF Data
  <2> QED
    BY <1>6, <1>10, <2>2, <2>3, <2>4, SeqEqual
<1>12. Starts(e, t)
  <2>1. \A j \in 1..(n - 1) : t[j] = <<e, j>>
    BY <1>5, <1>6, <1>8 DEF Starts
  <2>2. \A j \in 1..n : j = n \/ j \in 1..(n - 1)
    BY <1>4
  <2> QED
    BY <1>4, <1>6, <2>1, <2>2 DEF Starts
<1>13. TypeOK'
  BY <1>1, <1>2, <1>3, <1>6, <1>10 DEF TypeOK, Data
<1>14. /\ file'[i] = f /\ \A j \in Inode : j # i => file'[j] = file[j]
       /\ done'[p] = t /\ \A q \in Proc : q # p => done'[q] = done[q]
  BY <1>1, <1>2, <1>3 DEF TypeOK
<1>15. \A j \in Inode, l \in Key : Holds(j, l)' <=> Holds(j, l)
  BY <1>1 DEF Holds
<1>16. FilesInv'
  <2>1. \A l \in Key : Holds(i, l) => l = key[p]
    BY <1>3 DEF Holds, FileInv, FilesInv, i
  <2>2. \A j \in Inode, l, m \in Key : Holds(j, l)' /\ Holds(j, m)' => l = m
    BY <1>15 DEF FileInv, FilesInv
  <2>3. ASSUME NEW j \in Inode, NEW l \in Key, Holds(j, l)', j \notin mixed'
        PROVE  \E g \in Answers[l] : Starts(g, file'[j])
    <3>1. CASE j = i
      BY <1>1, <1>3, <1>11, <1>12, <1>14, <1>15, <2>1, <2>3, <3>1
    <3>2. CASE j # i
      BY <1>1, <1>14, <1>15, <2>3, <3>2 DEF FileInv, FilesInv
    <3> QED
      BY <3>1, <3>2
  <2> QED
    BY <2>2, <2>3 DEF FilesInv, Starts
<1>17. ApartInv'
  BY <1>1 DEF FileInv, ApartInv
<1>18. ASSUME NEW q \in Proc PROVE ProcessInv(q)'
  <2>1. ProcessInv(q) /\ (pc[q] \in {"get", "list", "put"} => fd[q] \in Inode)
    BY <1>2 DEF FileInv, TypeOK
  <2>2. KeyInv(q)' /\ FoundInv(q)'
    BY <1>1, <1>14, <2>1 DEF ProcessInv, KeyInv, FoundInv
  <2>3. ReaderInv(q)'
    <3> SUFFICES ASSUME pc[q] \in {"get", "list"}, alone[q]
                 PROVE  /\ fd[q] \notin mixed /\ Len(done[q]) <= Len(file'[fd[q]])
                        /\ \A j \in 1..Len(done[q]) : done[q][j] = file'[fd[q]][j]
      BY <1>1, <1>14 DEF ReaderInv
    <3>1. /\ fd[q] \notin mixed /\ Len(done[q]) <= Len(file[fd[q]])
          /\ \A j \in 1..Len(done[q]) : done[q][j] = file[fd[q]][j]
      BY <2>1 DEF ProcessInv, ReaderInv
    <3>2. CASE fd[q] = i
      <4>1. file[i] = done[p] /\ file'[i] = t
        BY <1>5, <1>11, <1>14, <3>1, <3>2
      <4>2. done[q] \in Seq(Data)
        BY <1>2 DEF TypeOK, Data
      <4> QED
        BY <1>6, <1>8, <3>1, <3>2, <4>1, <4>2, LenProperties
    <3>3. CASE fd[q] # i
      BY <1>14, <2>1, <3>1, <3>3
    <3> QED
      BY <3>2, <3>3
  <2>4. WriterInv(q)'
    <3>1. CASE q = p
      BY <1>1, <1>3, <1>11, <1>12, <1>14, <3>1 DEF WriterInv, Starts, e, i
    <3>2. CASE q # p
      <4>1. pc[q] = "put" /\ fd[q] = i => i \in mixed
        BY <1>1, <3>2 DEF FileInv, ApartInv, i
      <4> QED
        BY <1>1, <1>14, <2>1, <3>2, <4>1 DEF ProcessInv, WriterInv, Starts
    <3> QED
      BY <3>1, <3>2
  <2> QED
    BY <2>2, <2>3, <2>4 DEF ProcessInv
<1> QED
  BY <1>1, <1>13, <1>16, <1>17, <1>18 DEF FileInv

LEMMA PutKeeps ==
    ASSUME FileInv, NEW p \in Proc, PutStep(p)
    PROVE  FileInv'
<1>1. /\ TypeOK /\ ProcessInv(p) /\ None \notin Inode
      /\ reply = [q \in Proc |-> reply[q]] /\ listed = [q \in Proc |-> listed[q]]
  BY FileNoneAssumption DEF FileInv
<1>2. ASSUME NEW k \in Key, PutStart(p, k) PROVE FileInv'
  <2>1. /\ pc[p] = "idle" /\ pc' = [pc EXCEPT ![p] = "rows"]
        /\ key' = [key EXCEPT ![p] = k] /\ reply' = [reply EXCEPT ![p] = None]
        /\ UNCHANGED <<dir, file, fd, done, entry, names, listed, mixed, alone>>
    BY <1>2 DEF PutStart, Goto, history
  <2>2. TypeOK' /\ OthersStay(p)
    BY <1>1, <2>1 DEF OthersStay, TypeOK
  <2>3. /\ reply' = [q \in Proc |-> reply'[q]] /\ listed' = [q \in Proc |-> listed'[q]]
        /\ FoundInv(p)'
    BY <1>1, <2>1 DEF ProcessInv, FoundInv
  <2>4. pc'[p] = "rows" /\ key'[p] = k /\ done'[p] = <<>> /\ fd'[p] = None
    BY <1>1, <2>1 DEF TypeOK, ProcessInv, KeyInv
  <2>5. ProcessInv(p)'
    BY <2>3, <2>4 DEF ProcessInv, WriterInv, ReaderInv, KeyInv
  <2> QED
    BY <2>1, <2>2, <2>3, <2>4, <2>5, LocalKeeps
<1>3. CASE PutRefused(p) \/ PutFail(p) \/ PutReturn(p)
  BY <1>3, FoundStays, ReturnKeeps DEF PutRefused, PutFail, PutReturn
<1> QED
  BY <1>2, <1>3, PutOpenKeeps, PutWriteKeeps DEF PutStep

LEMMA ClearKeeps ==
    ASSUME FileInv, NEW p \in Proc, ClearStep(p) \/ Crash(p)
    PROVE  FileInv'
<1>1. /\ TypeOK /\ ProcessInv(p) /\ None \notin Inode
      /\ reply = [q \in Proc |-> reply[q]] /\ listed = [q \in Proc |-> listed[q]]
  BY FileNoneAssumption DEF FileInv
<1>2. CASE ClearNames(p)
  <2>1. /\ pc[p] = "idle" /\ pc' = [pc EXCEPT ![p] = "clear"]
        /\ names' = [names EXCEPT ![p] = names'[p]] /\ names'[p] \subseteq Key
        /\ UNCHANGED <<dir, file, key, fd, done, entry, reply, listed, mixed, alone>>
    BY <1>1, <1>2 DEF ClearNames, ReadDir, Goto, history, TypeOK
  <2>2. TypeOK' /\ OthersStay(p)
    BY <1>1, <2>1 DEF OthersStay, TypeOK
  <2>3. pc'[p] = "clear" /\ FoundInv(p)'
    BY <1>1, <2>1 DEF TypeOK, ProcessInv, FoundInv
  <2>4. ProcessInv(p)'
    BY <1>1, <2>1, <2>3 DEF ProcessInv, WriterInv, ReaderInv, KeyInv
  <2> QED
    BY <1>1, <2>1, <2>2, <2>3, <2>4, LocalKeeps
<1>3. CASE ClearRemove(p)
  <2>1. /\ pc[p] = "clear" /\ Reclaim
        /\ \E k \in names[p] : dir' = dir \/ dir' = [dir EXCEPT ![k] = None]
        /\ names' = [names EXCEPT ![p] = names'[p]] /\ names'[p] \subseteq Key
        /\ UNCHANGED <<fd, pc, key, done, entry, reply, listed, alone>>
    BY <1>1, <1>3 DEF ClearRemove, TypeOK
  <2>2. dir' \in [Key -> Inode \union {None}]
        /\ \A k \in Key : dir'[k] = dir[k] \/ dir'[k] = None
    BY <1>1, <2>1 DEF TypeOK
  <2>3. TypeOK'
    <3>1. /\ file' \in [Inode -> Seq((Entry \X Nat) \union {None})]
          /\ mixed' \subseteq Inode
      BY <1>1, <2>1, ReclaimType
    <3>2. names' \in [Proc -> SUBSET Key]
      BY <1>1, <2>1 DEF TypeOK
    <3> QED
      BY <1>1, <2>1, <2>2, <3>1, <3>2 DEF TypeOK
  <2>4. OthersStay(p)
    BY <2>1 DEF OthersStay
  <2>5. FilesStay
    BY <1>1, <2>1, ReclaimStays DEF TypeOK
  <2>6. \A i \in Inode, k \in Key : Holds(i, k)' => Holds(i, k)
    BY <1>1, <2>1, <2>2 DEF Holds
  <2>7. ProcessInv(p)'
    BY <1>1, <2>1 DEF ProcessInv, WriterInv, ReaderInv, KeyInv, FoundInv
  <2> QED
    BY <1>1, <2>1, <2>3, <2>4, <2>5, <2>6, <2>7, StepKeeps
<1>4. CASE ClearReturn(p)
  BY <1>4, FoundStays, ReturnKeeps DEF ClearReturn
<1>5. CASE Crash(p)
  BY <1>5, FoundReset, ReturnKeeps DEF Crash
<1> QED
  BY <1>2, <1>3, <1>4, <1>5 DEF ClearStep

LEMMA FileInit == Init => FileInv
<1> SUFFICES ASSUME Init PROVE FileInv
  OBVIOUS
<1>1. None \notin Inode
  BY FileNoneAssumption
<1>2. \A S : <<>> \in Seq(S)
  BY EmptySeq
<1>3. alone \in [Proc -> BOOLEAN]
  BY DEF Init
<1>4. TypeOK
  BY <1>2, <1>3 DEF Init, TypeOK
<1>5. FilesInv /\ ApartInv
  BY <1>1 DEF Init, FilesInv, Holds, ApartInv
<1>6. \A p \in Proc : ProcessInv(p)
  BY DEF Init, ProcessInv, WriterInv, ReaderInv, KeyInv, FoundInv
<1>7. reply = [p \in Proc |-> reply[p]] /\ listed = [p \in Proc |-> listed[p]]
  BY DEF Init
<1> QED
  BY <1>4, <1>5, <1>6, <1>7 DEF FileInv

LEMMA FileInductive == Spec => []FileInv
<1>1. FileInv /\ [Next]_vars => FileInv'
  <2> SUFFICES ASSUME FileInv, [Next]_vars PROVE FileInv'
    OBVIOUS
  <2>1. CASE UNCHANGED vars
    <3>1. TypeOK'
      BY <2>1 DEF vars, local, history, FileInv, TypeOK
    <3>2. FilesInv'
      BY <2>1 DEF vars, local, history, FileInv, FilesInv, Holds, Starts
    <3>3. ApartInv'
      BY <2>1 DEF vars, local, history, FileInv, ApartInv
    <3>4. \A p \in Proc : ProcessInv(p)'
      BY <2>1 DEF vars, local, history, FileInv, ProcessInv, WriterInv, Starts, ReaderInv,
        KeyInv, FoundInv
    <3> QED
      BY <2>1, <3>1, <3>2, <3>3, <3>4 DEF vars, FileInv
  <2>2. CASE Next
    BY <2>2, GetKeeps, ListKeeps, PutKeeps, ClearKeeps DEF Next, Proc
  <2> QED
    BY <2>1, <2>2
<1> QED
  BY <1>1, FileInit, PTL DEF Spec

\* The variables of FileCache are well typed, and every open file is closed, for any
\* processes, keys, entries, files and faults.
THEOREM FilesTyped == Spec => []TypeOK
BY FileInductive, FoundIsResult, PTL

\* However many processes write, read, remove and crash, a hit on a file that no Put
\* opened under the reader and no two Puts had open at once is a complete entry of
\* its own key.
THEOREM FileHits == Spec => []HitIsResult
BY FileInductive, FoundIsResult, PTL

\* And so is every entry that List shows of such a file.
THEOREM FileLists == Spec => []ListedIsWhole
BY FileInductive, FoundIsResult, PTL
=============================================================================

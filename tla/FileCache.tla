----------------------------- MODULE FileCache -----------------------------
(***************************************************************************)
(* The gzip file per key of src/cache/cache.go.  No command calls it any   *)
(* more; it is modelled as it stands, used by several processes.           *)
(*                                                                         *)
(* A file is written through gzip, which hands it to the operating system  *)
(* in pieces, and read in pieces.  os.Create truncates the file in place,  *)
(* under whoever reads or writes it; os.Remove only takes its name away.   *)
(* The JSON decoder stops at the end of the value and does not look at     *)
(* gzip's checksum.  Every Put writes an entry of its own: the result with *)
(* the time (cache.go:100).                                                *)
(*                                                                         *)
(* Operators marked "Wrong" are variants with a bug; README.md says which  *)
(* property finds each of them.                                            *)
(***************************************************************************)
EXTENDS Naturals, Sequences

CONSTANTS
    Key,      \* connection and query, hashed
    Entry,    \* what a Put writes: a result of its query, with the time
    Pieces,   \* into how many pieces each entry's file is cut
    Answers,  \* the entries that may be written for a key
    Writer,   \* processes that run queries
    Reader,   \* processes that look up or list
    Cleaner,  \* processes that clear
    Inode,    \* files, with or without a name
    Faults,   \* "crash", "full": a write fails, "io": any other call does
    None

Proc == Writer \union Reader \union Cleaner

ASSUME PiecesAssumption == Pieces \in [Entry -> Nat \ {0}]
ASSUME AnswersAssumption == Answers \in [Key -> SUBSET Entry]
ASSUME FileNoneAssumption == None \notin Entry \union Inode \union Key

VARIABLES
    dir,     \* the file each name stands for
    file,    \* contents: a piece is <<entry, number>>, or None in a hole
    pc,      \* what a process does next
    key,     \* the key it works on
    fd,      \* the file it has open
    done,    \* the pieces it has read or written
    entry,   \* the entry it writes
    names,   \* the names it has yet to list or remove
    reply,   \* the answer of its last Get
    listed,  \* the entries its List has found so far
    mixed,   \* history: the files that two Puts had open at once
    alone    \* history: no Put has opened the file a process reads since it
             \* did, and it was not mixed then

local == <<pc, key, fd, done, entry, names>>
history == <<mixed, alone>>
vars == <<dir, file, local, reply, listed, history>>

Whole(e) == [i \in 1..Pieces[e] |-> <<e, i>>]

\* A file nobody can reach any more.
Free == Inode \ ({dir[k] : k \in Key} \union {fd[p] : p \in Proc})

Goto(p, next) == pc' = [pc EXCEPT ![p] = next]
Open(p, i) ==
    /\ fd' = [fd EXCEPT ![p] = i]
    /\ alone' = [alone EXCEPT ![p] = i \notin mixed]

\* The system takes back what nobody can reach.
Reclaim ==
    LET free == Free'
    IN  /\ file' = [i \in Inode |-> IF i \in free THEN <<>> ELSE file[i]]
        /\ mixed' = mixed \ free

Close(p) ==
    /\ UNCHANGED dir
    /\ fd' = [fd EXCEPT ![p] = None]
    /\ Reclaim
    /\ alone' = [alone EXCEPT ![p] = TRUE]
    /\ key' = [key EXCEPT ![p] = None]
    /\ done' = [done EXCEPT ![p] = <<>>]

\* An operation comes back, or its process dies.
Return(p) ==
    /\ Close(p)
    /\ Goto(p, "idle")
    /\ entry' = [entry EXCEPT ![p] = None]
    /\ names' = [names EXCEPT ![p] = {}]

Init ==
    /\ dir = [k \in Key |-> None]
    /\ file = [i \in Inode |-> <<>>]
    /\ pc = [p \in Proc |-> "idle"]
    /\ key = [p \in Proc |-> None]
    /\ fd = [p \in Proc |-> None]
    /\ done = [p \in Proc |-> <<>>]
    /\ entry = [p \in Proc |-> None]
    /\ names = [p \in Proc |-> {}]
    /\ reply = [p \in Proc |-> None]
    /\ listed = [p \in Proc |-> {}]
    /\ mixed = {} /\ alone = [p \in Proc |-> TRUE]

----------------------------------------------------------------------------
(* Get and List                                                            *)

GetOpen(p, k) ==
    /\ pc[p] = "idle"
    /\ dir[k] # None /\ Open(p, dir[k])
    /\ Goto(p, "get")
    /\ key' = [key EXCEPT ![p] = k]
    /\ reply' = [reply EXCEPT ![p] = None]
    /\ UNCHANGED <<dir, file, done, entry, names, listed, mixed>>

GetMissing(p, k) ==
    /\ pc[p] = "idle"
    /\ dir[k] = None \/ "io" \in Faults
    /\ reply' = [reply EXCEPT ![p] = None]
    /\ UNCHANGED <<dir, file, local, listed, history>>

\* The pieces read make up a value.
Complete(pieces) ==
    \E e \in Entry : Len(pieces) = Pieces[e] /\ pieces[Len(pieces)] = <<e, Pieces[e]>>

AtEnd(p) == Len(done[p]) >= Len(file[fd[p]])
NextPiece(p) == file[fd[p]][Len(done[p]) + 1]
Reads(p) == Append(done[p], NextPiece(p))

\* More of the value.  Pieces of two entries after each other may still decode.
ReadPiece(p) ==
    /\ pc[p] \in {"get", "list"}
    /\ ~ AtEnd(p)
    /\ NextPiece(p) # None
    /\ ~ Complete(Reads(p))
    /\ done' = [done EXCEPT ![p] = Reads(p)]
    /\ UNCHANGED <<dir, file, pc, key, fd, entry, names, reply, listed, history>>

\* What the pieces say: an entry, or a mixture.
Value(pieces) ==
    IF \E e \in Entry : pieces = Whole(e)
      THEN CHOOSE e \in Entry : pieces = Whole(e)
      ELSE pieces

\* The last piece of the value.
Decoded(p) == ~ AtEnd(p) /\ NextPiece(p) # None /\ Complete(Reads(p))
Found(p) == [key |-> key[p], value |-> Value(Reads(p)), alone |-> alone[p]]

\* The file ends early, cannot be read, or does not decode.
Undecodable(p) ==
    ~ AtEnd(p) =>
      \/ NextPiece(p) = None \/ "io" \in Faults
      \/ Complete(Reads(p)) /\ Value(Reads(p)) \notin Entry

GetHit(p) ==
    /\ pc[p] = "get"
    /\ Decoded(p)
    /\ reply' = [reply EXCEPT ![p] = Found(p)]
    /\ Return(p)
    /\ UNCHANGED listed

GetMiss(p) ==
    /\ pc[p] = "get"
    /\ Undecodable(p)
    /\ Return(p)
    /\ UNCHANGED <<reply, listed>>

\* os.ReadDir; List and Clear have nothing to do where it fails.
ReadDir(p) ==
    \/ names' = [names EXCEPT ![p] = {k \in Key : dir[k] # None}]
    \/ "io" \in Faults /\ names' = [names EXCEPT ![p] = {}]

ListNames(p) ==
    /\ pc[p] = "idle"
    /\ ReadDir(p)
    /\ Goto(p, "next")
    /\ reply' = [reply EXCEPT ![p] = None]
    /\ UNCHANGED <<dir, file, key, fd, done, entry, listed, history>>

\* A name that is gone by now is skipped, like a file that does not decode.
ListOpen(p) ==
    /\ pc[p] = "next"
    /\ \E k \in names[p] :
         /\ names' = [names EXCEPT ![p] = @ \ {k}]
         /\ \/ dir[k] # None /\ Open(p, dir[k])
               /\ Goto(p, "list") /\ key' = [key EXCEPT ![p] = k]
            \/ (dir[k] = None \/ "io" \in Faults) /\ UNCHANGED <<pc, key, fd, alone>>
    /\ UNCHANGED <<dir, file, done, entry, reply, listed, mixed>>

\* Wrong: an error of the decoder is ignored.
ListEntryUnchecked(p) ==
    /\ pc[p] = "list"
    /\ AtEnd(p) \/ Decoded(p)
    /\ LET pieces == IF AtEnd(p) THEN done[p] ELSE Reads(p)
           found == [key |-> key[p], value |-> Value(pieces), alone |-> alone[p]]
       IN  listed' = [listed EXCEPT ![p] = @ \union {found}]
    /\ Goto(p, "next") /\ Close(p)
    /\ UNCHANGED <<entry, names, reply>>

ListEntry(p) ==
    /\ pc[p] = "list"
    /\ Decoded(p)
    /\ listed' = [listed EXCEPT ![p] = @ \union {Found(p)}]
    /\ Goto(p, "next") /\ Close(p)
    /\ UNCHANGED <<entry, names, reply>>

\* Wrong: a file that does not decode stays open.
ListSkipLeaks(p) ==
    /\ pc[p] = "list"
    /\ Undecodable(p)
    /\ Goto(p, "next")
    /\ UNCHANGED <<dir, file, key, fd, done, entry, names, reply, listed, history>>

ListSkip(p) ==
    /\ pc[p] = "list"
    /\ Undecodable(p)
    /\ Goto(p, "next") /\ Close(p)
    /\ UNCHANGED <<entry, names, reply, listed>>

ListReturn(p) ==
    /\ pc[p] = "next" /\ names[p] = {}
    /\ Return(p)
    /\ listed' = [listed EXCEPT ![p] = {}]
    /\ UNCHANGED reply

----------------------------------------------------------------------------
(* Put                                                                     *)

\* The directory is made and the rows are collected.
PutStart(p, k) ==
    /\ pc[p] = "idle"
    /\ key' = [key EXCEPT ![p] = k]
    /\ reply' = [reply EXCEPT ![p] = None]
    /\ Goto(p, "rows")
    /\ UNCHANGED <<dir, file, fd, done, entry, names, listed, history>>

\* MkdirAll, Row or Create returns an error.
PutRefused(p) ==
    /\ "io" \in Faults
    /\ pc[p] = "rows"
    /\ Return(p)
    /\ UNCHANGED <<reply, listed>>

\* Wrong: the file is opened without O_TRUNC.
CutNothing(f) == f

\* What is left of a file that os.Create opens.
Cut(f) == <<>>

Create(p, k) ==
    \E i \in IF dir[k] = None THEN Free ELSE {dir[k]} :
      /\ dir' = [dir EXCEPT ![k] = i]
      /\ file' = [file EXCEPT ![i] = Cut(@)]
      /\ fd' = [fd EXCEPT ![p] = i]
      /\ mixed' = IF \E q \in Proc : pc[q] = "put" /\ fd[q] = i
                    THEN mixed \union {i} ELSE mixed \ {i}
      /\ alone' = [q \in Proc |-> alone[q] /\ fd[q] # i]

\* Nothing is left of it, so it can stand for an entry with another time.
Fresh(e) ==
    /\ \A i \in Inode : \A n \in DOMAIN file'[i] : file'[i][n] # None => file'[i][n][1] # e
    /\ \A p \in Proc : entry[p] # e /\ \A n \in DOMAIN done[p] : done[p][n][1] # e

PutOpen(p) ==
    /\ pc[p] = "rows"
    /\ Create(p, key[p])
    /\ \E e \in Answers[key[p]] : Fresh(e) /\ entry' = [entry EXCEPT ![p] = e]
    /\ Goto(p, "put")
    /\ UNCHANGED <<key, done, names, reply, listed>>

\* A piece goes where the last one ended, whatever has been done to the file.
Written(f, at, piece) ==
    [i \in 1..(IF at > Len(f) THEN at ELSE Len(f)) |->
       IF i = at THEN piece ELSE IF i <= Len(f) THEN f[i] ELSE None]

PutWrite(p) ==
    /\ pc[p] = "put"
    /\ Len(done[p]) < Pieces[entry[p]]
    /\ LET piece == <<entry[p], Len(done[p]) + 1>>
       IN  /\ done' = [done EXCEPT ![p] = Append(@, piece)]
           /\ file' = [file EXCEPT ![fd[p]] = Written(@, piece[2], piece)]
    /\ UNCHANGED <<dir, pc, key, fd, entry, names, reply, listed, history>>

\* Encode, or Close, returns an error; the file stays.  Encode writes nothing of
\* a value that JSON has no form for.
PutFail(p) ==
    /\ pc[p] = "put"
    /\ Len(done[p]) < Pieces[entry[p]]
    /\ done[p] = <<>> \/ "full" \in Faults
    /\ Return(p)
    /\ UNCHANGED <<reply, listed>>

PutReturn(p) ==
    /\ pc[p] = "put"
    /\ Len(done[p]) = Pieces[entry[p]]
    /\ Return(p)
    /\ UNCHANGED <<reply, listed>>

----------------------------------------------------------------------------
(* Clear                                                                   *)

ClearNames(p) ==
    /\ pc[p] = "idle"
    /\ ReadDir(p)
    /\ Goto(p, "clear")
    /\ UNCHANGED <<dir, file, key, fd, done, entry, reply, listed, history>>

\* os.Remove, whose error is ignored.
ClearRemove(p) ==
    /\ pc[p] = "clear"
    /\ \E k \in names[p] :
         /\ names' = [names EXCEPT ![p] = @ \ {k}]
         /\ \/ dir' = [dir EXCEPT ![k] = None]
            \/ "io" \in Faults /\ UNCHANGED dir
    /\ UNCHANGED fd
    /\ Reclaim
    /\ UNCHANGED <<pc, key, done, entry, reply, listed, alone>>

ClearReturn(p) ==
    /\ pc[p] = "clear" /\ names[p] = {}
    /\ Return(p)
    /\ UNCHANGED <<reply, listed>>

----------------------------------------------------------------------------
Crash(p) ==
    /\ "crash" \in Faults
    /\ pc[p] # "idle"
    /\ Return(p)
    /\ reply' = [reply EXCEPT ![p] = None]
    /\ listed' = [listed EXCEPT ![p] = {}]

GetStep(p) ==
    \/ \E k \in Key : GetOpen(p, k) \/ GetMissing(p, k)
    \/ ReadPiece(p) \/ GetHit(p) \/ GetMiss(p)
PutStep(p) ==
    \/ \E k \in Key : PutStart(p, k)
    \/ PutRefused(p) \/ PutOpen(p) \/ PutWrite(p) \/ PutFail(p) \/ PutReturn(p)
ClearStep(p) == ClearNames(p) \/ ClearRemove(p) \/ ClearReturn(p)
ListStep(p) == ListNames(p) \/ ListOpen(p) \/ ListEntry(p) \/ ListSkip(p) \/ ListReturn(p)

Next ==
    \/ \E p \in Writer : PutStep(p)
    \/ \E p \in Reader : GetStep(p) \/ ListStep(p)
    \/ \E p \in Cleaner : ClearStep(p)
    \/ \E p \in Proc : Crash(p)

Spec == Init /\ [][Next]_vars

----------------------------------------------------------------------------
(* What should hold of it                                                  *)

\* A file is open exactly while it is read or written.
TypeOK ==
    /\ dir \in [Key -> Inode \union {None}]
    /\ file \in [Inode -> Seq((Entry \X Nat) \union {None})]
    /\ pc \in [Proc -> {"idle", "get", "next", "list", "rows", "put", "clear"}]
    /\ key \in [Proc -> Key \union {None}] /\ fd \in [Proc -> Inode \union {None}]
    /\ \A p \in Proc : fd[p] # None <=> pc[p] \in {"get", "list", "put"}
    /\ done \in [Proc -> Seq(Entry \X Nat)]
    /\ entry \in [Proc -> Entry \union {None}]
    /\ names \in [Proc -> SUBSET Key]
    /\ mixed \subseteq Inode /\ alone \in [Proc -> BOOLEAN]

\* A hit on a file that no Put opened under the reader, and that no two Puts
\* had open at once, is a complete entry of its connection and query, although
\* the file is read while it is written, cut off by crashes and errors, unlinked
\* while it is read, and its place used again (cache.go:39-67, 87).
HitIsResult ==
    \A p \in Proc :
      reply[p] # None /\ reply[p].alone => reply[p].value \in Answers[reply[p].key]

\* What List shows of such files are complete entries of their keys
\* (cache.go:147-183).
ListedIsWhole ==
    \A p \in Proc : \A e \in listed[p] : e.alone => e.value \in Answers[e.key]

\* Every hit is a complete entry of its connection and query.
EveryHitIsResult ==
    \A p \in Proc : reply[p] # None => reply[p].value \in Answers[reply[p].key]
=============================================================================

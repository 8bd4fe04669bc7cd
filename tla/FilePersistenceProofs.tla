------------------------ MODULE FilePersistenceProofs ------------------------
(***************************************************************************)
(* Proofs about FilePersistence, for any callers, ids, records and number  *)
(* of saves and deaths: the types, that a record saved without an error    *)
(* stays, that a reader is told what was there, and that the directory     *)
(* keeps the promises of RecordStore.                                      *)
(***************************************************************************)
EXTENDS FilePersistence, TLAPS

\* The first o pieces of r.
Prefix(r, o) == [k \in 1..o |-> <<r, k>>]

\* No inode ever holds a mixture.
ContentHeld ==
    \A n \in Inodes :
        data[n] = <<>> \/ \E r \in Records : \E o \in 1..r.version : data[n] = Prefix(r, o)

\* A stream of a save() has written what its offset says.
WritersHeld ==
    \A c \in Callers : In(c, "writing") =>
        /\ call[c].offset < call[c].record.version
        /\ data[call[c].inode] = Prefix(call[c].record, call[c].offset)

\* Callers save different records.
WritersApart ==
    \A c, d \in Callers : (c # d /\ In(c, "writing") /\ In(d, "writing")) =>
        call[c].record.id # call[d].record.id

\* The file of i, or a stream that a save() or a load() of i opened, is inode n.
Uses(i, n) ==
    \/ files[i] = n
    \/ \E c \in Callers : In(c, "writing") /\ call[c].record.id = i /\ call[c].inode = n
    \/ \E c \in Callers : In(c, "reading") /\ call[c].id = i /\ call[c].inode = n

\* An inode belongs to one id, whatever is removed and saved again.
InodesOwned ==
    \A i \in Ids, n \in Inodes : Uses(i, n) =>
        n <= saves /\ \A j \in Ids : Uses(j, n) => i = j

\* A save that has returned has its record in the file, and nobody at it.
ReportedHeld ==
    \A i \in Ids : (reported[i] # None /\ i \notin failed) =>
        /\ files[i] # None
        /\ data[files[i]] = Pieces(reported[i])
        /\ \A c \in Callers : In(c, "writing") => call[c].record.id # i

\* A reader has seen what is there.
SeenHeld == \A c \in Callers, i \in Ids : Loads(c) => Stored(i) \in seen[c][i]

\* What a reader would be told if it read now, it has seen.
ReadersHeld ==
    \A c \in Callers : In(c, "reading") =>
        /\ ReadOf(data[call[c].inode], call[c].size) \in seen[c][call[c].id]
        /\ got[c][call[c].id] = Unread
        /\ call[c].id \notin call[c].todo

\* Nothing is known of a file that is still to be opened.
TodoUnread ==
    \A c \in Callers, i \in Ids : (Loads(c) /\ i \in call[c].todo) => got[c][i] = Unread

IInv ==
    /\ TypeOK
    /\ ContentHeld
    /\ WritersHeld
    /\ WritersApart
    /\ InodesOwned
    /\ ReportedHeld
    /\ SeenHeld
    /\ ReadersHeld
    /\ TodoUnread
    /\ ReadIsCurrent

-----------------------------------------------------------------------------
(* The pieces of a record.                                                 *)

\* A prefix is a sequence of its length, the whole of it is the record, and the
\* prefix of none is the empty file.
LEMMA PrefixIs ==
    ASSUME NEW r \in Records, NEW o \in Nat
    PROVE  /\ Prefix(r, o) \in Seq(Records \X Nat)
           /\ Len(Prefix(r, o)) = o
           /\ DOMAIN Prefix(r, o) = 1..o
           /\ \A k \in 1..o : Prefix(r, o)[k] = <<r, k>>
           /\ Prefix(r, r.version) = Pieces(r)
           /\ Prefix(r, 0) = <<>>
           /\ Prefix(r, o) = <<>> => o = 0
BY DEF Prefix, Pieces

LEMMA VersionIs == ASSUME NEW r \in Records PROVE r.version \in Nat \ {0} /\ r.id \in Ids
BY VersionsAssumption DEF Records

LEMMA PiecesLen == ASSUME NEW r \in Records PROVE Len(Pieces(r)) = r.version
<1>1. r.version \in Nat /\ Prefix(r, r.version) = Pieces(r)
  BY VersionIs, PrefixIs
<1>2. Len(Prefix(r, r.version)) = r.version
  BY <1>1, PrefixIs
<1> QED
  BY <1>1, <1>2

\* No other record has the same beginning.
LEMMA PiecesTell ==
    ASSUME NEW r \in Records, NEW q \in Records, NEW o \in Nat \ {0},
           Pieces(q) = Prefix(r, o)
    PROVE  q = r /\ o = r.version
<1>1. DOMAIN Pieces(q) = 1..q.version /\ q.version \in Nat \ {0}
  BY VersionIs DEF Pieces
<1>2. Pieces(q)[1] = <<q, 1>>
  BY <1>1 DEF Pieces
<1>3. Prefix(r, o)[1] = <<r, 1>> /\ DOMAIN Prefix(r, o) = 1..o
  BY 1 \in 1..o, PrefixIs
<1>4. q = r
  BY <1>2, <1>3
<1>5. 1..o = 1..q.version
  BY <1>1, <1>3
<1>6. o = q.version
  BY <1>1, <1>5
<1> QED
  BY <1>4, <1>6

\* The codec decodes the whole of a record and nothing less.
LEMMA DecodePrefixIs ==
    ASSUME NEW r \in Records, NEW o \in 0..r.version
    PROVE  Decode(Prefix(r, o)) = IF o = r.version THEN r ELSE None
<1> DEFINE Fits == {q \in Records : Pieces(q) = Prefix(r, o)}
<1>0. r.version \in Nat \ {0} /\ o \in Nat
  BY VersionIs
<1>1. CASE o = r.version
  <2>1. Prefix(r, o) = Pieces(r)
    BY <1>0, <1>1, PrefixIs
  <2>2. Fits = {r}
    BY <1>0, <1>1, <2>1, PiecesTell
  <2> QED
    BY <1>1, <2>2 DEF Decode
<1>2. CASE o # r.version /\ o # 0
  <2>1. Fits = {}
    BY <1>0, <1>2, PiecesTell
  <2> QED
    BY <1>2, <2>1 DEF Decode
<1>3. CASE o # r.version /\ o = 0
  <2>1. ASSUME NEW q \in Records, Pieces(q) = Prefix(r, o) PROVE FALSE
    <3>1. q.version \in Nat \ {0} /\ Len(Pieces(q)) = q.version
      BY VersionIs, PrefixIs
    <3>2. Len(Prefix(r, o)) = 0
      BY <1>0, <1>3, PrefixIs
    <3> QED
      BY <2>1, <3>1, <3>2
  <2>2. Fits = {}
    BY <2>1
  <2> QED
    BY <1>3, <2>2 DEF Decode
<1> QED
  BY <1>1, <1>2, <1>3

LEMMA DecodeNothing == Decode(<<>>) = None
<1>1. ASSUME NEW q \in Records PROVE Pieces(q) # <<>>
  <2>1. q.version \in Nat \ {0} /\ Len(Pieces(q)) = q.version
    BY VersionIs, PrefixIs
  <2> QED
    BY <2>1
<1> QED
  BY <1>1 DEF Decode

\* A reader that expected some pieces is told of a record only if its expectation
\* and what there is are the whole of it.
LEMMA ReadOfPrefix ==
    ASSUME NEW r \in Records, NEW o \in 0..r.version, NEW s \in Nat \ {0}
    PROVE  /\ ReadOf(Prefix(r, o), s) \in {r, None}
           /\ ReadOf(Prefix(r, o), s) = r => o = r.version
<1>0. r.version \in Nat \ {0} /\ o \in Nat /\ r # None
  BY VersionIs, NoneAssumption
<1>1. Len(Prefix(r, o)) = o /\ Prefix(r, o) \in Seq(Records \X Nat)
  BY <1>0, PrefixIs
<1>2. CASE o < s
  BY <1>0, <1>1, <1>2 DEF ReadOf
<1>3. CASE ~ o < s
  <2>1. SubSeq(Prefix(r, o), 1, s) = Prefix(r, s)
    BY <1>0, <1>3 DEF Prefix
  <2>2. ReadOf(Prefix(r, o), s) = Decode(Prefix(r, s))
    BY <1>1, <1>3, <2>1, <1>0 DEF ReadOf
  <2>3. s \in 0..r.version
    BY <1>0, <1>3
  <2>4. Decode(Prefix(r, s)) = IF s = r.version THEN r ELSE None
    BY <2>3, DecodePrefixIs
  <2> QED
    BY <1>0, <1>3, <2>2, <2>4
<1> QED
  BY <1>2, <1>3

LEMMA ReadOfNothing == ASSUME NEW s \in Nat \ {0} PROVE ReadOf(<<>>, s) = None
BY DEF ReadOf

\* The size is right when it is taken.
LEMMA ReadOfAll ==
    ASSUME NEW p \in Seq(Records \X Nat)
    PROVE  ReadOf(p, Len(p)) = Decode(p)
<1>1. SubSeq(p, 1, Len(p)) = p
  OBVIOUS
<1>2. ~ Len(p) < Len(p)
  OBVIOUS
<1> QED
  BY <1>1, <1>2 DEF ReadOf

\* write(2) goes on where the last one ended.
LEMMA WrittenIs ==
    ASSUME NEW r \in Records, NEW o \in Nat, NEW to \in Nat, o < to
    PROVE  Written(Prefix(r, o), r, o, to) = Prefix(r, to)
<1>1. DOMAIN Prefix(r, o) = 1..o /\ \A k \in 1..o : Prefix(r, o)[k] = <<r, k>>
  BY PrefixIs
<1>2. 1..o \cup 1..to = 1..to
  OBVIOUS
<1> DEFINE W(k) == IF k > o /\ k <= to THEN <<r, k>> ELSE Prefix(r, o)[k]
<1>3. \A k \in 1..to : W(k) = <<r, k>>
  BY <1>1
<1>4. Written(Prefix(r, o), r, o, to) = [k \in 1..to |-> W(k)]
  BY <1>1, <1>2 DEF Written
<1> QED
  BY <1>3, <1>4 DEF Prefix

\* What Stored says, of any directory.
LEMMA StoredIs ==
    ASSUME NEW n, NEW p
    PROVE  (IF \E r \in Records : n # None /\ Pieces(r) = p
            THEN CHOOSE r \in Records : Pieces(r) = p ELSE None)
           = IF n = None THEN None ELSE Decode(p)
<1>1. ASSUME NEW r \in Records, Pieces(r) = p
      PROVE  {q \in Records : Pieces(q) = p} = {r}
  BY <1>1, VersionIs, PrefixIs, PiecesTell
<1>2. CASE \E r \in Records : n # None /\ Pieces(r) = p
  <2>1. PICK r \in Records : n # None /\ Pieces(r) = p
    BY <1>2
  <2>2. {q \in Records : Pieces(q) = p} = {r}
    BY <1>1, <2>1
  <2>3. (CHOOSE q \in Records : Pieces(q) = p) = r
    BY <2>2
  <2>4. Decode(p) = r
    BY <2>2 DEF Decode
  <2> QED
    BY <2>1, <2>3, <2>4
<1>3. CASE ~ \E r \in Records : n # None /\ Pieces(r) = p
  BY <1>3 DEF Decode
<1> QED
  BY <1>2, <1>3

-----------------------------------------------------------------------------
(* Calls, streams and readers.                                             *)

LEMMA CallIs ==
    ASSUME TypeOK, NEW c \in Callers
    PROVE  /\ In(c, "idle") => call[c] = Idle
           /\ In(c, "writing") =>
                 /\ call[c] \in Writing /\ call[c].record \in Records
                 /\ call[c].inode \in Inodes /\ call[c].offset \in Nat
           /\ In(c, "opening") =>
                 call[c] \in Opening /\ call[c].todo \subseteq Ids \cup {None}
           /\ In(c, "reading") =>
                 /\ call[c] \in Reading /\ call[c].todo \subseteq Ids \cup {None}
                 /\ call[c].id \in Ids /\ call[c].inode \in Inodes
                 /\ call[c].size \in Nat \ {0}
<1>1. call[c] \in {Idle} \cup Writing \cup Opening \cup Reading
  BY DEF TypeOK
<1>2. call[c] \in {Idle} => call[c].step = "idle"
  BY DEF Idle
<1>3. call[c] \in Writing =>
         /\ call[c].step = "writing" /\ call[c].record \in Records
         /\ call[c].inode \in Inodes /\ call[c].offset \in Nat
  BY DEF Writing
<1>4. call[c] \in Opening =>
         call[c].step = "opening" /\ call[c].todo \subseteq Ids \cup {None}
  BY DEF Opening
<1>5. call[c] \in Reading =>
         /\ call[c].step = "reading" /\ call[c].todo \subseteq Ids \cup {None}
         /\ call[c].id \in Ids /\ call[c].inode \in Inodes
         /\ call[c].size \in Nat \ {0}
  BY DEF Reading
<1> QED
  BY <1>1, <1>2, <1>3, <1>4, <1>5 DEF In

\* What is stored now and after a step, in terms of the codec.
LEMMA StoredNow ==
    ASSUME NEW i \in Ids
    PROVE  Stored(i) = IF files[i] = None THEN None ELSE Decode(data[files[i]])
BY StoredIs DEF Stored

LEMMA StoredNext ==
    ASSUME NEW i \in Ids
    PROVE  Stored(i)' = IF files'[i] = None THEN None ELSE Decode(data'[files'[i]])
BY StoredIs DEF Stored

\* The history of a step, caller by caller.
LEMMA Observed ==
    ASSUME Observe, NEW c \in Callers, NEW i \in Ids
    PROVE  /\ Loads(c) =>
                 seen'[c][i] = seen[c][i] \cup {Stored(i), Stored(i)'} \cup Completed(i)
           /\ (~Loads(c) /\ Loads(c)') => seen'[c][i] = {Stored(i)}
           /\ (~Loads(c) /\ ~Loads(c)') => seen'[c][i] = seen[c][i]
BY DEF Observe

\* A step that begins no call of a reader leaves what was read true.
LEMMA ReadStaysCurrent ==
    ASSUME IInv, Observe, NEW c \in Callers, NEW i \in Ids,
           got'[c][i] = got[c][i], Loads(c)' => Loads(c)
    PROVE  got'[c][i] \notin {Unread, Failed} => got'[c][i] \in seen'[c][i]
<1>1. got[c][i] \notin {Unread, Failed} => got[c][i] \in seen[c][i]
  BY DEF IInv, ReadIsCurrent
<1>2. seen[c][i] \subseteq seen'[c][i]
  BY Observed
<1> QED
  BY <1>1, <1>2

\* The readers when another caller, or none, takes a step.
LEMMA ReadersAlone ==
    ASSUME IInv, Observe, UNCHANGED got, NEW w \in Callers, ~Loads(w), ~Loads(w)',
           \A d \in Callers \ {w} : call'[d] = call[d],
           \A d \in Callers : In(d, "reading") =>
              ReadOf(data'[call[d].inode], call[d].size) \in seen'[d][call[d].id]
    PROVE  SeenHeld' /\ ReadersHeld' /\ TodoUnread' /\ ReadIsCurrent'
<1>1. ASSUME NEW d \in Callers, Loads(d)' PROVE Loads(d) /\ call'[d] = call[d]
  BY <1>1 DEF Loads, In
<1>2. SeenHeld'
  BY <1>1, Observed DEF SeenHeld
<1>3. ASSUME NEW d \in Callers, In(d, "reading")'
      PROVE  /\ ReadOf(data'[call'[d].inode], call'[d].size) \in seen'[d][call'[d].id]
             /\ got'[d][call'[d].id] = Unread
             /\ call'[d].id \notin call'[d].todo
  <2>1. In(d, "reading") /\ call'[d] = call[d]
    BY <1>1, <1>3 DEF Loads, In
  <2> QED
    BY <2>1 DEF IInv, ReadersHeld
<1>4. ReadersHeld'
  BY <1>3 DEF ReadersHeld
<1>5. TodoUnread'
  BY <1>1 DEF IInv, TodoUnread
<1>6. ReadIsCurrent'
  BY <1>1, ReadStaysCurrent DEF ReadIsCurrent
<1> QED
  BY <1>2, <1>4, <1>5, <1>6

\* A reader whose inode does not change in a step.
LEMMA ReaderUndisturbed ==
    ASSUME IInv, Observe, NEW d \in Callers, In(d, "reading"),
           data'[call[d].inode] = data[call[d].inode]
    PROVE  ReadOf(data'[call[d].inode], call[d].size) \in seen'[d][call[d].id]
<1>1. call[d].id \in Ids /\ Loads(d)
  BY CallIs DEF IInv, Loads
<1>2. seen[d][call[d].id] \subseteq seen'[d][call[d].id]
  BY <1>1, Observed
<1> QED
  BY <1>2 DEF IInv, ReadersHeld

\* Writers and what was reported when no stream of a writer and no inode changes.
LEMMA WritersAlone ==
    ASSUME IInv, UNCHANGED <<directory, report>>,
           \A d \in Callers : In(d, "writing")' => In(d, "writing") /\ call'[d] = call[d]
    PROVE  ContentHeld' /\ WritersHeld' /\ WritersApart' /\ ReportedHeld'
<1> USE DEF IInv, directory, report
<1>1. ContentHeld'
  BY DEF ContentHeld
<1>2. WritersHeld'
  BY DEF WritersHeld
<1>3. WritersApart'
  BY DEF WritersApart
<1>4. ReportedHeld'
  BY DEF ReportedHeld
<1> QED
  BY <1>1, <1>2, <1>3, <1>4

\* No inode gets a new user.
LEMMA UsesAlone ==
    ASSUME IInv, saves \in Nat, saves' \in {saves, saves + 1},
           \A i \in Ids, n \in Inodes : Uses(i, n)' => Uses(i, n)
    PROVE  InodesOwned'
<1>1. \A n \in Inodes : n \in Nat
  BY DEF Inodes
<1> QED
  BY <1>1 DEF IInv, InodesOwned

-----------------------------------------------------------------------------
(* The steps of a reader.                                                  *)

\* A step of the call of reader c, after which c is at X: all that is left to show
\* is about c.
LEMMA ReaderStep ==
    ASSUME IInv, Observe, NEW c \in Callers, ~In(c, "writing"),
           UNCHANGED <<directory, saves, crashes, report>>,
           NEW X \in {Idle} \cup Opening \cup Reading,
           call' = [call EXCEPT ![c] = X],
           NEW g \in [Ids -> Records \cup {None, Unread, Failed}],
           got' = [got EXCEPT ![c] = g],
           X.step = "reading" =>
              /\ Uses(X.id, X.inode)
              /\ ReadOf(data[X.inode], X.size) \in seen'[c][X.id]
              /\ g[X.id] = Unread
              /\ X.id \notin X.todo,
           X.step \in {"opening", "reading"} => \A i \in X.todo \cap Ids : g[i] = Unread,
           \A i \in Ids : g[i] \notin {Unread, Failed} => g[i] \in seen'[c][i]
    PROVE  IInv'
<1>0. TypeOK
  BY DEF IInv
<1>1. call'[c] = X /\ got'[c] = g
  BY <1>0 DEF TypeOK
<1>2. \A d \in Callers \ {c} : call'[d] = call[d] /\ got'[d] = got[d]
  BY <1>0 DEF TypeOK
<1>3. TypeOK'
  <2>1. call' \in [Callers -> {Idle} \cup Writing \cup Opening \cup Reading]
    BY <1>0 DEF TypeOK
  <2>2. got' \in [Callers -> [Ids -> Records \cup {None, Unread, Failed}]]
    BY <1>0 DEF TypeOK
  <2> QED
    BY <1>0, <2>1, <2>2 DEF TypeOK, directory, report
<1>4. X.step # "writing"
  BY DEF Idle, Opening, Reading
<1>5. \A d \in Callers : In(d, "writing")' => In(d, "writing") /\ call'[d] = call[d]
  BY <1>1, <1>2, <1>4 DEF In
<1>6. ContentHeld' /\ WritersHeld' /\ WritersApart' /\ ReportedHeld'
  BY <1>5, WritersAlone
<1>7. InodesOwned'
  <2>1. ASSUME NEW i \in Ids, NEW n \in Inodes, Uses(i, n)' PROVE Uses(i, n)
    <3>1. CASE files'[i] = n
      BY <3>1 DEF Uses, directory
    <3>2. CASE \E d \in Callers :
                 In(d, "writing")' /\ call'[d].record.id = i /\ call'[d].inode = n
      BY <3>2, <1>5 DEF Uses
    <3>3. ASSUME NEW d \in Callers, In(d, "reading")', call'[d].id = i, call'[d].inode = n
          PROVE  Uses(i, n)
      <4>1. CASE d = c
        BY <3>3, <4>1, <1>1 DEF In
      <4>2. CASE d # c
        BY <3>3, <4>2, <1>2 DEF Uses, In
      <4> QED
        BY <4>1, <4>2
    <3> QED
      BY <2>1, <3>1, <3>2, <3>3 DEF Uses
  <2> QED
    BY <1>0, <2>1, UsesAlone DEF TypeOK
<1>8. SeenHeld'
  <2>1. ASSUME NEW d \in Callers, NEW i \in Ids, Loads(d)'
        PROVE  Stored(i)' \in seen'[d][i]
    <3>1. Stored(i)' = Stored(i)
      BY StoredNow, StoredNext DEF directory
    <3> QED
      BY <2>1, <3>1, Observed
  <2> QED
    BY <2>1 DEF SeenHeld
<1>9. ReadersHeld'
  <2>1. ASSUME NEW d \in Callers \ {c}, In(d, "reading")'
        PROVE  /\ ReadOf(data'[call'[d].inode], call'[d].size) \in seen'[d][call'[d].id]
               /\ got'[d][call'[d].id] = Unread
               /\ call'[d].id \notin call'[d].todo
    <3>1. In(d, "reading") /\ call'[d] = call[d] /\ got'[d] = got[d]
      BY <2>1, <1>2 DEF In
    <3>2. ReadOf(data'[call[d].inode], call[d].size) \in seen'[d][call[d].id]
      BY <3>1, ReaderUndisturbed DEF directory
    <3> QED
      BY <3>1, <3>2 DEF IInv, ReadersHeld
  <2>2. In(c, "reading")' =>
           /\ ReadOf(data'[X.inode], X.size) \in seen'[c][X.id]
           /\ got'[c][X.id] = Unread
           /\ X.id \notin X.todo
    BY <1>1 DEF In, directory
  <2> QED
    BY <1>1, <2>1, <2>2 DEF ReadersHeld
<1>10. TodoUnread'
  <2>1. ASSUME NEW i \in Ids, Loads(c)', i \in X.todo PROVE g[i] = Unread
    BY <2>1, <1>1 DEF Loads, In
  <2>2. ASSUME NEW d \in Callers \ {c}, NEW i \in Ids, Loads(d)', i \in call'[d].todo
        PROVE  got'[d][i] = Unread
    BY <2>2, <1>2 DEF IInv, TodoUnread, Loads, In
  <2> QED
    BY <1>1, <2>1, <2>2 DEF TodoUnread
<1>11. ReadIsCurrent'
  <2>1. ASSUME NEW d \in Callers \ {c}, NEW i \in Ids
        PROVE  got'[d][i] \notin {Unread, Failed} => got'[d][i] \in seen'[d][i]
    <3>1. got'[d][i] = got[d][i] /\ (Loads(d)' => Loads(d))
      BY <1>2 DEF Loads, In
    <3> QED
      BY <3>1, ReadStaysCurrent
  <2> QED
    BY <1>1, <2>1 DEF ReadIsCurrent
<1> QED
  BY <1>3, <1>6, <1>7, <1>8, <1>9, <1>10, <1>11 DEF IInv

LEMMA ReadKeepsIInv ==
    ASSUME IInv, Observe, NEW c \in Callers, NEW which \in SUBSET (Ids \cup {None}),
           Read(c, which)
    PROVE  IInv'
<1> DEFINE X == [step |-> "opening", todo |-> which]
<1>1. X \in Opening /\ X.step = "opening"
  BY DEF Opening
<1>2. NotRead \in [Ids -> Records \cup {None, Unread, Failed}]
  BY DEF NotRead
<1>3. \A i \in Ids : NotRead[i] = Unread
  BY DEF NotRead
<1>4. /\ UNCHANGED <<directory, saves, crashes, report>>
      /\ call' = [call EXCEPT ![c] = X]
      /\ got' = [got EXCEPT ![c] = NotRead]
      /\ ~In(c, "writing")
  BY DEF Read, In
<1> HIDE DEF X
<1> QED
  BY <1>1, <1>2, <1>3, <1>4, ReaderStep

\* What c has been told so far, or is told now, it has seen.
LEMMA ToldIsSeen ==
    ASSUME IInv, Observe, NEW c \in Callers, Loads(c), NEW i \in Ids,
           got[c][i] \notin {Unread, Failed}
    PROVE  got[c][i] \in seen'[c][i]
BY Observed DEF IInv, ReadIsCurrent

LEMMA GotIs == TypeOK =>
    \A c \in Callers : got[c] \in [Ids -> Records \cup {None, Unread, Failed}]
BY DEF TypeOK

LEMMA AllThrowsKeepsIInv ==
    ASSUME IInv, Observe, NEW c \in Callers, AllThrows(c)
    PROVE  IInv'
<1>1. Idle.step = "idle"
  BY DEF Idle
<1>2. /\ UNCHANGED <<directory, saves, crashes, report>>
      /\ call' = [call EXCEPT ![c] = Idle]
      /\ Loads(c) /\ ~In(c, "writing")
  BY DEF AllThrows, In, Loads
<1>3. got' = [got EXCEPT ![c] = got[c]]
  BY DEF AllThrows, IInv, TypeOK
<1>4. \A i \in Ids : got[c][i] \notin {Unread, Failed} => got[c][i] \in seen'[c][i]
  BY <1>2, ToldIsSeen
<1>5. got[c] \in [Ids -> Records \cup {None, Unread, Failed}]
  BY GotIs DEF IInv
<1> QED
  BY <1>1, <1>2, <1>3, <1>4, <1>5, ReaderStep

\* Where a call goes on with the files it has left.
LEMMA ContinuedIs ==
    ASSUME NEW todo \in SUBSET (Ids \cup {None})
    PROVE  /\ Continued(todo) \in {Idle} \cup Opening
           /\ Continued(todo).step # "reading"
           /\ Continued(todo).step = "opening" => Continued(todo).todo = todo
BY DEF Continued, Idle, Opening

\* A caller is told of i, whatever the way.
LEMMA TellKeepsIInv ==
    ASSUME IInv, Observe, NEW c \in Callers, Loads(c),
           NEW i \in Ids, NEW v \in Records \cup {None, Failed},
           NEW todo \in SUBSET (Ids \cup {None}), todo \subseteq call[c].todo, i \notin todo,
           v # Failed => v \in seen'[c][i],
           got' = [got EXCEPT ![c][i] = v],
           call' = [call EXCEPT ![c] = Continued(todo)],
           UNCHANGED <<directory, saves, crashes, report>>
    PROVE  IInv'
<1> DEFINE g == [got[c] EXCEPT ![i] = v]
           X == Continued(todo)
<1>0. got[c] \in [Ids -> Records \cup {None, Unread, Failed}]
  BY GotIs DEF IInv
<1>1. g \in [Ids -> Records \cup {None, Unread, Failed}]
  BY <1>0
<1>2. got' = [got EXCEPT ![c] = g]
  BY DEF IInv, TypeOK
<1>3. \A j \in Ids : g[j] = IF j = i THEN v ELSE got[c][j]
  BY <1>0
<1>4. \A j \in Ids : g[j] \notin {Unread, Failed} => g[j] \in seen'[c][j]
  BY <1>3, ToldIsSeen
<1>5. X \in {Idle} \cup Opening /\ X.step # "reading" /\ (X.step = "opening" => X.todo = todo)
  BY ContinuedIs
<1>6. X.step \in {"opening", "reading"} => \A j \in X.todo \cap Ids : g[j] = Unread
  BY <1>3, <1>5 DEF IInv, TodoUnread
<1>7. ~In(c, "writing")
  BY DEF Loads, In
<1> HIDE DEF g, X
<1>8. call' = [call EXCEPT ![c] = X]
  BY DEF X
<1>9. X.step # "reading"
  BY <1>5
<1> QED
  BY <1>1, <1>2, <1>4, <1>5, <1>6, <1>7, <1>8, <1>9, ReaderStep

LEMMA LoadNothingKeepsIInv ==
    ASSUME IInv, Observe, NEW c \in Callers, NEW i \in Ids, LoadNothing(c, i)
    PROVE  IInv'
<1>1. /\ Loads(c) /\ In(c, "opening") /\ i \in call[c].todo
      /\ got' = [got EXCEPT ![c][i] = None]
      /\ call' = [call EXCEPT ![c] = Continued(@.todo \ {i})]
      /\ UNCHANGED <<directory, saves, crashes, report>>
  BY DEF LoadNothing, Answered, Loads
<1>2. call[c].todo \subseteq Ids \cup {None}
  BY <1>1, CallIs DEF IInv
<1>3. Stored(i) = None
  BY StoredNow, DecodeNothing DEF LoadNothing, Absent
<1>4. None \in seen'[c][i]
  BY <1>1, <1>3, Observed
<1> DEFINE todo == call[c].todo \ {i}
<1>5. todo \in SUBSET (Ids \cup {None}) /\ todo \subseteq call[c].todo /\ i \notin todo
  BY <1>2
<1>6. call' = [call EXCEPT ![c] = Continued(todo)]
  BY <1>1
<1> HIDE DEF todo
<1> QED
  BY <1>1, <1>4, <1>5, <1>6, TellKeepsIInv

LEMMA LoadFailsKeepsIInv ==
    ASSUME IInv, Observe, NEW c \in Callers, NEW i \in Ids, LoadFails(c, i)
    PROVE  IInv'
<1>1. /\ Loads(c) /\ In(c, "opening") /\ i \in call[c].todo
      /\ got' = [got EXCEPT ![c][i] = Failed]
      /\ call' = [call EXCEPT ![c] = Continued(@.todo \ {i})]
      /\ UNCHANGED <<directory, saves, crashes, report>>
  BY DEF LoadFails, Answered, Loads
<1>2. call[c].todo \subseteq Ids \cup {None}
  BY <1>1, CallIs DEF IInv
<1> DEFINE todo == call[c].todo \ {i}
<1>3. todo \in SUBSET (Ids \cup {None}) /\ todo \subseteq call[c].todo /\ i \notin todo
  BY <1>2
<1>4. call' = [call EXCEPT ![c] = Continued(todo)]
  BY <1>1
<1> HIDE DEF todo
<1> QED
  BY <1>1, <1>3, <1>4, TellKeepsIInv

\* What an inode holds, decoded, is a record or nothing.
LEMMA ReadOfIs ==
    ASSUME IInv, NEW n \in Inodes, NEW s \in Nat \ {0}
    PROVE  ReadOf(data[n], s) \in Records \cup {None}
<1>1. CASE data[n] = <<>>
  BY <1>1, ReadOfNothing
<1>2. ASSUME NEW r \in Records, NEW o \in 1..r.version, data[n] = Prefix(r, o)
      PROVE  ReadOf(data[n], s) \in {r, None}
  <2>1. o \in 0..r.version
    BY VersionIs
  <2> QED
    BY <1>2, <2>1, ReadOfPrefix
<1> QED
  BY <1>1, <1>2 DEF IInv, ContentHeld

LEMMA LoadReadKeepsIInv ==
    ASSUME IInv, Observe, NEW c \in Callers, LoadRead(c)
    PROVE  IInv'
<1> DEFINE v == ReadOf(data[call[c].inode], call[c].size)
           i == call[c].id
           todo == call[c].todo
<1>1. /\ Loads(c) /\ In(c, "reading")
      /\ got' = [got EXCEPT ![c][i] = v]
      /\ call' = [call EXCEPT ![c] = Continued(todo)]
      /\ UNCHANGED <<directory, saves, crashes, report>>
  BY DEF LoadRead, Loads
<1>2. todo \in SUBSET (Ids \cup {None}) /\ i \in Ids
  BY <1>1, CallIs DEF IInv
<1>3. v \in Records \cup {None}
  BY <1>1, CallIs, ReadOfIs DEF IInv
<1>4. v \in seen[c][i] /\ i \notin todo
  BY <1>1 DEF IInv, ReadersHeld
<1>5. v \in seen'[c][i]
  BY <1>1, <1>2, <1>4, Observed
<1>6. todo \subseteq call[c].todo
  OBVIOUS
<1> HIDE DEF v, i, todo
<1> QED
  BY <1>1, <1>2, <1>3, <1>4, <1>5, <1>6, TellKeepsIInv

LEMMA LoadOpenKeepsIInv ==
    ASSUME IInv, Observe, NEW c \in Callers, NEW i \in Ids, LoadOpen(c, i)
    PROVE  IInv'
<1> DEFINE n == files[i]
           X == [step |-> "reading", todo |-> call[c].todo \ {i},
                 id |-> i, inode |-> n, size |-> Len(data[n])]
<1>1. /\ Loads(c) /\ In(c, "opening") /\ i \in call[c].todo /\ ~In(c, "writing")
      /\ UNCHANGED <<directory, saves, crashes, report>>
      /\ call' = [call EXCEPT ![c] = X]
  BY DEF LoadOpen, Loads, In
<1>2. n \in Inodes /\ n # None /\ data[n] # <<>> /\ data[n] \in Seq(Records \X Nat)
  BY DEF LoadOpen, Absent, IInv, TypeOK
<1>3. Len(data[n]) \in Nat \ {0}
  BY <1>2
<1>4. call[c].todo \subseteq Ids \cup {None}
  BY <1>1, CallIs DEF IInv
<1>5. X \in Reading
  BY <1>2, <1>3, <1>4 DEF Reading
<1>6. Uses(X.id, X.inode)
  BY DEF Uses
<1>7. ReadOf(data[X.inode], X.size) \in seen'[c][X.id]
  <2>1. ReadOf(data[n], Len(data[n])) = Stored(i)
    BY <1>2, ReadOfAll, StoredNow
  <2>2. Stored(i) \in seen'[c][i]
    BY <1>1, Observed
  <2> QED
    BY <2>1, <2>2
<1>8. got[c][X.id] = Unread /\ X.id \notin X.todo
  BY <1>1 DEF IInv, TodoUnread
<1>9. \A j \in X.todo \cap Ids : got[c][j] = Unread
  BY <1>1 DEF IInv, TodoUnread
<1>10. got' = [got EXCEPT ![c] = got[c]]
  BY DEF LoadOpen, IInv, TypeOK
<1>11. \A j \in Ids : got[c][j] \notin {Unread, Failed} => got[c][j] \in seen'[c][j]
  BY <1>1, ToldIsSeen
<1>12. got[c] \in [Ids -> Records \cup {None, Unread, Failed}]
  BY GotIs DEF IInv
<1>13. UNCHANGED <<directory, saves, crashes, report>>
  BY <1>1
<1> HIDE DEF X
<1>14. X \in {Idle} \cup Opening \cup Reading
  BY <1>5
<1>15. /\ Uses(X.id, X.inode)
       /\ ReadOf(data[X.inode], X.size) \in seen'[c][X.id]
       /\ got[c][X.id] = Unread
       /\ X.id \notin X.todo
  BY <1>6, <1>7, <1>8
<1>16. ~In(c, "writing") /\ call' = [call EXCEPT ![c] = X]
  BY <1>1
<1>17. PICK g : g = got[c]
  OBVIOUS
<1>18. g \in [Ids -> Records \cup {None, Unread, Failed}] /\ got' = [got EXCEPT ![c] = g]
  BY <1>10, <1>12, <1>17
<1>19. /\ X.step = "reading" =>
             /\ Uses(X.id, X.inode)
             /\ ReadOf(data[X.inode], X.size) \in seen'[c][X.id]
             /\ g[X.id] = Unread
             /\ X.id \notin X.todo
       /\ X.step \in {"opening", "reading"} => \A j \in X.todo \cap Ids : g[j] = Unread
       /\ \A j \in Ids : g[j] \notin {Unread, Failed} => g[j] \in seen'[c][j]
  BY <1>9, <1>11, <1>15, <1>17
<1> QED
  BY <1>13, <1>14, <1>16, <1>18, <1>19, ReaderStep, ZenonT(30)

-----------------------------------------------------------------------------
(* The steps of a save, remove() and the death of the process.             *)

\* Of two callers that write, each has its own inode, and a reader of it reads the
\* same id.
LEMMA UsersOf ==
    ASSUME IInv, NEW i \in Ids, NEW n \in Inodes, \A j \in Ids : Uses(j, n) => i = j
    PROVE  /\ \A d \in Callers : (In(d, "writing") /\ call[d].inode = n) =>
                 call[d].record.id = i
           /\ \A d \in Callers : (In(d, "reading") /\ call[d].inode = n) => call[d].id = i
           /\ \A j \in Ids : files[j] = n => i = j
<1>1. ASSUME NEW d \in Callers, In(d, "writing"), call[d].inode = n
      PROVE  call[d].record.id = i
  <2>1. call[d].record.id \in Ids
    BY <1>1, CallIs, VersionIs DEF IInv
  <2> QED
    BY <1>1, <2>1 DEF Uses
<1>2. ASSUME NEW d \in Callers, In(d, "reading"), call[d].inode = n
      PROVE  call[d].id = i
  <2>1. call[d].id \in Ids
    BY <1>2, CallIs DEF IInv
  <2> QED
    BY <1>2, <2>1 DEF Uses
<1>3. \A j \in Ids : files[j] = n => i = j
  BY DEF Uses
<1> QED
  BY <1>1, <1>2, <1>3

LEMMA SaveOpenFailsKeepsIInv ==
    ASSUME IInv, Observe, NEW c \in Callers, NEW r \in Records, SaveOpenFails(c, r)
    PROVE  IInv'
<1>0. TypeOK /\ r.id \in Ids /\ In(c, "idle") /\ UNCHANGED <<directory, call, got, crashes>>
  BY VersionIs DEF IInv, SaveOpenFails, MaySave
<1>1. saves \in Nat /\ saves' = saves + 1 /\ saves' \in 0..MaxSaves
  BY BoundsAssumption, <1>0 DEF SaveOpenFails, MaySave, TypeOK
<1>2. TypeOK'
  <2>1. reported' \in [Ids -> Records \cup {None}] /\ failed' \subseteq Ids
    BY <1>0 DEF SaveOpenFails, TypeOK
  <2> QED
    BY <1>0, <1>1, <2>1 DEF TypeOK, directory
<1>3. ContentHeld' /\ WritersHeld' /\ WritersApart'
  <2>1. ContentHeld'
    BY <1>0 DEF IInv, ContentHeld, directory
  <2>2. WritersHeld'
    BY <1>0 DEF IInv, WritersHeld, directory, In
  <2>3. WritersApart'
    BY <1>0 DEF IInv, WritersApart, In
  <2> QED
    BY <2>1, <2>2, <2>3
<1>4. InodesOwned'
  <2>1. \A i \in Ids, n \in Inodes : Uses(i, n)' => Uses(i, n)
    BY <1>0 DEF Uses, directory, In
  <2> QED
    BY <1>1, <2>1, UsesAlone
<1>5. ReportedHeld'
  <2>1. \A i \in Ids : i \notin failed' => i \notin failed /\ reported'[i] = reported[i]
    BY <1>0 DEF SaveOpenFails, TypeOK
  <2> QED
    BY <1>0, <2>1 DEF IInv, ReportedHeld, directory, In
<1>6. ~Loads(c) /\ ~Loads(c)'
  BY <1>0 DEF Loads, In
<1>7. \A d \in Callers : In(d, "reading") =>
         ReadOf(data'[call[d].inode], call[d].size) \in seen'[d][call[d].id]
  BY <1>0, ReaderUndisturbed DEF directory
<1>8. SeenHeld' /\ ReadersHeld' /\ TodoUnread' /\ ReadIsCurrent'
  BY <1>0, <1>6, <1>7, ReadersAlone
<1> QED
  BY <1>2, <1>3, <1>4, <1>5, <1>8 DEF IInv

LEMMA RemoveKeepsIInv ==
    ASSUME IInv, Observe, NEW c \in Callers, NEW r \in Ids, Remove(c, r)
    PROVE  IInv'
<1>0. /\ TypeOK /\ In(c, "idle") /\ UNCHANGED <<data, stray, call, got, saves, crashes>>
      /\ saves \in Nat
  BY DEF IInv, Remove, TypeOK
<1>1. \A i \in Ids : /\ files'[i] = IF i = r THEN None ELSE files[i]
                     /\ reported'[i] = IF i = r THEN None ELSE reported[i]
                     /\ i # r => (i \in failed') = (i \in failed)
  BY <1>0 DEF Remove, TypeOK
<1>2. TypeOK'
  <2>1. /\ files' \in [Ids -> Inodes \cup {None}]
        /\ reported' \in [Ids -> Records \cup {None}] /\ failed' \subseteq Ids
    BY <1>0 DEF Remove, TypeOK
  <2>2. \A i, j \in Ids : (i # j /\ files'[i] # None) => files'[i] # files'[j]
    BY <1>0, <1>1 DEF TypeOK
  <2> QED
    BY <1>0, <2>1, <2>2 DEF TypeOK
<1>3. ContentHeld' /\ WritersHeld' /\ WritersApart'
  <2>1. ContentHeld'
    BY <1>0 DEF IInv, ContentHeld
  <2>2. WritersHeld'
    BY <1>0 DEF IInv, WritersHeld, In
  <2>3. WritersApart'
    BY <1>0 DEF IInv, WritersApart, In
  <2> QED
    BY <2>1, <2>2, <2>3
<1>4. InodesOwned'
  <2>1. \A n \in Inodes : n # None
    BY NoneAssumption DEF Inodes
  <2>2. \A i \in Ids, n \in Inodes : Uses(i, n)' => Uses(i, n)
    BY <1>0, <1>1, <2>1 DEF Uses, In
  <2> QED
    BY <1>0, <2>2, UsesAlone
<1>5. ReportedHeld'
  <2>1. ASSUME NEW i \in Ids, reported'[i] # None, i \notin failed'
        PROVE  /\ i \notin failed /\ reported'[i] = reported[i] /\ files'[i] = files[i]
    BY <2>1, <1>1
  <2> QED
    BY <1>0, <2>1 DEF IInv, ReportedHeld, In
<1>6. ~Loads(c) /\ ~Loads(c)'
  BY <1>0 DEF Loads, In
<1>7. \A d \in Callers : In(d, "reading") =>
         ReadOf(data'[call[d].inode], call[d].size) \in seen'[d][call[d].id]
  BY <1>0, ReaderUndisturbed
<1>8. SeenHeld' /\ ReadersHeld' /\ TodoUnread' /\ ReadIsCurrent'
  BY <1>0, <1>6, <1>7, ReadersAlone
<1> QED
  BY <1>2, <1>3, <1>4, <1>5, <1>8 DEF IInv

LEMMA CrashKeepsIInv ==
    ASSUME IInv, Observe, Crash
    PROVE  IInv'
<1>0. /\ TypeOK /\ UNCHANGED <<directory, saves, report>> /\ saves \in Nat
      /\ call' = [c \in Callers |-> Idle] /\ got' = [c \in Callers |-> NotRead]
  BY DEF IInv, Crash, TypeOK
<1>1. \A c \in Callers : call'[c] = Idle /\ call'[c].step = "idle"
  BY <1>0 DEF Idle
<1>2. \A c \in Callers, i \in Ids : got'[c][i] = Unread
  BY <1>0 DEF NotRead
<1>3. TypeOK'
  <2>1. got' \in [Callers -> [Ids -> Records \cup {None, Unread, Failed}]]
    BY <1>0 DEF NotRead
  <2>2. call' \in [Callers -> {Idle} \cup Writing \cup Opening \cup Reading]
    BY <1>0
  <2>3. crashes' \in 0..MaxCrashes
    BY BoundsAssumption, <1>0 DEF Crash, TypeOK
  <2> QED
    BY <1>0, <2>1, <2>2, <2>3 DEF TypeOK, directory, report
<1>4. \A c \in Callers : ~In(c, "writing")' /\ ~In(c, "reading")' /\ ~Loads(c)'
  BY <1>1 DEF In, Loads
<1>5. ContentHeld' /\ WritersHeld' /\ WritersApart' /\ ReportedHeld'
  BY <1>0, <1>4, WritersAlone
<1>6. InodesOwned'
  <2>1. \A i \in Ids, n \in Inodes : Uses(i, n)' => Uses(i, n)
    BY <1>0, <1>4 DEF Uses, directory
  <2> QED
    BY <1>0, <2>1, UsesAlone
<1>7. SeenHeld' /\ ReadersHeld' /\ TodoUnread' /\ ReadIsCurrent'
  BY <1>2, <1>4 DEF SeenHeld, ReadersHeld, TodoUnread, ReadIsCurrent
<1> QED
  BY <1>3, <1>5, <1>6, <1>7 DEF IInv

LEMMA SaveWriteFailsKeepsIInv ==
    ASSUME IInv, Observe, NEW c \in Callers, SaveWriteFails(c)
    PROVE  IInv'
<1> DEFINE r == call[c].record
<1>0. /\ TypeOK /\ In(c, "writing") /\ UNCHANGED <<directory, got, saves, crashes>>
      /\ saves \in Nat /\ call' = [call EXCEPT ![c] = Idle]
  BY DEF IInv, SaveWriteFails, SaveReturns, TypeOK
<1>1. r \in Records /\ r.id \in Ids
  BY <1>0, CallIs, VersionIs
<1>2. /\ call'[c] = Idle /\ call'[c].step = "idle"
      /\ \A d \in Callers \ {c} : call'[d] = call[d]
  BY <1>0 DEF TypeOK, Idle
<1>3. \A d \in Callers : In(d, "writing")' => In(d, "writing") /\ call'[d] = call[d]
  BY <1>2 DEF In
<1>4. TypeOK'
  <2>1. call' \in [Callers -> {Idle} \cup Writing \cup Opening \cup Reading]
    BY <1>0 DEF TypeOK
  <2>2. reported' \in [Ids -> Records \cup {None}] /\ failed' \subseteq Ids
    BY <1>0, <1>1 DEF SaveWriteFails, SaveReturns, TypeOK
  <2> QED
    BY <1>0, <2>1, <2>2 DEF TypeOK, directory
<1>5. ContentHeld' /\ WritersHeld' /\ WritersApart'
  <2>1. ContentHeld'
    BY <1>0 DEF IInv, ContentHeld, directory
  <2>2. WritersHeld'
    BY <1>0, <1>3 DEF IInv, WritersHeld, directory
  <2>3. WritersApart'
    BY <1>3 DEF IInv, WritersApart
  <2> QED
    BY <2>1, <2>2, <2>3
<1>6. InodesOwned'
  <2>1. \A i \in Ids, n \in Inodes : Uses(i, n)' => Uses(i, n)
    BY <1>0, <1>2 DEF Uses, directory, In
  <2> QED
    BY <1>0, <2>1, UsesAlone
<1>7. ReportedHeld'
  <2>1. \A i \in Ids : i \notin failed' => i \notin failed /\ reported'[i] = reported[i]
    BY <1>0, <1>1 DEF SaveWriteFails, SaveReturns, TypeOK
  <2> QED
    BY <1>0, <1>3, <2>1 DEF IInv, ReportedHeld, directory
<1>8. ~Loads(c) /\ ~Loads(c)'
  BY <1>0, <1>2 DEF Loads, In
<1>9. \A d \in Callers : In(d, "reading") =>
         ReadOf(data'[call[d].inode], call[d].size) \in seen'[d][call[d].id]
  BY <1>0, ReaderUndisturbed DEF directory
<1>10. SeenHeld' /\ ReadersHeld' /\ TodoUnread' /\ ReadIsCurrent'
  BY <1>0, <1>2, <1>8, <1>9, ReadersAlone
<1> QED
  BY <1>4, <1>5, <1>6, <1>7, <1>10 DEF IInv

\* The inode a save() opens belongs to its id alone, and a new one to nobody.
LEMMA OpenedIs ==
    ASSUME IInv, NEW c \in Callers, NEW r \in Records, MaySave(c, r)
    PROVE  /\ saves \in Nat /\ saves + 1 \in 0..MaxSaves
           /\ InodeOf(r.id) \in Inodes /\ InodeOf(r.id) <= saves + 1
           /\ \A j \in Ids : Uses(j, InodeOf(r.id)) => r.id = j
<1>1. saves \in Nat /\ saves + 1 \in 0..MaxSaves /\ saves + 1 \in Inodes
  BY BoundsAssumption DEF IInv, TypeOK, MaySave, Inodes
<1>2. r.id \in Ids /\ files[r.id] \in Inodes \cup {None}
  BY VersionIs DEF IInv, TypeOK
<1>3. CASE files[r.id] = None
  <2>1. InodeOf(r.id) = saves + 1
    BY <1>3 DEF InodeOf
  <2>2. \A j \in Ids : ~Uses(j, saves + 1)
    <3>1. \A j \in Ids : Uses(j, saves + 1) => saves + 1 <= saves
      BY <1>1 DEF IInv, InodesOwned
    <3>2. ~(saves + 1 <= saves)
      BY <1>1
    <3> QED
      BY <3>1, <3>2
  <2> QED
    BY <1>1, <2>1, <2>2
<1>4. CASE files[r.id] # None
  <2>1. InodeOf(r.id) = files[r.id] /\ files[r.id] \in Inodes
    BY <1>2, <1>4 DEF InodeOf
  <2>2. Uses(r.id, files[r.id])
    BY DEF Uses
  <2>3. files[r.id] <= saves /\ \A j \in Ids : Uses(j, files[r.id]) => r.id = j
    BY <1>2, <2>1, <2>2 DEF IInv, InodesOwned
  <2>4. files[r.id] <= saves + 1
    BY <1>1, <2>1, <2>3 DEF Inodes
  <2> QED
    BY <1>1, <2>1, <2>3, <2>4
<1> QED
  BY <1>3, <1>4

\* What SaveOpen does, pointwise.
LEMMA SaveOpenDoes ==
    ASSUME TypeOK, NEW c \in Callers, NEW r \in Records, SaveOpen(c, r),
           InodeOf(r.id) \in Inodes
    PROVE  /\ files' = [files EXCEPT ![r.id] = InodeOf(r.id)]
           /\ files'[r.id] = InodeOf(r.id)
           /\ \A i \in Ids \ {r.id} : files'[i] = files[i] /\ reported'[i] = reported[i]
           /\ data'[InodeOf(r.id)] = <<>>
           /\ \A n \in Inodes \ {InodeOf(r.id)} : data'[n] = data[n]
           /\ call'[c] = [step |-> "writing", record |-> r, inode |-> InodeOf(r.id),
                          offset |-> 0]
           /\ \A d \in Callers \ {c} : call'[d] = call[d]
           /\ reported'[r.id] = None
           /\ failed' = failed \ {r.id}
           /\ In(c, "idle") /\ MaySave(c, r)
           /\ saves' = saves + 1
           /\ UNCHANGED <<stray, got, crashes>>
<1>1. r.id \in Ids
  BY VersionIs
<1>2. In(c, "idle") /\ MaySave(c, r)
  BY DEF SaveOpen, MaySave
<1> QED
  BY <1>1, <1>2 DEF SaveOpen, TypeOK, Truncated

LEMMA SaveOpenKeepsIInv ==
    ASSUME IInv, Observe, NEW c \in Callers, NEW r \in Records, SaveOpen(c, r)
    PROVE  IInv'
<1> DEFINE n == InodeOf(r.id)
           X == [step |-> "writing", record |-> r, inode |-> n, offset |-> 0]
<1>0. TypeOK /\ MaySave(c, r) /\ r.id \in Ids /\ r.version \in Nat \ {0}
  BY VersionIs DEF IInv, SaveOpen
<1>1. /\ saves \in Nat /\ saves + 1 \in 0..MaxSaves /\ n \in Inodes /\ n <= saves + 1
      /\ \A j \in Ids : Uses(j, n) => r.id = j
  BY <1>0, OpenedIs
<1>2. /\ files' = [files EXCEPT ![r.id] = n] /\ files'[r.id] = n
      /\ \A i \in Ids \ {r.id} : files'[i] = files[i] /\ reported'[i] = reported[i]
      /\ data'[n] = <<>>
      /\ \A m \in Inodes \ {n} : data'[m] = data[m]
      /\ call'[c] = X
      /\ \A d \in Callers \ {c} : call'[d] = call[d]
      /\ reported'[r.id] = None
      /\ failed' = failed \ {r.id}
      /\ In(c, "idle")
      /\ saves' = saves + 1
      /\ UNCHANGED <<stray, got, crashes>>
  BY <1>0, <1>1, SaveOpenDoes
<1>3. /\ \A d \in Callers : (In(d, "writing") /\ call[d].inode = n) => call[d].record.id = r.id
      /\ \A d \in Callers : (In(d, "reading") /\ call[d].inode = n) => call[d].id = r.id
      /\ \A j \in Ids : files[j] = n => r.id = j
  BY <1>0, <1>1, UsersOf
<1>4. \A d \in Callers : In(d, "writing") => call[d].record.id # r.id
  BY <1>0 DEF MaySave
<1>5. X \in Writing /\ X.step = "writing"
  BY <1>1 DEF Writing
<1> HIDE DEF n
<1>6. TypeOK'
  <2>1. call' \in [Callers -> {Idle} \cup Writing \cup Opening \cup Reading]
    BY <1>0, <1>5 DEF TypeOK, SaveOpen, n
  <2>2. files' \in [Ids -> Inodes \cup {None}]
    BY <1>0, <1>1, <1>2 DEF TypeOK
  <2>3. \A i, j \in Ids : (i # j /\ files'[i] # None) => files'[i] # files'[j]
    BY <1>0, <1>2, <1>3 DEF TypeOK
  <2>4. data' \in [Inodes -> Seq(Records \X Nat)]
    BY <1>0, <1>1 DEF TypeOK, SaveOpen, Truncated, n
  <2>5. ASSUME NEW m \in Inodes, NEW k \in DOMAIN data'[m]
        PROVE  \E q \in Records : data'[m][k] = <<q, k>>
    <3>1. CASE m = n
      BY <1>2, <2>5, <3>1
    <3>2. CASE m # n
      <4>1. data'[m] = data[m] /\ k \in DOMAIN data[m]
        BY <1>2, <2>5, <3>2
      <4> QED
        BY <1>0, <4>1 DEF TypeOK
    <3> QED
      BY <3>1, <3>2
  <2>6. reported' \in [Ids -> Records \cup {None}] /\ failed' \subseteq Ids
    BY <1>0 DEF TypeOK, SaveOpen
  <2> QED
    BY <1>0, <1>1, <1>2, <2>1, <2>2, <2>3, <2>4, <2>5, <2>6 DEF TypeOK
<1>7. ContentHeld'
  BY <1>2 DEF IInv, ContentHeld
<1>8. \A d \in Callers : In(d, "writing")' =>
         d = c \/ (In(d, "writing") /\ call'[d] = call[d])
  BY <1>2 DEF In
<1>9. WritersHeld'
  <2>1. X.offset < X.record.version /\ data'[X.inode] = Prefix(X.record, X.offset)
    BY <1>0, <1>2, PrefixIs
  <2>2. ASSUME NEW d \in Callers, In(d, "writing")
        PROVE  /\ call[d].offset < call[d].record.version
               /\ data'[call[d].inode] = Prefix(call[d].record, call[d].offset)
    <3>1. call[d].inode # n /\ call[d].inode \in Inodes
      BY <1>0, <1>3, <1>4, <2>2, CallIs
    <3> QED
      BY <1>2, <2>2, <3>1 DEF IInv, WritersHeld
  <2> QED
    BY <1>2, <1>8, <2>1, <2>2 DEF WritersHeld
<1>10. WritersApart'
  BY <1>2, <1>4, <1>8 DEF IInv, WritersApart
<1>11. InodesOwned'
  <2>1. ASSUME NEW i \in Ids, NEW m \in Inodes, Uses(i, m)'
        PROVE  Uses(i, m) \/ (i = r.id /\ m = n)
    <3>1. CASE files'[i] = m
      BY <1>2, <3>1 DEF Uses
    <3>2. ASSUME NEW d \in Callers, In(d, "writing")', call'[d].record.id = i,
                 call'[d].inode = m
          PROVE  Uses(i, m) \/ (i = r.id /\ m = n)
      BY <1>2, <1>8, <3>2 DEF Uses
    <3>3. ASSUME NEW d \in Callers, In(d, "reading")', call'[d].id = i, call'[d].inode = m
          PROVE  Uses(i, m)
      <4>1. d # c
        BY <1>2, <3>3 DEF In
      <4> QED
        BY <1>2, <3>3, <4>1 DEF Uses, In
    <3> QED
      BY <2>1, <3>1, <3>2, <3>3 DEF Uses
  <2>2. ASSUME NEW i \in Ids, NEW m \in Inodes, Uses(i, m)'
        PROVE  m <= saves' /\ \A j \in Ids : Uses(j, m)' => i = j
    <3>1. CASE m = n
      BY <1>1, <1>2, <2>1, <2>2, <3>1
    <3>2. CASE m # n
      <4>1. Uses(i, m) /\ \A j \in Ids : Uses(j, m)' => Uses(j, m)
        BY <2>1, <2>2, <3>2
      <4>2. m <= saves /\ m \in Nat
        BY <4>1 DEF IInv, InodesOwned, Inodes
      <4>3. m <= saves'
        BY <1>1, <1>2, <4>2
      <4> QED
        BY <4>1, <4>3 DEF IInv, InodesOwned
    <3> QED
      BY <3>1, <3>2
  <2> QED
    BY <2>2 DEF InodesOwned
<1>12. ReportedHeld'
  <2>1. ASSUME NEW i \in Ids, reported'[i] # None, i \notin failed'
        PROVE  /\ files'[i] # None
               /\ data'[files'[i]] = Pieces(reported'[i])
               /\ \A d \in Callers : In(d, "writing")' => call'[d].record.id # i
    <3>1. i # r.id
      BY <1>2, <2>1
    <3>2. reported[i] # None /\ i \notin failed /\ files'[i] = files[i]
      BY <1>2, <2>1, <3>1
    <3>3. /\ files[i] # None /\ data[files[i]] = Pieces(reported[i])
          /\ \A d \in Callers : In(d, "writing") => call[d].record.id # i
      BY <3>2 DEF IInv, ReportedHeld
    <3>4. files[i] \in Inodes \ {n}
      BY <1>0, <1>3, <3>1, <3>3 DEF TypeOK
    <3> QED
      BY <1>2, <1>8, <3>1, <3>2, <3>3, <3>4
  <2> QED
    BY <2>1 DEF ReportedHeld
<1>13. ~Loads(c) /\ ~Loads(c)'
  BY <1>2 DEF Loads, In
<1>14. ASSUME NEW d \in Callers, In(d, "reading")
       PROVE  ReadOf(data'[call[d].inode], call[d].size) \in seen'[d][call[d].id]
  <2>1. /\ call[d].inode \in Inodes /\ call[d].id \in Ids /\ Loads(d)
        /\ call[d].size \in Nat \ {0}
    BY <1>0, <1>14, CallIs DEF Loads
  <2>2. CASE call[d].inode = n
    <3>1. Stored(r.id)' = None
      BY <1>0, <1>2, StoredNext, DecodeNothing
    <3>2. call[d].id = r.id
      BY <1>3, <1>14, <2>2
    <3>3. None \in seen'[d][call[d].id]
      BY <2>1, <3>1, <3>2, Observed
    <3> QED
      BY <1>2, <2>1, <2>2, <3>3, ReadOfNothing
  <2>3. CASE call[d].inode # n
    BY <1>2, <1>14, <2>1, <2>3, ReaderUndisturbed
  <2> QED
    BY <2>2, <2>3
<1>15. SeenHeld' /\ ReadersHeld' /\ TodoUnread' /\ ReadIsCurrent'
  BY <1>2, <1>13, <1>14, ReadersAlone
<1> QED
  BY <1>6, <1>7, <1>9, <1>10, <1>11, <1>12, <1>15 DEF IInv

\* What a write(2) does to the inode and to those who use it.
LEMMA WriteIs ==
    ASSUME IInv, Observe, NEW c \in Callers, In(c, "writing"),
           NEW to \in (call[c].offset + 1)..call[c].record.version,
           UNCHANGED files,
           data' = [data EXCEPT ![call[c].inode] =
                       Written(@, call[c].record, call[c].offset, to)]
    PROVE  /\ call[c].record \in Records /\ call[c].record.id \in Ids
           /\ call[c].record.version \in Nat \ {0}
           /\ call[c].inode \in Inodes /\ to \in Nat \ {0}
           /\ data'[call[c].inode] = Prefix(call[c].record, to)
           /\ \A m \in Inodes \ {call[c].inode} : data'[m] = data[m]
           /\ data' \in [Inodes -> Seq(Records \X Nat)]
           /\ ContentHeld'
           /\ \A d \in Callers \ {c} : In(d, "writing") => call[d].inode # call[c].inode
           /\ \A i \in Ids : files[i] = call[c].inode => i = call[c].record.id
           /\ \A d \in Callers : In(d, "reading") =>
                 ReadOf(data'[call[d].inode], call[d].size) \in seen'[d][call[d].id]
<1> DEFINE r == call[c].record
           n == call[c].inode
           o == call[c].offset
<1>0. TypeOK /\ r \in Records /\ n \in Inodes /\ o \in Nat
  BY CallIs DEF IInv
<1>1. r.id \in Ids /\ r.version \in Nat \ {0} /\ to \in Nat \ {0} /\ o < to
  BY <1>0, VersionIs
<1>2. data[n] = Prefix(r, o) /\ o < r.version
  BY DEF IInv, WritersHeld
<1>3. data'[n] = Prefix(r, to)
  BY <1>0, <1>1, <1>2, WrittenIs DEF TypeOK
<1>4. \A m \in Inodes \ {n} : data'[m] = data[m]
  BY <1>0 DEF TypeOK
<1>5. data' \in [Inodes -> Seq(Records \X Nat)]
  <2>1. Written(data[n], r, o, to) = Prefix(r, to)
    BY <1>0, <1>1, <1>2, WrittenIs
  <2>2. Prefix(r, to) \in Seq(Records \X Nat)
    BY <1>0, <1>1, PrefixIs
  <2> QED
    BY <1>0, <2>1, <2>2 DEF TypeOK
<1>6. to \in 1..r.version
  BY <1>0, <1>1
<1>7. ContentHeld'
  BY <1>0, <1>3, <1>4, <1>6 DEF IInv, ContentHeld
<1>8. \A j \in Ids : Uses(j, n) => r.id = j
  <2>1. Uses(r.id, n)
    BY DEF Uses
  <2> QED
    BY <1>0, <1>1, <2>1 DEF IInv, InodesOwned
<1>9. /\ \A d \in Callers : (In(d, "writing") /\ call[d].inode = n) => call[d].record.id = r.id
      /\ \A d \in Callers : (In(d, "reading") /\ call[d].inode = n) => call[d].id = r.id
      /\ \A j \in Ids : files[j] = n => r.id = j
  BY <1>0, <1>1, <1>8, UsersOf
<1>10. \A d \in Callers \ {c} : In(d, "writing") => call[d].inode # n
  BY <1>9 DEF IInv, WritersApart
<1>11. ASSUME NEW d \in Callers, In(d, "reading")
       PROVE  ReadOf(data'[call[d].inode], call[d].size) \in seen'[d][call[d].id]
  <2>1. /\ call[d].inode \in Inodes /\ call[d].id \in Ids /\ Loads(d)
        /\ call[d].size \in Nat \ {0}
    BY <1>0, <1>11, CallIs DEF Loads
  <2>2. CASE call[d].inode # n
    BY <1>4, <1>11, <2>1, <2>2, ReaderUndisturbed
  <2>3. CASE call[d].inode = n
    <3> DEFINE s == call[d].size
    <3>1. call[d].id = r.id
      BY <1>9, <1>11, <2>3
    <3>2. to \in 0..r.version /\ o \in 0..r.version
      BY <1>0, <1>1, <1>2
    <3>3. /\ ReadOf(Prefix(r, to), s) \in {r, None}
          /\ ReadOf(Prefix(r, to), s) = r => to = r.version
      BY <1>0, <2>1, <3>2, ReadOfPrefix
    <3>4. CASE ReadOf(Prefix(r, to), s) = r
      <4>1. data'[n] = Pieces(r)
        BY <1>0, <1>1, <1>3, <3>3, <3>4, PrefixIs
      <4>2. r \in Completed(r.id)
        BY <1>0, <4>1 DEF Completed
      <4>3. r \in seen'[d][r.id]
        BY <2>1, <3>1, <4>2, Observed
      <4> QED
        BY <1>3, <2>3, <3>1, <3>4, <4>3
    <3>5. CASE ReadOf(Prefix(r, to), s) = None
      <4>1. /\ ReadOf(Prefix(r, o), s) \in {r, None}
            /\ ReadOf(Prefix(r, o), s) = r => o = r.version
        BY <1>0, <2>1, <3>2, ReadOfPrefix
      <4>2. ReadOf(Prefix(r, o), s) = None
        BY <1>0, <1>1, <1>2, <4>1
      <4>3. None \in seen[d][r.id]
        BY <1>2, <1>11, <2>3, <3>1, <4>2 DEF IInv, ReadersHeld
      <4>4. None \in seen'[d][r.id]
        BY <1>1, <2>1, <4>3, Observed
      <4> QED
        BY <1>3, <2>3, <3>1, <3>5, <4>4
    <3> QED
      BY <3>3, <3>4, <3>5
  <2> QED
    BY <2>2, <2>3
<1> QED
  BY <1>0, <1>1, <1>3, <1>4, <1>5, <1>7, <1>9, <1>10, <1>11

\* The two ways a write(2) ends: pieces are left, or save() returns.
WritesSome(c) ==
    \E to \in (call[c].offset + 1)..call[c].record.version :
        /\ data' = [data EXCEPT ![call[c].inode] =
                       Written(@, call[c].record, call[c].offset, to)]
        /\ to # call[c].record.version
        /\ call' = [call EXCEPT ![c].offset = to]
        /\ UNCHANGED reported

WritesLast(c) ==
    \E to \in (call[c].offset + 1)..call[c].record.version :
        /\ data' = [data EXCEPT ![call[c].inode] =
                       Written(@, call[c].record, call[c].offset, to)]
        /\ to = call[c].record.version
        /\ SaveReturns(c)

LEMMA SaveWriteIs ==
    ASSUME NEW c \in Callers, SaveWrite(c)
    PROVE  /\ In(c, "writing")
           /\ WritesSome(c) \/ WritesLast(c)
           /\ UNCHANGED <<files, stray, got, saves, crashes, failed>>
BY DEF SaveWrite, WritesSome, WritesLast

LEMMA WritesSomeKeepsIInv ==
    ASSUME IInv, Observe, NEW c \in Callers, In(c, "writing"), WritesSome(c),
           UNCHANGED <<files, stray, got, saves, crashes, failed>>
    PROVE  IInv'
<1> DEFINE r == call[c].record
           n == call[c].inode
<1>1. PICK to \in (call[c].offset + 1)..call[c].record.version :
          /\ data' = [data EXCEPT ![n] = Written(@, r, call[c].offset, to)]
          /\ to # r.version
          /\ call' = [call EXCEPT ![c].offset = to]
          /\ UNCHANGED reported
  BY DEF WritesSome
<1>2. /\ r \in Records /\ r.id \in Ids /\ r.version \in Nat \ {0}
      /\ n \in Inodes /\ to \in Nat \ {0}
      /\ data'[n] = Prefix(r, to)
      /\ \A m \in Inodes \ {n} : data'[m] = data[m]
      /\ data' \in [Inodes -> Seq(Records \X Nat)]
      /\ ContentHeld'
      /\ \A d \in Callers \ {c} : In(d, "writing") => call[d].inode # n
      /\ \A i \in Ids : files[i] = n => i = r.id
      /\ \A d \in Callers : In(d, "reading") =>
            ReadOf(data'[call[d].inode], call[d].size) \in seen'[d][call[d].id]
  BY <1>1, WriteIs
<1>3. TypeOK /\ call[c] \in Writing /\ call[c].offset \in Nat /\ saves \in Nat
  BY CallIs DEF IInv, TypeOK
<1>4. to < r.version
  BY <1>1, <1>2, <1>3
<1>5. /\ call'[c] \in Writing /\ call'[c].step = "writing" /\ call'[c].record = r
      /\ call'[c].inode = n /\ call'[c].offset = to
      /\ \A d \in Callers \ {c} : call'[d] = call[d]
  BY <1>1, <1>2, <1>3 DEF TypeOK, Writing
<1>6. TypeOK'
  <2>1. call' \in [Callers -> {Idle} \cup Writing \cup Opening \cup Reading]
    <3>1. call' = [call EXCEPT ![c] = call'[c]]
      BY <1>1, <1>3 DEF TypeOK
    <3> QED
      BY <1>3, <1>5, <3>1 DEF TypeOK
  <2>2. \A m \in Inodes : \A k \in DOMAIN data'[m] : \E q \in Records : data'[m][k] = <<q, k>>
    <3>1. to \in Nat /\ r \in Records
      BY <1>2
    <3>2. DOMAIN Prefix(r, to) = 1..to /\ \A k \in 1..to : Prefix(r, to)[k] = <<r, k>>
      BY <3>1, PrefixIs
    <3>3. \A m \in Inodes \ {n} : \A k \in DOMAIN data'[m] :
             \E q \in Records : data'[m][k] = <<q, k>>
      BY <1>2, <1>3 DEF TypeOK
    <3>4. data'[n] = Prefix(r, to)
      BY <1>2
    <3> QED
      BY <1>2, <3>2, <3>3, <3>4
  <2> QED
    BY <1>1, <1>2, <1>3, <2>1, <2>2 DEF TypeOK
<1>7. \A d \in Callers : In(d, "writing")' => In(d, "writing")
  BY <1>5 DEF In
<1>8. WritersHeld'
  <2>1. ASSUME NEW d \in Callers \ {c}, In(d, "writing")'
        PROVE  /\ call'[d].offset < call'[d].record.version
               /\ data'[call'[d].inode] = Prefix(call'[d].record, call'[d].offset)
    <3>1. In(d, "writing") /\ call'[d] = call[d] /\ call[d].inode \in Inodes \ {n}
      BY <1>2, <1>3, <1>5, <1>7, <2>1, CallIs
    <3> QED
      BY <1>2, <3>1 DEF IInv, WritersHeld
  <2> QED
    BY <1>2, <1>4, <1>5, <2>1 DEF WritersHeld
<1>9. WritersApart'
  BY <1>5, <1>7 DEF IInv, WritersApart
<1>10. InodesOwned'
  <2>1. \A i \in Ids, m \in Inodes : Uses(i, m)' => Uses(i, m)
    BY <1>5 DEF Uses, In
  <2> QED
    BY <1>3, <2>1, UsesAlone
<1>11. ReportedHeld'
  <2>1. ASSUME NEW i \in Ids, reported[i] # None, i \notin failed
        PROVE  /\ files[i] # None
               /\ data'[files[i]] = Pieces(reported[i])
               /\ \A d \in Callers : In(d, "writing")' => call'[d].record.id # i
    <3>1. /\ files[i] # None /\ data[files[i]] = Pieces(reported[i])
          /\ \A d \in Callers : In(d, "writing") => call[d].record.id # i
      BY <2>1 DEF IInv, ReportedHeld
    <3>2. files[i] \in Inodes /\ files[i] # n
      BY <1>2, <1>3, <3>1 DEF TypeOK
    <3>3. data'[files[i]] = data[files[i]]
      BY <1>2, <3>2
    <3>4. \A d \in Callers : In(d, "writing")' => call'[d].record = call[d].record
      BY <1>1, <1>5
    <3>5. \A d \in Callers : In(d, "writing")' => call'[d].record.id # i
      BY <1>7, <3>1, <3>4
    <3> QED
      BY <3>1, <3>3, <3>5
  <2> QED
    BY <1>1, <2>1 DEF ReportedHeld
<1>12. ~Loads(c) /\ ~Loads(c)'
  BY <1>5 DEF Loads, In
<1>13. SeenHeld' /\ ReadersHeld' /\ TodoUnread' /\ ReadIsCurrent'
  BY <1>2, <1>5, <1>12, ReadersAlone
<1> QED
  BY <1>2, <1>6, <1>8, <1>9, <1>10, <1>11, <1>13 DEF IInv

LEMMA WritesLastKeepsIInv ==
    ASSUME IInv, Observe, NEW c \in Callers, In(c, "writing"), WritesLast(c),
           UNCHANGED <<files, stray, got, saves, crashes, failed>>
    PROVE  IInv'
<1> DEFINE r == call[c].record
           n == call[c].inode
<1>1. PICK to \in (call[c].offset + 1)..call[c].record.version :
          /\ data' = [data EXCEPT ![n] = Written(@, r, call[c].offset, to)]
          /\ to = r.version
          /\ SaveReturns(c)
  BY DEF WritesLast
<1>2. /\ r \in Records /\ r.id \in Ids /\ r.version \in Nat \ {0}
      /\ n \in Inodes /\ to \in Nat \ {0}
      /\ data'[n] = Prefix(r, to)
      /\ \A m \in Inodes \ {n} : data'[m] = data[m]
      /\ data' \in [Inodes -> Seq(Records \X Nat)]
      /\ ContentHeld'
      /\ \A d \in Callers \ {c} : In(d, "writing") => call[d].inode # n
      /\ \A i \in Ids : files[i] = n => i = r.id
      /\ \A d \in Callers : In(d, "reading") =>
            ReadOf(data'[call[d].inode], call[d].size) \in seen'[d][call[d].id]
  BY <1>1, WriteIs
<1>3. TypeOK /\ saves \in Nat
  BY DEF IInv, TypeOK
<1>4. /\ r.version \in Nat /\ Prefix(r, r.version) = Pieces(r)
      /\ DOMAIN Prefix(r, r.version) = 1..r.version
      /\ \A k \in 1..r.version : Prefix(r, r.version)[k] = <<r, k>>
  BY <1>2, PrefixIs
<1>5. /\ call' = [call EXCEPT ![c] = Idle]
      /\ reported' = [reported EXCEPT ![r.id] = IF files[r.id] = n THEN r ELSE None]
  BY <1>1 DEF SaveReturns
<1>6. /\ call'[c] = Idle /\ call'[c].step = "idle"
      /\ \A d \in Callers \ {c} : call'[d] = call[d]
  BY <1>3, <1>5 DEF TypeOK, Idle
<1>7. TypeOK'
  <2>1. call' \in [Callers -> {Idle} \cup Writing \cup Opening \cup Reading]
    BY <1>3, <1>5 DEF TypeOK
  <2>2. \A m \in Inodes : \A k \in DOMAIN data'[m] : \E q \in Records : data'[m][k] = <<q, k>>
    <3>1. \A m \in Inodes \ {n} : \A k \in DOMAIN data'[m] :
             \E q \in Records : data'[m][k] = <<q, k>>
      BY <1>2, <1>3 DEF TypeOK
    <3>2. data'[n] = Prefix(r, r.version)
      BY <1>1, <1>2
    <3>3. \A k \in DOMAIN data'[n] : data'[n][k] = <<r, k>>
      BY <1>4, <3>2
    <3> QED
      BY <1>2, <3>1, <3>3
  <2>3. reported' \in [Ids -> Records \cup {None}]
    BY <1>2, <1>3, <1>5 DEF TypeOK
  <2> QED
    BY <1>2, <1>3, <2>1, <2>2, <2>3 DEF TypeOK
<1>8. \A d \in Callers : In(d, "writing")' => d # c /\ In(d, "writing") /\ call'[d] = call[d]
  BY <1>6 DEF In
<1>9. WritersHeld'
  <2>1. ASSUME NEW d \in Callers, In(d, "writing")'
        PROVE  /\ call'[d].offset < call'[d].record.version
               /\ data'[call'[d].inode] = Prefix(call'[d].record, call'[d].offset)
    <3>1. In(d, "writing") /\ call'[d] = call[d] /\ call[d].inode \in Inodes \ {n}
      BY <1>2, <1>3, <1>8, <2>1, CallIs
    <3> QED
      BY <1>2, <3>1 DEF IInv, WritersHeld
  <2> QED
    BY <2>1 DEF WritersHeld
<1>10. WritersApart'
  BY <1>8 DEF IInv, WritersApart
<1>11. InodesOwned'
  <2>1. \A i \in Ids, m \in Inodes : Uses(i, m)' => Uses(i, m)
    BY <1>6 DEF Uses, In
  <2> QED
    BY <1>3, <2>1, UsesAlone
<1>12. ReportedHeld'
  <2>1. ASSUME NEW i \in Ids, i # r.id, reported'[i] # None, i \notin failed
        PROVE  /\ files[i] # None
               /\ data'[files[i]] = Pieces(reported'[i])
               /\ \A d \in Callers : In(d, "writing")' => call'[d].record.id # i
    <3>1. reported'[i] = reported[i]
      BY <1>3, <1>5, <2>1 DEF TypeOK
    <3>2. /\ files[i] # None /\ data[files[i]] = Pieces(reported[i])
          /\ \A d \in Callers : In(d, "writing") => call[d].record.id # i
      BY <2>1, <3>1 DEF IInv, ReportedHeld
    <3>3. files[i] \in Inodes /\ files[i] # n
      BY <1>2, <1>3, <2>1, <3>2 DEF TypeOK
    <3> QED
      BY <1>2, <1>8, <3>1, <3>2, <3>3
  <2>2. ASSUME reported'[r.id] # None
        PROVE  /\ files[r.id] # None
               /\ data'[files[r.id]] = Pieces(reported'[r.id])
               /\ \A d \in Callers : In(d, "writing")' => call'[d].record.id # r.id
    <3>1. reported'[r.id] = r /\ files[r.id] = n
      BY <1>2, <1>3, <1>5, <2>2 DEF TypeOK
    <3>2. n # None
      BY <1>2, NoneAssumption DEF Inodes
    <3>3. \A d \in Callers \ {c} : In(d, "writing") => call[d].record.id # r.id
      BY DEF IInv, WritersApart
    <3> QED
      BY <1>1, <1>2, <1>4, <1>8, <3>1, <3>2, <3>3
  <2> QED
    BY <2>1, <2>2 DEF ReportedHeld
<1>13. ~Loads(c) /\ ~Loads(c)'
  BY <1>6 DEF Loads, In
<1>14. SeenHeld' /\ ReadersHeld' /\ TodoUnread' /\ ReadIsCurrent'
  BY <1>2, <1>6, <1>13, ReadersAlone
<1> QED
  BY <1>2, <1>7, <1>9, <1>10, <1>11, <1>12, <1>14 DEF IInv

-----------------------------------------------------------------------------
(* The invariant, and what follows from it.                                *)

LEMMA InitIInv == Init => IInv
<1> SUFFICES ASSUME Init PROVE IInv
  OBVIOUS
<1>1. \A c \in Callers : call[c] = Idle /\ call[c].step = "idle"
  BY DEF Init, Idle
<1>2. \A c \in Callers : ~In(c, "writing") /\ ~In(c, "reading") /\ ~Loads(c)
  BY <1>1 DEF In, Loads
<1>3. \A c \in Callers, i \in Ids : got[c][i] = Unread
  BY DEF Init, NotRead
<1>4. TypeOK
  <2>1. call \in [Callers -> {Idle} \cup Writing \cup Opening \cup Reading]
    BY DEF Init
  <2>2. got \in [Callers -> [Ids -> Records \cup {None, Unread, Failed}]]
    BY DEF Init, NotRead
  <2>3. data \in [Inodes -> Seq(Records \X Nat)] /\ \A n \in Inodes : DOMAIN data[n] = {}
    BY DEF Init
  <2> QED
    BY <2>1, <2>2, <2>3, BoundsAssumption DEF Init, TypeOK
<1>5. ContentHeld
  BY DEF Init, ContentHeld
<1>6. WritersHeld /\ WritersApart /\ SeenHeld /\ ReadersHeld
  BY <1>2 DEF WritersHeld, WritersApart, SeenHeld, ReadersHeld
<1>7. InodesOwned
  <2>1. \A n \in Inodes : n # None
    BY NoneAssumption DEF Inodes
  <2> QED
    BY <1>2, <2>1 DEF Init, InodesOwned, Uses
<1>8. ReportedHeld
  BY DEF Init, ReportedHeld
<1>9. TodoUnread /\ ReadIsCurrent
  BY <1>3 DEF TodoUnread, ReadIsCurrent
<1> QED
  BY <1>4, <1>5, <1>6, <1>7, <1>8, <1>9 DEF IInv

\* Whatever a caller does, and if the process dies.
LEMMA NextIInv == IInv /\ Next => IInv'
<1> SUFFICES ASSUME IInv, Step, Observe PROVE IInv'
  BY DEF Next
<1>1. ASSUME NEW c \in Callers, NEW r \in Records, SaveOpen(c, r) PROVE IInv'
  BY <1>1, SaveOpenKeepsIInv
<1>2. ASSUME NEW c \in Callers, NEW r \in Records, SaveOpenFails(c, r) PROVE IInv'
  BY <1>2, SaveOpenFailsKeepsIInv
<1>3. ASSUME NEW c \in Callers, SaveWrite(c) PROVE IInv'
  BY <1>3, SaveWriteIs, WritesSomeKeepsIInv, WritesLastKeepsIInv
<1>4. ASSUME NEW c \in Callers, SaveWriteFails(c) PROVE IInv'
  BY <1>4, SaveWriteFailsKeepsIInv
<1>5. ASSUME NEW c \in Callers, NEW i \in Ids, Load(c, i) PROVE IInv'
  <2>1. {i} \in SUBSET (Ids \cup {None}) /\ Read(c, {i})
    BY <1>5 DEF Load
  <2> QED
    BY <2>1, ReadKeepsIInv
<1>6. ASSUME NEW c \in Callers, NEW i \in Ids, LoadNothing(c, i) PROVE IInv'
  BY <1>6, LoadNothingKeepsIInv
<1>7. ASSUME NEW c \in Callers, NEW i \in Ids, LoadOpen(c, i) PROVE IInv'
  BY <1>7, LoadOpenKeepsIInv
<1>8. ASSUME NEW c \in Callers, NEW i \in Ids, LoadFails(c, i) PROVE IInv'
  BY <1>8, LoadFailsKeepsIInv
<1>9. ASSUME NEW c \in Callers, NEW i \in Ids, Remove(c, i) PROVE IInv'
  BY <1>9, RemoveKeepsIInv
<1>10. ASSUME NEW c \in Callers, All(c) PROVE IInv'
  <2> DEFINE which == Ids \cup (IF stray THEN {None} ELSE {})
  <2>1. which \in SUBSET (Ids \cup {None}) /\ Read(c, which)
    BY <1>10 DEF All
  <2> HIDE DEF which
  <2> QED
    BY <2>1, ReadKeepsIInv
<1>11. ASSUME NEW c \in Callers, AllThrows(c) PROVE IInv'
  BY <1>11, AllThrowsKeepsIInv
<1>12. ASSUME NEW c \in Callers, LoadRead(c) PROVE IInv'
  BY <1>12, LoadReadKeepsIInv
<1>13. ASSUME Crash PROVE IInv'
  BY <1>13, CrashKeepsIInv
<1> QED
  BY <1>1, <1>2, <1>3, <1>4, <1>5, <1>6, <1>7, <1>8, <1>9, <1>10, <1>11, <1>12, <1>13
     DEF Step

LEMMA IInvStep == IInv /\ [Next]_vars => IInv'
<1>1. ASSUME IInv, UNCHANGED vars PROVE IInv'
  <2>1. UNCHANGED <<files, data, stray, call, got, saves, crashes, reported, failed, seen>>
    BY <1>1 DEF vars, directory, report
  <2>2. TypeOK'
    BY <1>1, <2>1 DEF IInv, TypeOK
  <2>3. ContentHeld' /\ WritersHeld' /\ WritersApart' /\ InodesOwned'
    BY <1>1, <2>1 DEF IInv, ContentHeld, WritersHeld, WritersApart, InodesOwned, Uses, In
  <2>4. ReportedHeld' /\ ReadersHeld' /\ TodoUnread' /\ ReadIsCurrent'
    BY <1>1, <2>1 DEF IInv, ReportedHeld, ReadersHeld, TodoUnread, ReadIsCurrent, Loads, In
  <2>5. SeenHeld'
    BY <1>1, <2>1 DEF IInv, SeenHeld, Stored, Loads, In
  <2> QED
    BY <2>2, <2>3, <2>4, <2>5 DEF IInv
<1> QED
  BY <1>1, NextIInv

\* The invariant holds in every state of every behaviour.
LEMMA IInvAlways == Spec => []IInv
BY InitIInv, IInvStep, PTL DEF Spec

\* Every variable of the directory and of its callers has the values it is meant to
\* have, and two ids never share an inode (persistence.h:33-87).
THEOREM PersistenceTypeCorrect == Spec => []TypeOK
<1>1. IInv => TypeOK
  BY DEF IInv
<1> QED
  BY <1>1, IInvAlways, PTL

\* A record whose save() met no error is whole in its file until it is saved again
\* or removed, for any number of callers, records and deaths (persistence.h:39-43).
THEOREM SavedRecordStays == Spec => []SavedStays
<1>1. IInv => SavedStays
  <2> SUFFICES ASSUME IInv, NEW i \in Ids, reported[i] # None, i \notin failed
               PROVE  Stored(i) = reported[i]
    BY DEF SavedStays
  <2>1. files[i] # None /\ data[files[i]] = Pieces(reported[i]) /\ reported[i] \in Records
    BY DEF IInv, ReportedHeld, TypeOK
  <2>2. reported[i].version \in Nat \ {0}
    BY <2>1, VersionIs
  <2>3. Decode(Prefix(reported[i], reported[i].version)) = reported[i]
    BY <2>1, <2>2, DecodePrefixIs
  <2> QED
    BY <2>1, <2>2, <2>3, StoredNow, PrefixIs
<1> QED
  BY <1>1, IInvAlways, PTL

\* What load() and all() say was so at some moment of the call, or was removed
\* while it was saved and written to its end then, however many callers save,
\* remove and read at the same time (persistence.h:51-60).
THEOREM WhatIsReadWasThere == Spec => []ReadIsCurrent
<1>1. IInv => ReadIsCurrent
  BY DEF IInv
<1> QED
  BY <1>1, IInvAlways, PTL

-----------------------------------------------------------------------------
(* The directory is a RecordStore.                                         *)

Store == [i \in Ids |-> Stored(i)]
Savers == {call[c].record : c \in {d \in Callers : In(d, "writing")}}
Readers == {c \in Callers : Loads(c)}

\* The history has a value for every caller and id.
SeenIs == seen = [c \in Callers |-> [i \in Ids |-> seen[c][i]]]

LEMMA SeenAlways == Spec => []SeenIs
<1>1. Init => SeenIs
  BY DEF Init, SeenIs
<1>2. SeenIs /\ [Next]_vars => SeenIs'
  <2>1. ASSUME Observe PROVE SeenIs'
    <3>1. \A c \in Callers, i \in Ids : seen'[c][i] =
             IF Loads(c) THEN seen[c][i] \cup {Stored(i), Stored(i)'} \cup Completed(i)
             ELSE IF Loads(c)' THEN {Stored(i)}
             ELSE seen[c][i]
      BY <2>1 DEF Observe
    <3>2. seen' = [c \in Callers |-> seen'[c]]
      BY <2>1 DEF Observe
    <3>3. \A c \in Callers : seen'[c] = [i \in Ids |-> seen'[c][i]]
      BY <2>1 DEF Observe
    <3> QED
      BY <3>2, <3>3 DEF SeenIs
  <2>2. ASSUME SeenIs, UNCHANGED vars PROVE SeenIs'
    BY <2>2 DEF SeenIs, vars
  <2> QED
    BY <2>1, <2>2 DEF Next
<1> QED
  BY <1>1, <1>2, PTL DEF Spec

\* A writer's file is not whole before its last piece.
LEMMA NotWhole ==
    ASSUME IInv, NEW c \in Callers, In(c, "writing")
    PROVE  data[call[c].inode] # Pieces(call[c].record)
<1>1. /\ call[c].record \in Records /\ call[c].offset \in Nat
      /\ call[c].record.version \in Nat \ {0}
      /\ call[c].offset < call[c].record.version
      /\ data[call[c].inode] = Prefix(call[c].record, call[c].offset)
  BY CallIs, VersionIs DEF IInv, WritersHeld
<1>2. /\ Len(Prefix(call[c].record, call[c].offset)) = call[c].offset
      /\ Len(Pieces(call[c].record)) = call[c].record.version
  BY <1>1, PrefixIs
<1> QED
  BY <1>1, <1>2

\* Steps that write no last piece complete nothing.
LEMMA NothingCompleted ==
    ASSUME IInv,
           \A d \in Callers : In(d, "writing") =>
              data'[call[d].inode] \in {data[call[d].inode], <<>>}
    PROVE  \A i \in Ids : Completed(i) = {}
<1>1. ASSUME NEW d \in Callers, In(d, "writing")
      PROVE  data'[call[d].inode] # Pieces(call[d].record)
  <2>1. call[d].record \in Records
    BY <1>1, CallIs DEF IInv
  <2>2. Pieces(call[d].record) # <<>>
    BY <2>1, VersionIs, PrefixIs
  <2> QED
    BY <1>1, <2>2, NotWhole
<1> QED
  BY <1>1 DEF Completed

\* The history is the one of RecordStore.
LEMMA HoldIs ==
    ASSUME Observe, NEW done, \A i \in Ids : Completed(i) = {r \in done : r.id = i}
    PROVE  Map!Hold(done)
<1>1. \A i \in Ids : Store[i] = Stored(i) /\ Store'[i] = Stored(i)'
  BY DEF Store
<1>2. \A c \in Callers : (c \in Readers) = Loads(c) /\ (c \in Readers') = Loads(c)'
  BY DEF Readers, Loads
<1>3. seen' = [c \in Callers |-> [i \in Ids |->
         IF c \in Readers
         THEN seen[c][i] \cup {Store[i], Store'[i]} \cup {r \in done : r.id = i}
         ELSE IF c \in Readers' THEN {Store[i]}
         ELSE seen[c][i]]]
  BY <1>1, <1>2 DEF Observe
<1> QED
  BY <1>3 DEF Map!Hold, Store, Readers

LEMMA HoldNothing ==
    ASSUME Observe, \A i \in Ids : Completed(i) = {}
    PROVE  Map!Hold({})
<1>1. \A i \in Ids : Completed(i) = {r \in {} : r.id = i}
  OBVIOUS
<1> QED
  BY <1>1, HoldIs

\* A step that readers cannot tell leaves their history alone.
LEMMA SeenStays ==
    ASSUME IInv, SeenIs, Observe, \A i \in Ids : Completed(i) = {}, Store' = Store,
           \A c \in Callers : Loads(c)' <=> Loads(c)
    PROVE  seen' = seen
<1>1. \A i \in Ids : Stored(i)' = Stored(i)
  <2>1. \A i \in Ids : Store[i] = Stored(i) /\ Store'[i] = Stored(i)'
    BY DEF Store
  <2> QED
    BY <2>1
<1>2. \A c \in Callers, i \in Ids : seen'[c][i] = seen[c][i]
  <2> SUFFICES ASSUME NEW c \in Callers, NEW i \in Ids PROVE seen'[c][i] = seen[c][i]
    OBVIOUS
  <2>1. CASE Loads(c)
    <3>1. Stored(i) \in seen[c][i]
      BY <2>1 DEF IInv, SeenHeld
    <3>2. seen'[c][i] = seen[c][i] \cup {Stored(i), Stored(i)'} \cup Completed(i)
      BY <2>1, Observed
    <3>3. Completed(i) = {} /\ Stored(i)' = Stored(i)
      BY <1>1
    <3> QED
      BY <3>1, <3>2, <3>3
  <2>2. CASE ~Loads(c)
    BY <2>2, Observed
  <2> QED
    BY <2>1, <2>2
<1>3. seen' = [c \in Callers |-> [i \in Ids |-> seen'[c][i]]]
  <2>1. seen' = [c \in Callers |-> seen'[c]]
    BY DEF Observe
  <2>2. \A c \in Callers : seen'[c] = [i \in Ids |-> seen'[c][i]]
    BY DEF Observe
  <2> QED
    BY <2>1, <2>2
<1> QED
  BY <1>2, <1>3 DEF SeenIs

\* What is stored changes with the file and its content only.
LEMMA StoreStays ==
    ASSUME \A i \in Ids : files'[i] = files[i] /\
              (files[i] # None => Decode(data'[files[i]]) = Decode(data[files[i]]))
    PROVE  Store' = Store
<1>1. \A i \in Ids : Stored(i)' = Stored(i)
  BY StoredNow, StoredNext
<1> QED
  BY <1>1 DEF Store

\* A step of a reader, of its call alone: nobody else reads or writes otherwise.
LEMMA OneCall ==
    ASSUME TypeOK, NEW c \in Callers, ~In(c, "writing"), NEW X, X.step # "writing",
           call' = [call EXCEPT ![c] = X]
    PROVE  /\ call'[c] = X
           /\ Savers' = Savers
           /\ \A d \in Callers \ {c} : call'[d] = call[d] /\ (Loads(d)' <=> Loads(d))
<1>1. call'[c] = X /\ \A d \in Callers \ {c} : call'[d] = call[d]
  BY DEF TypeOK
<1>2. \A d \in Callers : In(d, "writing")' <=> In(d, "writing")
  BY <1>1 DEF In
<1>3. \A d \in Callers : In(d, "writing") => call'[d].record = call[d].record
  BY <1>1
<1>4. Savers' = Savers
  BY <1>2, <1>3 DEF Savers
<1> QED
  BY <1>1, <1>4 DEF Loads, In

LEMMA ReaderCompletes ==
    ASSUME IInv, UNCHANGED directory
    PROVE  /\ \A i \in Ids : Completed(i) = {}
           /\ Store' = Store
<1>1. data' = data /\ files' = files
  BY DEF directory
<1> QED
  BY <1>1, NothingCompleted, StoreStays

LEMMA ReadMaps ==
    ASSUME IInv, Observe, NEW c \in Callers, NEW which, Read(c, which)
    PROVE  Map!BeginRead(c)
<1> DEFINE X == [step |-> "opening", todo |-> which]
<1>1. /\ In(c, "idle") /\ ~In(c, "writing") /\ call' = [call EXCEPT ![c] = X]
      /\ X.step = "opening" /\ UNCHANGED directory /\ TypeOK
  BY DEF Read, In, IInv
<1> HIDE DEF X
<1>2. /\ call'[c] = X /\ Savers' = Savers
      /\ \A d \in Callers \ {c} : call'[d] = call[d] /\ (Loads(d)' <=> Loads(d))
  BY <1>1, OneCall
<1>3. ~Loads(c) /\ Loads(c)'
  BY <1>1, <1>2 DEF Loads, In
<1>4. c \notin Readers /\ Readers' = Readers \cup {c}
  BY <1>2, <1>3 DEF Readers
<1>5. got' = [got EXCEPT ![c] = [i \in Ids |-> Unread]]
  BY DEF Read, NotRead
<1>6. Store' = Store /\ Map!Hold({})
  BY <1>1, ReaderCompletes, HoldNothing
<1> QED
  BY <1>2, <1>4, <1>5, <1>6 DEF Map!BeginRead, Store, Savers, Readers

LEMMA AllThrowsMaps ==
    ASSUME IInv, Observe, NEW c \in Callers, AllThrows(c)
    PROVE  Map!GiveUp(c)
<1>1. /\ Loads(c) /\ ~In(c, "writing") /\ call' = [call EXCEPT ![c] = Idle]
      /\ UNCHANGED <<directory, got>> /\ TypeOK
  BY DEF AllThrows, In, Loads, IInv
<1>2. Idle.step = "idle"
  BY DEF Idle
<1>3. /\ call'[c] = Idle /\ Savers' = Savers
      /\ \A d \in Callers \ {c} : call'[d] = call[d] /\ (Loads(d)' <=> Loads(d))
  BY <1>1, <1>2, OneCall
<1>4. ~Loads(c)'
  BY <1>2, <1>3 DEF Loads, In
<1>5. c \in Readers /\ Readers' = Readers \ {c}
  BY <1>1, <1>3, <1>4 DEF Readers
<1>6. Store' = Store /\ Map!Hold({})
  BY <1>1, ReaderCompletes, HoldNothing
<1> QED
  BY <1>1, <1>3, <1>5, <1>6 DEF Map!GiveUp, Store, Savers, Readers

\* Being told of i, whatever the way.
LEMMA TellMaps ==
    ASSUME IInv, Observe, NEW c \in Callers, Loads(c), NEW i \in Ids, got[c][i] = Unread,
           NEW v \in seen[c][i] \cup {Failed},
           NEW todo \in SUBSET (Ids \cup {None}),
           got' = [got EXCEPT ![c][i] = v],
           call' = [call EXCEPT ![c] = Continued(todo)],
           UNCHANGED directory
    PROVE  Map!Tell(c, i)
<1> DEFINE X == Continued(todo)
<1>1. ~In(c, "writing") /\ TypeOK /\ call' = [call EXCEPT ![c] = X]
  BY DEF Loads, In, IInv
<1>2. X.step # "writing"
  BY DEF Continued, Idle
<1> HIDE DEF X
<1>3. /\ Savers' = Savers
      /\ \A d \in Callers \ {c} : call'[d] = call[d] /\ (Loads(d)' <=> Loads(d))
  BY <1>1, <1>2, OneCall
<1>4. c \in Readers /\ Readers' \in {Readers, Readers \ {c}}
  <2>1. CASE Loads(c)'
    BY <1>3, <2>1 DEF Readers
  <2>2. CASE ~Loads(c)'
    BY <1>3, <2>2 DEF Readers
  <2> QED
    BY <2>1, <2>2 DEF Readers
<1>5. Store' = Store /\ Map!Hold({})
  BY ReaderCompletes, HoldNothing
<1> QED
  BY <1>3, <1>4, <1>5 DEF Map!Tell, Store, Savers, Readers

LEMMA LoadNothingMaps ==
    ASSUME IInv, Observe, NEW c \in Callers, NEW i \in Ids, LoadNothing(c, i)
    PROVE  Map!Tell(c, i)
<1>1. /\ Loads(c) /\ In(c, "opening") /\ i \in call[c].todo
      /\ got' = [got EXCEPT ![c][i] = None]
      /\ call' = [call EXCEPT ![c] = Continued(call[c].todo \ {i})]
      /\ UNCHANGED directory
  BY DEF LoadNothing, Answered, Loads
<1>2. call[c].todo \ {i} \in SUBSET (Ids \cup {None})
  BY <1>1, CallIs DEF IInv
<1>3. Stored(i) = None
  BY StoredNow, DecodeNothing DEF LoadNothing, Absent
<1>4. None \in seen[c][i] \cup {Failed} /\ got[c][i] = Unread
  BY <1>1, <1>3 DEF IInv, SeenHeld, TodoUnread
<1> QED
  BY <1>1, <1>2, <1>4, TellMaps

LEMMA LoadFailsMaps ==
    ASSUME IInv, Observe, NEW c \in Callers, NEW i \in Ids, LoadFails(c, i)
    PROVE  Map!Tell(c, i)
<1>1. /\ Loads(c) /\ In(c, "opening") /\ i \in call[c].todo
      /\ got' = [got EXCEPT ![c][i] = Failed]
      /\ call' = [call EXCEPT ![c] = Continued(call[c].todo \ {i})]
      /\ UNCHANGED directory
  BY DEF LoadFails, Answered, Loads
<1>2. call[c].todo \ {i} \in SUBSET (Ids \cup {None})
  BY <1>1, CallIs DEF IInv
<1>3. Failed \in seen[c][i] \cup {Failed} /\ got[c][i] = Unread
  BY <1>1 DEF IInv, TodoUnread
<1> QED
  BY <1>1, <1>2, <1>3, TellMaps

LEMMA LoadReadMaps ==
    ASSUME IInv, Observe, NEW c \in Callers, LoadRead(c)
    PROVE  \E i \in Ids : Map!Tell(c, i)
<1> DEFINE v == ReadOf(data[call[c].inode], call[c].size)
           i == call[c].id
<1>1. /\ Loads(c) /\ In(c, "reading")
      /\ got' = [got EXCEPT ![c][i] = v]
      /\ call' = [call EXCEPT ![c] = Continued(call[c].todo)]
      /\ UNCHANGED directory
  BY DEF LoadRead, Loads
<1>2. call[c].todo \in SUBSET (Ids \cup {None}) /\ i \in Ids
  BY <1>1, CallIs DEF IInv
<1>3. v \in seen[c][i] \cup {Failed} /\ got[c][i] = Unread
  BY <1>1 DEF IInv, ReadersHeld
<1> HIDE DEF v, i
<1>4. Map!Tell(c, i)
  BY <1>1, <1>2, <1>3, TellMaps
<1> QED
  BY <1>2, <1>4

LEMMA LoadOpenMaps ==
    ASSUME IInv, SeenIs, Observe, NEW c \in Callers, NEW i \in Ids, LoadOpen(c, i)
    PROVE  UNCHANGED Map!vars
<1> DEFINE X == [step |-> "reading", todo |-> call[c].todo \ {i}, id |-> i,
                 inode |-> files[i], size |-> Len(data[files[i]])]
<1>1. /\ Loads(c) /\ ~In(c, "writing") /\ call' = [call EXCEPT ![c] = X]
      /\ X.step = "reading" /\ UNCHANGED <<directory, got>> /\ TypeOK
  BY DEF LoadOpen, In, Loads, IInv
<1> HIDE DEF X
<1>2. /\ call'[c] = X /\ Savers' = Savers
      /\ \A d \in Callers \ {c} : call'[d] = call[d] /\ (Loads(d)' <=> Loads(d))
  BY <1>1, OneCall
<1>3. Loads(c)'
  BY <1>1, <1>2 DEF Loads, In
<1>4. Readers' = Readers
  BY <1>1, <1>2, <1>3 DEF Readers
<1>5. Store' = Store /\ \A j \in Ids : Completed(j) = {}
  BY <1>1, ReaderCompletes
<1>6. seen' = seen
  BY <1>1, <1>2, <1>3, <1>5, SeenStays
<1> QED
  BY <1>1, <1>2, <1>4, <1>5, <1>6 DEF Map!vars, Store, Savers, Readers

LEMMA SaveOpenMaps ==
    ASSUME IInv, Observe, NEW c \in Callers, NEW r \in Records, SaveOpen(c, r)
    PROVE  Map!BeginSave(r)
<1> DEFINE n == InodeOf(r.id)
           X == [step |-> "writing", record |-> r, inode |-> n, offset |-> 0]
<1>0. TypeOK /\ MaySave(c, r) /\ r.id \in Ids
  BY VersionIs DEF IInv, SaveOpen
<1>1. n \in Inodes /\ \A j \in Ids : Uses(j, n) => r.id = j
  BY <1>0, OpenedIs
<1>2. /\ files'[r.id] = n
      /\ \A i \in Ids \ {r.id} : files'[i] = files[i]
      /\ data'[n] = <<>>
      /\ \A m \in Inodes \ {n} : data'[m] = data[m]
      /\ call'[c] = X
      /\ \A d \in Callers \ {c} : call'[d] = call[d]
      /\ In(c, "idle")
      /\ UNCHANGED got
  BY <1>0, <1>1, SaveOpenDoes
<1>3. \A j \in Ids : files[j] = n => r.id = j
  BY <1>0, <1>1, UsersOf
<1>4. X.step = "writing" /\ X.record = r
  OBVIOUS
<1> HIDE DEF X, n
<1>5. r \notin Savers
  BY <1>0 DEF Savers, MaySave
<1>6. Savers' = Savers \cup {r}
  <2>1. \A d \in Callers : In(d, "writing")' <=> (d = c \/ In(d, "writing"))
    BY <1>2, <1>4 DEF In
  <2>2. ~In(c, "writing")
    BY <1>2 DEF In
  <2>3. \A q : q \in Savers' <=> (q \in Savers \/ q = r)
    BY <1>2, <1>4, <2>1, <2>2 DEF Savers
  <2> QED
    BY <2>3
<1>7. \A i \in Ids : Stored(i)' = IF i = r.id THEN None ELSE Stored(i)
  <2>1. Stored(r.id)' = None
    BY <1>0, <1>2, StoredNext, DecodeNothing
  <2>2. ASSUME NEW i \in Ids, i # r.id PROVE Stored(i)' = Stored(i)
    <3>1. CASE files[i] = None
      BY <1>2, <2>2, <3>1, StoredNow, StoredNext
    <3>2. CASE files[i] # None
      <4>1. files[i] \in Inodes \ {n}
        BY <1>0, <1>3, <2>2, <3>2 DEF TypeOK
      <4>2. data'[files'[i]] = data[files[i]] /\ files'[i] = files[i]
        BY <1>2, <2>2, <4>1
      <4> QED
        BY <4>2, StoredNow, StoredNext
    <3> QED
      BY <3>1, <3>2
  <2> QED
    BY <2>1, <2>2
<1>8. Store' = [Store EXCEPT ![r.id] = None]
  BY <1>0, <1>7 DEF Store
<1>9. Readers' = Readers
  BY <1>2, <1>4 DEF Readers, Loads, In
<1>10. \A d \in Callers : In(d, "writing") =>
          data'[call[d].inode] \in {data[call[d].inode], <<>>}
  BY <1>0, <1>2, CallIs
<1>11. Map!Hold({})
  BY <1>10, NothingCompleted, HoldNothing
<1> QED
  BY <1>2, <1>5, <1>6, <1>8, <1>9, <1>11 DEF Map!BeginSave, Store, Savers, Readers

LEMMA SaveOpenFailsMaps ==
    ASSUME IInv, SeenIs, Observe, NEW c \in Callers, NEW r \in Records, SaveOpenFails(c, r)
    PROVE  UNCHANGED Map!vars
<1>1. UNCHANGED <<directory, call, got>>
  BY DEF SaveOpenFails
<1>2. Store' = Store /\ \A j \in Ids : Completed(j) = {}
  BY <1>1, ReaderCompletes
<1>3. \A d \in Callers : Loads(d)' <=> Loads(d)
  BY <1>1 DEF Loads, In
<1>4. Savers' = Savers /\ Readers' = Readers
  BY <1>1 DEF Savers, Readers, Loads, In
<1>5. seen' = seen
  BY <1>2, <1>3, SeenStays
<1> QED
  BY <1>1, <1>2, <1>4, <1>5 DEF Map!vars, Store, Savers, Readers

LEMMA WritesSomeMaps ==
    ASSUME IInv, SeenIs, Observe, NEW c \in Callers, In(c, "writing"), WritesSome(c),
           UNCHANGED <<files, stray, got, saves, crashes, failed>>
    PROVE  UNCHANGED Map!vars
<1> DEFINE r == call[c].record
           n == call[c].inode
           o == call[c].offset
<1>1. PICK to \in (o + 1)..r.version :
          /\ data' = [data EXCEPT ![n] = Written(@, r, o, to)]
          /\ to # r.version
          /\ call' = [call EXCEPT ![c].offset = to]
  BY DEF WritesSome
<1>2. /\ r \in Records /\ r.version \in Nat \ {0} /\ n \in Inodes /\ to \in Nat \ {0}
      /\ data'[n] = Prefix(r, to)
      /\ \A m \in Inodes \ {n} : data'[m] = data[m]
      /\ \A d \in Callers \ {c} : In(d, "writing") => call[d].inode # n
  BY <1>1, WriteIs
<1>3. TypeOK /\ call[c] \in Writing /\ o \in Nat
  BY CallIs DEF IInv
<1>4. /\ call'[c].step = "writing" /\ call'[c].record = r /\ call[c].step = "writing"
      /\ \A d \in Callers \ {c} : call'[d] = call[d]
  BY <1>1, <1>3 DEF TypeOK, Writing
<1>5. data[n] = Prefix(r, o) /\ o < r.version
  BY DEF IInv, WritersHeld
<1>6. Decode(data[n]) = None /\ Decode(data'[n]) = None
  <2>1. o \in 0..r.version /\ o # r.version
    BY <1>2, <1>3, <1>5
  <2>2. to \in 0..r.version /\ to # r.version
    BY <1>1, <1>2, <1>3
  <2>3. Decode(Prefix(r, o)) = None
    BY <1>2, <2>1, DecodePrefixIs
  <2>4. Decode(Prefix(r, to)) = None
    BY <1>2, <2>2, DecodePrefixIs
  <2> QED
    BY <1>2, <1>5, <2>3, <2>4
<1>7. Store' = Store
  <2>1. ASSUME NEW i \in Ids, files[i] # None
        PROVE  Decode(data'[files[i]]) = Decode(data[files[i]])
    <3>1. files[i] \in Inodes
      BY <1>3, <2>1 DEF TypeOK
    <3> QED
      BY <1>2, <1>6, <3>1
  <2> QED
    BY <2>1, StoreStays
<1>8. \A j \in Ids : Completed(j) = {}
  <2>1. ASSUME NEW d \in Callers, In(d, "writing")
        PROVE  data'[call[d].inode] # Pieces(call[d].record)
    <3>1. CASE d = c
      <4>1. Len(Prefix(r, to)) = to
        BY <1>2, PrefixIs
      <4>2. Len(Pieces(r)) = r.version
        BY <1>2, PiecesLen
      <4> QED
        BY <1>1, <1>2, <3>1, <4>1, <4>2
    <3>2. CASE d # c
      <4>1. data'[call[d].inode] = data[call[d].inode]
        BY <1>2, <1>3, <2>1, <3>2, CallIs
      <4> QED
        BY <2>1, <4>1, NotWhole
    <3> QED
      BY <3>1, <3>2
  <2> QED
    BY <2>1 DEF Completed
<1>9. \A d \in Callers : (Loads(d)' <=> Loads(d)) /\ (In(d, "writing")' <=> In(d, "writing"))
  BY <1>4 DEF Loads, In
<1>10. \A d \in Callers : call'[d].record = call[d].record \/ ~In(d, "writing")
  BY <1>4
<1>11. Savers' = Savers
  BY <1>9, <1>10 DEF Savers
<1>12. Readers' = Readers
  BY <1>9 DEF Readers
<1>13. seen' = seen
  BY <1>7, <1>8, <1>9, SeenStays
<1> QED
  BY <1>7, <1>11, <1>12, <1>13 DEF Map!vars, Store, Savers, Readers

\* The call of a save ends: its record is no longer being saved.
LEMMA SaverLeaves ==
    ASSUME IInv, NEW c \in Callers, In(c, "writing"), call' = [call EXCEPT ![c] = Idle]
    PROVE  /\ call[c].record \in Savers
           /\ Savers' = Savers \ {call[c].record}
           /\ Readers' = Readers
<1>1. /\ call'[c].step = "idle"
      /\ \A d \in Callers \ {c} : call'[d] = call[d]
  BY DEF IInv, TypeOK, Idle
<1>2. \A d \in Callers : In(d, "writing")' <=> (d # c /\ In(d, "writing"))
  BY <1>1 DEF In
<1>3. \A d \in Callers \ {c} : In(d, "writing") => call[d].record # call[c].record
  BY DEF IInv, WritersApart
<1>4. \A q : q \in Savers' <=> (q \in Savers /\ q # call[c].record)
  BY <1>1, <1>2, <1>3 DEF Savers
<1>5. Readers' = Readers
  BY <1>1 DEF Readers, Loads, In
<1> QED
  BY <1>4, <1>5 DEF Savers

LEMMA WritesLastMaps ==
    ASSUME IInv, Observe, NEW c \in Callers, In(c, "writing"), WritesLast(c),
           UNCHANGED <<files, stray, got, saves, crashes, failed>>,
           NEW r, r = call[c].record
    PROVE  Map!EndSave(r)
<1> DEFINE n == call[c].inode
<1>1. PICK to \in (call[c].offset + 1)..r.version :
          /\ data' = [data EXCEPT ![n] = Written(@, r, call[c].offset, to)]
          /\ to = r.version
          /\ call' = [call EXCEPT ![c] = Idle]
  BY DEF WritesLast, SaveReturns
<1>2. /\ r \in Records /\ r.id \in Ids /\ r.version \in Nat \ {0} /\ n \in Inodes
      /\ data'[n] = Prefix(r, to)
      /\ \A m \in Inodes \ {n} : data'[m] = data[m]
      /\ \A d \in Callers \ {c} : In(d, "writing") => call[d].inode # n
      /\ \A i \in Ids : files[i] = n => i = r.id
  BY <1>1, WriteIs
<1>3. TypeOK
  BY DEF IInv
<1>4. data'[n] = Pieces(r)
  BY <1>1, <1>2, PrefixIs
<1>5. Decode(data'[n]) = r
  <2>1. r.version \in 0..r.version
    BY <1>2
  <2>2. Decode(Prefix(r, r.version)) = r
    BY <1>2, <2>1, DecodePrefixIs
  <2> QED
    BY <1>1, <1>2, <2>2
<1>6. \A i \in Ids \ {r.id} : Stored(i)' = Stored(i)
  <2>1. ASSUME NEW i \in Ids \ {r.id} PROVE Stored(i)' = Stored(i)
    <3>1. files[i] = None \/ (files[i] \in Inodes \ {n})
      BY <1>2, <1>3 DEF TypeOK
    <3>2. files[i] = None \/ data'[files'[i]] = data[files[i]]
      BY <1>2, <3>1
    <3> QED
      BY <3>2, StoredNow, StoredNext
  <2> QED
    BY <2>1
<1>7. Stored(r.id)' \in {Stored(r.id), r}
  <2>1. CASE files[r.id] = n
    <3>1. n # None
      BY <1>2, NoneAssumption DEF Inodes
    <3> QED
      BY <1>2, <1>5, <2>1, <3>1, StoredNext
  <2>2. CASE files[r.id] # n
    <3>1. files[r.id] = None \/ data'[files'[r.id]] = data[files[r.id]]
      BY <1>2, <1>3, <2>2 DEF TypeOK
    <3> QED
      BY <1>2, <3>1, StoredNow, StoredNext
  <2> QED
    BY <2>1, <2>2
<1>8. Store' \in {Store, [Store EXCEPT ![r.id] = r]}
  <2>1. CASE Stored(r.id)' = Stored(r.id)
    BY <1>6, <2>1 DEF Store
  <2>2. CASE Stored(r.id)' = r
    BY <1>2, <1>6, <2>2 DEF Store
  <2> QED
    BY <1>7, <2>1, <2>2
<1>9. \A i \in Ids : Completed(i) = {q \in {r} : q.id = i}
  <2>1. ASSUME NEW d \in Callers \ {c}, In(d, "writing")
        PROVE  data'[call[d].inode] # Pieces(call[d].record)
    <3>1. data'[call[d].inode] = data[call[d].inode]
      BY <1>2, <1>3, <2>1, CallIs
    <3> QED
      BY <2>1, <3>1, NotWhole
  <2>2. ASSUME NEW i \in Ids, NEW q \in Completed(i) PROVE q = r /\ q.id = i
    BY <2>1, <2>2 DEF Completed
  <2>3. r \in Completed(r.id)
    BY <1>2, <1>4 DEF Completed
  <2> QED
    BY <1>2, <2>2, <2>3
<1>10. Map!Hold({r})
  BY <1>9, HoldIs
<1>11. r \in Savers /\ Savers' = Savers \ {r} /\ Readers' = Readers
  BY <1>1, SaverLeaves
<1> QED
  BY <1>8, <1>10, <1>11 DEF Map!EndSave, Store, Savers, Readers

LEMMA SaveWriteFailsMaps ==
    ASSUME IInv, Observe, NEW c \in Callers, SaveWriteFails(c),
           NEW r, r = call[c].record
    PROVE  Map!FailSave(r)
<1>1. /\ In(c, "writing") /\ call' = [call EXCEPT ![c] = Idle]
      /\ UNCHANGED <<directory, got>>
  BY DEF SaveWriteFails, SaveReturns
<1>2. Store' = Store /\ Map!Hold({})
  BY <1>1, ReaderCompletes, HoldNothing
<1>3. r \in Savers /\ Savers' = Savers \ {r} /\ Readers' = Readers
  BY <1>1, SaverLeaves
<1> QED
  BY <1>1, <1>2, <1>3 DEF Map!FailSave, Store, Savers, Readers

LEMMA RemoveMaps ==
    ASSUME IInv, Observe, NEW c \in Callers, NEW r \in Ids, Remove(c, r)
    PROVE  Map!Remove(r)
<1>1. UNCHANGED <<data, call, got>> /\ \A i \in Ids \ {r} : files'[i] = files[i]
  BY DEF Remove, IInv, TypeOK
<1>2. files'[r] = None
  BY DEF Remove, IInv, TypeOK
<1>3. \A i \in Ids : Stored(i)' = IF i = r THEN None ELSE Stored(i)
  BY <1>1, <1>2, StoredNow, StoredNext
<1>4. Store' = [Store EXCEPT ![r] = None]
  BY <1>3 DEF Store
<1>5. Savers' = Savers /\ Readers' = Readers
  BY <1>1 DEF Savers, Readers, Loads, In
<1>6. Map!Hold({})
  BY <1>1, NothingCompleted, HoldNothing
<1> QED
  BY <1>1, <1>4, <1>5, <1>6 DEF Map!Remove, Store, Savers, Readers

LEMMA CrashMaps ==
    ASSUME IInv, Observe, Crash
    PROVE  Map!Crash
<1>1. /\ UNCHANGED directory /\ call' = [c \in Callers |-> Idle]
      /\ got' = [c \in Callers |-> [i \in Ids |-> Unread]]
  BY DEF Crash, NotRead
<1>2. \A c \in Callers : ~In(c, "writing")' /\ ~Loads(c)'
  BY <1>1 DEF In, Loads, Idle
<1>3. Savers' = {} /\ Readers' = {}
  BY <1>2 DEF Savers, Readers
<1>4. Store' = Store /\ Map!Hold({})
  BY <1>1, ReaderCompletes, HoldNothing
<1> QED
  BY <1>1, <1>3, <1>4 DEF Map!Crash, Store, Savers, Readers

LEMMA InitMaps == Init => Map!Init
<1> SUFFICES ASSUME Init PROVE Map!Init
  OBVIOUS
<1>1. Store = [i \in Ids |-> None]
  <2>1. \A i \in Ids : Stored(i) = None
    BY StoredNow DEF Init
  <2> QED
    BY <2>1 DEF Store
<1>2. \A c \in Callers : ~In(c, "writing") /\ ~Loads(c)
  BY DEF Init, In, Loads, Idle
<1>3. Savers = {} /\ Readers = {}
  BY <1>2 DEF Savers, Readers
<1> QED
  BY <1>1, <1>3 DEF Init, NotRead, Map!Init, Store, Savers, Readers

\* Every step of the code is a step of the map, or none.
LEMMA StepMaps == IInv /\ SeenIs /\ [Next]_vars => [Map!Next]_(Map!vars)
<1> SUFFICES ASSUME IInv, SeenIs, [Next]_vars PROVE Map!Next \/ UNCHANGED Map!vars
  OBVIOUS
<1>1. CASE UNCHANGED vars
  BY <1>1 DEF vars, directory, Map!vars, Stored, Loads, In
<1>2. ASSUME Step, Observe PROVE Map!Next \/ UNCHANGED Map!vars
  <2>1. ASSUME NEW c \in Callers, NEW r \in Records, SaveOpen(c, r) PROVE Map!Next
    BY <1>2, <2>1, SaveOpenMaps DEF Map!Next
  <2>2. ASSUME NEW c \in Callers, NEW r \in Records, SaveOpenFails(c, r)
        PROVE  UNCHANGED Map!vars
    BY <1>2, <2>2, SaveOpenFailsMaps
  <2>3. ASSUME NEW c \in Callers, SaveWrite(c) PROVE Map!Next \/ UNCHANGED Map!vars
    <3>1. /\ In(c, "writing")
          /\ WritesSome(c) \/ WritesLast(c)
          /\ UNCHANGED <<files, stray, got, saves, crashes, failed>>
      BY <2>3, SaveWriteIs
    <3>2. CASE WritesSome(c)
      BY <1>2, <3>1, <3>2, WritesSomeMaps
    <3>3. CASE WritesLast(c)
      <4>1. PICK r \in Records : r = call[c].record
        BY <3>1, CallIs DEF IInv
      <4>2. Map!EndSave(r)
        BY <1>2, <3>1, <3>3, <4>1, WritesLastMaps
      <4> QED
        BY <4>2 DEF Map!Next
    <3> QED
      BY <3>1, <3>2, <3>3
  <2>4. ASSUME NEW c \in Callers, SaveWriteFails(c) PROVE Map!Next
    <3>1. PICK r \in Records : r = call[c].record
      BY <2>4, CallIs DEF IInv, SaveWriteFails
    <3>2. Map!FailSave(r)
      BY <1>2, <2>4, <3>1, SaveWriteFailsMaps
    <3> QED
      BY <3>2 DEF Map!Next
  <2>5. ASSUME NEW c \in Callers, NEW which, Read(c, which) PROVE Map!Next
    BY <1>2, <2>5, ReadMaps DEF Map!Next
  <2>6. ASSUME NEW c \in Callers, NEW i \in Ids, LoadNothing(c, i) PROVE Map!Next
    BY <1>2, <2>6, LoadNothingMaps DEF Map!Next
  <2>7. ASSUME NEW c \in Callers, NEW i \in Ids, LoadOpen(c, i)
        PROVE  UNCHANGED Map!vars
    BY <1>2, <2>7, LoadOpenMaps
  <2>8. ASSUME NEW c \in Callers, NEW i \in Ids, LoadFails(c, i) PROVE Map!Next
    BY <1>2, <2>8, LoadFailsMaps DEF Map!Next
  <2>9. ASSUME NEW c \in Callers, NEW i \in Ids, Remove(c, i) PROVE Map!Next
    BY <1>2, <2>9, RemoveMaps DEF Map!Next
  <2>10. ASSUME NEW c \in Callers, AllThrows(c) PROVE Map!Next
    BY <1>2, <2>10, AllThrowsMaps DEF Map!Next
  <2>11. ASSUME NEW c \in Callers, LoadRead(c) PROVE Map!Next
    BY <1>2, <2>11, LoadReadMaps DEF Map!Next
  <2>12. ASSUME Crash PROVE Map!Next
    BY <1>2, <2>12, CrashMaps DEF Map!Next
  <2> QED
    BY <1>2, <2>1, <2>2, <2>3, <2>4, <2>5, <2>6, <2>7, <2>8, <2>9, <2>10, <2>11, <2>12
       DEF Step, Load, All
<1> QED
  BY <1>1, <1>2 DEF Next

\* The calls of any number of threads on any number of records, and the deaths of
\* the process, are a map of records: a reader is told of what was there or was
\* being saved, and never of half a record or a mixture (persistence.h:39-79).
THEOREM StoreImplemented == Spec => ImplementsStore
BY IInvAlways, SeenAlways, InitMaps, StepMaps, PTL DEF Spec, ImplementsStore, Map!Spec
=============================================================================

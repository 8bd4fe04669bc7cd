--------------------------- MODULE FilePersistence ---------------------------
(***************************************************************************)
(* FilePersistence<M, C> (persistence.h): one file <id>.bin per record in  *)
(* a directory, written and read by any number of threads without a lock,  *)
(* and a process that may die at any point and start again.                *)
(*                                                                         *)
(* A file is an inode: remove() takes the name away while a stream that is *)
(* open goes on with the inode.  The encoding of a record is a sequence of *)
(* pieces, one for every write(2) it may take.  The codec is a parameter   *)
(* of the class: here one that decodes exactly what it encodes.            *)
(***************************************************************************)
EXTENDS Integers, Sequences

CONSTANTS Callers,    \* threads that call the persistence
          Ids,        \* identifiers of records
          Versions,   \* versions of a record; as a number, the pieces it takes
          MaxSaves,   \* bound: calls of save()
          MaxCrashes, \* bound: deaths of the process
          None,       \* nullopt
          Unread,     \* a record that the call has not come to
          Failed      \* nullopt because the file could not be opened or read

ASSUME VersionsAssumption == Versions \subseteq Nat \ {0}

ASSUME BoundsAssumption == MaxSaves \in Nat /\ MaxCrashes \in Nat

Records == [id : Ids, version : Versions]

ASSUME NoneAssumption ==
    /\ {None, Unread, Failed} \cap (Records \cup Nat \cup Ids) = {}
    /\ None # Unread /\ None # Failed /\ Unread # Failed

VARIABLES files,    \* files[i]: the inode that <i>.bin names, or None
          data,     \* data[n]: the pieces in inode n, oldest first
          stray,    \* a .bin file whose name is not an id lies in the directory
          call,     \* call[c]: the locals of the call caller c is in
          got,      \* got[c][i]: what the last load() or all() of c has for i
          saves, crashes,
          reported, \* reported[i]: the record the last save() of i returned from
          failed,   \* the ids whose last save() met an error of its stream
          seen      \* seen[c][i]: what i held while that load() or all() ran, and
                    \* the records of i that were written to their end meanwhile

directory == <<files, data, stray>>
report == <<reported, failed>>
vars == <<directory, call, got, saves, crashes, report, seen>>

Inodes == 1..MaxSaves

Pieces(r) == [k \in 1..r.version |-> <<r, k>>]

Idle == [step |-> "idle"]

Writing == [step : {"writing"}, record : Records, inode : Inodes, offset : Nat]

\* Files still to open; None stands for the stray one.
Opening == [step : {"opening"}, todo : SUBSET (Ids \cup {None})]

\* size is what tellg() returned.
Reading == [step : {"reading"}, todo : SUBSET (Ids \cup {None}),
            id : Ids, inode : Inodes, size : Nat \ {0}]

In(c, step) == call[c].step = step

TypeOK ==
    /\ files \in [Ids -> Inodes \cup {None}]
    /\ \A i, j \in Ids : (i # j /\ files[i] # None) => files[i] # files[j]
    /\ data \in [Inodes -> Seq(Records \X Nat)]
    /\ \A n \in Inodes : \A k \in DOMAIN data[n] :
          \E r \in Records : data[n][k] = <<r, k>>
    /\ stray \in BOOLEAN
    /\ call \in [Callers -> {Idle} \cup Writing \cup Opening \cup Reading]
    /\ got \in [Callers -> [Ids -> Records \cup {None, Unread, Failed}]]
    /\ saves \in 0..MaxSaves
    /\ crashes \in 0..MaxCrashes
    /\ reported \in [Ids -> Records \cup {None}]
    /\ failed \subseteq Ids

\* The lenient decoder of a mutant: the beginning of a record will do.
DecodePrefix(pieces) ==
    LET Fits == {r \in Records : /\ pieces # <<>> /\ Len(pieces) <= r.version
                                 /\ \A k \in DOMAIN pieces : pieces[k] = <<r, k>>}
    IN  IF Fits = {} THEN None ELSE CHOOSE r \in Fits : TRUE

Decode(pieces) ==
    LET Fits == {r \in Records : Pieces(r) = pieces}
    IN  IF Fits = {} THEN None ELSE CHOOSE r \in Fits : TRUE

\* The record the file of i holds from its first piece to its last.
Stored(i) ==
    IF \E r \in Records : files[i] # None /\ Pieces(r) = data[files[i]]
    THEN CHOOSE r \in Records : Pieces(r) = data[files[i]]
    ELSE None

NotRead == [i \in Ids |-> Unread]

Init ==
    /\ files = [i \in Ids |-> None]
    /\ data = [n \in Inodes |-> <<>>]
    /\ stray \in BOOLEAN
    /\ call = [c \in Callers |-> Idle]
    /\ got = [c \in Callers |-> NotRead]
    /\ saves = 0
    /\ crashes = 0
    /\ reported = [i \in Ids |-> None]
    /\ failed = {}
    /\ seen = [c \in Callers |-> [i \in Ids |-> {}]]

-----------------------------------------------------------------------------
(* save().  Callers do not save one record at the same time: the only      *)
(* caller, the registration, makes a new id for every save.                *)

MaySave(c, r) ==
    /\ In(c, "idle")
    /\ saves < MaxSaves
    /\ \A d \in Callers : In(d, "writing") => call[d].record.id # r.id

\* The inode of i when it is opened for writing; a new one if there is none.
InodeOf(i) == IF files[i] = None THEN saves + 1 ELSE files[i]

\* Mutant: the file is opened without truncating it.
TruncatedKeeps(pieces) == pieces

\* The content of a file after it is opened with trunc.
Truncated(pieces) == <<>>

SaveOpen(c, r) ==
    LET n == InodeOf(r.id) IN
    /\ MaySave(c, r)
    /\ saves' = saves + 1
    /\ files' = [files EXCEPT ![r.id] = n]
    /\ data' = [data EXCEPT ![n] = Truncated(@)]
    /\ call' = [call EXCEPT ![c] =
          [step |-> "writing", record |-> r, inode |-> n, offset |-> 0]]
    /\ reported' = [reported EXCEPT ![r.id] = None]
    /\ failed' = failed \ {r.id}
    /\ UNCHANGED <<stray, got, crashes>>

\* The stream is not open, write() does nothing, and save() returns.
SaveOpenFails(c, r) ==
    /\ MaySave(c, r)
    /\ saves' = saves + 1
    /\ reported' = [reported EXCEPT ![r.id] = r]
    /\ failed' = failed \cup {r.id}
    /\ UNCHANGED <<directory, call, got, crashes>>

\* The content after the pieces of r from one offset to another are written.
Written(pieces, r, from, to) ==
    [k \in DOMAIN pieces \cup 1..to |-> IF k > from /\ k <= to THEN <<r, k>> ELSE pieces[k]]

\* save() returns; nobody has to keep a record removed in the meantime.
SaveReturns(c) ==
    LET r == call[c].record IN
    /\ call' = [call EXCEPT ![c] = Idle]
    /\ reported' = [reported EXCEPT ![r.id] =
          IF files[r.id] = call[c].inode THEN r ELSE None]

\* write(), and the flush of the stream's buffer when it is closed: one or more
\* write(2), each of some of the pieces left.
SaveWrite(c) ==
    LET r == call[c].record IN
    /\ In(c, "writing")
    /\ \E to \in (call[c].offset + 1)..r.version :
          /\ data' = [data EXCEPT ![call[c].inode] = Written(@, r, call[c].offset, to)]
          /\ IF to = r.version THEN SaveReturns(c)
             ELSE /\ call' = [call EXCEPT ![c].offset = to]
                  /\ UNCHANGED reported
    /\ UNCHANGED <<files, stray, got, saves, crashes, failed>>

\* No space, or an error of the device: nobody looks at the stream.
SaveWriteFails(c) ==
    /\ In(c, "writing")
    /\ SaveReturns(c)
    /\ failed' = failed \cup {call[c].record.id}
    /\ UNCHANGED <<directory, got, saves, crashes>>

-----------------------------------------------------------------------------
(* load(), and all(), which loads every file it finds, in any order.       *)

Read(c, which) ==
    /\ In(c, "idle")
    /\ call' = [call EXCEPT ![c] = [step |-> "opening", todo |-> which]]
    /\ got' = [got EXCEPT ![c] = NotRead]
    /\ UNCHANGED <<directory, saves, crashes, report>>

Load(c, i) == Read(c, {i})

All(c) == Read(c, Ids \cup (IF stray THEN {None} ELSE {}))

\* The next file of a call, or its end.
Continued(todo) == IF todo = {} THEN Idle ELSE [step |-> "opening", todo |-> todo]

\* The name does not decode to an id: value() throws bad_optional_access.
AllThrows(c) ==
    /\ In(c, "opening")
    /\ None \in call[c].todo
    /\ call' = [call EXCEPT ![c] = Idle]
    /\ UNCHANGED <<directory, got, saves, crashes, report>>

\* load() returns nullopt without reading.
Answered(c, i, answer) ==
    /\ got' = [got EXCEPT ![c][i] = answer]
    /\ call' = [call EXCEPT ![c] = Continued(@.todo \ {i})]
    /\ UNCHANGED <<directory, saves, crashes, report>>

\* Mutant: an empty file is read too.
AbsentUnlessEmpty(i) == files[i] = None

\* No file, or an empty one.
Absent(i) == files[i] # None => data[files[i]] = <<>>

LoadNothing(c, i) ==
    /\ In(c, "opening") /\ i \in call[c].todo
    /\ Absent(i)
    /\ Answered(c, i, None)

\* The file cannot be opened or read: nullopt just the same.
LoadFails(c, i) ==
    /\ In(c, "opening") /\ i \in call[c].todo
    /\ Answered(c, i, Failed)

LoadOpen(c, i) ==
    /\ In(c, "opening") /\ i \in call[c].todo
    /\ ~Absent(i)
    /\ call' = [call EXCEPT ![c] =
          [step |-> "reading", todo |-> @.todo \ {i},
           id |-> i, inode |-> files[i], size |-> Len(data[files[i]])]]
    /\ UNCHANGED <<directory, got, saves, crashes, report>>

\* As many pieces as there were when the file was opened; nothing if there are
\* fewer by now.
ReadOf(pieces, size) ==
    IF Len(pieces) < size THEN None ELSE Decode(SubSeq(pieces, 1, size))

LoadRead(c) ==
    /\ In(c, "reading")
    /\ got' = [got EXCEPT ![c][call[c].id] = ReadOf(data[call[c].inode], call[c].size)]
    /\ call' = [call EXCEPT ![c] = Continued(@.todo)]
    /\ UNCHANGED <<directory, saves, crashes, report>>

-----------------------------------------------------------------------------
\* unlink(2): streams that are open keep the inode.
Remove(c, i) ==
    /\ In(c, "idle")
    /\ files[i] # None
    /\ files' = [files EXCEPT ![i] = None]
    /\ reported' = [reported EXCEPT ![i] = None]
    /\ failed' = failed \ {i}
    /\ UNCHANGED <<data, stray, call, got, saves, crashes>>

\* The process dies and starts again; the directory is as it was.
Crash ==
    /\ crashes < MaxCrashes
    /\ crashes' = crashes + 1
    /\ call' = [c \in Callers |-> Idle]
    /\ got' = [c \in Callers |-> NotRead]
    /\ UNCHANGED <<directory, saves, report>>

Step ==
    \/ \E c \in Callers :
          \/ \E r \in Records : SaveOpen(c, r) \/ SaveOpenFails(c, r)
          \/ SaveWrite(c) \/ SaveWriteFails(c)
          \/ \E i \in Ids : \/ Load(c, i) \/ LoadNothing(c, i) \/ LoadOpen(c, i)
                            \/ LoadFails(c, i) \/ Remove(c, i)
          \/ All(c) \/ AllThrows(c) \/ LoadRead(c)
    \/ Crash

Loads(c) == In(c, "opening") \/ In(c, "reading")

\* The record of i that this step writes the last piece of, in the file of i or in
\* an inode whose name remove() took away since its save() began.
Completed(i) ==
    {r \in Records : r.id = i /\ \E c \in Callers :
        In(c, "writing") /\ call[c].record = r /\ data'[call[c].inode] = Pieces(r)}

\* History: what i holds before and after each step of a call that reads, and what
\* is written to its end in the step.
Observe ==
    seen' = [c \in Callers |-> [i \in Ids |->
        IF Loads(c) THEN seen[c][i] \cup {Stored(i), Stored(i)'} \cup Completed(i)
        ELSE IF Loads(c)' THEN {Stored(i)}
        ELSE seen[c][i]]]

Next == Step /\ Observe

Spec == Init /\ [][Next]_vars

-----------------------------------------------------------------------------
(* Properties                                                              *)

\* What load() and all() say of a record, when no call of a stream fails, it was
\* at some moment of the call: a record that is stored all the time is found,
\* one that is not there is not, and a save that overtakes the reader between
\* the size and the content never gives half a record or a mixture.  The one
\* record that may be read although its file never held it is one that was
\* removed while its save() ran, and written to its end during the call
\* (persistence.h:51-60).
ReadIsCurrent ==
    \A c \in Callers, i \in Ids :
        got[c][i] \notin {Unread, Failed} => got[c][i] \in seen[c][i]

\* The map that the directory is to its callers.
Map == INSTANCE RecordStore WITH
    store <- [i \in Ids |-> Stored(i)],
    saving <- {call[c].record : c \in {d \in Callers : In(d, "writing")}},
    reading <- {c \in Callers : Loads(c)},
    held <- seen

\* The calls of all threads and the deaths of the process, seen from outside, are a
\* map of records: a save shows as a gap and its record, never as another record
\* or a mixture of two, and a reader is told what was there (persistence.h:39-79).
ImplementsStore == Map!Spec

\* A record whose save() met no error is in its file, from the first piece to the
\* last and with nothing of an older one behind it, until it is saved again or
\* removed: whatever other callers do, and if the process dies
\* (persistence.h:39-43).
SavedStays ==
    \A i \in Ids : (reported[i] # None /\ i \notin failed) => Stored(i) = reported[i]

\* What the registration tells its client, "Registration Successful!", of every
\* save() that returns (identity_controller.h:65-68).  The code violates it:
\* save() does not look at its stream.
ReturnedIsStored ==
    \A i \in Ids : reported[i] # None => Stored(i) = reported[i]
=============================================================================

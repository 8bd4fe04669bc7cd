----------------------------- MODULE RecordStore -----------------------------
(***************************************************************************)
(* What a persistence promises: a map from ids to records.  A save is a    *)
(* gap, in which the record of the id is absent, and then the record it    *)
(* was called with, or, if the save fails or is cut off, the gap for good; *)
(* no other record ever appears.  A reader gets of every id a value that   *)
(* was there while it read (a regular register), a record whose save ended *)
(* while it read though it was removed before, or is told of a failure.    *)
(***************************************************************************)
CONSTANTS Callers, Records, Ids, None, Unread, Failed

VARIABLES store,   \* store[i]: the record of i, or None
          saving,  \* the records whose save has begun and not ended
          reading, \* the callers that read
          held,    \* held[c][i]: the values of i while c has been reading, and the
                   \* records of i whose save ended meanwhile
          got      \* got[c][i]: what c was told of i

vars == <<store, saving, reading, held, got>>

Init ==
    /\ store = [i \in Ids |-> None]
    /\ saving = {}
    /\ reading = {}
    /\ held = [c \in Callers |-> [i \in Ids |-> {}]]
    /\ got = [c \in Callers |-> [i \in Ids |-> Unread]]

\* What every step leaves to the readers; done: the record whose save it ends.
Hold(done) ==
    held' = [c \in Callers |-> [i \in Ids |->
        IF c \in reading
        THEN held[c][i] \cup {store[i], store'[i]} \cup {r \in done : r.id = i}
        ELSE IF c \in reading' THEN {store[i]}
        ELSE held[c][i]]]

BeginSave(r) ==
    /\ r \notin saving
    /\ saving' = saving \cup {r}
    /\ store' = [store EXCEPT ![r.id] = None]
    /\ Hold({})
    /\ UNCHANGED <<reading, got>>

\* The record appears; not if the id was removed meanwhile.
EndSave(r) ==
    /\ r \in saving
    /\ saving' = saving \ {r}
    /\ store' \in {store, [store EXCEPT ![r.id] = r]}
    /\ Hold({r})
    /\ UNCHANGED <<reading, got>>

\* The gap stays.
FailSave(r) ==
    /\ r \in saving
    /\ saving' = saving \ {r}
    /\ Hold({})
    /\ UNCHANGED <<store, reading, got>>

Remove(i) ==
    /\ store' = [store EXCEPT ![i] = None]
    /\ Hold({})
    /\ UNCHANGED <<saving, reading, got>>

BeginRead(c) ==
    /\ c \notin reading
    /\ reading' = reading \cup {c}
    /\ got' = [got EXCEPT ![c] = [i \in Ids |-> Unread]]
    /\ Hold({})
    /\ UNCHANGED <<store, saving>>

\* Told of an id, the last one or not.
Tell(c, i) ==
    /\ c \in reading
    /\ got[c][i] = Unread
    /\ \E v \in held[c][i] \cup {Failed} : got' = [got EXCEPT ![c][i] = v]
    /\ reading' \in {reading, reading \ {c}}
    /\ Hold({})
    /\ UNCHANGED <<store, saving>>

\* An exception, with what was told so far.
GiveUp(c) ==
    /\ c \in reading
    /\ reading' = reading \ {c}
    /\ Hold({})
    /\ UNCHANGED <<store, saving, got>>

\* The process dies and forgets its calls; the map stays.
Crash ==
    /\ saving' = {}
    /\ reading' = {}
    /\ got' = [c \in Callers |-> [i \in Ids |-> Unread]]
    /\ Hold({})
    /\ UNCHANGED store

Next ==
    \/ \E r \in Records : BeginSave(r) \/ EndSave(r) \/ FailSave(r)
    \/ \E i \in Ids : Remove(i)
    \/ \E c \in Callers : BeginRead(c) \/ GiveUp(c) \/ \E i \in Ids : Tell(c, i)
    \/ Crash

Spec == Init /\ [][Next]_vars
=============================================================================

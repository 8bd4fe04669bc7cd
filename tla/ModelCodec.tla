----------------------------- MODULE ModelCodec -----------------------------
(***************************************************************************)
(* Models (model.h) and the JSON text they are saved as (json_model_codec, *)
(* json_security_codec): a model is created, patched, encoded, and decoded *)
(* again, perhaps from a text that lost some of its members, or in which   *)
(* an id is written otherwise or damaged.                                  *)
(*                                                                         *)
(* What the codecs tell apart is the kind of a JSON value.  A number has a *)
(* kind in memory that its digits in the text do not have: the parser of   *)
(* Boost.JSON takes a number that fits for an int64, and as_uint64() throws*)
(* for one.  Integers are modelled with Half in the place of 2^63.         *)
(***************************************************************************)
EXTENDS Uuid, FiniteSets

CONSTANTS Times,  \* milliseconds at which ids are generated
          Random, \* sequences of ten random bytes
          MaxIds, \* bound on the number of ids generated
          MaxLost,\* bound on the members a text loses
          Texts,  \* names and titles
          Hashes, \* sequences of bytes
          Half,   \* the first number that does not fit a signed integer
          Numbers,\* the numbers that versions, times and costs are taken from
          None,   \* nullopt
          Throws, \* an exception leaves the function
          Unread  \* decode() was not called yet

ASSUME HalfAssumption ==
    /\ Half \in Nat \ {0}
    /\ Times \subseteq 0..(Half - 1)
    /\ Numbers \subseteq 0..(2 * Half - 1)

ASSUME TimesAssumption == Times \subseteq Milliseconds

ASSUME RandomAssumption == Random \subseteq [1..10 -> Byte] /\ Hashes \subseteq Seq(Byte)

VARIABLES model,  \* the model in memory, or None
          text,   \* the text it was encoded to, or NoText
          source, \* the model that text was made from (history)
          lost,   \* members that are gone or whose hexadecimal is damaged (history)
          result, \* what decode() returned
          used    \* the ids generated so far, and when (history)

vars == <<model, text, source, lost, result, used>>

Ids == {Generate(t, r) : t \in Times, r \in Random}

Uint64 == 0..(2 * Half - 1)

Bindings == [algorithm : {"argon2id"}, m : Numbers \cap 0..(Half - 1), hash : Hashes]
       \cup [algorithm : {"sha256"}, hash : Hashes]

UserIdentities == [username : Texts, password_binding : Bindings, is_admin : BOOLEAN]

Authors == [display_name : Texts, bio : Texts]

Posts == [author_id : Ids, title : Texts, content : Texts]

States == UserIdentities \cup Authors \cup Posts

Headers == [id : UUIDs, version : Nat, created_at : Nat]

Models == [id : Ids, version : Uint64, created_at : Uint64, state : States]

\* Nothing is saved.
NoText == [kind |-> "none"]

ASSUME NoneAssumption ==
    /\ Throws # None /\ Unread # None
    /\ \A v \in {None, Throws, Unread} :
          v \notin Seq(Byte) \cup Bindings \cup States \cup Headers \cup Models

TypeOK ==
    /\ model \in Models \cup {None}
    /\ text # NoText => text.kind = "object" /\ source \in Models
    /\ result \in Models \cup {None, Unread}
    /\ \A u \in used : u.ms \in Times /\ u.id \in UUIDs

-----------------------------------------------------------------------------
(* JSON                                                                    *)

String(s) == [kind |-> "string", value |-> s]
Unsigned(n) == [kind |-> "uint64", value |-> n]
Bool(b) == [kind |-> "bool", value |-> b]
Object(members) == [kind |-> "object", value |-> members]

\* The digits of a number do not say what kind it had; members of members do not
\* occur.
Digits(v) == IF v.kind = "uint64" THEN [v EXCEPT !.kind = "digits"] ELSE v

Serialize(v) ==
    IF v.kind = "object" THEN Object([f \in DOMAIN v.value |-> Digits(v.value[f])])
    ELSE Digits(v)

Number(v) ==
    IF v.kind = "digits" THEN [v EXCEPT !.kind = IF v.value < Half THEN "int64" ELSE "uint64"]
    ELSE v

Parse(v) ==
    IF v.kind = "object" THEN Object([f \in DOMAIN v.value |-> Number(v.value[f])])
    ELSE Number(v)

Hex(bytes) == String(HexEncode(bytes))

FromHex(v) == HexDecode(v.value, None)

IdFrom(v) == UuidDecode(v.value, None)

-----------------------------------------------------------------------------
(* The codec of the bindings.  version, m, t and p are alike: m is one of  *)
(* the four.                                                               *)

BindingEncode(b) ==
    Serialize(Object(
        IF b.algorithm = "argon2id"
        THEN [m |-> Unsigned(b.m), hash |-> Hex(b.hash)]
        ELSE [hash |-> Hex(b.hash)]))

\* Mutant: the numbers are asked for as what they were before they were a text.
BindingDecodeUnsigned(algorithm, data) ==
    LET v == Parse(data) IN
    IF v.kind # "object" THEN None
    ELSE IF algorithm = "sha256"
    THEN [algorithm |-> algorithm, hash |-> FromHex(v.value.hash)]
    ELSE IF v.value.m.kind # "uint64" THEN None
    ELSE [algorithm |-> algorithm, m |-> v.value.m.value, hash |-> FromHex(v.value.hash)]

\* Everything that throws in it is caught in it.
BindingDecode(algorithm, data) ==
    LET v == Parse(data) IN
    IF v.kind # "object" \/ FromHex(v.value.hash) = None THEN None
    ELSE IF algorithm = "sha256"
    THEN [algorithm |-> algorithm, hash |-> FromHex(v.value.hash)]
    ELSE IF v.value.m.kind # "int64" THEN None
    ELSE [algorithm |-> algorithm, m |-> v.value.m.value, hash |-> FromHex(v.value.hash)]

\* JsonCodec<std::vector<T>>: every element by the codec of T, all or nothing.
VectorEncode(bindings) ==
    [kind |-> "array", value |-> [i \in DOMAIN bindings |-> BindingEncode(bindings[i])]]

VectorDecode(algorithm, data) ==
    IF data.kind # "array" THEN None
    ELSE LET items == [i \in DOMAIN data.value |->
                          BindingDecode(algorithm, Serialize(Parse(data.value[i])))]
         IN  IF \E i \in DOMAIN items : items[i] = None THEN None ELSE items

-----------------------------------------------------------------------------
(* The codecs of the models                                                *)

Metadata == {"id", "version", "created_at"}

MetadataEncode(m) ==
    [id |-> Hex(m.id), version |-> Unsigned(m.version),
     created_at |-> Unsigned(m.created_at)]

\* Mutant: a number of the wrong kind is as good as none.
MetadataDecodeLenient(o) ==
    IF ~Metadata \subseteq DOMAIN o THEN None
    ELSE IF IdFrom(o.id) = None THEN None
    ELSE IF o.version.kind # "uint64" \/ o.created_at.kind # "uint64" THEN None
    ELSE [id |-> IdFrom(o.id), version |-> o.version.value,
          created_at |-> o.created_at.value]

MetadataDecode(o) ==
    IF ~Metadata \subseteq DOMAIN o THEN None
    ELSE IF IdFrom(o.id) = None THEN None
    ELSE IF o.version.kind # "uint64" \/ o.created_at.kind # "uint64" THEN Throws
    ELSE [id |-> IdFrom(o.id), version |-> o.version.value,
          created_at |-> o.created_at.value]

\* The members of a state, by its class.
StateEncode(s) ==
    CASE s \in UserIdentities ->
            [username |-> String(s.username), is_admin |-> Bool(s.is_admin),
             password_binding |-> String(BindingEncode(s.password_binding))]
      [] s \in Authors ->
            [display_name |-> String(s.display_name), bio |-> String(s.bio)]
      [] s \in Posts ->
            [author_id |-> Hex(s.author_id), title |-> String(s.title),
             content |-> String(s.content)]

Encode(m) ==
    LET state == StateEncode(m.state)
        metadata == MetadataEncode(m)
    IN  Serialize(Object([f \in Metadata \cup DOMAIN state |->
            IF f \in Metadata THEN metadata[f] ELSE state[f]]))

\* Mutant: the password's optional is not looked at.
UserIdentityDecodeUnbound(algorithm, o) ==
    [username |-> o.username.value,
     password_binding |-> BindingDecode(algorithm, Serialize(o.password_binding)),
     is_admin |-> o.is_admin.value]

UserIdentityDecode(algorithm, o) ==
    LET binding == BindingDecode(algorithm, Serialize(o.password_binding)) IN
    IF binding = None THEN None
    ELSE [username |-> o.username.value, password_binding |-> binding,
          is_admin |-> o.is_admin.value]

\* like is a state of the class that is decoded, with the hash algorithm the
\* application was built for; it tells the members to look for.
StateDecode(like, o) ==
    IF ~DOMAIN like \subseteq DOMAIN o THEN None
    ELSE CASE like \in UserIdentities ->
            UserIdentityDecode(like.password_binding.algorithm, o)
      [] like \in Authors ->
            [display_name |-> o.display_name.value, bio |-> o.bio.value]
      [] like \in Posts ->
            IF IdFrom(o.author_id) = None THEN None
            ELSE [author_id |-> IdFrom(o.author_id),
                  title |-> o.title.value, content |-> o.content.value]

\* When UUID::generate() is called and what it draws.
Draws == [ms : Times, random : Random]

\* The clock may stand still or go back, but no call draws the same bytes in the
\* same millisecond again.
IsFresh(u) ==
    /\ Cardinality(used) < MaxIds
    /\ \A v \in used : v.id # Generate(u.ms, u.random)

\* A new model, made with this id.
Made(id, state) ==
    [id |-> id, version |-> 1, created_at |-> TimestampMs(id), state |-> state]

\* The model decode() returns, or None: rehydrate() with the metadata of the text,
\* create() of a model with a new id where there is none, for an author nothing.
Decode(like, data, id) ==
    LET o == Parse(data).value
        state == StateDecode(like, o)
        metadata == MetadataDecode(o)
    IN  IF state = None \/ metadata = Throws THEN None
        ELSE IF metadata # None THEN
            [id |-> metadata.id, version |-> metadata.version,
             created_at |-> metadata.created_at, state |-> state]
        ELSE IF like \in Authors THEN None
        ELSE Made(id, state)

-----------------------------------------------------------------------------
Init ==
    /\ model = None
    /\ text = NoText
    /\ source = None
    /\ lost = {}
    /\ result = Unread
    /\ used = {}

\* UserIdentity::create, Post::create.
Create(s) ==
    /\ model = None
    /\ text = NoText
    /\ \E u \in Draws :
          LET id == Generate(u.ms, u.random) IN
          /\ IsFresh(u)
          /\ model' = Made(id, s)
          /\ used' = used \cup {[ms |-> u.ms, id |-> id]}
    /\ UNCHANGED <<text, source, lost, result>>

\* An author takes the id that an identity certifies.
CreateAuthor(s) ==
    /\ model # None
    /\ model.state \in UserIdentities
    /\ model' = Made(model.id, s)
    /\ UNCHANGED <<text, source, lost, result, used>>

\* The same state makes no new version.
Patch(s) ==
    /\ model # None
    /\ s # model.state
    /\ \E class \in {UserIdentities, Authors, Posts} : {s, model.state} \subseteq class
    /\ (model.version + 1) % (2 * Half) \in Numbers
    /\ model' = [model EXCEPT !.state = s, !.version = (@ + 1) % (2 * Half)]
    /\ UNCHANGED <<text, source, lost, result, used>>

\* rehydrate() takes any version and any time, before 1970 too.
Rehydrate(v, t) ==
    /\ model # None
    /\ model' = [model EXCEPT !.version = v, !.created_at = t]
    /\ UNCHANGED <<text, source, lost, result, used>>

Save ==
    /\ model # None
    /\ text' = Encode(model)
    /\ source' = model
    /\ model' = None
    /\ UNCHANGED <<lost, result, used>>

\* The text comes from elsewhere and has no member f...
Lose(f) ==
    /\ text # NoText
    /\ f \in DOMAIN text.value
    /\ Cardinality(lost) < MaxLost
    /\ text' = [text EXCEPT !.value = [g \in DOMAIN @ \ {f} |-> @[g]]]
    /\ lost' = lost \cup {f}
    /\ result' = Unread
    /\ UNCHANGED <<model, source, used>>

\* ... or in member f another character at some place...
Damage(f) ==
    /\ text # NoText
    /\ f \in DOMAIN text.value
    /\ Cardinality(lost) < MaxLost
    /\ \E i \in {1, 2 * Length} : text' = [text EXCEPT !.value[f].value[i] = NoDigit]
    /\ lost' = lost \cup {f}
    /\ result' = Unread
    /\ UNCHANGED <<model, source, used>>

\* ... or the same digits in upper case.
Respell(f) ==
    /\ text # NoText
    /\ f \in DOMAIN text.value
    /\ text' = [text EXCEPT !.value[f].value = [i \in DOMAIN @ |-> [@[i] EXCEPT !.upper = TRUE]]]
    /\ result' = Unread
    /\ UNCHANGED <<model, source, lost, used>>

\* decode(), with the id it may have to generate.
Load ==
    /\ text # NoText
    /\ \E u \in Draws :
          LET id == Generate(u.ms, u.random)
              decoded == Decode(source.state, text, id)
              isNew == decoded # None /\ decoded.id = id
          IN
          /\ isNew => IsFresh(u)
          /\ result' = decoded
          /\ used' = IF isNew THEN used \cup {[ms |-> u.ms, id |-> id]} ELSE used
    /\ UNCHANGED <<model, text, source, lost>>

\* The caller goes on with the model it has loaded.
Continue ==
    /\ result \notin {None, Unread}
    /\ model' = result
    /\ text' = NoText
    /\ source' = None
    /\ lost' = {}
    /\ result' = Unread
    /\ UNCHANGED used

Next ==
    \/ \E s \in UserIdentities \cup Posts : Create(s)
    \/ \E s \in Authors : CreateAuthor(s)
    \/ \E s \in States : Patch(s)
    \/ \E v, t \in Numbers : Rehydrate(v, t)
    \/ Save \/ Load \/ Continue
    \/ \E f \in Metadata \cup {"username", "bio", "title"} : Lose(f)
    \/ \E f \in {"id", "author_id"} : Damage(f) \/ Respell(f)

Spec == Init /\ [][Next]_vars

-----------------------------------------------------------------------------
(* Properties                                                              *)

\* A text that decodes gives the model it was made from, however its ids are
\* written.  One without metadata, or with a damaged id, gives a new model, first
\* of its id, with the state of the text: decode() never turns a complete record
\* into another one (json_model_codec.h:34-47, 85-88).
DecodedIsSame ==
    result \notin {None, Unread} =>
        IF lost \cap Metadata = {} THEN result = source
        ELSE /\ result.state = source.state
             /\ result.id # source.id
             /\ result.version = 1

\* An id sorts behind all ids of earlier milliseconds, and tells its own, which is
\* the time its model says it was created at (uuid.h:15, uuid.h:35; model.h:48).
IdsKeepTime ==
    /\ \A u, v \in used : u.ms < v.ms => Less(u.id, v.id)
    /\ \A u \in used : TimestampMs(u.id) = u.ms

\* The binding of a password, without which nobody can log in again, survives its
\* own codec: its numbers are written as unsigned and read as signed ones
\* (json_security_codec.h:28-59).
BindingSurvives ==
    (model # None /\ model.state \in UserIdentities) =>
        LET b == model.state.password_binding IN
        /\ BindingDecode(b.algorithm, BindingEncode(b)) = b
        /\ \A c \in Bindings : c.algorithm = b.algorithm =>
              VectorDecode(b.algorithm, VectorEncode(<<b, c>>)) = <<b, c>>

\* JsonCodec<M> is a Codec for M (the assertions at json_model_codec.h:174-177):
\* what encode() writes, decode() reads.  The code violates it.
RoundTrip ==
    (result # Unread /\ text = Encode(source)) => result = source
=============================================================================

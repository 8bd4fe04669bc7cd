------------------------------ MODULE Security ------------------------------
(***************************************************************************)
(* The security library: Hasher, Crypter and Signer on any number of       *)
(* threads, and Error, the code that a failed call takes out of OpenSSL's  *)
(* error queue of its thread.                                              *)
(*                                                                         *)
(* Every call into OpenSSL may fail and leave errors in the queue; as all  *)
(* of them end a call in the same way, one action stands for a failure of  *)
(* any.  An entry of the queue is the number of the call that raised it.   *)
(* The cryptography is perfect: bytes that OpenSSL computes are terms of   *)
(* what they are computed from, and the random ones are the number of the  *)
(* call that drew them.  Bindings come back from outside, changed or not.  *)
(***************************************************************************)
EXTENDS Naturals, Sequences

CONSTANTS Threads,
          Data,       \* what is hashed, encrypted or signed
          Keys,       \* keys of either kind; a private and a public key are one here
          BlockSize,  \* stream_buffer_size
          MaxLength,  \* bound on the length of a stream
          MaxCalls,   \* bound on the number of calls
          MaxRaised,  \* bound on the errors one failure raises
          None        \* no call and no outcome

ASSUME BoundsAssumption ==
    /\ BlockSize \in Nat \ {0}
    /\ {MaxLength, MaxCalls, MaxRaised} \subseteq Nat

\* The content of a stream is named by its length, and is none of the Data.
ASSUME DataAssumption == Data \cap Nat = {}

VARIABLES calls,      \* number of calls begun
          call,       \* call[t]: the call thread t is in
          queue,      \* queue[t]: OpenSSL's errors of thread t
          outcome,    \* outcome[t]: how the last call of t ended
          errors,     \* the Errors handed out
          made,       \* what was hashed, encrypted or signed, and its binding
          described   \* the last description of an Error

vars == <<calls, call, queue, outcome, errors, made, described>>

-----------------------------------------------------------------------------
(* Bytes and bindings.                                                     *)

\* The bytes that are computed from the terms of the tuple by.
Computed(by, size) == [by |-> by, size |-> size]

Argon2id(data, params, salt, size) == Computed(<<data, params, salt, size>>, size)

Sha256(data) == Computed(<<data>>, "full")

Gcm(key, iv, text) == Computed(<<key, iv, text>>, "full")

Ed25519(key, data) == Computed(<<key, data>>, "full")

\* The first bytes only.
Cut(bytes) == [bytes EXCEPT !.size = "short"]

\* version, m, t and p as they are, or other ones.
Params == {"configured", "other"}

HashArgon2id(data, salt) ==
    [params |-> "configured", salt |-> salt,
     hash |-> Argon2id(data, "configured", salt, "full")]

\* Derived again, with the length of the binding's own hash.
VerifyArgon2id(data, binding) ==
    binding.hash = Argon2id(data, binding.params, binding.salt, binding.hash.size)

HashSha256(data) == [hash |-> Sha256(data)]

\* Mutant: no comparison of the sizes, so a part of the digest will do.
VerifySha256Part(data, binding) == HashSha256(data).hash.by = binding.hash.by

VerifySha256(data, binding) ==
    /\ HashSha256(data).hash.size = binding.hash.size
    /\ HashSha256(data).hash.by = binding.hash.by

Encrypt(data, key, iv) == [iv |-> iv, ciphertext |-> data, tag |-> Gcm(key, iv, data)]

\* Mutant: the result of EVP_DecryptFinal_ex is not looked at.
IsAuthenticAlways(binding, key) == TRUE

\* EVP_DecryptFinal_ex finds the tag that was set.
IsAuthentic(binding, key) == binding.tag = Gcm(key, binding.iv, binding.ciphertext)

Sign(data, key) == [signature |-> Ed25519(key, data)]

VerifySignature(data, binding, key) == binding.signature = Ed25519(key, data)

-----------------------------------------------------------------------------
(* What the operations are called with.                                    *)

\* A stream of this length that delivers so much of it before it breaks.
Streams == {s \in [length : 0..MaxLength, holds : 0..MaxLength] : s.holds <= s.length}

\* The bindings op has made, and the ways in which they may come back.
MadeBy(op) == {m.binding : m \in {n \in made : n.op = op}}

CutHashes(bindings) == {[b EXCEPT !.hash = Cut(@)] : b \in bindings}

Argon2idBindings ==
    LET own == MadeBy("HashArgon2id") IN
    own \cup CutHashes(own)
        \cup {[b EXCEPT !.params = p] : b \in own, p \in Params}
        \cup {[b EXCEPT !.salt = 0] : b \in own}

Sha256Bindings ==
    LET own == MadeBy("HashSha256") \cup MadeBy("HashStream") IN own \cup CutHashes(own)

Ed25519Bindings ==
    LET own == MadeBy("Sign") IN own \cup {[b EXCEPT !.signature = Cut(@)] : b \in own}

Aes256GcmBindings ==
    LET own == MadeBy("Encrypt") IN
    own \cup {[b EXCEPT !.iv = 0] : b \in own}
        \cup {[b EXCEPT !.ciphertext = d] : b \in own, d \in Data}
        \cup {[b EXCEPT !.tag = c.tag] : b, c \in own}

Operations ==
    [op : {"HashArgon2id", "HashSha256"}, data : Data]
    \cup [op : {"HashStream"}, stream : Streams]
    \cup [op : {"VerifyArgon2id"}, data : Data, binding : Argon2idBindings]
    \cup [op : {"VerifySha256"}, data : Data, binding : Sha256Bindings]
    \cup [op : {"Encrypt", "Sign"}, data : Data, key : Keys]
    \cup [op : {"Decrypt"}, binding : Aes256GcmBindings, key : Keys]
    \cup [op : {"VerifySignature"}, data : Data, binding : Ed25519Bindings, key : Keys]

-----------------------------------------------------------------------------
Init ==
    /\ calls = 0
    /\ call = [t \in Threads |-> None]
    /\ queue = [t \in Threads |-> <<>>]
    /\ outcome = [t \in Threads |-> None]
    /\ errors = {}
    /\ made = {}
    /\ described = None

\* Mutant: no ERR_clear_error.
Uncleared(t) == UNCHANGED queue

Cleared(t) == queue' = [queue EXCEPT ![t] = <<>>]

\* A call begins; it has read nothing of its stream, if it has one.
Call(t) ==
    /\ call[t] = None
    /\ calls < MaxCalls
    /\ calls' = calls + 1
    /\ \E o \in Operations :
          call' = [call EXCEPT ![t] = [do |-> o, id |-> calls + 1, read |-> 0, ended |-> FALSE]]
    /\ Cleared(t)
    /\ outcome' = [outcome EXCEPT ![t] = None]
    /\ UNCHANGED <<errors, made, described>>

\* Mutant: while (stream.read(...)), which is false for the last block.
GotWholeBlocks(stream, read) ==
    IF stream.holds - read >= BlockSize THEN {BlockSize} ELSE {0}

\* Mutant: the size of the buffer in place of gcount().
GotBuffer(stream, read) == IF stream.holds > read THEN {BlockSize} ELSE {0}

\* gcount() after a read: a whole block, or what is left before the end; where
\* the stream breaks, what came before that, or nothing if the buffer throws.
Got(stream, read) ==
    IF stream.holds - read >= BlockSize THEN {BlockSize}
    ELSE {stream.holds - read} \cup (IF stream.holds < stream.length THEN {0} ELSE {})

\* One round of the loop: an incomplete block is the last.
ReadBlock(t) ==
    /\ call[t] # None
    /\ call[t].do.op = "HashStream"
    /\ ~call[t].ended
    /\ \E n \in Got(call[t].do.stream, call[t].read) :
          call' = [call EXCEPT ![t] =
              [do |-> @.do, id |-> @.id, read |-> @.read + n, ended |-> n < BlockSize]]
    /\ UNCHANGED <<calls, queue, outcome, errors, made, described>>

Ends(t, result) ==
    /\ call' = [call EXCEPT ![t] = None]
    /\ outcome' = [outcome EXCEPT ![t] =
          [do |-> call[t].do, id |-> call[t].id, result |-> result]]

\* The call returns a binding.
Makes(t, binding) ==
    /\ Ends(t, [binding |-> binding])
    /\ made' = made \cup {[op |-> call[t].do.op, do |-> call[t].do, binding |-> binding]}
    /\ UNCHANGED <<calls, queue, errors, described>>

\* The call returns something else: whether the binding fits, or the plain text.
Answers(t, result) ==
    /\ Ends(t, result)
    /\ UNCHANGED <<calls, queue, errors, made, described>>

\* Every call into OpenSSL succeeds.
Succeed(t) ==
    /\ call[t] # None
    /\ LET do == call[t].do
           id == call[t].id
       IN
       \/ do.op = "HashArgon2id" /\ Makes(t, HashArgon2id(do.data, id))
       \/ do.op = "HashSha256" /\ Makes(t, HashSha256(do.data))
       \/ /\ do.op = "HashStream"
          /\ call[t].ended
          /\ Makes(t, HashSha256(call[t].read))
       \/ do.op = "Encrypt" /\ Makes(t, Encrypt(do.data, do.key, id))
       \/ do.op = "Sign" /\ Makes(t, Sign(do.data, do.key))
       \/ do.op = "VerifyArgon2id" /\ Answers(t, [fits |-> VerifyArgon2id(do.data, do.binding)])
       \/ do.op = "VerifySha256" /\ Answers(t, [fits |-> VerifySha256(do.data, do.binding)])
       \/ /\ do.op = "Decrypt"
          /\ IsAuthentic(do.binding, do.key)
          /\ Answers(t, [plain |-> do.binding.ciphertext])
       \/ /\ do.op = "VerifySignature"
          /\ VerifySignature(do.data, do.binding, do.key)
          /\ Answers(t, [fits |-> TRUE])

\* EVP_DigestVerify gives 0 for another signature, and may leave errors.
Mismatch(t) ==
    /\ call[t] # None
    /\ call[t].do.op = "VerifySignature"
    /\ ~VerifySignature(call[t].do.data, call[t].do.binding, call[t].do.key)
    /\ Ends(t, [fits |-> FALSE])
    /\ \E n \in 0..MaxRaised :
          queue' = [queue EXCEPT ![t] = @ \o [i \in 1..n |-> call[t].id]]
    /\ UNCHANGED <<calls, errors, made, described>>

\* The call returns Error(ERR_get_error()): the oldest error is taken out of
\* the queue; none at all is the code 0.
Fails(t, raised) ==
    LET left == queue[t] \o [i \in 1..raised |-> call[t].id]
        error == [id |-> call[t].id, thread |-> t,
                  code |-> IF left = <<>> THEN 0 ELSE Head(left)]
    IN
    /\ Ends(t, [error |-> error])
    /\ errors' = errors \cup {error}
    /\ queue' = [queue EXCEPT ![t] = IF left = <<>> THEN left ELSE Tail(left)]
    /\ UNCHANGED <<calls, made, described>>

\* A call into OpenSSL fails.
Fail(t) ==
    /\ call[t] # None
    /\ \E n \in 0..MaxRaised : Fails(t, n)

\* The tag is not that of the text: EVP_DecryptFinal_ex raises no error.
Refuse(t) ==
    /\ call[t] # None
    /\ call[t].do.op = "Decrypt"
    /\ ~IsAuthentic(call[t].do.binding, call[t].do.key)
    /\ Fails(t, 0)

\* Error::description(), by whatever thread has it: prints the queue of that
\* thread and empties it; an error without a code has no description.
Describe(t) ==
    /\ call[t] = None
    /\ \E e \in errors :
          /\ e.code # 0
          /\ described' = [error |-> e, by |-> t, shows |-> queue[t]]
    /\ queue' = [queue EXCEPT ![t] = <<>>]
    /\ UNCHANGED <<calls, call, outcome, errors, made>>

Next ==
    \E t \in Threads :
        \/ Call(t) \/ ReadBlock(t) \/ Succeed(t) \/ Mismatch(t) \/ Fail(t) \/ Refuse(t)
        \/ Describe(t)

Spec == Init /\ [][Next]_vars
-----------------------------------------------------------------------------
(* Properties.                                                             *)

Ids == 1..MaxCalls

TypeOK ==
    /\ calls \in 0..MaxCalls
    /\ \A t \in Threads :
          /\ call[t] # None =>
                /\ call[t].id \in 1..calls
                /\ call[t].do.op = "HashStream" => call[t].read <= call[t].do.stream.length
          /\ queue[t] \in Seq(Ids)
    /\ errors \subseteq [id : Ids, thread : Threads, code : {0} \cup Ids]

Ended(op) == {outcome[t] : t \in {u \in Threads : outcome[u] # None /\ outcome[u].do.op = op}}

(* An Error never carries the code of another call, whatever earlier calls on
   its thread have left behind; and a description never speaks of an earlier
   call than the one that failed, when it is asked for on the thread of that
   call.  (On another thread, or later, it speaks of other calls.) *)
ErrorsAreOwn ==
    /\ \A e \in errors : e.code \in {0, e.id}
    /\ described # None =>
          (described.by = described.error.thread =>
              \A i \in DOMAIN described.shows : described.shows[i] >= described.error.id)

(* verify() says yes exactly to what a binding was made for, with the key it
   was made with: not to one that came back cut short, or a password's with
   other parameters or another salt (hasher.cpp:88-96, 128-135;
   signer.cpp:55-60). *)
VerifiesOwn ==
    /\ \A o \in Ended("VerifyArgon2id") : "fits" \in DOMAIN o.result =>
          (o.result.fits <=> \E m \in made :
              m.op = "HashArgon2id" /\ m.do.data = o.do.data /\ m.binding = o.do.binding)
    /\ \A o \in Ended("VerifySha256") : "fits" \in DOMAIN o.result =>
          (o.result.fits <=> \E m \in made :
              m.op = "HashSha256" /\ m.do.data = o.do.data /\ m.binding = o.do.binding)
    /\ \A o \in Ended("VerifySignature") : "fits" \in DOMAIN o.result =>
          (o.result.fits <=> \E m \in made :
              /\ m.op = "Sign" /\ m.do.data = o.do.data
              /\ m.do.key = o.do.key /\ m.binding = o.do.binding)

(* decrypt() gives what was encrypted under that very key and binding, or an
   error. *)
DecryptsOwn ==
    \A o \in Ended("Decrypt") : "plain" \in DOMAIN o.result =>
        \E m \in made :
            /\ m.op = "Encrypt" /\ m.do.data = o.result.plain
            /\ m.do.key = o.do.key /\ m.binding = o.do.binding

\* n is all of a stream; of one that breaks, less than a block short of what it
\* gives before that.
IsReadThrough(stream, n) ==
    /\ stream.holds - n < BlockSize
    /\ stream.holds = stream.length => n = stream.length

(* The digest of a stream is that of all of it, whatever its length is to the
   size of a block; that of a stream that breaks covers every block it gave
   (hasher.cpp:116).  It says nothing against the digest of a part being given
   as a success: that is what the code does. *)
DigestIsOfStream ==
    \A m \in made : m.op = "HashStream" =>
        \E n \in 0..m.do.stream.holds :
            IsReadThrough(m.do.stream, n) /\ m.binding = HashSha256(n)
=============================================================================

--------------------------- MODULE SecurityProofs ---------------------------
(***************************************************************************)
(* Proofs about Security, for any threads, data, keys and streams: that an *)
(* Error speaks of its own call, that verify() and decrypt() accept what   *)
(* was made and nothing else, and that the digest of a stream is that of   *)
(* all of it.                                                              *)
(***************************************************************************)
EXTENDS Security, TLAPS

\* The variables have a value for every thread.
Shaped ==
    /\ call = [t \in Threads |-> call[t]]
    /\ queue = [t \in Threads |-> queue[t]]
    /\ outcome = [t \in Threads |-> outcome[t]]

Active(t) == call[t] # None

\* A call is one that can be made, and a stream that has ended was read through.
CallsHeld ==
    \A t \in Threads : Active(t) =>
        /\ call[t] = [do |-> call[t].do, id |-> call[t].id,
                       read |-> call[t].read, ended |-> call[t].ended]
        /\ call[t].do \in Operations
        /\ call[t].id \in Ids
        /\ call[t].do.op = "HashStream" =>
              LET s == call[t].do.stream IN
              /\ call[t].read \in 0..s.holds
              /\ call[t].ended => IsReadThrough(s, call[t].read)

\* In a call the queue of its thread is empty; after it, it holds errors of no
\* earlier call than any Error of the thread.
QueuesHeld ==
    /\ \A e \in errors : e.id <= calls
    /\ \A t \in Threads :
          /\ Active(t) => queue[t] = <<>>
          /\ \A e \in errors : e.thread = t =>
                /\ \A i \in DOMAIN queue[t] : queue[t][i] >= e.id
                /\ Active(t) => e.id < call[t].id

\* A binding is what its operation makes of what it was called with.
MadeHeld ==
    \A m \in made :
        /\ m.op = "HashArgon2id" =>
              \E s \in Ids : m.binding = HashArgon2id(m.do.data, s)
        /\ m.op = "HashSha256" => m.binding = HashSha256(m.do.data)
        /\ m.op = "Encrypt" =>
              \E s \in Ids : m.binding = Encrypt(m.do.data, m.do.key, s)
        /\ m.op = "Sign" => m.binding = Sign(m.do.data, m.do.key)

\* What the calls that check answered is what the check says.
Checked(o) ==
    /\ (o.do.op = "VerifyArgon2id" /\ "fits" \in DOMAIN o.result) =>
          (o.result.fits <=> VerifyArgon2id(o.do.data, o.do.binding))
    /\ (o.do.op = "VerifySha256" /\ "fits" \in DOMAIN o.result) =>
          (o.result.fits <=> VerifySha256(o.do.data, o.do.binding))
    /\ (o.do.op = "VerifySignature" /\ "fits" \in DOMAIN o.result) =>
          (o.result.fits <=> VerifySignature(o.do.data, o.do.binding, o.do.key))
    /\ (o.do.op = "Decrypt" /\ "plain" \in DOMAIN o.result) =>
          IsAuthentic(o.do.binding, o.do.key) /\ o.result.plain = o.do.binding.ciphertext

OutcomesHeld ==
    \A t \in Threads : outcome[t] # None =>
        outcome[t].do \in Operations /\ Checked(outcome[t])

IInv ==
    /\ TypeOK
    /\ Shaped
    /\ CallsHeld
    /\ QueuesHeld
    /\ ErrorsAreOwn
    /\ MadeHeld
    /\ DigestIsOfStream
    /\ OutcomesHeld

-----------------------------------------------------------------------------
(* What the operations are called with.                                    *)

LEMMA ConstantsAre ==
    /\ BlockSize \in Nat \ {0}
    /\ MaxLength \in Nat /\ MaxCalls \in Nat /\ MaxRaised \in Nat
    /\ Ids \subseteq Nat \ {0}
BY BoundsAssumption DEF Ids

\* What a call has, by its operation.
LEMMA OperationIs ==
    ASSUME NEW do \in Operations
    PROVE  /\ do.op = "HashStream" => do.stream \in Streams
           /\ do.op = "VerifyArgon2id" => do.data \in Data /\ do.binding \in Argon2idBindings
           /\ do.op = "VerifySha256" => do.data \in Data /\ do.binding \in Sha256Bindings
           /\ do.op = "Decrypt" => do.binding \in Aes256GcmBindings /\ do.key \in Keys
           /\ do.op = "VerifySignature" =>
                 do.data \in Data /\ do.binding \in Ed25519Bindings /\ do.key \in Keys
           /\ do.op \in {"HashArgon2id", "HashSha256", "Encrypt", "Sign"} => do.data \in Data
<1>1. CASE do \in [op : {"HashArgon2id", "HashSha256"}, data : Data]
  BY <1>1
<1>2. CASE do \in [op : {"HashStream"}, stream : Streams]
  BY <1>2
<1>3. CASE do \in [op : {"VerifyArgon2id"}, data : Data, binding : Argon2idBindings]
  BY <1>3
<1>4. CASE do \in [op : {"VerifySha256"}, data : Data, binding : Sha256Bindings]
  BY <1>4
<1>5. CASE do \in [op : {"Encrypt", "Sign"}, data : Data, key : Keys]
  BY <1>5
<1>6. CASE do \in [op : {"Decrypt"}, binding : Aes256GcmBindings, key : Keys]
  BY <1>6
<1>7. CASE do \in [op : {"VerifySignature"}, data : Data, binding : Ed25519Bindings, key : Keys]
  BY <1>7
<1> QED
  BY <1>1, <1>2, <1>3, <1>4, <1>5, <1>6, <1>7 DEF Operations

LEMMA MadeByIs ==
    ASSUME NEW op, NEW b
    PROVE  b \in MadeBy(op) <=> \E m \in made : m.op = op /\ m.binding = b
BY DEF MadeBy

LEMMA MadeByGrows ==
    ASSUME made \subseteq made', NEW op
    PROVE  MadeBy(op) \subseteq MadeBy(op)'
BY DEF MadeBy

\* What could come back can still do so.
LEMMA BindingsGrow ==
    ASSUME made \subseteq made'
    PROVE  /\ Argon2idBindings \subseteq Argon2idBindings'
           /\ Sha256Bindings \subseteq Sha256Bindings'
           /\ Ed25519Bindings \subseteq Ed25519Bindings'
           /\ Aes256GcmBindings \subseteq Aes256GcmBindings'
<1>1. Argon2idBindings \subseteq Argon2idBindings'
  <2> DEFINE S == MadeBy("HashArgon2id")
             T == MadeBy("HashArgon2id")'
  <2>1. S \subseteq T
    BY MadeByGrows
  <2>2. Argon2idBindings = S \cup CutHashes(S) \cup {[b EXCEPT !.params = p] : b \in S, p \in Params}
                             \cup {[b EXCEPT !.salt = 0] : b \in S}
    BY DEF Argon2idBindings
  <2>3. Argon2idBindings' = T \cup CutHashes(T) \cup {[b EXCEPT !.params = p] : b \in T, p \in Params}
                             \cup {[b EXCEPT !.salt = 0] : b \in T}
    BY DEF Argon2idBindings, CutHashes
  <2> HIDE DEF S, T
  <2> QED
    BY <2>1, <2>2, <2>3 DEF CutHashes
<1>2. Sha256Bindings \subseteq Sha256Bindings'
  <2> DEFINE S == MadeBy("HashSha256") \cup MadeBy("HashStream")
             T == MadeBy("HashSha256")' \cup MadeBy("HashStream")'
  <2>1. S \subseteq T
    BY MadeByGrows
  <2>2. Sha256Bindings = S \cup CutHashes(S) /\ Sha256Bindings' = T \cup CutHashes(T)
    BY DEF Sha256Bindings, CutHashes
  <2> HIDE DEF S, T
  <2> QED
    BY <2>1, <2>2 DEF CutHashes
<1>3. Aes256GcmBindings \subseteq Aes256GcmBindings'
  <2> DEFINE S == MadeBy("Encrypt")
             T == MadeBy("Encrypt")'
  <2>1. S \subseteq T
    BY MadeByGrows
  <2>2. Aes256GcmBindings = S \cup {[b EXCEPT !.iv = 0] : b \in S}
                              \cup {[b EXCEPT !.ciphertext = d] : b \in S, d \in Data}
                              \cup {[b EXCEPT !.tag = c.tag] : b, c \in S}
    BY DEF Aes256GcmBindings
  <2>3. Aes256GcmBindings' = T \cup {[b EXCEPT !.iv = 0] : b \in T}
                              \cup {[b EXCEPT !.ciphertext = d] : b \in T, d \in Data}
                              \cup {[b EXCEPT !.tag = c.tag] : b, c \in T}
    BY DEF Aes256GcmBindings
  <2> HIDE DEF S, T
  <2> QED
    BY <2>1, <2>2, <2>3
<1>4. Ed25519Bindings \subseteq Ed25519Bindings'
  <2> DEFINE S == MadeBy("Sign")
             T == MadeBy("Sign")'
  <2>1. S \subseteq T
    BY MadeByGrows
  <2>2. /\ Ed25519Bindings = S \cup {[b EXCEPT !.signature = Cut(@)] : b \in S}
        /\ Ed25519Bindings' = T \cup {[b EXCEPT !.signature = Cut(@)] : b \in T}
    BY DEF Ed25519Bindings
  <2> HIDE DEF S, T
  <2> QED
    BY <2>1, <2>2
<1> QED
  BY <1>1, <1>2, <1>3, <1>4

LEMMA OperationsGrow ==
    ASSUME made \subseteq made'
    PROVE  Operations \subseteq Operations'
<1>1. /\ Argon2idBindings \subseteq Argon2idBindings'
      /\ Sha256Bindings \subseteq Sha256Bindings'
      /\ Aes256GcmBindings \subseteq Aes256GcmBindings'
      /\ Ed25519Bindings \subseteq Ed25519Bindings'
  BY BindingsGrow
<1> QED
  BY <1>1 DEF Operations

-----------------------------------------------------------------------------
(* What the checks accept.                                                 *)

LEMMA TermsTell ==
    ASSUME NEW x, NEW y, NEW s, NEW u
    PROVE  Computed(x, s) = Computed(y, u) <=> x = y /\ s = u
BY DEF Computed

\* Argon2id: the password a binding was made for, and only that one.
LEMMA Argon2idAccepts ==
    ASSUME IInv, NEW d, NEW b \in Argon2idBindings
    PROVE  VerifyArgon2id(d, b) <=>
              \E m \in made : m.op = "HashArgon2id" /\ m.do.data = d /\ m.binding = b
<1> DEFINE Own(m, s) == m.op = "HashArgon2id" /\ m.binding = HashArgon2id(m.do.data, s)
<1>1. \A m \in made : m.op = "HashArgon2id" => \E s \in Ids : Own(m, s)
  BY DEF IInv, MadeHeld
<1>2. ASSUME NEW m \in made, NEW s \in Ids, Own(m, s)
      PROVE  /\ m.binding.params = "configured" /\ m.binding.salt = s
             /\ m.binding.hash = Computed(<<m.do.data, "configured", s, "full">>, "full")
  BY <1>2 DEF HashArgon2id, Argon2id
<1>3. ASSUME NEW m \in made, m.op = "HashArgon2id", m.do.data = d, m.binding = b
      PROVE  VerifyArgon2id(d, b)
  <2>1. PICK s \in Ids : Own(m, s)
    BY <1>1, <1>3
  <2>2. /\ b.params = "configured" /\ b.salt = s
        /\ b.hash = Computed(<<d, "configured", s, "full">>, "full")
    BY <1>2, <1>3, <2>1
  <2>3. b.hash.size = "full"
    BY <2>2 DEF Computed
  <2> QED
    BY <2>2, <2>3 DEF VerifyArgon2id, Argon2id
<1>4. ASSUME VerifyArgon2id(d, b)
      PROVE  \E m \in made : m.op = "HashArgon2id" /\ m.do.data = d /\ m.binding = b
  <2>0. b.hash = Computed(<<d, b.params, b.salt, b.hash.size>>, b.hash.size)
    BY <1>4 DEF VerifyArgon2id, Argon2id
  <2>1. PICK o \in MadeBy("HashArgon2id") :
           \/ b = o
           \/ b = [o EXCEPT !.hash = Cut(@)]
           \/ \E p \in Params : b = [o EXCEPT !.params = p]
           \/ b = [o EXCEPT !.salt = 0]
    BY DEF Argon2idBindings, CutHashes
  <2>2. PICK m \in made : m.op = "HashArgon2id" /\ m.binding = o
    BY MadeByIs
  <2>3. PICK s \in Ids : Own(m, s)
    BY <1>1, <2>2
  <2>4. o = [params |-> "configured", salt |-> s,
             hash |-> [by |-> <<m.do.data, "configured", s, "full">>, size |-> "full"]]
    BY <2>2, <2>3 DEF HashArgon2id, Argon2id, Computed
  <2>5. CASE b = o
    <3>1. <<m.do.data, "configured", s, "full">> = <<d, "configured", s, "full">>
      BY <2>0, <2>4, <2>5 DEF Computed
    <3>2. m.do.data = d
      BY <3>1
    <3> QED
      BY <2>2, <2>5, <3>2
  <2>6. CASE b = [o EXCEPT !.hash = Cut(@)]
    <3>1. b.hash.by = <<m.do.data, "configured", s, "full">> /\ b.hash.size = "short"
      BY <2>4, <2>6 DEF Cut
    <3>2. b.hash.by = <<d, b.params, b.salt, "short">>
      BY <2>0, <3>1 DEF Computed
    <3> QED
      BY <3>1, <3>2
  <2>7. ASSUME NEW p \in Params, b = [o EXCEPT !.params = p]
        PROVE  b = o
    <3>1. b.hash.by = <<m.do.data, "configured", s, "full">> /\ b.params = p
      BY <2>4, <2>7
    <3>2. b.hash.by = <<d, b.params, b.salt, b.hash.size>>
      BY <2>0 DEF Computed
    <3>3. p = "configured"
      BY <3>1, <3>2
    <3> QED
      BY <2>4, <2>7, <3>3
  <2>8. CASE b = [o EXCEPT !.salt = 0]
    <3>1. b.hash.by = <<m.do.data, "configured", s, "full">> /\ b.salt = 0
      BY <2>4, <2>8
    <3>2. b.hash.by = <<d, b.params, b.salt, b.hash.size>>
      BY <2>0 DEF Computed
    <3>3. s = 0
      BY <3>1, <3>2
    <3> QED
      BY <3>3, ConstantsAre
  <2> QED
    BY <2>1, <2>5, <2>6, <2>7, <2>8
<1> QED
  BY <1>3, <1>4

\* SHA-256: the data a digest was made of, and all of it.
LEMMA Sha256Accepts ==
    ASSUME IInv, NEW d \in Data, NEW b \in Sha256Bindings
    PROVE  VerifySha256(d, b) <=>
              \E m \in made : m.op = "HashSha256" /\ m.do.data = d /\ m.binding = b
<1>1. \A m \in made : m.op = "HashSha256" =>
         m.binding = [hash |-> [by |-> <<m.do.data>>, size |-> "full"]]
  BY DEF IInv, MadeHeld, HashSha256, Sha256, Computed
<1>2. VerifySha256(d, b) <=> b.hash.size = "full" /\ b.hash.by = <<d>>
  BY DEF VerifySha256, HashSha256, Sha256, Computed
<1>3. ASSUME NEW m \in made, m.op = "HashSha256", m.do.data = d, m.binding = b
      PROVE  VerifySha256(d, b)
  <2>1. b = [hash |-> [by |-> <<d>>, size |-> "full"]]
    BY <1>1, <1>3
  <2> QED
    BY <1>2, <2>1
<1>4. ASSUME VerifySha256(d, b)
      PROVE  \E m \in made : m.op = "HashSha256" /\ m.do.data = d /\ m.binding = b
  <2>0. b.hash.size = "full" /\ b.hash.by = <<d>>
    BY <1>2, <1>4
  <2>1. PICK o \in MadeBy("HashSha256") \cup MadeBy("HashStream") :
           b = o \/ b = [o EXCEPT !.hash = Cut(@)]
    BY DEF Sha256Bindings, CutHashes
  <2>2. ASSUME NEW m \in made, m.op = "HashSha256", m.binding = o
        PROVE  m.do.data = d /\ b = o
    <3>1. o = [hash |-> [by |-> <<m.do.data>>, size |-> "full"]]
      BY <1>1, <2>2
    <3>2. b = o
      <4>1. CASE b = [o EXCEPT !.hash = Cut(@)]
        BY <2>0, <3>1, <4>1 DEF Cut
      <4> QED
        BY <2>1, <4>1
    <3>3. <<m.do.data>> = <<d>>
      BY <2>0, <3>1, <3>2
    <3> QED
      BY <3>2, <3>3
  <2>3. ASSUME NEW m \in made, m.op = "HashStream", m.binding = o
        PROVE  FALSE
    <3>1. PICK n \in 0..m.do.stream.holds : o = HashSha256(n)
      BY <2>3 DEF IInv, DigestIsOfStream
    <3>2. o = [hash |-> [by |-> <<n>>, size |-> "full"]]
      BY <3>1 DEF HashSha256, Sha256, Computed
    <3>3. b.hash.by = <<n>>
      BY <2>1, <3>2 DEF Cut
    <3>4. n = d /\ n \in Nat
      BY <2>0, <3>3
    <3> QED
      BY <3>4, DataAssumption
  <2> QED
    BY <2>1, <2>2, <2>3, MadeByIs
<1> QED
  BY <1>3, <1>4

\* Ed25519: the data and the key of the signature, and all of it.
LEMMA SignatureAccepts ==
    ASSUME IInv, NEW d, NEW k, NEW b \in Ed25519Bindings
    PROVE  VerifySignature(d, b, k) <=>
              \E m \in made : /\ m.op = "Sign" /\ m.do.data = d
                              /\ m.do.key = k /\ m.binding = b
<1>1. \A m \in made : m.op = "Sign" =>
         m.binding = [signature |-> Computed(<<m.do.key, m.do.data>>, "full")]
  BY DEF IInv, MadeHeld, Sign, Ed25519
<1>2. ASSUME NEW m \in made, m.op = "Sign", m.do.data = d, m.do.key = k, m.binding = b
      PROVE  VerifySignature(d, b, k)
  <2>1. b = [signature |-> Computed(<<k, d>>, "full")]
    BY <1>1, <1>2
  <2> QED
    BY <2>1 DEF VerifySignature, Ed25519
<1>3. ASSUME VerifySignature(d, b, k)
      PROVE  \E m \in made : /\ m.op = "Sign" /\ m.do.data = d
                             /\ m.do.key = k /\ m.binding = b
  <2>0. b.signature = Computed(<<k, d>>, "full")
    BY <1>3 DEF VerifySignature, Ed25519
  <2>1. PICK m \in made : m.op = "Sign" /\ m.binding = b
    <3>1. PICK o \in MadeBy("Sign") : b = o \/ b = [o EXCEPT !.signature = Cut(@)]
      BY DEF Ed25519Bindings
    <3>2. PICK m \in made : m.op = "Sign" /\ m.binding = o
      BY MadeByIs
    <3>3. o = [signature |-> [by |-> <<m.do.key, m.do.data>>, size |-> "full"]]
      BY <1>1, <3>2 DEF Computed
    <3>4. ASSUME b = [o EXCEPT !.signature = Cut(@)] PROVE FALSE
      <4>1. b.signature.size = "short"
        BY <3>3, <3>4 DEF Cut
      <4> QED
        BY <2>0, <4>1 DEF Computed
    <3> QED
      BY <3>1, <3>2, <3>4
  <2>2. b = [signature |-> Computed(<<m.do.key, m.do.data>>, "full")]
    BY <1>1, <2>1
  <2>3. b.signature = Computed(<<m.do.key, m.do.data>>, "full")
    BY <2>2
  <2>4. Computed(<<m.do.key, m.do.data>>, "full") = Computed(<<k, d>>, "full")
    BY <1>3, <2>3 DEF VerifySignature, Ed25519
  <2>5. <<m.do.key, m.do.data>> = <<k, d>>
    BY <2>4, TermsTell
  <2>6. m.do.key = k /\ m.do.data = d
    BY <2>5
  <2> QED
    BY <2>1, <2>6
<1> QED
  BY <1>2, <1>3

\* AES-256-GCM: a tag that fits is that of a binding that was made with this key.
LEMMA GcmAccepts ==
    ASSUME IInv, NEW k, NEW b \in Aes256GcmBindings, IsAuthentic(b, k)
    PROVE  \E m \in made : /\ m.op = "Encrypt" /\ m.do.data = b.ciphertext
                           /\ m.do.key = k /\ m.binding = b
<1> DEFINE Own(m, o, s) ==
              /\ m \in made /\ m.op = "Encrypt" /\ m.binding = o
              /\ o = [iv |-> s, ciphertext |-> m.do.data,
                      tag |-> Computed(<<m.do.key, s, m.do.data>>, "full")]
<1>1. \A o \in MadeBy("Encrypt") : \E m \in made, s \in Ids : Own(m, o, s)
  <2>1. ASSUME NEW o \in MadeBy("Encrypt") PROVE \E m \in made, s \in Ids : Own(m, o, s)
    <3>1. PICK m \in made : m.op = "Encrypt" /\ m.binding = o
      BY MadeByIs
    <3>2. PICK s \in Ids : m.binding = Encrypt(m.do.data, m.do.key, s)
      BY <3>1 DEF IInv, MadeHeld
    <3> QED
      BY <3>1, <3>2 DEF Encrypt, Gcm
  <2> QED
    BY <2>1
<1>2. b.tag = Computed(<<k, b.iv, b.ciphertext>>, "full")
  BY DEF IsAuthentic, Gcm
<1>3. PICK o \in MadeBy("Encrypt") :
         \/ b = o
         \/ b = [o EXCEPT !.iv = 0]
         \/ \E d \in Data : b = [o EXCEPT !.ciphertext = d]
         \/ \E c \in MadeBy("Encrypt") : b = [o EXCEPT !.tag = c.tag]
  BY DEF Aes256GcmBindings
<1>4. PICK m \in made, s \in Ids : Own(m, o, s)
  BY <1>1
\* Whoever made the tag made the binding.
<1>5. ASSUME NEW c, NEW q, NEW u, Own(q, c, u), b.tag = c.tag
      PROVE  q.do.key = k /\ u = b.iv /\ q.do.data = b.ciphertext
  <2>1. Computed(<<k, b.iv, b.ciphertext>>, "full")
        = Computed(<<q.do.key, u, q.do.data>>, "full")
    BY <1>2, <1>5
  <2>2. <<k, b.iv, b.ciphertext>> = <<q.do.key, u, q.do.data>>
    BY <2>1, TermsTell
  <2> QED
    BY <2>2
<1>6. CASE b.tag = o.tag
  <2>1. m.do.key = k /\ s = b.iv /\ m.do.data = b.ciphertext
    BY <1>4, <1>5, <1>6
  <2>2. b = o
    <3>1. CASE b = [o EXCEPT !.iv = 0]
      <4>1. s = 0
        BY <1>4, <2>1, <3>1
      <4> QED
        BY <4>1, ConstantsAre
    <3>2. ASSUME NEW d \in Data, b = [o EXCEPT !.ciphertext = d] PROVE b = o
      <4>1. d = m.do.data /\ o.ciphertext = m.do.data
        BY <1>4, <2>1, <3>2
      <4> QED
        BY <1>4, <3>2, <4>1
    <3>3. ASSUME NEW c, b = [o EXCEPT !.tag = c.tag] PROVE b = o
      BY <1>4, <1>6, <3>3
    <3> QED
      BY <1>3, <3>1, <3>2, <3>3
  <2> QED
    BY <1>4, <2>1, <2>2
<1>7. ASSUME NEW c \in MadeBy("Encrypt"), b = [o EXCEPT !.tag = c.tag]
      PROVE  \E q \in made : /\ q.op = "Encrypt" /\ q.do.data = b.ciphertext
                             /\ q.do.key = k /\ q.binding = b
  <2>1. PICK q \in made, u \in Ids : Own(q, c, u)
    BY <1>1
  <2>2. b.tag = c.tag /\ b.iv = s /\ b.ciphertext = m.do.data
    BY <1>4, <1>7
  <2>3. q.do.key = k /\ u = b.iv /\ q.do.data = b.ciphertext
    BY <1>5, <2>1, <2>2
  <2>4. b = [iv |-> b.iv, ciphertext |-> b.ciphertext, tag |-> c.tag]
    BY <1>4, <1>7
  <2>5. c = [iv |-> b.iv, ciphertext |-> b.ciphertext, tag |-> c.tag]
    BY <2>1, <2>3
  <2> QED
    BY <2>1, <2>3, <2>4, <2>5
<1>8. CASE \/ b = o
           \/ b = [o EXCEPT !.iv = 0]
           \/ \E d \in Data : b = [o EXCEPT !.ciphertext = d]
  <2>1. b.tag = o.tag
    BY <1>4, <1>8
  <2> QED
    BY <1>6, <2>1
<1> QED
  BY <1>3, <1>7, <1>8

-----------------------------------------------------------------------------
(* The steps.                                                              *)

LEMMA TypesAre ==
    ASSUME IInv, NEW t \in Threads
    PROVE  /\ calls \in Nat /\ MaxCalls \in Nat /\ calls <= MaxCalls
           /\ queue[t] \in Seq(Ids)
           /\ errors \subseteq [id : Ids, thread : Threads, code : {0} \cup Ids]
           /\ Active(t) =>
                 /\ call[t].id \in 1..calls /\ call[t].id \in Ids
                 /\ queue[t] = <<>>
                 /\ call[t].do \in Operations
<1>1. /\ calls \in Nat /\ MaxCalls \in Nat /\ calls <= MaxCalls
      /\ queue[t] \in Seq(Ids)
      /\ errors \subseteq [id : Ids, thread : Threads, code : {0} \cup Ids]
      /\ Active(t) => call[t].id \in 1..calls
  BY ConstantsAre DEF IInv, TypeOK, Active
<1>2. Active(t) => call[t].id \in Ids /\ call[t].do \in Operations
  BY DEF IInv, CallsHeld
<1>3. Active(t) => queue[t] = <<>>
  BY DEF IInv, QueuesHeld
<1> QED
  BY <1>1, <1>2, <1>3

\* The variables of the threads that take no step.
Others(t) ==
    /\ call' = [call EXCEPT ![t] = call'[t]]
    /\ queue' = [queue EXCEPT ![t] = queue'[t]]
    /\ outcome' = [outcome EXCEPT ![t] = outcome'[t]]

LEMMA OthersAre ==
    ASSUME IInv, NEW t \in Threads, Others(t)
    PROVE  /\ Shaped'
           /\ \A u \in Threads \ {t} :
                 call'[u] = call[u] /\ queue'[u] = queue[u] /\ outcome'[u] = outcome[u]
<1>1. /\ call = [u \in Threads |-> call[u]]
      /\ queue = [u \in Threads |-> queue[u]]
      /\ outcome = [u \in Threads |-> outcome[u]]
  BY DEF IInv, Shaped
<1>2. call' = [u \in Threads |-> call'[u]]
  BY <1>1 DEF Others
<1>3. queue' = [u \in Threads |-> queue'[u]]
  BY <1>1 DEF Others
<1>4. outcome' = [u \in Threads |-> outcome'[u]]
  BY <1>1 DEF Others
<1>5. Shaped'
  BY <1>2, <1>3, <1>4 DEF Shaped
<1>6. \A u \in Threads \ {t} :
         call'[u] = call[u] /\ queue'[u] = queue[u] /\ outcome'[u] = outcome[u]
  BY <1>1 DEF Others
<1> QED
  BY <1>5, <1>6

\* A step of thread t: what is left to show is about t.
LEMMA ThreadStep ==
    ASSUME IInv, NEW t \in Threads, Others(t), made \subseteq made',
           errors' \subseteq [id : Ids, thread : Threads, code : {0} \cup Ids],
           \A e \in errors' : (e \in errors \/ e.thread = t) /\ e.id <= calls',
           calls' \in {calls, calls + 1}, calls' <= MaxCalls,
           queue'[t] \in Seq(Ids),
           \A e \in errors' : e.thread = t => \A i \in DOMAIN queue'[t] : queue'[t][i] >= e.id,
           Active(t)' =>
              /\ call'[t].id \in 1..calls'
              /\ call'[t] = [do |-> call'[t].do, id |-> call'[t].id,
                              read |-> call'[t].read, ended |-> call'[t].ended]
              /\ call'[t].do \in Operations'
              /\ queue'[t] = <<>>
              /\ \A e \in errors' : e.thread = t => e.id < call'[t].id
              /\ call'[t].do.op = "HashStream" =>
                    LET s == call'[t].do.stream IN
                    /\ call'[t].read \in 0..s.holds
                    /\ s.holds <= s.length /\ s.length \in Nat /\ s.holds \in Nat
                    /\ call'[t].ended => IsReadThrough(s, call'[t].read),
           outcome'[t] # None => outcome'[t].do \in Operations' /\ Checked(outcome'[t]),
           ErrorsAreOwn', MadeHeld', DigestIsOfStream'
    PROVE  IInv'
<1>1. /\ Shaped'
      /\ \A u \in Threads \ {t} :
            call'[u] = call[u] /\ queue'[u] = queue[u] /\ outcome'[u] = outcome[u]
  BY OthersAre
<1>2. Operations \subseteq Operations'
  BY OperationsGrow
<1>3. calls \in Nat /\ MaxCalls \in Nat /\ calls' \in 0..MaxCalls /\ Ids = 1..MaxCalls
  BY TypesAre DEF Ids
<1>4. TypeOK'
  <2>1. ASSUME NEW u \in Threads \ {t}
        PROVE  /\ call'[u] # None =>
                     /\ call'[u].id \in 1..calls'
                     /\ call'[u].do.op = "HashStream" => call'[u].read <= call'[u].do.stream.length
               /\ queue'[u] \in Seq(Ids)
    <3>1. 1..calls \subseteq 1..calls'
      BY <1>3
    <3> QED
      BY <1>1, <1>3, <3>1 DEF IInv, TypeOK
  <2>2. call'[t] # None =>
           /\ call'[t].id \in 1..calls'
           /\ call'[t].do.op = "HashStream" => call'[t].read <= call'[t].do.stream.length
    BY DEF Active
  <2> QED
    BY <1>3, <2>1, <2>2 DEF TypeOK, Ids
<1>5. CallsHeld'
  <2>1. ASSUME NEW u \in Threads \ {t}, Active(u)'
        PROVE  /\ call'[u] = [do |-> call'[u].do, id |-> call'[u].id,
                               read |-> call'[u].read, ended |-> call'[u].ended]
               /\ call'[u].do \in Operations'
               /\ call'[u].id \in Ids
               /\ call'[u].do.op = "HashStream" =>
                     LET s == call'[u].do.stream IN
                     /\ call'[u].read \in 0..s.holds
                     /\ call'[u].ended => IsReadThrough(s, call'[u].read)
    BY <1>1, <1>2, <2>1 DEF IInv, CallsHeld, Active
  <2>2. Active(t)' => call'[t].id \in Ids
    BY <1>3
  <2> QED
    BY <2>1, <2>2 DEF CallsHeld, Ids
<1>6. QueuesHeld'
  <2>1. ASSUME NEW u \in Threads \ {t}
        PROVE  /\ Active(u)' => queue'[u] = <<>>
               /\ \A e \in errors' : e.thread = u =>
                     /\ \A i \in DOMAIN queue'[u] : queue'[u][i] >= e.id
                     /\ Active(u)' => e.id < call'[u].id
    BY <1>1 DEF IInv, QueuesHeld, Active
  <2> QED
    BY <2>1 DEF QueuesHeld
<1>7. OutcomesHeld'
  <2>1. ASSUME NEW u \in Threads \ {t}, outcome'[u] # None
        PROVE  outcome'[u].do \in Operations' /\ Checked(outcome'[u])
    BY <1>1, <1>2, <2>1 DEF IInv, OutcomesHeld
  <2> QED
    BY <2>1 DEF OutcomesHeld
<1> QED
  BY <1>1, <1>4, <1>5, <1>6, <1>7 DEF IInv

\* One entry of a variable that has a value for every thread.
LEMMA OneEntry ==
    ASSUME NEW f, f = [u \in Threads |-> f[u]], NEW t \in Threads, NEW X, NEW g,
           g = [f EXCEPT ![t] = X]
    PROVE  g[t] = X /\ g = [f EXCEPT ![t] = g[t]]
<1>1. g[t] = X
  BY t \in DOMAIN f
<1> QED
  BY <1>1

LEMMA NoEntry ==
    ASSUME NEW f, f = [u \in Threads |-> f[u]], NEW t \in Threads
    PROVE  f = [f EXCEPT ![t] = f[t]]
<1>1. \A u \in Threads : [f EXCEPT ![t] = f[t]][u] = f[u]
  OBVIOUS
<1>2. [f EXCEPT ![t] = f[t]] = [u \in Threads |-> [f EXCEPT ![t] = f[t]][u]]
  OBVIOUS
<1> QED
  BY <1>1, <1>2

LEMMA ShapesAre ==
    ASSUME IInv
    PROVE  /\ call = [t \in Threads |-> call[t]]
           /\ queue = [t \in Threads |-> queue[t]]
           /\ outcome = [t \in Threads |-> outcome[t]]
BY DEF IInv, Shaped

\* A step that makes no binding.
LEMMA Unmade ==
    ASSUME IInv, UNCHANGED made
    PROVE  MadeHeld' /\ DigestIsOfStream' /\ Operations' = Operations
<1>1. MadeHeld'
  BY DEF IInv, MadeHeld
<1>2. DigestIsOfStream'
  BY DEF IInv, DigestIsOfStream
<1>3. Operations' = Operations
  BY DEF Operations, Argon2idBindings, Sha256Bindings, Ed25519Bindings, Aes256GcmBindings, MadeBy
<1> QED
  BY <1>1, <1>2, <1>3

\* A step that hands out no Error.
LEMMA NoErrors ==
    ASSUME IInv, UNCHANGED errors, calls' \in {calls, calls + 1}, NEW t \in Threads
    PROVE  /\ errors' \subseteq [id : Ids, thread : Threads, code : {0} \cup Ids]
           /\ \A e \in errors' : (e \in errors \/ e.thread = t) /\ e.id <= calls'
           /\ UNCHANGED described => ErrorsAreOwn'
<1>1. errors \subseteq [id : Ids, thread : Threads, code : {0} \cup Ids] /\ calls \in Nat
  BY TypesAre
<1>2. \A e \in errors : e.id <= calls /\ e.id \in Nat
  BY <1>1, ConstantsAre DEF IInv, QueuesHeld
<1>3. UNCHANGED described => ErrorsAreOwn'
  BY DEF IInv, ErrorsAreOwn
<1> QED
  BY <1>1, <1>2, <1>3

LEMMA StreamsAre ==
    ASSUME NEW s \in Streams
    PROVE  s.length \in Nat /\ s.holds \in Nat /\ s.holds <= s.length
BY ConstantsAre DEF Streams

LEMMA CallKeepsIInv ==
    ASSUME IInv, NEW t \in Threads, Call(t)
    PROVE  IInv'
<1>1. PICK o \in Operations :
         call' = [call EXCEPT ![t] = [do |-> o, id |-> calls + 1, read |-> 0, ended |-> FALSE]]
  BY DEF Call
<1> DEFINE X == [do |-> o, id |-> calls + 1, read |-> 0, ended |-> FALSE]
<1>2. /\ calls' = calls + 1 /\ calls < MaxCalls
      /\ queue' = [queue EXCEPT ![t] = <<>>]
      /\ outcome' = [outcome EXCEPT ![t] = None]
      /\ UNCHANGED <<errors, made, described>>
  BY DEF Call, Cleared
<1>3. /\ call'[t] = X /\ queue'[t] = <<>> /\ outcome'[t] = None
      /\ Others(t)
  BY <1>1, <1>2, ShapesAre, OneEntry DEF Others
<1>4. calls \in Nat /\ MaxCalls \in Nat
  BY TypesAre
<1>5. calls' <= MaxCalls /\ calls' \in {calls, calls + 1}
  BY <1>2, <1>4
<1>6. /\ errors' \subseteq [id : Ids, thread : Threads, code : {0} \cup Ids]
      /\ \A e \in errors' : (e \in errors \/ e.thread = t) /\ e.id <= calls'
      /\ ErrorsAreOwn'
  BY <1>2, NoErrors
<1>7. MadeHeld' /\ DigestIsOfStream' /\ Operations' = Operations
  BY <1>2, Unmade
<1>8. queue'[t] \in Seq(Ids) /\ DOMAIN queue'[t] = {}
  BY <1>3
<1>9. /\ call'[t].id \in 1..calls' /\ call'[t].do = o
      /\ call'[t] = [do |-> call'[t].do, id |-> call'[t].id,
                     read |-> call'[t].read, ended |-> call'[t].ended]
  BY <1>2, <1>3, <1>4
<1>10. \A e \in errors' : e.id < call'[t].id
  <2>1. \A e \in errors : e.id <= calls /\ e.id \in Nat
    BY TypesAre, ConstantsAre DEF IInv, QueuesHeld
  <2> QED
    BY <1>2, <1>3, <1>4, <2>1
<1>11. call'[t].do.op = "HashStream" =>
          LET s == call'[t].do.stream IN
          /\ call'[t].read \in 0..s.holds
          /\ s.holds <= s.length /\ s.length \in Nat /\ s.holds \in Nat
          /\ call'[t].ended => IsReadThrough(s, call'[t].read)
  <2>1. o.op = "HashStream" =>
           o.stream.length \in Nat /\ o.stream.holds \in Nat /\ o.stream.holds <= o.stream.length
    BY OperationIs, StreamsAre
  <2>2. call'[t].do = o /\ call'[t].read = 0 /\ ~call'[t].ended
    BY <1>3
  <2> QED
    BY <2>1, <2>2
<1>12. made \subseteq made'
  BY <1>2
<1>13. call'[t].do \in Operations'
  BY <1>7, <1>9
<1> QED
  BY <1>3, <1>5, <1>6, <1>7, <1>8, <1>9, <1>10, <1>11, <1>12, <1>13, ThreadStep

LEMMA EndedIs ==
    ASSUME NEW n \in Nat, NEW do, NEW id, NEW read, NEW X,
           X = [do |-> do, id |-> id, read |-> read, ended |-> n < BlockSize]
    PROVE  X.ended => n < BlockSize
BY ConstantsAre

LEMMA ReadBlockKeepsIInv ==
    ASSUME IInv, NEW t \in Threads, ReadBlock(t)
    PROVE  IInv'
<1> DEFINE s == call[t].do.stream
<1>1. PICK n \in Got(s, call[t].read) :
         call' = [call EXCEPT ![t] =
             [do |-> @.do, id |-> @.id, read |-> @.read + n, ended |-> n < BlockSize]]
  BY DEF ReadBlock
<1>2. /\ Active(t) /\ call[t].do.op = "HashStream"
      /\ UNCHANGED <<calls, queue, outcome, errors, made, described>>
  BY DEF ReadBlock, Active
<1>3. /\ call[t] = [do |-> call[t].do, id |-> call[t].id,
                    read |-> call[t].read, ended |-> call[t].ended]
      /\ call[t].do \in Operations
      /\ call[t].read \in 0..s.holds
  BY <1>2 DEF IInv, CallsHeld
<1>4. s.length \in Nat /\ s.holds \in Nat /\ s.holds <= s.length
  BY <1>2, <1>3, OperationIs, StreamsAre
<1> DEFINE X == [do |-> call[t].do, id |-> call[t].id,
                 read |-> call[t].read + n, ended |-> n < BlockSize]
<1>5. call' = [call EXCEPT ![t] = X]
  BY <1>1
<1>6. call'[t] = X /\ Others(t)
  BY <1>2, <1>5, ShapesAre, OneEntry, NoEntry DEF Others
<1>7. /\ n \in Nat /\ call[t].read + n \in 0..s.holds
      /\ n < BlockSize => IsReadThrough(s, call[t].read + n)
  BY <1>3, <1>4, ConstantsAre DEF Got, IsReadThrough
<1>8. /\ calls \in Nat /\ calls <= MaxCalls /\ queue[t] \in Seq(Ids)
      /\ queue[t] = <<>> /\ call[t].id \in 1..calls
  BY <1>2, TypesAre
<1>9. /\ errors' \subseteq [id : Ids, thread : Threads, code : {0} \cup Ids]
      /\ \A e \in errors' : (e \in errors \/ e.thread = t) /\ e.id <= calls'
      /\ ErrorsAreOwn'
  BY <1>2, NoErrors
<1>10. MadeHeld' /\ DigestIsOfStream' /\ Operations' = Operations
  BY <1>2, Unmade
<1>11. \A e \in errors' : e.thread = t => e.id < call[t].id
  BY <1>2 DEF IInv, QueuesHeld
<1>12. outcome'[t] # None => outcome'[t].do \in Operations' /\ Checked(outcome'[t])
  BY <1>2, <1>10 DEF IInv, OutcomesHeld
<1>13. /\ call'[t].id = call[t].id /\ call'[t].do = call[t].do
       /\ call'[t].read = call[t].read + n
       /\ call'[t] = [do |-> call'[t].do, id |-> call'[t].id,
                      read |-> call'[t].read, ended |-> call'[t].ended]
  BY <1>6
<1>14. call'[t].ended => n < BlockSize
  BY <1>6, <1>7, EndedIs
<1>15. LET z == call'[t].do.stream IN
          /\ call'[t].read \in 0..z.holds
          /\ z.holds <= z.length /\ z.length \in Nat /\ z.holds \in Nat
          /\ call'[t].ended => IsReadThrough(z, call'[t].read)
  BY <1>4, <1>7, <1>13, <1>14
<1>16. /\ queue'[t] \in Seq(Ids) /\ DOMAIN queue'[t] = {} /\ queue'[t] = <<>>
       /\ calls' \in {calls, calls + 1} /\ calls' <= MaxCalls /\ made \subseteq made'
       /\ call'[t].id \in 1..calls' /\ call'[t].do \in Operations'
       /\ \A e \in errors' : e.thread = t => e.id < call'[t].id
  BY <1>2, <1>3, <1>8, <1>10, <1>11, <1>13
<1> QED
  BY <1>6, <1>9, <1>10, <1>12, <1>13, <1>15, <1>16, ThreadStep

\* A call ends, whatever it returns and leaves in the queue of its thread.
LEMMA EndStep ==
    ASSUME IInv, NEW t \in Threads, Active(t), NEW result, Ends(t, result),
           made \subseteq made', UNCHANGED calls,
           NEW Q \in Seq(Ids), queue' = [queue EXCEPT ![t] = Q],
           errors' \subseteq [id : Ids, thread : Threads, code : {0} \cup Ids],
           \A e \in errors' : (e \in errors \/ e.thread = t) /\ e.id <= calls,
           \A e \in errors' : e.thread = t => \A i \in DOMAIN Q : Q[i] >= e.id,
           Checked([do |-> call[t].do, id |-> call[t].id, result |-> result]),
           ErrorsAreOwn', MadeHeld', DigestIsOfStream'
    PROVE  IInv'
<1> DEFINE o == [do |-> call[t].do, id |-> call[t].id, result |-> result]
<1>1. call' = [call EXCEPT ![t] = None] /\ outcome' = [outcome EXCEPT ![t] = o]
  BY DEF Ends
<1>2. call'[t] = None /\ outcome'[t] = o /\ queue'[t] = Q /\ Others(t)
  BY <1>1, ShapesAre, OneEntry DEF Others
<1>3. calls' <= MaxCalls /\ calls' \in {calls, calls + 1}
  BY TypesAre
<1>4. o.do \in Operations'
  BY TypesAre, OperationsGrow
<1>5. outcome'[t] # None => outcome'[t].do \in Operations' /\ Checked(outcome'[t])
  BY <1>2, <1>4
<1>6. ~Active(t)'
  BY <1>2 DEF Active
<1>7. \A e \in errors' : (e \in errors \/ e.thread = t) /\ e.id <= calls'
  OBVIOUS
<1>8. queue'[t] \in Seq(Ids)
  BY <1>2
<1>9. \A e \in errors' : e.thread = t => \A i \in DOMAIN queue'[t] : queue'[t][i] >= e.id
  BY <1>2
<1> QED
  BY <1>2, <1>3, <1>5, <1>6, <1>7, <1>8, <1>9, ThreadStep

\* A call ends and hands out no Error, its queue as it was.
LEMMA QuietEnd ==
    ASSUME IInv, NEW t \in Threads, Active(t), NEW result, Ends(t, result),
           made \subseteq made', UNCHANGED <<calls, queue, errors, described>>,
           Checked([do |-> call[t].do, id |-> call[t].id, result |-> result]),
           MadeHeld', DigestIsOfStream'
    PROVE  IInv'
<1>1. queue[t] \in Seq(Ids) /\ queue[t] = <<>>
  BY TypesAre
<1>2. queue' = [queue EXCEPT ![t] = queue[t]]
  BY ShapesAre, NoEntry
<1>3. /\ errors' \subseteq [id : Ids, thread : Threads, code : {0} \cup Ids]
      /\ \A e \in errors' : (e \in errors \/ e.thread = t) /\ e.id <= calls
      /\ ErrorsAreOwn'
  BY NoErrors
<1>4. DOMAIN queue[t] = {}
  BY <1>1
<1> QED
  BY <1>1, <1>2, <1>3, <1>4, EndStep

\* The new binding is what its operation makes.
LEMMA MakesKeepsIInv ==
    ASSUME IInv, NEW t \in Threads, Active(t), NEW b, Makes(t, b), NEW do, do = call[t].do,
           do.op \in {"HashArgon2id", "HashSha256", "HashStream", "Encrypt", "Sign"},
           do.op = "HashArgon2id" => \E s \in Ids : b = HashArgon2id(do.data, s),
           do.op = "HashSha256" => b = HashSha256(do.data),
           do.op = "Encrypt" => \E s \in Ids : b = Encrypt(do.data, do.key, s),
           do.op = "Sign" => b = Sign(do.data, do.key),
           do.op = "HashStream" =>
              \E n \in 0..do.stream.holds : IsReadThrough(do.stream, n) /\ b = HashSha256(n)
    PROVE  IInv'
<1> DEFINE new == [op |-> do.op, do |-> do, binding |-> b]
           result == [binding |-> b]
<1>1. /\ Ends(t, result) /\ made' = made \cup {new}
      /\ UNCHANGED <<calls, queue, errors, described>>
  BY DEF Makes
<1>2. Checked([do |-> call[t].do, id |-> call[t].id, result |-> result])
  BY DEF Checked
<1>3. new.op = do.op /\ new.do = do /\ new.binding = b
  OBVIOUS
<1> HIDE DEF new, result
<1>4. MadeHeld'
  BY <1>1, <1>3 DEF IInv, MadeHeld
<1>5. DigestIsOfStream'
  BY <1>1, <1>3 DEF IInv, DigestIsOfStream
<1>6. made \subseteq made'
  BY <1>1
<1> QED
  BY <1>1, <1>2, <1>4, <1>5, <1>6, QuietEnd

LEMMA AnswersKeepsIInv ==
    ASSUME IInv, NEW t \in Threads, Active(t), NEW result, Answers(t, result),
           Checked([do |-> call[t].do, id |-> call[t].id, result |-> result])
    PROVE  IInv'
<1>1. Ends(t, result) /\ UNCHANGED <<calls, queue, errors, made, described>>
  BY DEF Answers
<1>2. MadeHeld' /\ DigestIsOfStream' /\ made \subseteq made'
  BY <1>1, Unmade
<1> QED
  BY <1>1, <1>2, QuietEnd

LEMMA SucceedKeepsIInv ==
    ASSUME IInv, NEW t \in Threads, Succeed(t)
    PROVE  IInv'
<1>1. PICK do : do = call[t].do
  OBVIOUS
<1>2. PICK id : id = call[t].id
  OBVIOUS
<1>3. Active(t) /\ do \in Operations /\ id \in Ids
  BY <1>1, <1>2, TypesAre DEF Succeed, Active
<1>4. CASE do.op = "HashArgon2id" /\ Makes(t, HashArgon2id(do.data, id))
  BY <1>1, <1>3, <1>4, MakesKeepsIInv
<1>5. CASE do.op = "HashSha256" /\ Makes(t, HashSha256(do.data))
  BY <1>1, <1>3, <1>5, MakesKeepsIInv
<1>6. CASE do.op = "HashStream" /\ call[t].ended /\ Makes(t, HashSha256(call[t].read))
  <2>1. PICK n : n = call[t].read
    OBVIOUS
  <2>2. n \in 0..do.stream.holds /\ IsReadThrough(do.stream, n)
    BY <1>1, <1>3, <1>6, <2>1 DEF IInv, CallsHeld
  <2> QED
    BY <1>1, <1>3, <1>6, <2>1, <2>2, MakesKeepsIInv
<1>7. CASE do.op = "Encrypt" /\ Makes(t, Encrypt(do.data, do.key, id))
  BY <1>1, <1>3, <1>7, MakesKeepsIInv
<1>8. CASE do.op = "Sign" /\ Makes(t, Sign(do.data, do.key))
  BY <1>1, <1>3, <1>8, MakesKeepsIInv
<1>9. CASE do.op = "VerifyArgon2id" /\ Answers(t, [fits |-> VerifyArgon2id(do.data, do.binding)])
  <2>1. Checked([do |-> do, id |-> id,
                 result |-> [fits |-> VerifyArgon2id(do.data, do.binding)]])
    BY <1>9 DEF Checked
  <2> QED
    BY <1>1, <1>2, <1>3, <1>9, <2>1, AnswersKeepsIInv
<1>10. CASE do.op = "VerifySha256" /\ Answers(t, [fits |-> VerifySha256(do.data, do.binding)])
  <2>1. Checked([do |-> do, id |-> id,
                 result |-> [fits |-> VerifySha256(do.data, do.binding)]])
    BY <1>10 DEF Checked
  <2> QED
    BY <1>1, <1>2, <1>3, <1>10, <2>1, AnswersKeepsIInv
<1>11. CASE /\ do.op = "Decrypt"
            /\ IsAuthentic(do.binding, do.key)
            /\ Answers(t, [plain |-> do.binding.ciphertext])
  <2>1. Checked([do |-> do, id |-> id, result |-> [plain |-> do.binding.ciphertext]])
    BY <1>11 DEF Checked
  <2> QED
    BY <1>1, <1>2, <1>3, <1>11, <2>1, AnswersKeepsIInv
<1>12. CASE /\ do.op = "VerifySignature"
            /\ VerifySignature(do.data, do.binding, do.key)
            /\ Answers(t, [fits |-> TRUE])
  <2>1. Checked([do |-> do, id |-> id, result |-> [fits |-> TRUE]])
    BY <1>12 DEF Checked
  <2> QED
    BY <1>1, <1>2, <1>3, <1>12, <2>1, AnswersKeepsIInv
<1> QED
  BY <1>1, <1>2, <1>4, <1>5, <1>6, <1>7, <1>8, <1>9, <1>10, <1>11, <1>12 DEF Succeed

\* The errors that a call leaves in a queue that was empty.
LEMMA RaisedAre ==
    ASSUME NEW n \in Nat, NEW id \in Ids, NEW q, q = <<>>, NEW R, R = q \o [i \in 1..n |-> id]
    PROVE  /\ R \in Seq(Ids) /\ \A i \in DOMAIN R : R[i] = id
           /\ R # <<>> => /\ Head(R) = id /\ Tail(R) \in Seq(Ids)
                          /\ \A i \in DOMAIN Tail(R) : Tail(R)[i] = id
<1> DEFINE raised == [i \in 1..n |-> id]
<1>1. raised \in Seq(Ids) /\ Len(raised) = n
  OBVIOUS
<1>2. \A i \in 1..n : raised[i] = id
  OBVIOUS
<1> HIDE DEF raised
<1>3. R \in Seq(Ids) /\ Len(R) = n /\ \A i \in 1..n : R[i] = id
  BY <1>1, <1>2
<1>4. ASSUME R # <<>>
      PROVE  /\ Head(R) = id /\ Tail(R) \in Seq(Ids)
             /\ \A i \in DOMAIN Tail(R) : Tail(R)[i] = id
  <2>1. n > 0
    BY <1>3, <1>4
  <2>2. Tail(R) \in Seq(Ids) /\ Len(Tail(R)) = n - 1 /\ Head(R) = R[1]
    BY <1>3, <1>4
  <2>3. \A i \in 1..(n - 1) : Tail(R)[i] = R[i + 1]
    BY <1>3, <1>4, <2>1
  <2> QED
    BY <1>3, <2>1, <2>2, <2>3
<1> QED
  BY <1>3, <1>4

LEMMA MismatchKeepsIInv ==
    ASSUME IInv, NEW t \in Threads, Mismatch(t)
    PROVE  IInv'
<1>1. PICK n \in 0..MaxRaised :
         queue' = [queue EXCEPT ![t] = @ \o [i \in 1..n |-> call[t].id]]
  BY DEF Mismatch
<1>2. PICK id : id = call[t].id
  OBVIOUS
<1>3. PICK Q : Q = queue[t] \o [i \in 1..n |-> id]
  OBVIOUS
<1>4. /\ Active(t) /\ id \in Ids /\ id \in 1..calls /\ queue[t] = <<>> /\ calls \in Nat
      /\ n \in Nat /\ Ids \subseteq Nat
  BY <1>2, TypesAre, ConstantsAre DEF Mismatch, Active
<1>5. Q \in Seq(Ids) /\ \A i \in DOMAIN Q : Q[i] = id
  BY <1>3, <1>4, RaisedAre
<1>6. queue' = [queue EXCEPT ![t] = Q]
  BY <1>1, <1>2, <1>3
<1>7. Ends(t, [fits |-> FALSE]) /\ UNCHANGED <<calls, errors, made, described>>
  BY DEF Mismatch
<1>8. /\ errors' \subseteq [id : Ids, thread : Threads, code : {0} \cup Ids]
      /\ \A e \in errors' : (e \in errors \/ e.thread = t) /\ e.id <= calls
      /\ ErrorsAreOwn'
  BY <1>7, NoErrors
<1>9. \A e \in errors' : e.thread = t => e.id < id /\ e.id \in Nat
  BY <1>2, <1>4, <1>7, <1>8 DEF IInv, QueuesHeld
<1>10. \A e \in errors' : e.thread = t => \A i \in DOMAIN Q : Q[i] >= e.id
  BY <1>4, <1>5, <1>9
<1>11. MadeHeld' /\ DigestIsOfStream' /\ made \subseteq made'
  BY <1>7, Unmade
<1>12. Checked([do |-> call[t].do, id |-> call[t].id, result |-> [fits |-> FALSE]])
  BY DEF Mismatch, Checked
<1> QED
  BY <1>4, <1>5, <1>6, <1>7, <1>8, <1>10, <1>11, <1>12, EndStep

\* A call that fails, whatever it has raised.
LEMMA FailsKeepsIInv ==
    ASSUME IInv, NEW t \in Threads, Active(t), NEW n \in 0..MaxRaised, Fails(t, n)
    PROVE  IInv'
<1>1. PICK id : id = call[t].id
  OBVIOUS
<1>2. PICK left : left = queue[t] \o [i \in 1..n |-> id]
  OBVIOUS
<1>3. PICK Q : Q = IF left = <<>> THEN left ELSE Tail(left)
  OBVIOUS
<1>4. PICK code : code = IF left = <<>> THEN 0 ELSE Head(left)
  OBVIOUS
<1>5. PICK error : error = [id |-> id, thread |-> t, code |-> code]
  OBVIOUS
<1>6. /\ Ends(t, [error |-> error]) /\ errors' = errors \cup {error}
      /\ queue' = [queue EXCEPT ![t] = Q]
      /\ UNCHANGED <<calls, made, described>>
  BY <1>1, <1>2, <1>3, <1>4, <1>5 DEF Fails
<1>7. /\ id \in Ids /\ id \in 1..calls /\ queue[t] = <<>> /\ calls \in Nat
      /\ n \in Nat /\ Ids \subseteq Nat
  BY <1>1, TypesAre, ConstantsAre
<1>8. /\ left \in Seq(Ids) /\ \A i \in DOMAIN left : left[i] = id
      /\ left # <<>> => /\ Head(left) = id /\ Tail(left) \in Seq(Ids)
                        /\ \A i \in DOMAIN Tail(left) : Tail(left)[i] = id
  BY <1>2, <1>7, RaisedAre
<1>9. Q \in Seq(Ids) /\ (\A i \in DOMAIN Q : Q[i] = id) /\ code \in {0, id}
  BY <1>3, <1>4, <1>8
<1>10. error.id = id /\ error.thread = t /\ error.code \in {0, error.id}
  BY <1>5, <1>9
<1>11. error \in [id : Ids, thread : Threads, code : {0} \cup Ids]
  BY <1>5, <1>7, <1>9
<1>12. /\ errors \subseteq [id : Ids, thread : Threads, code : {0} \cup Ids]
       /\ \A e \in errors : e.id <= calls
  BY TypesAre DEF IInv, QueuesHeld
<1>13. /\ errors' \subseteq [id : Ids, thread : Threads, code : {0} \cup Ids]
       /\ \A e \in errors' : (e \in errors \/ e.thread = t) /\ e.id <= calls
  BY <1>6, <1>7, <1>10, <1>11, <1>12
<1>14. \A e \in errors' : e.thread = t => e.id <= id /\ e.id \in Nat
  <2>1. \A e \in errors : e.thread = t => e.id < id
    BY <1>1 DEF IInv, QueuesHeld
  <2>2. \A e \in errors : e.id \in Nat
    BY <1>7, <1>12
  <2> QED
    BY <1>6, <1>7, <1>10, <2>1, <2>2
<1>15. \A e \in errors' : e.thread = t => \A i \in DOMAIN Q : Q[i] >= e.id
  BY <1>7, <1>9, <1>14
<1>16. ErrorsAreOwn'
  BY <1>6, <1>10 DEF IInv, ErrorsAreOwn
<1>17. MadeHeld' /\ DigestIsOfStream' /\ made \subseteq made'
  BY <1>6, Unmade
<1>18. Checked([do |-> call[t].do, id |-> call[t].id, result |-> [error |-> error]])
  BY DEF Checked
<1> QED
  BY <1>6, <1>9, <1>13, <1>15, <1>16, <1>17, <1>18, EndStep

LEMMA DescribeKeepsIInv ==
    ASSUME IInv, NEW t \in Threads, Describe(t)
    PROVE  IInv'
<1>1. PICK e \in errors : described' = [error |-> e, by |-> t, shows |-> queue[t]]
  BY DEF Describe
<1>2. /\ call[t] = None /\ queue' = [queue EXCEPT ![t] = <<>>]
      /\ UNCHANGED <<calls, call, outcome, errors, made>>
  BY DEF Describe
<1>3. queue'[t] = <<>> /\ Others(t)
  BY <1>2, ShapesAre, OneEntry, NoEntry DEF Others
<1>4. /\ errors' \subseteq [id : Ids, thread : Threads, code : {0} \cup Ids]
      /\ \A f \in errors' : (f \in errors \/ f.thread = t) /\ f.id <= calls'
      /\ calls' \in {calls, calls + 1} /\ calls' <= MaxCalls
  BY <1>2, NoErrors, TypesAre
<1>5. ErrorsAreOwn'
  <2>1. /\ described'.error = e /\ described'.by = t /\ described'.shows = queue[t]
    BY <1>1
  <2>2. e.thread = t => \A i \in DOMAIN queue[t] : queue[t][i] >= e.id
    BY DEF IInv, QueuesHeld
  <2> QED
    BY <1>2, <2>1, <2>2 DEF IInv, ErrorsAreOwn
<1>6. MadeHeld' /\ DigestIsOfStream' /\ Operations' = Operations /\ made \subseteq made'
  BY <1>2, Unmade
<1>7. outcome'[t] # None => outcome'[t].do \in Operations' /\ Checked(outcome'[t])
  BY <1>2, <1>6 DEF IInv, OutcomesHeld
<1>8. queue'[t] \in Seq(Ids) /\ DOMAIN queue'[t] = {}
  BY <1>3
<1>9. ~Active(t)'
  BY <1>2 DEF Active
<1> QED
  BY <1>3, <1>4, <1>5, <1>6, <1>7, <1>8, <1>9, ThreadStep

-----------------------------------------------------------------------------
(* The inductive invariant, and the theorems.                              *)

LEMMA InitIInv == Init => IInv
<1> SUFFICES ASSUME Init PROVE IInv
  OBVIOUS
<1>1. /\ calls = 0 /\ errors = {} /\ made = {} /\ described = None
      /\ \A t \in Threads : call[t] = None /\ queue[t] = <<>> /\ outcome[t] = None
  BY DEF Init
<1>2. TypeOK
  <2>1. 0 \in 0..MaxCalls
    BY ConstantsAre
  <2>2. <<>> \in Seq(Ids)
    OBVIOUS
  <2> QED
    BY <1>1, <2>1, <2>2 DEF TypeOK
<1>3. Shaped
  BY DEF Init, Shaped
<1>4. CallsHeld /\ QueuesHeld /\ OutcomesHeld
  BY <1>1 DEF CallsHeld, QueuesHeld, OutcomesHeld, Active
<1>5. ErrorsAreOwn /\ MadeHeld /\ DigestIsOfStream
  BY <1>1 DEF ErrorsAreOwn, MadeHeld, DigestIsOfStream
<1> QED
  BY <1>2, <1>3, <1>4, <1>5 DEF IInv

LEMMA IInvStep == IInv /\ [Next]_vars => IInv'
<1> SUFFICES ASSUME IInv, [Next]_vars PROVE IInv'
  OBVIOUS
<1>1. CASE UNCHANGED vars
  <2>1. UNCHANGED <<calls, call, queue, outcome, errors, made, described>>
    BY <1>1 DEF vars
  <2>2. Operations' = Operations /\ MadeHeld' /\ DigestIsOfStream'
    BY <2>1, Unmade
  <2>3. TypeOK' /\ Shaped'
    BY <2>1 DEF IInv, TypeOK, Shaped, Ids
  <2>4. CallsHeld' /\ QueuesHeld' /\ ErrorsAreOwn'
    BY <2>1, <2>2 DEF IInv, CallsHeld, QueuesHeld, ErrorsAreOwn, Active, Ids
  <2>5. OutcomesHeld'
    <3>1. ASSUME NEW t \in Threads, outcome'[t] # None
          PROVE  outcome'[t].do \in Operations' /\ Checked(outcome'[t])
      BY <2>1, <2>2, <3>1 DEF IInv, OutcomesHeld
    <3> QED
      BY <3>1 DEF OutcomesHeld
  <2> QED
    BY <2>2, <2>3, <2>4, <2>5 DEF IInv
<1>2. ASSUME NEW t \in Threads,
             \/ Call(t) \/ ReadBlock(t) \/ Succeed(t) \/ Mismatch(t) \/ Fail(t) \/ Refuse(t)
             \/ Describe(t)
      PROVE  IInv'
  <2>1. CASE Call(t)
    BY <2>1, CallKeepsIInv
  <2>2. CASE ReadBlock(t)
    BY <2>2, ReadBlockKeepsIInv
  <2>3. CASE Succeed(t)
    BY <2>3, SucceedKeepsIInv
  <2>4. CASE Mismatch(t)
    BY <2>4, MismatchKeepsIInv
  <2>5. CASE Fail(t)
    BY <2>5, FailsKeepsIInv DEF Fail, Active
  <2>6. CASE Refuse(t)
    <3>1. 0 \in 0..MaxRaised
      BY ConstantsAre
    <3> QED
      BY <2>6, <3>1, FailsKeepsIInv DEF Refuse, Active
  <2>7. CASE Describe(t)
    BY <2>7, DescribeKeepsIInv
  <2> QED
    BY <1>2, <2>1, <2>2, <2>3, <2>4, <2>5, <2>6, <2>7
<1> QED
  BY <1>1, <1>2 DEF Next

LEMMA IInvAlways == Spec => []IInv
BY InitIInv, IInvStep, PTL DEF Spec

\* The state of the library is what TypeOK says, in every behaviour.
THEOREM SecurityTypeCorrect == Spec => []TypeOK
<1>1. IInv => TypeOK
  BY DEF IInv
<1> QED
  BY <1>1, IInvAlways, PTL

\* An Error never carries the code of another call of its thread, and on that
\* thread its description speaks of no earlier one: error.cpp and hasher.cpp,
\* where every operation begins with ERR_clear_error().
THEOREM ErrorsSpeakOfTheirCall == Spec => []ErrorsAreOwn
<1>1. IInv => ErrorsAreOwn
  BY DEF IInv
<1> QED
  BY <1>1, IInvAlways, PTL

\* verify() of every kind says yes exactly to a binding that was made for that
\* data (and key), however it may have been changed on its way.
THEOREM VerifyAcceptsItsOwn == Spec => []VerifiesOwn
<1>1. ASSUME IInv PROVE VerifiesOwn
  <2>1. ASSUME NEW op, NEW o \in Ended(op)
        PROVE  o.do.op = op /\ o.do \in Operations /\ Checked(o)
    BY <1>1, <2>1 DEF Ended, IInv, OutcomesHeld
  <2>2. ASSUME NEW o \in Ended("VerifyArgon2id"), "fits" \in DOMAIN o.result
        PROVE  o.result.fits <=> \E m \in made :
                  m.op = "HashArgon2id" /\ m.do.data = o.do.data /\ m.binding = o.do.binding
    <3>1. o.do.op = "VerifyArgon2id" /\ o.do \in Operations /\ Checked(o)
      BY <2>1, <2>2
    <3>2. o.do.binding \in Argon2idBindings
      BY <3>1, OperationIs
    <3>3. o.result.fits <=> VerifyArgon2id(o.do.data, o.do.binding)
      BY <2>2, <3>1 DEF Checked
    <3> QED
      BY <1>1, <3>2, <3>3, Argon2idAccepts
  <2>3. ASSUME NEW o \in Ended("VerifySha256"), "fits" \in DOMAIN o.result
        PROVE  o.result.fits <=> \E m \in made :
                  m.op = "HashSha256" /\ m.do.data = o.do.data /\ m.binding = o.do.binding
    <3>1. o.do.op = "VerifySha256" /\ o.do \in Operations /\ Checked(o)
      BY <2>1, <2>3
    <3>2. o.do.binding \in Sha256Bindings /\ o.do.data \in Data
      BY <3>1, OperationIs
    <3>3. o.result.fits <=> VerifySha256(o.do.data, o.do.binding)
      BY <2>3, <3>1 DEF Checked
    <3> QED
      BY <1>1, <3>2, <3>3, Sha256Accepts
  <2>4. ASSUME NEW o \in Ended("VerifySignature"), "fits" \in DOMAIN o.result
        PROVE  o.result.fits <=> \E m \in made :
                  /\ m.op = "Sign" /\ m.do.data = o.do.data
                  /\ m.do.key = o.do.key /\ m.binding = o.do.binding
    <3>1. o.do.op = "VerifySignature" /\ o.do \in Operations /\ Checked(o)
      BY <2>1, <2>4
    <3>2. o.do.binding \in Ed25519Bindings
      BY <3>1, OperationIs
    <3>3. o.result.fits <=> VerifySignature(o.do.data, o.do.binding, o.do.key)
      BY <2>4, <3>1 DEF Checked
    <3> QED
      BY <1>1, <3>2, <3>3, SignatureAccepts
  <2> QED
    BY <2>2, <2>3, <2>4 DEF VerifiesOwn
<1> QED
  BY <1>1, IInvAlways, PTL

\* decrypt() gives what encrypt() was given with that very key and made that very
\* binding of, whatever of the binding was changed.
THEOREM DecryptGivesItsOwn == Spec => []DecryptsOwn
<1>1. ASSUME IInv PROVE DecryptsOwn
  <2>1. ASSUME NEW o \in Ended("Decrypt"), "plain" \in DOMAIN o.result
        PROVE  \E m \in made :
                  /\ m.op = "Encrypt" /\ m.do.data = o.result.plain
                  /\ m.do.key = o.do.key /\ m.binding = o.do.binding
    <3>1. o.do.op = "Decrypt" /\ o.do \in Operations /\ Checked(o)
      BY <1>1, <2>1 DEF Ended, IInv, OutcomesHeld
    <3>2. o.do.binding \in Aes256GcmBindings
      BY <3>1, OperationIs
    <3>3. IsAuthentic(o.do.binding, o.do.key) /\ o.result.plain = o.do.binding.ciphertext
      BY <2>1, <3>1 DEF Checked
    <3> QED
      BY <1>1, <3>2, <3>3, GcmAccepts
  <2> QED
    BY <2>1 DEF DecryptsOwn
<1> QED
  BY <1>1, IInvAlways, PTL

\* The digest of a stream that does not break is that of all its bytes, and of one
\* that breaks it covers every block that came before, for every length and every
\* size of the block (the read loop of Sha256, hasher.cpp:116).
THEOREM DigestIsOfAllOfTheStream == Spec => []DigestIsOfStream
<1>1. IInv => DigestIsOfStream
  BY DEF IInv
<1> QED
  BY <1>1, IInvAlways, PTL
=============================================================================

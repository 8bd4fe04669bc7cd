---------------------------- MODULE StartUpProofs ----------------------------
(***************************************************************************)
(* Proofs about StartUp, for all arguments, all texts and numbers, and any *)
(* machine: the types, what the arguments say, that a server that runs has *)
(* an executor, and that nothing is missing when it begins to listen.      *)
(*                                                                         *)
(* What the arguments say is proved of the loop: at every round it has     *)
(* done what the arguments before it say.  That there is a function like   *)
(* the one of Operands, and that a set of positions has a last one, rests  *)
(* on LeastNumber.                                                         *)
(***************************************************************************)
EXTENDS StartUp, RoutingProofs, TLAPS

\* How far run() is tells what has been done.
Progress ==
    /\ phase = "parse" => active = None
    /\ phase # "parse" => state = "parsed" /\ active = config
    /\ phase \in {"open", "bind", "listen", "start", "running"} => directory
    /\ phase \in {"parse", "prepare", "open", "bind", "listen"} => ~acceptor.listens
    /\ acceptor.listens => directory

\* The positions that count for a setting.
Ports == Numeric("--port", 0, MaxPort)
Counts == Numeric("--thread_count", -MaxThreadCount, MaxThreadCount)
Paths == OperandsOf("--data_path")

LastBefore(P, n) == Last({k \in P : k < n})

\* What the arguments before position n say.
Said(n) ==
    LET port == LastBefore(Ports, n)
        count == LastBefore(Counts, n)
        path == LastBefore(Paths, n)
    IN  [production |-> LastBefore(Switched("--production"), n)
                            > LastBefore(Switched("--development"), n),
         port |-> IF port = 0 THEN DefaultPort ELSE Number[args[port]],
         thread_count |-> IF count = 0 THEN 0 ELSE Number[args[count]],
         root_path |-> IF path = 0 THEN DefaultRootPath ELSE args[path]]

\* LastOneCounts, of the arguments as they are.
AllSaid ==
    /\ config.port = IF Last(Ports) = 0 THEN DefaultPort ELSE Number[args[Last(Ports)]]
    /\ config.thread_count = IF Last(Counts) = 0 THEN 0 ELSE Number[args[Last(Counts)]]
    /\ config.root_path = IF Last(Paths) = 0 THEN DefaultRootPath ELSE args[Last(Paths)]
    /\ config.production <=> Last(Switched("--production")) > Last(Switched("--development"))
    /\ Switched("--help") = {}

\* The loop is never at an operand, and has done what the arguments behind it say.
LoopInv ==
    /\ state = "parsing" =>
          /\ i \in 1..(Len(args) + 1)
          /\ i \notin Operands
          /\ config = Said(i)
          /\ \A k \in Switched("--help") : k >= i
    /\ state = "parsed" => AllSaid

IInv ==
    /\ TypeOK
    /\ Len(args) <= MaxArgs
    /\ LoopInv
    /\ Progress
    /\ RunningHasExecutor

\* from_chars: a number of the range, or what the variable was before
\* (configuration.cpp:47, 54).
LEMMA FromCharsRange ==
    ASSUME NEW word \in Words, NEW low \in Int, NEW high \in Int, NEW old \in low..high
    PROVE  FromChars(word, low, high, old) \in low..high
<1>1. Read(word) \in Int \cup {None}
  BY TextsAssumption DEF Read, Words
<1>2. CASE Read(word) # None /\ Read(word) >= low /\ Read(word) <= high
  BY <1>1, <1>2 DEF FromChars
<1>3. CASE ~(Read(word) # None /\ Read(word) >= low /\ Read(word) <= high)
  BY <1>3 DEF FromChars
<1> QED
  BY <1>2, <1>3

\* The fields of a configuration keep their types when one of them is assigned.
LEMMA ConfigurationFields ==
    ASSUME NEW c \in Configurations
    PROVE  /\ \A b \in BOOLEAN : [c EXCEPT !.production = b] \in Configurations
           /\ \A n \in 0..MaxPort : [c EXCEPT !.port = n] \in Configurations
           /\ \A n \in (-MaxThreadCount)..MaxThreadCount :
                 [c EXCEPT !.thread_count = n] \in Configurations
           /\ \A w \in Words : [c EXCEPT !.root_path = w] \in Configurations
           /\ c.port \in 0..MaxPort
           /\ c.thread_count \in (-MaxThreadCount)..MaxThreadCount
  BY DEF Configurations

-----------------------------------------------------------------------------
(* Which arguments are operands                                            *)

\* The operands up to position n, as the function that Operands is made with.
OperandFlags(n, flags) ==
    flags = [k \in 1..n |-> k > 1 /\ args[k - 1] \in Settings /\ ~flags[k - 1]]

\* There is such a function for every length, by the principle of the least number.
LEMMA FlagsExist == \A n \in Nat : \E flags : OperandFlags(n, flags)
<1> DEFINE Without == {n \in Nat : ~\E flags : OperandFlags(n, flags)}
<1>1. Without = {}
  <2> SUFFICES ASSUME Without # {} PROVE FALSE
    OBVIOUS
  <2>1. PICK n \in Without : \A m \in Without : n <= m
    <3>1. Without \in SUBSET Nat
      OBVIOUS
    <3> HIDE DEF Without
    <3> QED
      BY <3>1, LeastNumber
  <2>2. CASE n = 0
    <3>1. OperandFlags(0, [k \in 1..0 |-> FALSE])
      BY DEF OperandFlags
    <3> QED
      BY <2>2, <3>1
  <2>3. CASE n > 0
    <3>1. PICK flags : OperandFlags(n - 1, flags)
      BY <2>1, <2>3
    <3> DEFINE next == [k \in 1..n |-> k > 1 /\ args[k - 1] \in Settings /\ ~flags[k - 1]]
    <3>2. ASSUME NEW k \in 1..(n - 1)
          PROVE  next[k] = flags[k]
      <4>1. k \in 1..n
        BY <2>1
      <4>2. flags = [j \in 1..(n - 1) |-> j > 1 /\ args[j - 1] \in Settings /\ ~flags[j - 1]]
        BY <3>1 DEF OperandFlags
      <4>3. flags[k] = (k > 1 /\ args[k - 1] \in Settings /\ ~flags[k - 1])
        BY <4>2, Zenon
      <4>4. next[k] = (k > 1 /\ args[k - 1] \in Settings /\ ~flags[k - 1])
        BY <4>1, Zenon
      <4> QED
        BY <4>3, <4>4
    <3>3. \A k \in 1..n :
             (k > 1 /\ args[k - 1] \in Settings /\ ~flags[k - 1])
                 <=> (k > 1 /\ args[k - 1] \in Settings /\ ~next[k - 1])
      <4> TAKE k \in 1..n
      <4>1. k > 1 => next[k - 1] = flags[k - 1]
        BY <2>1, <2>3, <3>2
      <4> HIDE DEF next
      <4> QED
        BY <4>1
    <3>4. OperandFlags(n, next)
      BY <3>3 DEF OperandFlags
    <3> QED
      BY <2>1, <3>4
  <2> QED
    BY <2>1, <2>2, <2>3
<1> QED
  BY <1>1

\* An operand is what follows a setting that is none itself.
LEMMA OperandsAre ==
    ASSUME Len(args) \in Nat
    PROVE  /\ Operands \subseteq 1..Len(args)
           /\ \A k \in 1..Len(args) :
                 k \in Operands <=> k > 1 /\ args[k - 1] \in Settings /\ k - 1 \notin Operands
<1> DEFINE flags == CHOOSE f : OperandFlags(Len(args), f)
<1>1. OperandFlags(Len(args), flags)
  BY FlagsExist
<1>2. Operands = {k \in 1..Len(args) : flags[k]}
  BY DEF Operands, OperandFlags
<1> HIDE DEF flags
<1>3. \A k \in 1..Len(args) :
         flags[k] <=> k > 1 /\ args[k - 1] \in Settings /\ ~flags[k - 1]
  BY <1>1 DEF OperandFlags
<1> QED
  BY <1>2, <1>3

-----------------------------------------------------------------------------
(* What the arguments say                                                  *)

LEMMA LastIs ==
    ASSUME NEW P \in SUBSET Nat, NEW j \in P, \A k \in P : k <= j
    PROVE  Last(P) = j
<1>1. \A k \in P : (\A l \in P : l <= k) => k = j
  OBVIOUS
<1> QED
  BY <1>1 DEF Last

\* The last position of a set that is bounded is one of its own.
LEMMA LastIsBefore ==
    ASSUME NEW n \in Nat \ {0}, NEW P \in SUBSET Nat
    PROVE  LastBefore(P, n) \in 0..(n - 1)
<1> DEFINE Q == {k \in P : k < n}
           Bounds == {m \in Nat : \A k \in Q : k <= m}
<1>1. CASE Q = {}
  BY <1>1 DEF LastBefore, Last
<1>2. CASE Q # {}
  <2>1. n \in Bounds /\ Bounds \in SUBSET Nat
    OBVIOUS
  <2>2. PICK m \in Bounds : \A b \in Bounds : m <= b
    <3> HIDE DEF Bounds
    <3> QED
      BY <2>1, LeastNumber
  <2>3. m \in Q
    <3> SUFFICES ASSUME m \notin Q PROVE FALSE
      OBVIOUS
    <3>1. \A k \in Q : k <= m /\ k # m /\ k \in Nat
      BY <2>2
    <3>2. m >= 1
      <4>1. PICK k \in Q : TRUE
        BY <1>2
      <4>2. k \in Nat /\ k <= m /\ k # m /\ m \in Nat
        BY <2>1, <3>1
      <4> QED
        BY <4>2
    <3>3. m - 1 \in Bounds
      BY <2>2, <3>1, <3>2
    <3> QED
      BY <2>2, <3>3
  <2>4. Last(Q) = m
    <3>1. Q \in SUBSET Nat /\ \A k \in Q : k <= m
      BY <2>2
    <3> HIDE DEF Q
    <3> QED
      BY <2>3, <3>1, LastIs
  <2> QED
    BY <2>3, <2>4 DEF LastBefore
<1> QED
  BY <1>1, <1>2

\* One position more: it is the last one, if it is one of P.
LEMMA LastNext ==
    ASSUME NEW P \in SUBSET Nat, NEW n \in Nat
    PROVE  LastBefore(P, n + 1) = IF n \in P THEN n ELSE LastBefore(P, n)
<1>1. CASE n \in P
  <2> DEFINE Q == {k \in P : k < n + 1}
  <2>1. Q \in SUBSET Nat /\ n \in Q /\ \A k \in Q : k <= n
    <3>1. n < n + 1 /\ \A k \in Nat : k < n + 1 => k <= n
      OBVIOUS
    <3>2. \A k \in Q : k \in P /\ k \in Nat /\ k < n + 1
      OBVIOUS
    <3>3. n \in Q
      BY <1>1, <3>1
    <3> HIDE DEF Q
    <3> QED
      BY <3>1, <3>2, <3>3
  <2> HIDE DEF Q
  <2>2. Last(Q) = n
    BY <2>1, LastIs
  <2>3. LastBefore(P, n + 1) = Last(Q)
    BY DEF LastBefore, Q
  <2> QED
    BY <1>1, <2>2, <2>3
<1>2. CASE n \notin P
  <2>1. \A k \in P : k < n + 1 <=> k < n
    BY <1>2
  <2>2. {k \in P : k < n + 1} = {k \in P : k < n}
    BY <2>1, Zenon
  <2> QED
    BY <1>2, <2>2 DEF LastBefore
<1> QED
  BY <1>1, <1>2

\* The positions that count, one by one.
LEMMA Positions ==
    ASSUME Len(args) \in Nat
    PROVE  /\ Ports \subseteq Operands /\ Counts \subseteq Operands /\ Paths \subseteq Operands
           /\ \A k \in Operands :
                 /\ k \in Ports <=> args[k - 1] = "--port"
                                      /\ FromChars(args[k], 0, MaxPort, None) # None
                 /\ k \in Counts <=>
                       args[k - 1] = "--thread_count"
                         /\ FromChars(args[k], -MaxThreadCount, MaxThreadCount, None) # None
                 /\ k \in Paths <=> args[k - 1] = "--data_path"
           /\ \A word, k :
                 k \in Switched(word) <=> k \in 1..Len(args) /\ k \notin Operands
                                            /\ args[k] = word
           /\ Operands \subseteq 1..Len(args)
           /\ \A word : Switched(word) \in SUBSET Nat
           /\ Ports \in SUBSET Nat /\ Counts \in SUBSET Nat /\ Paths \in SUBSET Nat
<1>1. Operands \subseteq 1..Len(args)
  BY OperandsAre
<1>2. /\ Ports \subseteq Operands /\ Counts \subseteq Operands /\ Paths \subseteq Operands
      /\ \A k \in Operands :
            /\ k \in Ports <=> args[k - 1] = "--port"
                                 /\ FromChars(args[k], 0, MaxPort, None) # None
            /\ k \in Counts <=>
                  args[k - 1] = "--thread_count"
                    /\ FromChars(args[k], -MaxThreadCount, MaxThreadCount, None) # None
            /\ k \in Paths <=> args[k - 1] = "--data_path"
  BY DEF Ports, Counts, Paths, Numeric, OperandsOf
<1>3. \A word, k :
         k \in Switched(word) <=> k \in 1..Len(args) /\ k \notin Operands /\ args[k] = word
  BY DEF Switched
<1> QED
  BY <1>1, <1>2, <1>3

\* from_chars, again: a number of its range, or what was there before; it does
\* not depend on that which of the two.
LEMMA FromCharsIs ==
    ASSUME NEW word, NEW low, NEW high, NEW old
    PROVE  IF FromChars(word, low, high, None) # None
           THEN FromChars(word, low, high, old) = Number[word]
           ELSE FromChars(word, low, high, old) = old
  BY DEF FromChars, Read

\* What the loop finds at position i, which is no operand.
LEMMA AtPosition ==
    ASSUME Len(args) \in Nat, i \in 1..Len(args), i \notin Operands
    PROVE  /\ \A k \in Ports \cup Counts \cup Paths : k # i
           /\ \A word : i \in Switched(word) <=> args[i] = word
           /\ args[i] \in Settings /\ i < Len(args) => i + 1 \in Operands
           /\ ~(args[i] \in Settings /\ i < Len(args)) => i + 1 \notin Operands
           /\ i + 1 \in Operands => /\ i + 2 \notin Operands
                                    /\ \A word : i + 1 \notin Switched(word)
<1>1. /\ Operands \subseteq 1..Len(args)
      /\ \A k \in 1..Len(args) :
            k \in Operands <=> k > 1 /\ args[k - 1] \in Settings /\ k - 1 \notin Operands
  BY OperandsAre
<1>2. /\ Ports \subseteq Operands /\ Counts \subseteq Operands /\ Paths \subseteq Operands
      /\ \A word, k :
            k \in Switched(word) <=> k \in 1..Len(args) /\ k \notin Operands /\ args[k] = word
  BY Positions
<1>3. i + 1 \in 1..Len(args) =>
         (i + 1 \in Operands <=> args[i] \in Settings)
  <2> SUFFICES ASSUME i + 1 \in 1..Len(args)
               PROVE  i + 1 \in Operands <=> args[i] \in Settings
    OBVIOUS
  <2>1. i + 1 > 1 /\ (i + 1) - 1 = i
    OBVIOUS
  <2> QED
    BY <1>1, <2>1
<1>4. i + 1 \in 1..Len(args) <=> i < Len(args)
  OBVIOUS
<1>5. i + 1 \in Operands => i + 2 \notin Operands
  <2> SUFFICES ASSUME i + 1 \in Operands, i + 2 \in Operands PROVE FALSE
    OBVIOUS
  <2>1. i + 2 \in 1..Len(args) /\ (i + 2) - 1 = i + 1
    BY <1>1
  <2> QED
    BY <1>1, <2>1
<1> QED
  BY <1>1, <1>2, <1>3, <1>4, <1>5

\* An argument that is neither a switch nor a setting with an operand says nothing.
LEMMA NothingSaid ==
    ASSUME Len(args) \in Nat, i \in 1..Len(args), i \notin Operands,
           args[i] \notin {"--production", "--development"}
    PROVE  Said(i + 1) = Said(i)
<1>1. /\ i \notin Ports /\ i \notin Counts /\ i \notin Paths
      /\ i \notin Switched("--production") /\ i \notin Switched("--development")
  BY AtPosition
<1>2. /\ Ports \in SUBSET Nat /\ Counts \in SUBSET Nat /\ Paths \in SUBSET Nat
      /\ Switched("--production") \in SUBSET Nat /\ Switched("--development") \in SUBSET Nat
  BY Positions
<1>3. i \in Nat
  OBVIOUS
<1> QED
  BY <1>1, <1>2, <1>3, LastNext DEF Said

\* A switch says the environment.
LEMMA SwitchSaid ==
    ASSUME Len(args) \in Nat, i \in 1..Len(args), i \notin Operands,
           args[i] \in {"--production", "--development"}
    PROVE  Said(i + 1) = [Said(i) EXCEPT !.production = (args[i] = "--production")]
<1> DEFINE prods == Switched("--production")
           devs == Switched("--development")
<1>1. /\ i \notin Ports /\ i \notin Counts /\ i \notin Paths
      /\ i \in prods <=> args[i] = "--production"
      /\ i \in devs <=> args[i] = "--development"
  BY AtPosition
<1>2. /\ Ports \in SUBSET Nat /\ Counts \in SUBSET Nat /\ Paths \in SUBSET Nat
      /\ prods \in SUBSET Nat /\ devs \in SUBSET Nat
  BY Positions
<1> HIDE DEF prods, devs
<1>3. /\ LastBefore(Ports, i + 1) = LastBefore(Ports, i)
      /\ LastBefore(Counts, i + 1) = LastBefore(Counts, i)
      /\ LastBefore(Paths, i + 1) = LastBefore(Paths, i)
  BY <1>1, <1>2, LastNext
<1>4. (LastBefore(prods, i + 1) > LastBefore(devs, i + 1)) = (args[i] = "--production")
  <2>1. LastBefore(prods, i) \in 0..(i - 1) /\ LastBefore(devs, i) \in 0..(i - 1)
    BY <1>2, LastIsBefore
  <2>2. CASE args[i] = "--production"
    <3>1. LastBefore(prods, i + 1) = i /\ LastBefore(devs, i + 1) = LastBefore(devs, i)
      BY <1>1, <1>2, <2>2, LastNext
    <3> QED
      BY <2>1, <2>2, <3>1
  <2>3. CASE args[i] = "--development"
    <3>1. LastBefore(devs, i + 1) = i /\ LastBefore(prods, i + 1) = LastBefore(prods, i)
      BY <1>1, <1>2, <2>3, LastNext
    <3> QED
      BY <2>1, <2>3, <3>1
  <2> QED
    BY <2>2, <2>3
<1>5. Said(i + 1).production = (args[i] = "--production")
  BY <1>4 DEF Said, prods, devs
<1> QED
  BY <1>3, <1>5 DEF Said

\* A setting says its operand, if it is valid.
LEMMA SettingSaid ==
    ASSUME Len(args) \in Nat, i \in 1..Len(args), i \notin Operands, i < Len(args)
    PROVE  /\ args[i] = "--port" =>
                 Said(i + 2) = [Said(i) EXCEPT !.port = FromChars(args[i + 1], 0, MaxPort, @)]
           /\ args[i] = "--thread_count" =>
                 Said(i + 2) = [Said(i) EXCEPT !.thread_count =
                     FromChars(args[i + 1], -MaxThreadCount, MaxThreadCount, @)]
           /\ args[i] = "--data_path" =>
                 Said(i + 2) = [Said(i) EXCEPT !.root_path = args[i + 1]]
<1> SUFFICES ASSUME args[i] \in Settings
             PROVE  /\ args[i] = "--port" =>
                          Said(i + 2) = [Said(i) EXCEPT !.port =
                              FromChars(args[i + 1], 0, MaxPort, @)]
                    /\ args[i] = "--thread_count" =>
                          Said(i + 2) = [Said(i) EXCEPT !.thread_count =
                              FromChars(args[i + 1], -MaxThreadCount, MaxThreadCount, @)]
                    /\ args[i] = "--data_path" =>
                          Said(i + 2) = [Said(i) EXCEPT !.root_path = args[i + 1]]
  BY DEF Settings
<1> DEFINE j == i + 1
           prods == Switched("--production")
           devs == Switched("--development")
<1>1. /\ i \notin Ports /\ i \notin Counts /\ i \notin Paths
      /\ i \notin prods /\ i \notin devs
      /\ j \in Operands /\ j \notin prods /\ j \notin devs
  BY AtPosition DEF Settings
<1>2. j \in Nat /\ i \in Nat /\ j + 1 = i + 2 /\ j - 1 = i /\ j = i + 1 /\ j # 0
  OBVIOUS
<1>3. /\ j \in Ports <=> args[i] = "--port" /\ FromChars(args[j], 0, MaxPort, None) # None
      /\ j \in Counts <=>
            args[i] = "--thread_count"
              /\ FromChars(args[j], -MaxThreadCount, MaxThreadCount, None) # None
      /\ j \in Paths <=> args[i] = "--data_path"
  BY <1>1, <1>2, Positions
<1>4. /\ Ports \in SUBSET Nat /\ Counts \in SUBSET Nat /\ Paths \in SUBSET Nat
      /\ prods \in SUBSET Nat /\ devs \in SUBSET Nat
  BY Positions
<1> HIDE DEF j, prods, devs
<1>5. \A P \in SUBSET Nat : i \notin P =>
         LastBefore(P, i + 2) = IF j \in P THEN j ELSE LastBefore(P, i)
  <2> TAKE P \in SUBSET Nat
  <2> HAVE i \notin P
  <2>1. LastBefore(P, i + 1) = LastBefore(P, i)
    BY <1>2, LastNext
  <2>2. LastBefore(P, j + 1) = IF j \in P THEN j ELSE LastBefore(P, j)
    BY <1>2, LastNext
  <2> QED
    BY <1>2, <2>1, <2>2
<1>6. /\ LastBefore(prods, i + 2) = LastBefore(prods, i)
      /\ LastBefore(devs, i + 2) = LastBefore(devs, i)
      /\ LastBefore(Ports, i + 2) = IF j \in Ports THEN j ELSE LastBefore(Ports, i)
      /\ LastBefore(Counts, i + 2) = IF j \in Counts THEN j ELSE LastBefore(Counts, i)
      /\ LastBefore(Paths, i + 2) = IF j \in Paths THEN j ELSE LastBefore(Paths, i)
  BY <1>1, <1>4, <1>5
<1>7. CASE args[i] = "--port"
  <2>1. j \notin Counts /\ j \notin Paths
    BY <1>3, <1>7
  <2>2. Said(i + 2).port = FromChars(args[j], 0, MaxPort, Said(i).port)
    <3>1. CASE j \in Ports
      BY <1>2, <1>3, <1>6, <3>1, FromCharsIs DEF Said
    <3>2. CASE j \notin Ports
      <4>1. Said(i + 2).port = Said(i).port
        BY <1>6, <3>2 DEF Said
      <4> QED
        BY <1>3, <1>7, <3>2, <4>1, FromCharsIs
    <3> QED
      BY <3>1, <3>2
  <2> QED
    BY <1>2, <1>6, <1>7, <2>1, <2>2 DEF Said, prods, devs
<1>8. CASE args[i] = "--thread_count"
  <2>1. j \notin Ports /\ j \notin Paths
    BY <1>3, <1>8
  <2>2. Said(i + 2).thread_count
           = FromChars(args[j], -MaxThreadCount, MaxThreadCount, Said(i).thread_count)
    <3>1. CASE j \in Counts
      BY <1>2, <1>3, <1>6, <3>1, FromCharsIs DEF Said
    <3>2. CASE j \notin Counts
      <4>1. Said(i + 2).thread_count = Said(i).thread_count
        BY <1>6, <3>2 DEF Said
      <4> QED
        BY <1>3, <1>8, <3>2, <4>1, FromCharsIs
    <3> QED
      BY <3>1, <3>2
  <2> QED
    BY <1>2, <1>6, <1>8, <2>1, <2>2 DEF Said, prods, devs
<1>9. CASE args[i] = "--data_path"
  <2>1. j \in Paths /\ j \notin Ports /\ j \notin Counts
    BY <1>3, <1>9
  <2>2. Said(i + 2).root_path = args[j]
    BY <1>2, <1>6, <2>1 DEF Said
  <2> QED
    BY <1>2, <1>6, <1>9, <2>1, <2>2 DEF Said, prods, devs
<1> QED
  BY <1>7, <1>8, <1>9

\* A round of the loop of from_cli leaves the types as they are.
LEMMA ParseTypes ==
    ASSUME TypeOK, Len(args) <= MaxArgs, Parse
    PROVE  /\ state = "parsing"
           /\ args' = args
           /\ i' \in 1..(MaxArgs + 2)
           /\ config' \in Configurations
           /\ state' \in {"parsing", "parsed", "exited"}
<1> USE DEF TypeOK
<1>1. Len(args) \in Nat /\ MaxArgs \in Nat /\ i \in Nat /\ config \in Configurations
  BY NumbersAssumption
<1>2. ASSUME NEW word, At(word)
      PROVE  /\ state = "parsing"
             /\ i + 1 \in 1..(MaxArgs + 2)
             /\ AfterOperand \in 1..(MaxArgs + 2)
             /\ HasNext => args[i + 1] \in Words
  BY <1>1, <1>2 DEF At, AfterOperand, HasNext
<1>3. ASSUME NEW word, NEW b \in BOOLEAN, Environment(word, b)
      PROVE  /\ state = "parsing" /\ args' = args /\ state' = state
             /\ i' \in 1..(MaxArgs + 2) /\ config' \in Configurations
  BY <1>1, <1>2, <1>3, ConfigurationFields DEF Environment
<1>4. CASE Port
  <2>1. args[i + 1] \in Words /\ config.port \in 0..MaxPort /\ 0 \in Int /\ MaxPort \in Int
    BY <1>1, <1>2, <1>4, ConfigurationFields, NumbersAssumption DEF Port
  <2>2. FromChars(args[i + 1], 0, MaxPort, config.port) \in 0..MaxPort
    BY <2>1, FromCharsRange
  <2> QED
    BY <1>1, <1>2, <1>4, <2>2, ConfigurationFields DEF Port
<1>5. CASE ThreadCount
  <2>1. /\ args[i + 1] \in Words
        /\ config.thread_count \in (-MaxThreadCount)..MaxThreadCount
        /\ -MaxThreadCount \in Int /\ MaxThreadCount \in Int
    BY <1>1, <1>2, <1>5, ConfigurationFields, NumbersAssumption DEF ThreadCount
  <2>2. FromChars(args[i + 1], -MaxThreadCount, MaxThreadCount, config.thread_count)
            \in (-MaxThreadCount)..MaxThreadCount
    BY <2>1, FromCharsRange
  <2> QED
    BY <1>1, <1>2, <1>5, <2>2, ConfigurationFields DEF ThreadCount
<1>6. CASE DataPath
  BY <1>1, <1>2, <1>6, ConfigurationFields DEF DataPath
<1>7. CASE Help
  BY <1>1, <1>2, <1>7 DEF Help
<1>8. ASSUME NEW word, Ignore(word)
      PROVE  /\ state = "parsing" /\ args' = args /\ state' = state
             /\ i' \in 1..(MaxArgs + 2) /\ config' \in Configurations
  BY <1>1, <1>2, <1>8 DEF Ignore
<1>9. CASE Parsed
  BY <1>1, <1>9 DEF Parsed
<1> QED
  BY <1>3, <1>4, <1>5, <1>6, <1>7, <1>8, <1>9 DEF Parse

-----------------------------------------------------------------------------
(* A round of the loop                                                     *)

LEMMA OperandsStay == args' = args => Operands' = Operands
  BY DEF Operands

LEMMA PositionsStay ==
    ASSUME args' = args
    PROVE  /\ \A word : Switched(word)' = Switched(word)
           /\ Ports' = Ports /\ Counts' = Counts /\ Paths' = Paths
<1>1. /\ \A word : OperandsOf(word)' = OperandsOf(word)
      /\ \A word : Switched(word)' = Switched(word)
  BY OperandsStay DEF OperandsOf, Switched
<1> QED
  BY <1>1 DEF Ports, Counts, Paths, Numeric, FromChars, Read

LEMMA SaidStays ==
    ASSUME args' = args, NEW STATE m, i' = m
    PROVE  Said(i)' = Said(m) /\ Switched("--help")' = Switched("--help")
  BY PositionsStay DEF Said, LastBefore

\* The loop goes on at m.
LEMMA GoesOn ==
    ASSUME state' = "parsing", args' = args, NEW STATE m, i' = m,
           m \in 1..(Len(args) + 1), m \notin Operands, config' = Said(m),
           \A k \in Switched("--help") : k >= m
    PROVE  LoopInv'
  BY OperandsStay, SaidStays DEF LoopInv

\* At the end the arguments before the loop are all there are.
LEMMA AllIsSaid ==
    ASSUME Len(args) \in Nat, config = Said(Len(args) + 1),
           \A k \in Switched("--help") : k >= Len(args) + 1
    PROVE  AllSaid
<1> DEFINE n == Len(args) + 1
<1>1. /\ Ports \in SUBSET 1..Len(args) /\ Counts \in SUBSET 1..Len(args)
      /\ Paths \in SUBSET 1..Len(args)
      /\ \A word : Switched(word) \in SUBSET 1..Len(args)
  BY Positions
<1>2. \A P \in SUBSET 1..Len(args) : LastBefore(P, n) = Last(P)
  <2> TAKE P \in SUBSET 1..Len(args)
  <2>1. \A k \in P : k < n
    OBVIOUS
  <2>2. {k \in P : k < n} = P
    <3> HIDE DEF n
    <3> QED
      BY <2>1, Zenon
  <2> QED
    BY <2>2 DEF LastBefore
<1>3. Switched("--help") = {}
  BY <1>1
<1>4. /\ LastBefore(Ports, n) = Last(Ports)
      /\ LastBefore(Counts, n) = Last(Counts)
      /\ LastBefore(Paths, n) = Last(Paths)
      /\ LastBefore(Switched("--production"), n) = Last(Switched("--production"))
      /\ LastBefore(Switched("--development"), n) = Last(Switched("--development"))
  BY <1>1, <1>2
<1>5. config = Said(n)
  OBVIOUS
<1> HIDE DEF n
<1>6. /\ config.port = IF Last(Ports) = 0 THEN DefaultPort ELSE Number[args[Last(Ports)]]
      /\ config.thread_count = IF Last(Counts) = 0 THEN 0 ELSE Number[args[Last(Counts)]]
      /\ config.root_path = IF Last(Paths) = 0 THEN DefaultRootPath ELSE args[Last(Paths)]
      /\ config.production = (Last(Switched("--production"))
                                > Last(Switched("--development")))
  BY <1>4, <1>5 DEF Said
<1> QED
  BY <1>3, <1>6 DEF AllSaid

\* It stays so while the arguments and the configuration do.
LEMMA AllSaidStays ==
    ASSUME AllSaid, args' = args, config' = config
    PROVE  AllSaid'
  BY PositionsStay DEF AllSaid

LEMMA LoopStep ==
    ASSUME TypeOK, Len(args) <= MaxArgs, LoopInv, Parse
    PROVE  LoopInv'
<1>1. /\ state = "parsing" /\ args' = args /\ Len(args) \in Nat
      /\ i \in 1..(Len(args) + 1) /\ i \notin Operands /\ config = Said(i)
      /\ \A k \in Switched("--help") : k >= i
  BY ParseTypes DEF LoopInv, TypeOK
<1>2. ASSUME NEW word, At(word), word # "--help"
      PROVE  /\ i \in 1..Len(args) /\ args[i] = word
             /\ i + 1 \in 1..(Len(args) + 1)
             /\ HasNext => i + 2 \in 1..(Len(args) + 1)
             /\ \A k \in Switched("--help") : k >= i + 1
  <2>1. i \in 1..Len(args) /\ args[i] = word
    BY <1>1, <1>2 DEF At
  <2>2. i \notin Switched("--help")
    BY <1>1, <1>2, <2>1, AtPosition
  <2>3. \A k \in Switched("--help") : k \in Nat
    BY <1>1, Positions
  <2> QED
    BY <1>1, <2>1, <2>2, <2>3 DEF HasNext
<1>3. ASSUME NEW word, At(word), word \in Settings, HasNext
      PROVE  /\ i + 2 \in 1..(Len(args) + 1) /\ i + 2 \notin Operands
             /\ \A k \in Switched("--help") : k >= i + 2
             /\ i \in 1..Len(args) /\ i < Len(args) /\ args[i] = word
  <2>1. /\ i \in 1..Len(args) /\ args[i] = word /\ i + 2 \in 1..(Len(args) + 1)
        /\ \A k \in Switched("--help") : k >= i + 1
    BY <1>2, <1>3 DEF Settings
  <2>2. i + 2 \notin Operands /\ i + 1 \notin Switched("--help")
    BY <1>1, <1>3, <2>1, AtPosition DEF HasNext
  <2>3. \A k \in Switched("--help") : k \in Nat
    BY <1>1, Positions
  <2> QED
    BY <1>1, <1>3, <2>1, <2>2, <2>3 DEF HasNext
<1>4. ASSUME NEW word, NEW b, Environment(word, b),
             \/ word = "--production" /\ b = TRUE
             \/ word = "--development" /\ b = FALSE
      PROVE  LoopInv'
  <2>1. /\ At(word) /\ i' = i + 1 /\ state' = "parsing"
        /\ config' = [config EXCEPT !.production = b]
    BY <1>1, <1>4 DEF Environment
  <2>2. /\ i \in 1..Len(args) /\ args[i] = word /\ i + 1 \in 1..(Len(args) + 1)
        /\ \A k \in Switched("--help") : k >= i + 1
    BY <1>2, <1>4, <2>1
  <2>3. i + 1 \notin Operands
    BY <1>1, <1>4, <2>2, AtPosition DEF Settings
  <2>4. (args[i] = "--production") = b
    BY <1>4, <2>2
  <2>5. config' = Said(i + 1)
    BY <1>1, <1>4, <2>1, <2>2, <2>4, SwitchSaid
  <2> QED
    BY <1>1, <2>1, <2>2, <2>3, <2>5, GoesOn
<1>5. CASE Port
  <2>1. /\ At("--port") /\ HasNext /\ i' = i + 2 /\ state' = "parsing"
        /\ config' = [config EXCEPT !.port = FromChars(args[i + 1], 0, MaxPort, @)]
    BY <1>1, <1>5 DEF Port, AfterOperand
  <2>2. config' = Said(i + 2)
    BY <1>1, <1>3, <2>1, SettingSaid DEF Settings
  <2> QED
    BY <1>1, <1>3, <2>1, <2>2, GoesOn DEF Settings
<1>6. CASE ThreadCount
  <2>1. /\ At("--thread_count") /\ HasNext /\ i' = i + 2 /\ state' = "parsing"
        /\ config' = [config EXCEPT !.thread_count =
              FromChars(args[i + 1], -MaxThreadCount, MaxThreadCount, @)]
    BY <1>1, <1>6 DEF ThreadCount, AfterOperand
  <2>2. config' = Said(i + 2)
    BY <1>1, <1>3, <2>1, SettingSaid DEF Settings
  <2> QED
    BY <1>1, <1>3, <2>1, <2>2, GoesOn DEF Settings
<1>7. CASE DataPath
  <2>1. /\ At("--data_path") /\ HasNext /\ i' = i + 2 /\ state' = "parsing"
        /\ config' = [config EXCEPT !.root_path = args[i + 1]]
    BY <1>1, <1>7 DEF DataPath, AfterOperand
  <2>2. config' = Said(i + 2)
    BY <1>1, <1>3, <2>1, SettingSaid DEF Settings
  <2> QED
    BY <1>1, <1>3, <2>1, <2>2, GoesOn DEF Settings
<1>8. CASE Help
  BY <1>8 DEF Help, LoopInv
<1>9. ASSUME NEW word, Ignore(word)
      PROVE  LoopInv'
  <2>1. /\ At(word) /\ word \notin Switches /\ (word \in Settings => ~HasNext)
        /\ i' = i + 1 /\ state' = "parsing" /\ config' = config
    BY <1>1, <1>9 DEF Ignore
  <2>2. /\ i \in 1..Len(args) /\ args[i] = word /\ i + 1 \in 1..(Len(args) + 1)
        /\ \A k \in Switched("--help") : k >= i + 1
    BY <1>2, <2>1 DEF Switches
  <2>3. i + 1 \notin Operands
    BY <1>1, <2>1, <2>2, AtPosition DEF HasNext
  <2>4. config' = Said(i + 1)
    BY <1>1, <2>1, <2>2, NothingSaid DEF Switches
  <2> QED
    BY <1>1, <2>1, <2>2, <2>3, <2>4, GoesOn
<1>10. CASE Parsed
  <2>1. /\ i = Len(args) + 1 /\ state' = "parsed"
        /\ UNCHANGED <<args, i, config>>
    BY <1>1, <1>10 DEF Parsed
  <2>2. config = Said(Len(args) + 1) /\ \A k \in Switched("--help") : k >= Len(args) + 1
    BY <1>1, <2>1
  <2>3. AllSaid
    BY <1>1, <2>2, AllIsSaid
  <2>4. AllSaid'
    BY <1>1, <2>1, <2>3, AllSaidStays
  <2> QED
    BY <2>1, <2>4 DEF LoopInv
<1> QED
  BY <1>4, <1>5, <1>6, <1>7, <1>8, <1>9, <1>10 DEF Parse

\* What is not about the arguments leaves them as they are.
LEMMA LoopStays ==
    ASSUME LoopInv, UNCHANGED cli
    PROVE  LoopInv'
<1>1. args' = args /\ i' = i /\ config' = config /\ state' = state
  BY DEF cli
<1>2. CASE state = "parsing"
  BY <1>1, <1>2, GoesOn DEF LoopInv
<1>3. CASE state # "parsing"
  BY <1>1, <1>3, AllSaidStays DEF LoopInv
<1> QED
  BY <1>2, <1>3

\* Before the first argument none has said anything.
LEMMA LoopBegins ==
    ASSUME Len(args) \in Nat, i = 1, config = Defaults, state = "parsing"
    PROVE  LoopInv
<1>1. 1 \notin Operands
  BY OperandsAre
<1>2. /\ Ports \in SUBSET 1..Len(args) /\ Counts \in SUBSET 1..Len(args)
      /\ Paths \in SUBSET 1..Len(args)
      /\ \A word : Switched(word) \in SUBSET 1..Len(args)
  BY Positions
<1>3. \A P \in SUBSET 1..Len(args) : LastBefore(P, 1) = 0
  <2> TAKE P \in SUBSET 1..Len(args)
  <2>1. \A k \in P : ~(k < 1)
    OBVIOUS
  <2>2. {k \in P : k < 1} = {}
    BY <2>1, Zenon
  <2> QED
    BY <2>2 DEF LastBefore, Last
<1>4. /\ LastBefore(Ports, 1) = 0 /\ LastBefore(Counts, 1) = 0 /\ LastBefore(Paths, 1) = 0
      /\ LastBefore(Switched("--production"), 1) = 0
      /\ LastBefore(Switched("--development"), 1) = 0
  BY <1>2, <1>3
<1>5. Said(1) = Defaults
  <2>1. (LastBefore(Switched("--production"), 1)
            > LastBefore(Switched("--development"), 1)) = FALSE
    BY <1>4
  <2> QED
    BY <1>4, <2>1, Zenon DEF Said, Defaults, AutoDetectThreads
<1>6. \A k \in Switched("--help") : k >= 1
  BY <1>2
<1> QED
  BY <1>1, <1>5, <1>6 DEF LoopInv

LEMMA InitIInv == StartInit => IInv
<1> SUFFICES ASSUME StartInit PROVE IInv
  OBVIOUS
<1>1. PICK n \in 0..MaxArgs : args \in [1..n -> Words]
  BY DEF StartInit, Init
<1>2. args \in Seq(Words) /\ Len(args) <= MaxArgs
  BY <1>1, NumbersAssumption
<1>3. Defaults \in Configurations
  BY NumbersAssumption
     DEF Defaults, Configurations, AutoDetectThreads, DefaultRootPath
<1>4. TypeOK
  BY <1>2, <1>3, NumbersAssumption DEF StartInit, Init, TypeOK, Phases
<1>5. LoopInv
  BY <1>2, LoopBegins DEF StartInit, Init
<1> QED
  BY <1>2, <1>4, <1>5 DEF StartInit, Init, IInv, Progress, RunningHasExecutor

\* The number of threads run() makes is never zero (prapancha.cpp:27-30).
LEMMA ThreadCountNotZero ==
    ASSUME active \in Configurations, NEW n \in ThreadCounts
    PROVE  n \in (-MaxThreadCount)..MaxThreadCount /\ n # 0
<1>1. CASE active.thread_count = AutoDetectThreads
  <2>1. PICK cores \in Cores : n = AutoDetect(cores)
    BY <1>1 DEF ThreadCounts
  <2> QED
    BY <2>1, CoresAssumption, NumbersAssumption DEF AutoDetect
<1>2. CASE active.thread_count # AutoDetectThreads
  BY <1>2, ConfigurationFields DEF ThreadCounts, AutoDetectThreads
<1> QED
  BY <1>1, <1>2

\* Every step keeps the invariant.
LEMMA IInvStep == IInv /\ [Next]_vars => IInv'
<1> SUFFICES ASSUME IInv, [Next]_vars PROVE IInv'
  OBVIOUS
<1> USE DEF IInv
<1>0. UNCHANGED cli => LoopInv' /\ args' = args
  BY LoopStays DEF cli
<1>1. CASE ParseArguments
  <2>1. phase = "parse" /\ phase' = phase
    BY <1>1, ParseTypes DEF ParseArguments, Progress
  <2>2. TypeOK'
    BY <1>1, ParseTypes DEF ParseArguments, TypeOK
  <2>3. LoopInv'
    BY <1>1, LoopStep DEF ParseArguments
  <2> QED
    BY <1>1, <2>1, <2>2, <2>3, ParseTypes DEF ParseArguments, Progress, RunningHasExecutor
<1>2. CASE Initialize
  BY <1>0, <1>2 DEF Initialize, Goes, cli, TypeOK, Phases, Progress, RunningHasExecutor
<1>3. CASE MakeDirectory
  BY <1>0, <1>3 DEF MakeDirectory, Goes, cli, TypeOK, Phases, Progress, RunningHasExecutor
<1>4. CASE MakeDirectoryThrows
  BY <1>0, <1>4 DEF MakeDirectoryThrows, Goes, cli, TypeOK, Phases, Progress, RunningHasExecutor
<1>5. CASE Open
  BY <1>0, <1>5 DEF Open, Fails, Goes, cli, TypeOK, Phases, Progress, RunningHasExecutor
<1>6. CASE Bind
  <2>1. active \in Configurations /\ active.port \in 0..MaxPort
    BY <1>0, <1>6, ConfigurationFields DEF Bind, Fails, Goes, Progress, TypeOK
  <2> QED
    BY <1>0, <1>6, <2>1 DEF Bind, Fails, Goes, cli, TypeOK, Phases, Progress, RunningHasExecutor
<1>7. CASE Listen
  BY <1>0, <1>7 DEF Listen, Fails, Goes, cli, TypeOK, Phases, Progress, RunningHasExecutor
<1>8. CASE Start
  <2>1. active \in Configurations
    BY <1>0, <1>8 DEF Start, Goes, Progress, TypeOK
  <2>2. executors' \in 1..MaxThreadCount
    BY <1>0, <1>8, <2>1, ThreadCountNotZero, NumbersAssumption DEF Start
  <2> QED
    BY <1>0, <1>8, <2>2 DEF Start, Goes, cli, TypeOK, Phases, Progress, RunningHasExecutor
<1>9. CASE StartThrows
  <2>1. active \in Configurations
    BY <1>0, <1>9 DEF StartThrows, Goes, Progress, TypeOK
  <2>2. executors' \in 0..MaxThreadCount
    BY <1>0, <1>9, <2>1, ThreadCountNotZero, NumbersAssumption DEF StartThrows
  <2> QED
    BY <1>0, <1>9, <2>2 DEF StartThrows, Goes, cli, TypeOK, Phases, Progress, RunningHasExecutor
<1>10. CASE UNCHANGED vars
  BY <1>0, <1>10 DEF vars, cli, TypeOK, Progress, RunningHasExecutor
<1> QED
  BY <1>1, <1>2, <1>3, <1>4, <1>5, <1>6, <1>7, <1>8, <1>9, <1>10 DEF Next

LEMMA IInvAlways == Spec => []IInv
  BY InitIInv, IInvStep, PTL DEF Spec

\* The variables of run() and from_cli() keep their types: the port is a
\* uint16_t and the number of threads an int, whatever the arguments are.
THEOREM StartTypeCorrect == Spec => []TypeOK
<1>1. IInv => TypeOK
  BY DEF IInv
<1> QED
  BY <1>1, IInvAlways, PTL

\* Every option has its last operand, a number its last valid one, and the
\* environment that of the last switch, however many arguments there are and
\* whatever they say (configuration.cpp:39-73).
THEOREM ArgumentsCorrect == Spec => []LastOneCounts
<1>1. IInv => LastOneCounts
  BY DEF IInv, LoopInv, AllSaid, LastOneCounts, Ports, Counts, Paths
<1> QED
  BY <1>1, IInvAlways, PTL

\* A server that runs has an executor (prapancha.cpp:27-30, 54-59).
THEOREM ExecutorCorrect == Spec => []RunningHasExecutor
<1>1. IInv => RunningHasExecutor
  BY DEF IInv
<1> QED
  BY <1>1, IInvAlways, PTL

\* A server that listens has its directory and the configuration of its
\* arguments, though no executor has been started (prapancha.cpp:25-38).
THEOREM ReadyCorrect == Spec => []ReadyBeforeClients
<1>1. IInv => ReadyBeforeClients
  BY DEF IInv, Progress, ReadyBeforeClients
<1> QED
  BY <1>1, IInvAlways, PTL
=============================================================================

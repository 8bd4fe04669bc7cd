---------------------------- MODULE Configuration ----------------------------
(***************************************************************************)
(* from_cli() (configuration.cpp), argument by argument.                   *)
(*                                                                         *)
(* An argument is an option or a text.  Of a text only the number counts   *)
(* that from_chars reads from its beginning, if there is one.              *)
(***************************************************************************)
EXTENDS Integers, Sequences

CONSTANTS Texts,          \* arguments that are not options
          Number,         \* Number[w]: the number text w begins with, or None
          MaxPort,        \* the largest uint16_t
          MaxThreadCount, \* the largest int
          DefaultPort,
          MaxArgs,        \* bound: arguments
          None

Switches == {"--production", "--development", "--help"}
Settings == {"--port", "--thread_count", "--data_path"}
Words == Switches \cup Settings \cup Texts

ASSUME TextsAssumption ==
    /\ Texts \cap (Switches \cup Settings) = {}
    /\ Number \in [Texts -> Int \cup {None}]

ASSUME NumbersAssumption ==
    /\ MaxArgs \in Nat
    /\ MaxThreadCount \in Nat \ {0}
    /\ MaxPort \in Nat
    /\ DefaultPort \in 0..MaxPort

AutoDetectThreads == 0
DefaultRootPath == "./data"

VARIABLES args,     \* the arguments after the program's name
          i,        \* the index of the loop, from 1
          config,   \* what is parsed so far
          state     \* "parsing", "parsed" or "exited"

cli == <<args, i, config, state>>

Defaults == [production |-> FALSE, port |-> DefaultPort,
             thread_count |-> AutoDetectThreads, root_path |-> DefaultRootPath]

Configurations ==
    [production : BOOLEAN, port : 0..MaxPort,
     thread_count : (-MaxThreadCount)..MaxThreadCount, root_path : Words \cup {DefaultRootPath}]

-----------------------------------------------------------------------------
\* What from_chars reads, for an option too: none of them begins with a number.
Read(word) == IF word \in Texts THEN Number[word] ELSE None

\* Mutant: the number is read as an int and converted.
FromCharsInt(word, low, high, old) ==
    IF Read(word) # None THEN Read(word) ELSE old

\* The variable that from_chars is given, after it: unchanged where there is no
\* number or the number is not of its type.
FromChars(word, low, high, old) ==
    IF Read(word) # None /\ Read(word) >= low /\ Read(word) <= high THEN Read(word) ELSE old

Init ==
    /\ args \in UNION {[1..n -> Words] : n \in 0..MaxArgs}
    /\ i = 1
    /\ config = Defaults
    /\ state = "parsing"

\* The loop is at an argument.
At(word) == state = "parsing" /\ i <= Len(args) /\ args[i] = word

\* Only then does an option take the next argument.
HasNext == i < Len(args)

Environment(word, production) ==
    /\ At(word)
    /\ config' = [config EXCEPT !.production = production]
    /\ i' = i + 1
    /\ UNCHANGED <<args, state>>

\* Mutant: the operand is looked at again, as an option.
AfterOperandAgain == i + 1

\* ++i, and that of the loop.
AfterOperand == i + 2

Port ==
    /\ At("--port") /\ HasNext
    /\ config' = [config EXCEPT !.port = FromChars(args[i + 1], 0, MaxPort, @)]
    /\ i' = AfterOperand
    /\ UNCHANGED <<args, state>>

ThreadCount ==
    /\ At("--thread_count") /\ HasNext
    /\ config' = [config EXCEPT !.thread_count =
          FromChars(args[i + 1], -MaxThreadCount, MaxThreadCount, @)]
    /\ i' = AfterOperand
    /\ UNCHANGED <<args, state>>

DataPath ==
    /\ At("--data_path") /\ HasNext
    /\ config' = [config EXCEPT !.root_path = args[i + 1]]
    /\ i' = AfterOperand
    /\ UNCHANGED <<args, state>>

Help ==
    /\ At("--help")
    /\ state' = "exited"
    /\ UNCHANGED <<args, i, config>>

\* A text, or an option at the end without its operand.
Ignore(word) ==
    /\ At(word)
    /\ word \notin Switches
    /\ word \in Settings => ~HasNext
    /\ i' = i + 1
    /\ UNCHANGED <<args, config, state>>

Parsed ==
    /\ state = "parsing" /\ i > Len(args)
    /\ state' = "parsed"
    /\ UNCHANGED <<args, i, config>>

\* One round of the loop, or its end.
Parse ==
    \/ Environment("--production", TRUE) \/ Environment("--development", FALSE)
    \/ Port \/ ThreadCount \/ DataPath \/ Help
    \/ \E word \in Words : Ignore(word)
    \/ Parsed

-----------------------------------------------------------------------------
(* Properties                                                              *)

\* The positions that are operands: those after a setting that is none itself.
Operands ==
    LET IsOperand[k \in 1..Len(args)] ==
            k > 1 /\ args[k - 1] \in Settings /\ ~IsOperand[k - 1]
    IN  {k \in 1..Len(args) : IsOperand[k]}

\* The positions of the operands of an option.
OperandsOf(option) == {k \in Operands : args[k - 1] = option}

\* The last of the positions P, or 0.
Last(P) == IF P = {} THEN 0 ELSE CHOOSE k \in P : \A l \in P : l <= k

Numeric(option, low, high) ==
    {k \in OperandsOf(option) : FromChars(args[k], low, high, None) # None}

Switched(option) == {k \in 1..Len(args) \ Operands : args[k] = option}

\* Every setting has its last operand, a number its last valid one; an operand is
\* never an option, and the environment is that of the last switch
\* (configuration.cpp:39-73).
LastOneCounts ==
    state = "parsed" =>
        LET port == Last(Numeric("--port", 0, MaxPort))
            count == Last(Numeric("--thread_count", -MaxThreadCount, MaxThreadCount))
            path == Last(OperandsOf("--data_path"))
        IN  /\ config.port = IF port = 0 THEN DefaultPort ELSE Number[args[port]]
            /\ config.thread_count = IF count = 0 THEN 0 ELSE Number[args[count]]
            /\ config.root_path = IF path = 0 THEN DefaultRootPath ELSE args[path]
            /\ config.production <=>
                  Last(Switched("--production")) > Last(Switched("--development"))
            /\ Switched("--help") = {}

\* "numeric values that fail validation revert to the defaults specified in the
\* struct" (configuration.cpp:35), and the warning says so (configuration.cpp:50).
\* The code violates it: from_chars leaves the value of an earlier option.
InvalidReverts ==
    state = "parsed" =>
        \A k \in OperandsOf("--port") :
            (k = Last(OperandsOf("--port")) /\ k \notin Numeric("--port", 0, MaxPort))
                => config.port = DefaultPort
=============================================================================

----------------------------- MODULE MCStartUp -----------------------------
\* StartUp, and with it Configuration, on small instances.
EXTENDS StartUp, TLC

\* A port; a number of threads that is no port; one that is neither; zero; a
\* negative number; and no number.
SomeTexts == {"2", "3", "100", "0", "-2", "x"}

SomeNumbers ==
    "2" :> 2 @@ "3" :> 3 @@ "100" :> 100 @@ "0" :> 0 @@ "-2" :> -2 @@ "x" :> None

UnknownOrMany == {0, 4}
=============================================================================

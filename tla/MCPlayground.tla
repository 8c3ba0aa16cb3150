--------------------------- MODULE MCPlayground ---------------------------
\* Four texts: the one a page starts with, one that is laid out badly, one with an error
\* that cannot be formatted, and the empty one, on which the compiler fails.
EXTENDS Playground, TLC

MCCodes == {"welcome", "ugly", "wrong", "empty"}
MCVerdict == ("welcome" :> "ok") @@ ("ugly" :> "warning") @@ ("wrong" :> "error") @@ ("empty" :> "trap")
MCFormatted == ("welcome" :> "welcome") @@ ("ugly" :> "welcome") @@ ("wrong" :> "none") @@ ("empty" :> "none")
=============================================================================

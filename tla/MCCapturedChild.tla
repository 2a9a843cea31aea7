-------------------------- MODULE MCCapturedChild --------------------------
(* Calls of every kind, for TLC.  The first stream is written to past the   *)
(* limit and past what the pipe holds.                                      *)
EXTENDS CapturedChild

TwoStreams == [s \in {"stdout", "stderr"} |-> IF s = "stdout" THEN 2 ELSE 1]
OneStream == [s \in {"stdout"} |-> 4]

Call(captured, limited, output, ends, breaks) ==
    [captured |-> captured, timeout |-> limited, output |-> output,
     ends |-> ends, breaks |-> breaks]

\* With two streams and every failure; one that may hang until its time is over,
\* or until it is cancelled or cannot be read; one that ends; and one with
\* inherited streams.
SomeCalls ==
    {Call(TRUE, TRUE, TwoStreams, FALSE, TRUE), Call(TRUE, FALSE, OneStream, FALSE, TRUE),
     Call(TRUE, FALSE, OneStream, TRUE, FALSE), Call(FALSE, TRUE, OneStream, FALSE, TRUE)}
=============================================================================

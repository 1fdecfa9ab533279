----------------------------- MODULE MCFeedFlow -----------------------------
\* Small pipelines for FeedFlow.
EXTENDS FeedFlow

CONSTANTS src, filter, delay, enc, lim, out

\* A source that feeds an encoder, with a sink behind it, and a delay buffer.
Fork         == {src, enc, out, delay}
ForkProvider == [n \in Fork |-> CASE n = src -> None [] n = out -> enc [] OTHER -> src]
ForkKind     == [n \in Fork |-> CASE n = src -> "source"  [] n = enc -> "encoder"
                                  [] n = out -> "batch"   [] n = delay -> "delay"]

\* A source, a rate limiter, a filter and a delay buffer in a row.
Chain         == {src, lim, filter, delay}
ChainProvider == [n \in Chain |-> CASE n = src    -> None [] n = lim   -> src
                                    [] n = filter -> lim  [] n = delay -> filter]
ChainKind     == [n \in Chain |-> CASE n = src    -> "source" [] n = lim   -> "paced"
                                    [] n = filter -> "batch"  [] n = delay -> "delay"]

Short         == {src, delay}
ShortProvider == [n \in Short |-> ForkProvider[n]]
ShortKind     == [n \in Short |-> ForkKind[n]]

OnlySource == {src}
=============================================================================

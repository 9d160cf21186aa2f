---------------------------- MODULE MCImageSource ----------------------------
(* Model values for ImageSource: short bodies, one for each way the demuxer fails. *)
EXTENDS ImageSource

Harmless(bytes) == [bytes |-> bytes, inner |-> {}, status |-> {}, refused |-> {}, empty |-> {}]

\* Two packets without an FF inside: a demuxer that starts inside the first, which
\* is long enough to fill a push alone, finds the second.
Plain == Harmless(<<"start", "other", "other", "other", "other", "start", "other">>)

\* Three packets with an FF inside two of them, once with and once without bytes
\* after it.
WithFF == Harmless(<<"start", "other", "ff", "other", "start", "ff", "start">>)

\* A number of three bytes in a packet with an FF behind it: pushes may cut it,
\* twice even, and its packet then ends within itself, in the next one or never.
WithNumber ==
    [Harmless(<<"start", "other", "other", "other", "ff", "start", "other">>) EXCEPT !.inner = {3, 4}]

\* An additional status with the three bytes it is compared with, in two packets.
WithStatus ==
    [Harmless(<<"start", "other", "other", "other", "other", "start", "other">>) EXCEPT
        !.status = {2}, !.refused = {7}]

\* An image of no bytes, which may come alone or with the packet behind it.
WithEmpty == [Harmless(<<"start", "other", "start", "other", "start">>) EXCEPT !.empty = {1, 3}]

MCBodies == {Plain, WithFF, WithNumber, WithStatus, WithEmpty}
=============================================================================

------------------------------ MODULE MCCodec -------------------------------
(***************************************************************************)
(* Codec with bytes of four values, a window of 16 and a table of 8.       *)
(***************************************************************************)
EXTENDS Codec

\* Half of the values of a byte collide.
MCHash(bytes) == (bytes[1] + bytes[2]) % 2

Words(S, lengths) == UNION {[1 .. k -> S] : k \in lengths}

Rep(k, b) == [i \in 1 .. k |-> b]

\* A pattern, `gap` bytes further the same again, and one byte.
Again(gap) == <<2, 3>> \o Rep(gap - 2, 0) \o <<2, 3, 1>>

\* Everything short; then inputs longer than the window, in which chains run
\* through slots of prev that were taken over.
MCLong ==
  { Again(14), Again(15), Again(16), Again(17),
    <<2, 3, 2, 2, 3, 3>> \o Rep(13, 1) \o <<2, 3, 2, 0, 1, 2, 3, 3>>,
    [i \in 1 .. 24 |-> (i * i) % 3] \o <<1, 2, 1>>,
    [i \in 1 .. 22 |-> (i * i * i + i \div 4) % 4],
    Rep(21, 0) \o <<1, 2, 3>>,
    Rep(20, 0) \o <<1, 2>>,
    Rep(30, 3) }

MCLzInputs == Words(Octet, 0 .. 4) \cup Words({1, 2}, 5 .. 8) \cup MCLong

MCWindowInputs == { Again(15), Again(16) }

MCFastaInputs == { Rep(21, 0) \o <<1, 2, 3>> }
=============================================================================

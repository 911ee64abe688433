-------------------------------- MODULE Rans --------------------------------
(***************************************************************************)
(* ans.rs: ans_encode, then ans_decode of what it wrote.                   *)
(*                                                                         *)
(* The state is a number in TableSize .. TableSize * Radix - 1.  Encoding  *)
(* a symbol of frequency f moves it up by the factor TableSize / f, after  *)
(* low bytes were pushed out so that the result stays in the interval.     *)
(* Encoding goes from the last symbol to the first, and the bytes are      *)
(* reversed once at the end: the decoder reads first what was pushed last. *)
(* The stream is therefore a stack here.  The frequency table travels in   *)
(* the header as 16-bit numbers, the state in front of the stream.         *)
(***************************************************************************)
EXTENDS Octets, FiniteSets, SequencesExt

CONSTANT TableSize  \* L: 2048 in the code

ASSUME TableSizeAssumption == TableSize \in Nat \ {0}

VARIABLES
  symbols,    \* the argument of ans_encode
  freq,       \* the normalised table
  cdf, ci,    \* its cumulative sums, built up to ci
  left,       \* how many symbols are still to be encoded
  state,      \* the coder's state: `state` of the encoder, `x` of the decoder
  stream,     \* the bytes pushed out, the next to be read last
  output,     \* what ans_decode has decoded
  trace,      \* history: the encoder's states that the decoder has yet to visit
  apc         \* control

tables   == <<symbols, freq, cdf, ci>>
ransVars == <<tables, left, state, stream, output, trace, apc>>

-----------------------------------------------------------------------------
(* The frequency table. *)

CountFreq(data) ==
  [s \in Octet |-> Cardinality({i \in DOMAIN data : data[i] = s})]

\* Mutation: a rare symbol is rounded down to nothing.
ScaledToZero(count, total) == (count * TableSize) \div total

\* exact / total, but no less than 1 for a symbol that occurs.
Scaled(count, total) ==
  IF count > 0 /\ count * TableSize < total THEN 1
  ELSE (count * TableSize) \div total

\* The sums of what the first octets have in f.
SumsTo(f) ==
  LET sum[i \in 0 .. Radix] == IF i = 0 THEN 0 ELSE sum[i - 1] + f[i - 1] IN sum

\* Mutation: one remainder too few gets its slot.
MissingOneLess(assigned) == TableSize - assigned - 1

Missing(assigned) == TableSize - assigned

\* What is missing after rounding goes by 1 each to the largest remainders; what
\* is too much is taken by 1 each from the smallest ones, where more than 1 is
\* there to take from: once around, even when that is not enough.
Normalise(raw, total) ==
  LET occurs    == {s \in Octet : raw[s] > 0}
      floor     == [s \in Octet |-> Scaled(raw[s], total)]
      rem       == [s \in Octet |-> (raw[s] * TableSize) % total]
      missing   == Missing(SumsTo(floor)[Radix])
      larger(s) == {t \in occurs : rem[t] > rem[s] \/ (rem[t] = rem[s] /\ t < s)}
      below(s)  == {t \in occurs : rem[t] < rem[s] \/ (rem[t] = rem[s] /\ t < s)}
      payers(s) == {t \in below(s) : floor[t] > 1}
  IN [s \in Octet |->
        IF s \in occurs /\ Cardinality(larger(s)) < missing THEN floor[s] + 1
        ELSE IF floor[s] > 1 /\ Cardinality(payers(s)) < - missing THEN floor[s] - 1
        ELSE floor[s]]

RansInit ==
  /\ symbols = <<>> /\ freq = [s \in Octet |-> 0]
  /\ cdf = [s \in 0 .. Radix |-> 0] /\ ci = 0
  /\ left = 0 /\ state = 0 /\ stream = <<>> /\ output = <<>> /\ trace = <<>>
  /\ apc = "idle"

\* ans_encode(data).  compress_full has returned before for an empty chunk, and
\* the tokens of another are never empty.
Load(data) ==
  /\ apc = "idle" /\ data # <<>>
  /\ symbols' = data
  /\ freq' = Normalise(CountFreq(data), Len(data))
  /\ apc' = "cdf"
  /\ UNCHANGED <<cdf, ci, left, state, stream, output, trace>>

BuildCdf ==
  /\ apc = "cdf" /\ ci < Radix
  /\ cdf' = [cdf EXCEPT ![ci + 1] = cdf[ci] + freq[ci]]
  /\ ci' = ci + 1
  /\ UNCHANGED <<symbols, freq, left, state, stream, output, trace, apc>>

-----------------------------------------------------------------------------
(* Encoding. *)

Here(x, l, d) == [x |-> x, left |-> l, depth |-> d]

StartEncode ==
  /\ apc = "cdf" /\ ci = Radix
  /\ state' = TableSize /\ left' = Len(symbols)
  /\ trace' = <<Here(TableSize, Len(symbols), 0)>>
  /\ apc' = "encode"
  /\ UNCHANGED <<tables, stream, output>>

NextSymbol == symbols[left]

Push ==
  /\ apc = "encode" /\ left > 0
  /\ state >= freq[NextSymbol] * Radix
  /\ stream' = Append(stream, state % Radix)
  /\ state' = state \div Radix
  /\ trace' = Append(trace, Here(state', left, Len(stream')))
  /\ UNCHANGED <<tables, left, output, apc>>

\* Mutation: the remainder is forgotten.
EncodedCoarse(x, s) == (x \div freq[s]) * TableSize + cdf[s]

\* Encoding s moves the state x to this one.
Encoded(x, s) == (x \div freq[s]) * TableSize + cdf[s] + (x % freq[s])

EncodeSymbol ==
  /\ apc = "encode" /\ left > 0
  /\ state < freq[NextSymbol] * Radix
  /\ state' = Encoded(state, NextSymbol)
  /\ left' = left - 1
  /\ trace' = Append(trace, Here(state', left', Len(stream)))
  /\ UNCHANGED <<tables, stream, output, apc>>

-----------------------------------------------------------------------------
(* Decoding.  build_alias has TableSize slots and writes one for each unit *)
(* of frequency: a table with more of them is an index out of bounds.      *)

StartDecode ==
  /\ apc = "encode" /\ left = 0
  /\ \/ cdf[Radix] > TableSize /\ apc' = "panicked"
     \/ cdf[Radix] <= TableSize /\ apc' = "decode"
  /\ UNCHANGED <<tables, left, state, stream, output, trace>>

Owns(s, slot) == cdf[s] <= slot /\ slot < cdf[s] + freq[s]

\* A slot that no symbol owns keeps the 0 that it was made with.
Alias(slot) ==
  IF \E s \in Octet : Owns(s, slot) THEN CHOOSE s \in Octet : Owns(s, slot) ELSE 0

DecodeSymbol ==
  /\ apc = "decode" /\ Len(output) < Len(symbols)
  /\ LET slot == state % TableSize
         s    == Alias(slot)
     IN /\ output' = Append(output, s)
        /\ state' = freq[s] * (state \div TableSize) + slot - cdf[s]
  /\ trace' = Front(trace)
  /\ apc' = "refill"
  /\ UNCHANGED <<tables, left, stream>>

\* Mutation: one byte is read for every symbol that wants any.
NeedsByteOnce == state < TableSize \div Radix /\ stream # <<>>

NeedsByte == state < TableSize /\ stream # <<>>

Refill ==
  /\ apc = "refill" /\ NeedsByte
  /\ state' = state * Radix + Last(stream)
  /\ stream' = Front(stream)
  /\ trace' = Front(trace)
  /\ UNCHANGED <<tables, left, output, apc>>

EndRefill ==
  /\ apc = "refill" /\ ~NeedsByte
  /\ apc' = "decode"
  /\ UNCHANGED <<tables, left, state, stream, output, trace>>

EndAnsDecode ==
  /\ apc = "decode" /\ Len(output) = Len(symbols)
  /\ apc' = "decoded"
  /\ UNCHANGED <<tables, left, state, stream, output, trace>>

-----------------------------------------------------------------------------
Coding ==
  \/ BuildCdf \/ StartEncode \/ Push \/ EncodeSymbol
  \/ StartDecode \/ DecodeSymbol \/ Refill \/ EndRefill \/ EndAnsDecode

RansNext == (\E data \in Seq(Octet) : Load(data)) \/ Coding

RansSpec == RansInit /\ [][RansNext]_ransVars
-----------------------------------------------------------------------------
\* The types; a symbol that occurs has a slot of its own, and with a table that
\* fits the state stays below b * L, as "State x in [L, bL)" (ans.rs:3) says.
RansTypeOK ==
  /\ symbols \in Seq(Octet) /\ output \in Seq(Octet) /\ stream \in Seq(Octet)
  /\ freq \in [Octet -> Nat]
  /\ cdf \in [0 .. Radix -> Nat] /\ ci \in 0 .. Radix
  /\ left \in 0 .. Len(symbols)
  /\ apc \in {"idle", "cdf", "encode", "decode", "refill", "decoded", "panicked"}
  /\ apc # "idle" => \A i \in DOMAIN symbols : freq[symbols[i]] > 0
  /\ state \in Nat
  /\ apc \in {"encode", "decode", "refill"} /\ cdf[Radix] <= TableSize =>
       state < TableSize * Radix

\* The decoder is, at every byte and every symbol, in a state in which the
\* encoder was, in the reverse order: what it has decoded is what was still to
\* be encoded there, and it reads back the bytes that were pushed since.
DecoderRetraces ==
  apc \in {"decode", "refill"} =>
    Last(trace) = Here(state, Len(output), Len(stream))

\* Decoding gives the symbols back, and ends where encoding began: the state is
\* L again and no byte is left.
RansExact ==
  apc = "decoded" =>
    output = symbols /\ state = TableSize /\ stream = <<>>

\* Rounding never leaves a slot of the table without a symbol.
NeverShort == apc = "encode" => cdf[Radix] >= TableSize

\* "assert_eq!(norm.iter().sum::<u32>(), TABLE_SIZE)" (ans.rs:240).
TableFull == apc = "encode" => cdf[Radix] = TableSize
=============================================================================

------------------------------- MODULE Varint -------------------------------
(***************************************************************************)
(* QUIC variable-length integers (src/transport/varint.rs): the two top    *)
(* bits of the first byte say how many bytes there are.                    *)
(***************************************************************************)
EXTENDS Integers, Sequences, SequencesExt

Byte == 0 .. 255

\* varint::MAX: what has 62 bits can be put.
Fits(value) == (value \div 2 ^ 30) \div 4 < 2 ^ 30

\* varint::len
VarintLen(value) ==
    IF value < 64 THEN 1
    ELSE IF value < 16384 THEN 2
    ELSE IF value < 2 ^ 30 THEN 4 ELSE 8

\* What the top bits add to the first byte.
Prefix(n) == 64 * (CHOOSE k \in 0 .. 3 : 2 ^ k = n)

\* varint::put
Put(value) ==
    LET n == VarintLen(value)
        shifted[k \in 0 .. n - 1] == IF k = 0 THEN value ELSE shifted[k - 1] \div 256
    IN  [i \in 1 .. n |-> (shifted[n - i] % 256) + (IF i = 1 THEN Prefix(n) ELSE 0)]

NotWhole == [value |-> 0, used |-> 0]

\* varint::get; nothing is used of an integer that has not all arrived.
Get(bytes) ==
    IF bytes = <<>> THEN NotWhole
    ELSE LET n == 2 ^ (bytes[1] \div 64)
             read[i \in 1 .. n] == IF i = 1 THEN bytes[1] % 64 ELSE read[i - 1] * 256 + bytes[i]
         IN  IF Len(bytes) < n THEN NotWhole ELSE [value |-> read[n], used |-> n]

\* What is left of `bytes` once `n` of them are taken (Buf::advance).
Advance(bytes, n) == SubSeq(bytes, n + 1, Len(bytes))

\* A frame or a capsule as an endpoint means it, and what is written of it, its integers
\* in their shortest form: a type, the length it declares, and a payload.
Framed == [type : Nat, length : Nat, payload : Seq(Byte)]

Bytes(framed) == Put(framed.type) \o Put(framed.length) \o framed.payload

Said(all) == FlattenSeq([i \in DOMAIN all |-> Bytes(all[i])])
=============================================================================

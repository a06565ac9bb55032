------------------------------- MODULE Ciphers -------------------------------
(***************************************************************************)
(* The insecure sockets layer                                              *)
(* (src/rust/p08-insecure-sockets-layer/src/cipher.rs): the operations of  *)
(* a cipher spec on a byte at its position in a stream, and the codec that *)
(* reads a spec and then the bytes it obfuscates.                          *)
(***************************************************************************)
EXTENDS Integers, Sequences, SequencesExt

\* What is in a set of one: {f(v) : v \in {e}} evaluates e once.
Once(set) == CHOOSE v \in set : TRUE

Byte == 0..255

\* The bits of a byte, the lowest first; of a position those of its lowest byte.
Weight == <<1, 2, 4, 8, 16, 32, 64, 128>>
Bit(v, i) == (v \div Weight[i]) % 2
FromBits(b) == b[1] + 2 * b[2] + 4 * b[3] + 8 * b[4] + 16 * b[5] + 32 * b[6] + 64 * b[7] + 128 * b[8]

ReversedBits(v) == FromBits([i \in 1..8 |-> Bit(v, 9 - i)])
Xor(v, w) == FromBits([i \in 1..8 |-> (Bit(v, i) + Bit(w, i)) % 2])

\* An operation is its name, and an operand if it has one.  Its code is its place here.
Operations == <<"Reversebits", "Xor", "Xorpos", "Add", "Addpos">>
WithOperand == {"Xor", "Add"}
Operation ==
    {<<"Reversebits">>, <<"Xorpos">>, <<"Addpos">>}
        \cup {<<name, n>> : name \in WithOperand, n \in Byte}

EncodeBy(operation, position, v) ==
    CASE operation[1] = "Reversebits" -> ReversedBits(v)
      [] operation[1] = "Xor"    -> Xor(v, operation[2])
      [] operation[1] = "Xorpos" -> Xor(position, v)
      [] operation[1] = "Add"    -> (v + operation[2]) % 256
      [] operation[1] = "Addpos" -> (position + v) % 256

\* A usize wraps around at a multiple of 256.
DecodeBy(operation, position, v) ==
    CASE operation[1] = "Reversebits" -> ReversedBits(v)
      [] operation[1] = "Xor"    -> Xor(v, operation[2])
      [] operation[1] = "Xorpos" -> Xor(position, v)
      [] operation[1] = "Add"    -> (v - operation[2]) % 256
      [] operation[1] = "Addpos" -> (v - position) % 256

EncodeByte(spec, position, v) ==
    LET after[i \in 0..Len(spec)] ==
            IF i = 0 THEN v
            ELSE Once({EncodeBy(spec[i], position, b) : b \in {after[i - 1]}})
    IN after[Len(spec)]

\* A bug: the operations are undone in the order in which they were done.
DecodesForward(spec, position, v) ==
    LET before[i \in 0..Len(spec)] ==
            IF i = 0 THEN v
            ELSE Once({DecodeBy(spec[i], position, b) : b \in {before[i - 1]}})
    IN before[Len(spec)]

\* What the first operation was applied to comes last.
DecodeByte(spec, position, v) ==
    LET before[i \in 0..Len(spec)] ==
            IF i = 0 THEN v
            ELSE Once({DecodeBy(spec[Len(spec) + 1 - i], position, b) : b \in {before[i - 1]}})
    IN before[Len(spec)]

\* The bytes of a spec.
Code(name) == CHOOSE code \in DOMAIN Operations : Operations[code] = name
SpecBytes(spec) ==
    FlattenSeq([i \in DOMAIN spec |-> [spec[i] EXCEPT ![1] = Code(@)]]) \o <<0>>

\* CHECK_PHRASE, "hello"
Phrase == <<104, 101, 108, 108, 111>>

\* A spec is taken for one that does nothing if it leaves the phrase as it is.
IsValid(spec) == \E i \in DOMAIN Phrase : EncodeByte(spec, i - 1, Phrase[i]) # Phrase[i]

-----------------------------------------------------------------------------
(* The codec *)

\* upstream and downstream are the positions of the next byte received and sent.
\* cut is set once a spec was not over where the bytes at hand were.
NoSpec == [complete |-> FALSE, spec |-> <<>>, upstream |-> 0, downstream |-> 0, cut |-> FALSE]

\* The operations in a buffer: code is that of one whose operand comes next, and
\* rest what follows the spec.
ReadBy(reading, b) ==
    IF reading.is # "incomplete" THEN [reading EXCEPT !.rest = Append(@, b)]
    ELSE IF reading.code # 0
    THEN [reading EXCEPT !.spec = Append(@, <<Operations[reading.code], b>>), !.code = 0]
    ELSE IF b = 0 THEN [reading EXCEPT !.is = "complete"]
    ELSE IF b \notin DOMAIN Operations THEN [reading EXCEPT !.is = "bad"]
    ELSE IF Operations[b] \in WithOperand THEN [reading EXCEPT !.code = b]
    ELSE [reading EXCEPT !.spec = Append(@, <<Operations[b]>>)]

Reading(spec, buffer) ==
    LET after[i \in 0..Len(buffer)] ==
            IF i = 0 THEN [is |-> "incomplete", spec |-> spec, code |-> 0, rest |-> <<>>]
            ELSE Once({ReadBy(reading, buffer[i]) : reading \in {after[i - 1]}})
    IN after[Len(buffer)]

\* What the codec makes of a buffer in which it looks for its spec.  Without its end,
\* an operation whose operand is not there is dropped together with the buffer; and
\* otherwise the codec goes over the same bytes for ever.
\* r is what it read.
SpecRead(codec, buffer, r) ==
    LET is == IF r.is = "incomplete" THEN IF r.code # 0 \/ buffer = <<>> THEN "more" ELSE "spins"
              ELSE IF r.is = "complete" /\ ~IsValid(r.spec) THEN "bad"
              ELSE r.is
    IN [is |-> is, rest |-> r.rest,
        codec |-> [codec EXCEPT !.spec = r.spec, !.complete = (is = "complete"),
                                !.cut = @ \/ is = "spins" \/ (is = "more" /\ buffer # <<>>)]]

ReadSpec(codec, buffer) ==
    Once({SpecRead(codec, buffer, r) : r \in {Reading(codec.spec, buffer)}})
=============================================================================

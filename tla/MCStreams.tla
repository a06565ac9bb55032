------------------------------ MODULE MCStreams ------------------------------
(* Exchanges of every format, with the packets that have texts and arrays.   *)
EXTENDS Streams

X(format, packets, tail) ==
    [format |-> format, spec |-> <<>>, packets |-> packets, tail |-> tail]
C(spec, packets) == [format |-> "cipher", spec |-> spec, packets |-> packets, tail |-> <<>>]

\* The examples of the ciphers' documentation (p08 lib.rs:97-143) for "hello".
Encrypted(spec) == [i \in DOMAIN Phrase |-> EncodeByte(spec, i - 1, Phrase[i])]

ASSUME CipherExamples ==
    /\ Encrypted(<< <<"Xor", 1>>, <<"Reversebits">> >>) = <<150, 38, 182, 182, 118>>
    /\ Encrypted(<< <<"Addpos">>, <<"Addpos">> >>) = <<104, 103, 112, 114, 119>>

MCExchanges == {
    X("lines", << << <<97, 98>> >>, << <<>> >>, << <<99>> >> >>, <<>>),
    X("lines", << << <<97>> >> >>, <<98>>),
    X("chunks", << << <<1, 2>> >>, << <<3, 4>> >> >>, <<5>>),
    \* Plate and Heartbeat, then no tag
    X("wire", << <<32, <<85>>, 3>>, <<65>> >>, <<0>>),
    \* IAmCamera and WantHeartbeat
    X("wire", << <<128, 1, 2, 3>>, <<64, 258>> >>, <<>>),
    \* Error and IAmDispatcher, then the beginning of a Plate
    X("wire", << <<16, <<120>>>>, <<129, 1, 7>> >>, <<32, 1>>),
    X("wire", << <<33, <<85>>, 1, 2, 3, 4, 5, 600>> >>, <<>>),
    X("tokio", << <<32, <<86>>, 7>>, <<129, 2, 8, 9>>, <<16, <<>> >> >>, <<>>),
    \* Ok, DeletePolicy and CreatePolicy
    X("pest", << <<82>>, <<86, 5>>, <<85, <<100>>, 144>> >>, <<>>),
    \* TargetPopulations and PolicyResult, then an Ok with a wrong checksum
    X("pest", << <<84, 1, 1, <<100>>, 2, 3>>, <<87, 9>> >>, <<82, 0, 0, 0, 6, 1>>),
    \* Hello and SiteVisit, then an Ok longer than it is
    X("pest", << <<80, <<112>>, 1>>, <<88, 1, 1, <<99>>, 4>> >>, <<82, 0, 0, 0, 7, 167, 0, 0>>),
    \* Error and DialAuthority, then a DeletePolicy shorter than it is
    X("pest", << <<81, <<98>> >>, <<83, 7>> >>, <<86, 0, 0, 0, 6, 0, 0, 0, 5, 159>>),
    \* Ciphers, one that does nothing, and one with an operation that is none
    C(<< <<"Xor", 1>>, <<"Reversebits">> >>, << <<104>>, <<255>> >>),
    C(<< <<"Addpos">>, <<"Add", 200>>, <<"Xorpos">> >>, << <<255>>, <<10>>, <<100>> >>),
    X("cipher", <<>>, <<2, 171, 2, 171, 0>>),
    X("cipher", <<>>, <<1, 6>>)
}
=============================================================================

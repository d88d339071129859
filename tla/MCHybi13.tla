------------------------------ MODULE MCHybi13 ------------------------------
(* Small instances of Hybi13 for TLC.                                          *)
EXTENDS Hybi13, Bitwise

MCByteXor == [a \in Byte |-> [b \in Byte |-> a ^^ b]]

\* A letter, the two bytes of another, and the first of the three of a third; and one
\* that no text has.
Whole == 97
First == 195
Second == 169
FirstOfThree == 226
Never == 255

Frame(op, fin, payload) ==
    [op |-> op, fin |-> fin, payload |-> payload, masked |-> TRUE, rsv |-> 0, code |-> 7,
     key |-> IF op = CONTINUATION THEN <<5, 6, 7, 8>> ELSE <<1, 2, 3, 4>>]

Fragments ==
    {Frame(TEXT, FALSE, <<Whole, First>>), Frame(TEXT, FALSE, <<First>>),
     Frame(TEXT, FALSE, <<>>), Frame(TEXT, FALSE, <<FirstOfThree, Second>>),
     Frame(CONTINUATION, FALSE, <<Second>>),
     Frame(CONTINUATION, TRUE, <<Second>>), Frame(CONTINUATION, TRUE, <<>>),
     Frame(CONTINUATION, TRUE, <<Whole>>)}
Wholes ==
    {Frame(TEXT, TRUE, <<>>), Frame(TEXT, TRUE, <<First, Second>>),
     Frame(TEXT, TRUE, <<Whole, First>>), Frame(PING, TRUE, <<Whole>>), Frame(CLOSE, TRUE, <<>>)}
Wrong ==
    {Frame(PING, FALSE, <<>>), Frame(TEXT, TRUE, <<Second>>), Frame(TEXT, FALSE, <<Never>>), Frame(3, TRUE, <<>>),
     [Frame(TEXT, TRUE, <<Whole>>) EXCEPT !.masked = FALSE],
     [Frame(TEXT, TRUE, <<Whole>>) EXCEPT !.code = 16],
     [Frame(TEXT, TRUE, <<>>) EXCEPT !.rsv = 4]}

\* Up to three frames; one that is wrong in itself ends them.
Legals == Fragments \cup Wholes
MCStreams ==
    LET before == {<<>>} \cup {<<f>> : f \in Legals} \cup {<<f, g>> : f, g \in Legals}
    IN {Append(s, f) : s \in before, f \in Legals \cup Wrong}
=============================================================================

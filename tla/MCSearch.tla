------------------------------ MODULE MCSearch -------------------------------
(***************************************************************************)
(* Two files and three tags, one of each not arrived yet.                  *)
(***************************************************************************)
EXTENDS Search

Photo == <<0, 0, 1>>    Notes == <<0, 1, 0>>
Beach == <<0, 1, 1>>    Trip == <<0, 0, 1>>    Cafe == <<0, 1, 0>>

Files == {Photo, Notes}
Tags == {Beach, Trip, Cafe}
LateFiles == {Notes}
LateTags == {Cafe}
Paths == Photo :> "beach.jpg" @@ Notes :> "cafe.txt"
TagNames == Beach :> "beach" @@ Trip :> "trip" @@ Cafe :> "cafe"
Hashes == Photo :> <<1, 0>> @@ Notes :> <<0, 1>>

\* A name; a name that is digits too; digits alone; a regular expression.
Beachy == [hits |-> {"beach", "beach.jpg"}, exact |-> "beach", digits |-> NotDigits, regex |-> FALSE]
Coffee == [hits |-> {"cafe", "cafe.txt"}, exact |-> "cafe", digits |-> <<0, 1>>, regex |-> FALSE]
Digit == [hits |-> {}, exact |-> NotDigits, digits |-> <<0>>, regex |-> FALSE]
Pattern == [hits |-> {"beach.jpg", "cafe.txt", "trip"}, exact |-> NotDigits, digits |-> NotDigits,
            regex |-> TRUE]
Texts == {Beachy, Coffee, Digit, Pattern}

Payload(text) == [is |-> "payload", text |-> text]
Prefix(is) == [is |-> is, text |-> Beachy]
Words == {Payload(text) : text \in Texts} \cup {Prefix(is) : is \in {"!", "open"} \cup Kinds}

Tokens(kinds, texts) ==
    {<<Payload(text)>> : text \in texts} \cup {<<Prefix("!"), Payload(text)>> : text \in texts}
    \cup {<<Prefix(kind), Payload(text)>> : kind \in kinds, text \in texts}
    \cup {<<Prefix("!"), Prefix(kind), Payload(text)>> : kind \in kinds, text \in texts}

AnyWords == UNION {[1 .. n -> Words] : n \in 1 .. 3}
AnyTokens == Tokens(Kinds, Texts)
Pairs == {first \o second : first, second \in Tokens({"/t"}, {Beachy, Digit})}
OfTags == Tokens({"/t"}, {Beachy, Digit})

AskedAfter == 0 :> AnyWords @@ 1 :> AnyWords @@ 2 :> (AnyTokens \cup Pairs)
              @@ 3 :> (AnyTokens \cup Pairs) @@ 4 :> OfTags
=============================================================================

------------------------------ MODULE Identity ------------------------------
(***************************************************************************)
(* interconnect-core's identities: `scheme:payload`, written to a string   *)
(* and read from one.  A string is a sequence of characters, of which only *)
(* the colon matters.                                                      *)
(***************************************************************************)
EXTENDS Naturals, Sequences

Colon == ":"

Local(name) == [scheme |-> <<"l">>, payload |-> name]

\* Display
Written(id) == id.scheme \o <<Colon>> \o id.payload

Colons(s) == {i \in DOMAIN s : s[i] = Colon}

SplitAt(s, i) == [scheme |-> SubSeq(s, 1, i - 1), payload |-> SubSeq(s, i + 1, Len(s))]

\* MissingColon and EmptyScheme; not an identity.
ParseError == [scheme |-> <<>>, payload |-> <<>>]

\* FromStr: split at the first colon, which must be there and not come first.
Parse(s) ==
  IF Colons(s) # {} /\ s[1] # Colon
    THEN SplitAt(s, CHOOSE i \in Colons(s) : \A j \in Colons(s) : i <= j)
    ELSE ParseError

=============================================================================

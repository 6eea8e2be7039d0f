--------------------------- MODULE LicenceHistory ---------------------------
(***************************************************************************)
(* What the licence cache promises: the licence a machine is shown never     *)
(* goes back behind anything the machine has accepted before.                 *)
(***************************************************************************)
EXTENDS Integers

CONSTANTS
    Tokens,     \* doubly signed licences
    NoToken

VARIABLES
    accepted,   \* every token ever recorded
    shown       \* the token in the cache file, NoToken when there is none

\* The signed claims of a token.  Its signatures, and the signing epoch they
\* name, are not part of them.
Payload(tok) == <<tok.lic, tok.iat, tok.text>>

\* `tok` may take the place of `old`: the signing epoch never falls, and within
\* a licence the later issue wins; issues of the same second have no order.
NotOlder(old, tok) ==
    /\ tok.epoch >= old.epoch
    /\ old.lic = tok.lic =>
        \/ tok.iat > old.iat
        \/ Payload(tok) = Payload(old)

Newest(tok) == \A old \in accepted : NotOlder(old, tok)

Init ==
    /\ accepted \in {{}} \cup {{tok} : tok \in Tokens}
    /\ shown \in accepted \cup {NoToken}

\* A token is recorded; nothing is shown yet.
Accept(tok) ==
    /\ Newest(tok)
    /\ accepted' = accepted \cup {tok}
    /\ UNCHANGED shown

\* Only a recorded token that nothing recorded outdates is ever shown.
Show(tok) ==
    /\ tok \in accepted
    /\ Newest(tok)
    /\ shown' = tok
    /\ UNCHANGED accepted

Next == \E tok \in Tokens : Accept(tok) \/ Show(tok)

Spec == Init /\ [][Next]_<<accepted, shown>>
=============================================================================

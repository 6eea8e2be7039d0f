--------------------------- MODULE MCLicenceCache ---------------------------
(***************************************************************************)
(* A small instance of LicenceCache: a licence with a renewal, with the same  *)
(* claims signed again and with a conflicting issue of the same second, and   *)
(* two other licences.                                                        *)
(***************************************************************************)
EXTENDS LicenceCache

CONSTANTS a, b, c

Token(lic, iat, text, sig, epoch) ==
    [lic |-> lic, iat |-> iat, text |-> text, sig |-> sig, epoch |-> epoch]

MCTokens ==
    {Token(a, 1, 0, 0, 0), Token(a, 1, 0, 1, 0), Token(a, 1, 1, 0, 0),
     Token(a, 2, 0, 0, 1),
     Token(b, 1, 0, 0, 1), Token(c, 0, 0, 0, 0)}
=============================================================================

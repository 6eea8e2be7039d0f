--------------------------- MODULE MCLicenceDevice ---------------------------
(***************************************************************************)
(* A small instance of LicenceDevice: two requests at a time, two identities  *)
(* and a licence that is renewed once.                                        *)
(***************************************************************************)
EXTENDS LicenceDevice

CONSTANTS t1, t2, d1, d2
=============================================================================

--------------------------- MODULE MCRecogSession ---------------------------
(* Small instances of RecogSession: a session that requires two features.  *)
EXTENDS RecogSession

CONSTANTS r1, r2, r3

MCFeature  == {"square", "circle", "face"}
MCRequired == <<"square", "face">>
=============================================================================

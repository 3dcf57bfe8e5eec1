------------------------------ MODULE MCRecog ------------------------------
(* Small instances of Recog.                                               *)
EXTENDS Recog

CONSTANTS r1, r2, s1, s2

MCFeature == {"square", "circle", "face"}

\* What the coordinator configures every session with ...
FaceOnly == <<"face">>
\* ... and what a session is made to take as well.
TwoFeatures == <<"square", "face">>
=============================================================================

------------------------------ MODULE Preflight ------------------------------
(* Preflight::focus of native/recog/preflight.cpp: is an image sharp enough   *)
(* to be recognised?  Of the second derivatives of the image (what Sobel      *)
(* leaves in freqs) the largest are kept, and their sum is compared with a    *)
(* threshold.  A larger value takes the place of the first smaller one, whose *)
(* old value is lost, so that what is kept depends on the order in which the  *)
(* values are visited.                                                        *)
EXTENDS Integers, Sequences, Functions

CONSTANTS
    Shorts,      \* values of a pixel of freqs (CV_16S)
    Lowest,      \* -32768
    Size,        \* how many values are kept: 10
    Threshold,   \* 1100
    MaxPixels    \* bound: pixels of freqs

ASSUME ShortsAssumption == Shorts \subseteq Int /\ Lowest \in Int
ASSUME LowestAssumption == \A v \in Shorts : Lowest <= v
ASSUME SizeAssumption == Size \in Nat /\ Size >= 1
ASSUME ThresholdAssumption == Threshold \in Int

VARIABLES
    max,         \* max
    seen,        \* history: the pixels visited so far, in order
    from,        \* history: the pixel that each value of max comes from
    focus,       \* the result: notInFocus or not, once it is computed
    histogram    \* the flags of the other part of the result that are set

preflightVars == <<max, seen, from, focus, histogram>>

NoPixel == 0

\* The fields of HistorgramPreflightResult.
HistogramFlags == {"tooLight", "tooDark", "tooSaturated", "tooUnsaturated"}

-----------------------------------------------------------------------------
(* The sum of the values that are kept.                                       *)
Sum(values) ==
    LET sum[n \in 0 .. Size] == IF n = 0 THEN 0 ELSE sum[n - 1] + values[n]
    IN  sum[Size]

(* Where the value goes: the first place that holds a smaller one.            *)
Smaller(v) == {k \in 1 .. Size : max[k] < v}

\* Mutant of IsPlace: the last smaller one.
IsLastPlace(k, v) == k \in Smaller(v) /\ \A j \in Smaller(v) : j <= k

IsPlace(k, v) == k \in Smaller(v) /\ \A j \in Smaller(v) : k <= j

PreflightInit ==
    /\ max = [k \in 1 .. Size |-> Lowest]
    /\ seen = <<>>
    /\ from = [k \in 1 .. Size |-> NoPixel]
    /\ focus = "unknown"
    /\ histogram = {}

\* Mutant of Keep: any smaller value is overwritten.
KeepAnywhere(v) ==
    \E k \in Smaller(v) :
        max' = [max EXCEPT ![k] = v] /\ from' = [from EXCEPT ![k] = Len(seen) + 1]

\* Mutant of Keep: no break after the first smaller value.
KeepEverywhere(v) ==
    /\ max' = [k \in 1 .. Size |-> IF k \in Smaller(v) THEN v ELSE max[k]]
    /\ from' = [k \in 1 .. Size |-> IF k \in Smaller(v) THEN Len(seen) + 1 ELSE from[k]]

Keep(v) ==
    \E k \in 1 .. Size :
        /\ IsPlace(k, v)
        /\ max' = [max EXCEPT ![k] = v]
        /\ from' = [from EXCEPT ![k] = Len(seen) + 1]

(* One pixel.  A value that is smaller than all that are kept is passed over. *)
Visit(v) ==
    /\ focus = "unknown"
    /\ Len(seen) < MaxPixels
    /\ \/ Keep(v)
       \/ Smaller(v) = {} /\ UNCHANGED <<max, from>>
    /\ seen' = Append(seen, v)
    /\ UNCHANGED <<focus, histogram>>

\* Mutant of Decide: the threshold itself is not enough.
DecideAbove ==
    /\ focus = "unknown"
    /\ focus' = IF Sum(max) <= Threshold THEN "notInFocus" ELSE "inFocus"
    /\ histogram' \in SUBSET HistogramFlags
    /\ UNCHANGED <<max, seen, from>>

(* After the last pixel.  Nobody gives the fields of the histogram's result a *)
(* value: any of them may be set.                                             *)
Decide ==
    /\ focus = "unknown"
    /\ focus' = IF Sum(max) < Threshold THEN "notInFocus" ELSE "inFocus"
    /\ histogram' \in SUBSET HistogramFlags
    /\ UNCHANGED <<max, seen, from>>

PreflightNext == Decide \/ \E v \in Shorts : Visit(v)

PreflightSpec == PreflightInit /\ [][PreflightNext]_preflightVars

-----------------------------------------------------------------------------
PreflightTypeOK ==
    /\ max \in [1 .. Size -> Shorts \cup {Lowest}]
    /\ seen \in Seq(Shorts)
    /\ from \in [1 .. Size -> 0 .. Len(seen)]
    /\ focus \in {"unknown", "inFocus", "notInFocus"}
    /\ histogram \in SUBSET HistogramFlags

(* What the comparison with the threshold relies on (preflight.cpp:22-27):    *)
(* the values are kept in descending order, though nothing sorts them, ...    *)
MaximaDescend == \A j, k \in 1 .. Size : j <= k => max[j] >= max[k]

(* ... the largest value seen is always among them, and is the first, ...     *)
LargestIsFirst ==
    /\ \A p \in DOMAIN seen : seen[p] <= max[1]
    /\ seen # <<>> => \E p \in DOMAIN seen : seen[p] = max[1]

(* ... and no pixel is counted twice: each value comes from a pixel of its    *)
(* own, or is the one that the array was filled with.                         *)
EachFromItsOwnPixel ==
    \A k \in 1 .. Size :
        /\ from[k] = NoPixel => max[k] = Lowest
        /\ from[k] # NoPixel => seen[from[k]] = max[k]
        /\ \A j \in 1 .. Size : from[j] = from[k] /\ from[k] # NoPixel => j = k

(* The pixels of the image, and for an image that has too few of them as many *)
(* as there are places, of the lowest value.                                  *)
Pixels == 1 .. Len(seen) + Size
PixelValue(p) == IF p \in DOMAIN seen THEN seen[p] ELSE Lowest

\* A choice of different pixels, one for each place, and its sum.
Selections == Injection(1 .. Size, Pixels)
Sharpness(choice) == Sum([k \in 1 .. Size |-> PixelValue(choice[k])])

SeenDescends == \A p, r \in DOMAIN seen : p <= r => seen[p] >= seen[r]

(* An image that is found in focus is: it has as many different pixels as     *)
(* there are places whose values sum up to the threshold.  The converse holds *)
(* if the pixels come in descending order, but not in every order             *)
(* (preflight.cpp:22-33).                                                     *)
InFocusIsSharp ==
    /\ focus = "inFocus" => \E choice \in Selections : Sharpness(choice) >= Threshold
    /\ focus = "notInFocus" /\ SeenDescends
        => \A choice \in Selections : Sharpness(choice) < Threshold
=============================================================================

------------------------ MODULE FrameSampling_proofs ------------------------
(***************************************************************************)
(* Proofs about the sampling of video frames, for every rate and length.   *)
(***************************************************************************)
EXTENDS FrameSampling, TLAPS

\* Rounding is at most half a frame off.
LEMMA RoundedNearest ==
    ASSUME NEW a \in Nat, NEW b \in Nat \ {0}
    PROVE  /\ Rounded(a, b) \in Nat
           /\ 2 * (Rounded(a, b) * b - a) <= b
           /\ 2 * (a - Rounded(a, b) * b) <= b
<1> DEFINE q == a \div b
           r == a % b
<1>1. q \in Nat /\ r \in 0..(b - 1) /\ a = b * q + r
  OBVIOUS
<1>2. CASE 2 * r > b \/ (2 * r = b /\ q % 2 = 1)
  <2>1. Rounded(a, b) = q + 1
    BY <1>2 DEF Rounded
  <2>2. Rounded(a, b) * b = b * q + b
    BY <1>1, <2>1
  <2> QED
    BY <1>1, <1>2, <2>1, <2>2
<1>3. CASE ~(2 * r > b \/ (2 * r = b /\ q % 2 = 1))
  <2>1. Rounded(a, b) = q
    BY <1>3 DEF Rounded
  <2>2. Rounded(a, b) * b = b * q
    BY <1>1, <2>1
  <2>3. 2 * r <= b
    BY <1>1, <1>3
  <2> QED
    BY <1>1, <2>1, <2>2, <2>3
<1> QED
  BY <1>2, <1>3

\* A multiple has no remainder.
LEMMA MultipleHasNoRemainder ==
    ASSUME NEW n \in Nat, NEW v \in Nat \ {0}
    PROVE  n * v \in Nat /\ (n * v) % v = 0
OBVIOUS

\* The anchors of a video that has at least half a frame per window miss or
\* repeat at most half a frame between two pictures: a rate that is no whole
\* multiple of the sampling rate is never sampled more than half a frame off.
THEOREM AnchorsAlmostMeet ==
    ASSUME NEW frames \in Nat, NEW windows \in Nat \ {0}, 2 * frames >= windows
    PROVE  /\ 2 * Gap(frames, windows) <= windows
           /\ 2 * (-Gap(frames, windows)) <= windows
<1> DEFINE k == Rounded(frames, windows)
<1>1. /\ k \in Nat
      /\ 2 * (k * windows - frames) <= windows
      /\ 2 * (frames - k * windows) <= windows
  BY RoundedNearest
<1>2. CASE k = 0
  <2>1. Interval(frames, windows) * windows = windows
    BY <1>2 DEF Interval, AtLeastOne
  <2>2. 2 * frames <= windows
    BY <1>1, <1>2
  <2> QED
    BY <2>1, <2>2 DEF Gap
<1>3. CASE k > 0
  <2>1. Interval(frames, windows) = k
    BY <1>1, <1>3 DEF Interval, AtLeastOne
  <2> QED
    BY <1>1, <2>1 DEF Gap
<1> QED
  BY <1>1, <1>2, <1>3

\* A video with a whole number of frames per window is sampled exactly: one
\* picture per window, at 24, 25, 30 or 60 frames per second.
THEOREM WholeRatesAreExact ==
    ASSUME NEW frames \in Nat, NEW windows \in Nat \ {0}, NEW n \in Nat \ {0},
           frames = n * windows
    PROVE  Interval(frames, windows) = n /\ Gap(frames, windows) = 0
<1>1. frames \div windows = n /\ frames % windows = 0
  OBVIOUS
<1>2. Rounded(frames, windows) = n
  BY <1>1 DEF Rounded
<1>3. Interval(frames, windows) = n
  BY <1>2 DEF Interval, AtLeastOne
<1> QED
  BY <1>3 DEF Gap

\* The sampling starts with the first frame and then leaves no stretch of a
\* whole interval without a picture.
THEOREM NoStretchUnsampled ==
    ASSUME NEW frames \in Nat, NEW windows \in Nat \ {0},
           NEW total \in Nat, NEW i \in 0..(total - 1)
    PROVE  \E s \in Sampled(total, Interval(frames, windows)) :
               s <= i /\ i < s + Interval(frames, windows)
<1> DEFINE v == Interval(frames, windows)
           s == (i \div v) * v
<1>1. v \in Nat \ {0}
  BY RoundedNearest DEF Interval, AtLeastOne
<1> HIDE DEF v
<1>2. i \div v \in Nat /\ i % v \in 0..(v - 1) /\ i = s + (i % v)
  BY <1>1
<1>3. s \in Nat /\ s % v = 0
  BY <1>1, <1>2, MultipleHasNoRemainder
<1>4. s \in 0..(total - 1) /\ s <= i /\ i < s + v
  BY <1>1, <1>2, <1>3
<1>5. s \in Sampled(total, v)
  BY <1>3, <1>4 DEF Sampled
<1> QED
  BY <1>4, <1>5 DEF v

\* "Exactly one picture per second" (docs/EXPLAINER.md:71) is true of whole
\* rates only: at 5/2 frames per second the anchors overlap, at 3/2 they leave
\* gaps, and below one frame in two seconds every frame is taken.
THEOREM NotExactlyOnePerWindow ==
    /\ Gap(5, 2) < 0
    /\ Gap(3, 2) > 0
    /\ \A frames \in Nat, windows \in Nat \ {0} :
         2 * frames < windows => Interval(frames, windows) = 1
<1>1. Rounded(5, 2) = 2 /\ Rounded(3, 2) = 2
  BY DEF Rounded
<1>2. Gap(5, 2) = -1 /\ Gap(3, 2) = 1
  BY <1>1 DEF Gap, Interval, AtLeastOne
<1>3. ASSUME NEW frames \in Nat, NEW windows \in Nat \ {0}, 2 * frames < windows
      PROVE  Interval(frames, windows) = 1
  <2>1. frames \div windows = 0 /\ frames % windows = frames
    BY <1>3
  <2>2. Rounded(frames, windows) = 0
    BY <1>3, <2>1 DEF Rounded
  <2> QED
    BY <2>2 DEF Interval, AtLeastOne
<1> QED
  BY <1>2, <1>3
=============================================================================

--------------------------- MODULE FrameSampling ----------------------------
(***************************************************************************)
(* Which frames of a video are sampled (app/media/video.py) and the span   *)
(* of time each stands for (app/media/pipeline.py).  A window is the time  *)
(* 1 / video_sample_fps that a sampled frame anchors; "frames" frames of   *)
(* the video fill "windows" windows, so that frames / windows is           *)
(* fps / video_sample_fps, with the rate the container declares or, where  *)
(* it declares none, 30.                                                   *)
(***************************************************************************)
EXTENDS Rounding

\* Frames from one sampled frame to the next.
Interval(frames, windows) == AtLeastOne(Rounded(frames, windows))

\* The indices of the sampled frames of a video of so many frames.
Sampled(total, interval) == {i \in 0..(total - 1) : i % interval = 0}

\* The distance of two sampled frames, less the window of the first, both as
\* multiples of 1 / windows of a frame: positive, it is a gap that no anchor
\* covers, negative, an overlap.
Gap(frames, windows) == Interval(frames, windows) * windows - frames
=============================================================================

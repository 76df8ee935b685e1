----------------------------- MODULE MCFrameSearch -----------------------------
(* Short fields for FrameSearch.                                              *)
EXTENDS FrameSearch

SmallValues  == 0..3
SmallTargets == {0, 2, 3}
===============================================================================

---------------------------- MODULE MCUpstreamCall ----------------------------
(* Instances of UpstreamCall for TLC.                                      *)
EXTENDS UpstreamCall
CONSTANTS s0, s1, c1, c2

(* <<2>> after <<1>> and <<1, 2>> after <<2>> are rewritten texts.         *)
MCFrames == [ch : Channels, text : {<<1>>, <<1, 2>>, <<2>>}]
Plain == {[ch |-> "text", text |-> <<1>>]}

Ask(slot, tool, frames) ==
  [slot |-> slot, tool |-> tool, pooled |-> slot # None, streams |-> frames = MCFrames,
   frames |-> frames, lines |-> IF frames = MCFrames THEN 2 ELSE 1]

Stream == Ask(s0, "none", MCFrames)
Image == Ask(s0, "image", Plain)
Video == Ask(s1, "video", Plain)
Anonymous == Ask(None, "none", Plain)

(* A stream alone, two calls of one slot, two of different slots with the  *)
(* same cookie, and one without an account.                                *)
MCPlans == {c1 :> Stream @@ c2 :> None, c1 :> Image @@ c2 :> Image,
            c1 :> Video @@ c2 :> Image, c1 :> Anonymous @@ c2 :> None}
=============================================================================

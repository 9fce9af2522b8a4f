------------------------------ MODULE MCMediaJobs ------------------------------
(* A small instance of MediaJobs: two videos, or a video and a request for   *)
(* pictures with and without pictures of its own.                            *)
EXTENDS MediaJobs, TLC

Video == [tool |-> "video", files |-> FALSE, want |-> 1]
Image(files, want) == [tool |-> "image", files |-> files, want |-> want]

MCPlans == {1 :> Video @@ 2 :> Video, 1 :> Video @@ 2 :> Image(FALSE, 1),
            1 :> Video @@ 2 :> Image(TRUE, 2)}
=============================================================================

-------------------------- MODULE MCCaptureDevice --------------------------
(***************************************************************************)
(* Three kinds of card: both formats in one size; one format refused; and,  *)
(* as on a USB 2 port, the raw format only offered small.                  *)
(***************************************************************************)
EXTENDS CaptureDevice

CONSTANTS yuyv, mjpeg

Same == [f \in Formats |-> "1080p"]
Small == [f \in Formats |-> IF f = mjpeg THEN "1080p" ELSE "480p"]

AllModels == {[accepted |-> {yuyv, mjpeg}, size |-> Same],
              [accepted |-> {mjpeg}, size |-> Same],
              [accepted |-> {yuyv, mjpeg}, size |-> Small]}

=============================================================================

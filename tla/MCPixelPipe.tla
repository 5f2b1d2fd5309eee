---------------------------- MODULE MCPixelPipe -----------------------------
(* Two modules and gamma; the whole image is larger than the view of a part. *)
EXTENDS PixelPipe

Views == {"fit", "full"}
ViewSize(r) == IF r = "full" THEN 2 ELSE 1
=============================================================================

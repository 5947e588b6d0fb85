---------------------------- MODULE MCFrameCodec ----------------------------
(* A small instance of FrameCodec, with a digest that always collides.       *)
EXTENDS FrameCodec

Collides(kind, flags, index) == 0

=============================================================================

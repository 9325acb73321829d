------------------------- MODULE ProtocolConstants -------------------------
(***************************************************************************)
(* The constants of reader_protocol.py that the format of a frame and the  *)
(* decoder of a stream share.                                              *)
(***************************************************************************)
EXTENDS Integers, Sequences

Byte == 0 .. 255
SOF == 254
MinFrameLength == 9

=============================================================================

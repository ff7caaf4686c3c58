--------------------------------- MODULE Pixels ---------------------------------
(***************************************************************************)
(* The arithmetic on frames and messages: the index into the LUT, the      *)
(* buffers of converter_run and of the blending in unicapture_run, the     *)
(* length header of a message.  Pure operators on integers; what holds of  *)
(* them for every size is in UnicaptureProofs and LightsProofs.            *)
(***************************************************************************)
EXTENDS Naturals

Byte == 0 .. 255

--------------------------------------------------------------------------------
(* The lookup table, unicapture.c:12-13 and 226-235.                       *)

LUT_FILE_SIZE == 256 * 256 * 256 * 3
LUT_INDEX(y, u, v) == (y + u * 256 + v * 65536) * 3

--------------------------------------------------------------------------------
(* The length header of hyperion_set_register and _send_message.           *)

\* The low eight bits after a shift.
header(size) ==
    << (size \div 16777216) % 256, (size \div 65536) % 256, (size \div 256) % 256,
       size % 256 >>

\* Big endian, as the server of Hyperion reads it.
Decoded(h) == h[1] * 16777216 + h[2] * 65536 + h[3] * 256 + h[4]

--------------------------------------------------------------------------------
(* Frames.  A picture of h rows, w * bpp bytes each, stride bytes apart.   *)

\* The first byte that is not touched.
Extent(w, h, bpp, stride) == (h - 1) * stride + w * bpp

\* converter_run: buffers[0], and buffers[1] and [2] for YUV422.
ArgbSize(w, h) == w * h * 4
ChromaSize(w, h) == (w \div 2) * h

\* libyuv reads a chroma sample for every two pixels, the last pixel of an odd row
\* included (external).
ChromaColumns(w) == (w + 1) \div 2

================================================================================

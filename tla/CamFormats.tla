----------------------------- MODULE CamFormats -----------------------------
(***************************************************************************)
(* The pixel formats of the two image nodes and what TRY_FMT, ENUM_FMT and *)
(* the stream-on configuration compute from them                           *)
(* (camera/driver/cam/mtk_cam.c).                                          *)
(*                                                                         *)
(* A pixel format is its packing ("std" standard Bayer, "MB" MTISP packed, *)
(* "MF" MTISP full-G), its Bayer order (0 BGGR, 1 GBRG, 2 GRBG, 3 RGGB)    *)
(* and its bits per pixel; a media bus code is an order and bits.          *)
(***************************************************************************)
EXTENDS Integers, Sequences, FiniteSets

CONSTANTS
  MinWidth, MaxWidth, MinHeight, MaxHeight,  \* IMG_MIN_WIDTH ... IMG_MAX_HEIGHT
  MinRatio                                   \* MTK_ISP_MIN_RESIZE_RATIO

ASSUME FormatAssumption ==
  /\ MinWidth \in Nat \ {0} /\ MaxWidth \in Nat /\ MinWidth <= MaxWidth
  /\ MinHeight \in Nat \ {0} /\ MaxHeight \in Nat /\ MinHeight <= MaxHeight
  /\ MinWidth % 4 = 0 /\ MaxWidth % 4 = 0
  /\ MinRatio \in Nat

ImageNodes == {"main", "bin"}
Orders == 0 .. 3
Depths == {8, 10, 12, 14}
Fourcc == [pack : {"std", "MB", "MF"}, order : Orders, bits : Depths]
UnknownFourcc == [pack |-> "none", order |-> 0, bits |-> 8]
MbusCode == [order : Orders, bits : Depths]
NoCode == [order |-> 4, bits |-> 0]  \* f->mbus_code = 0: no filter

-----------------------------------------------------------------------------
(***************************************************************************)
(* The format tables.                                                      *)
(***************************************************************************)

\* The four bit depths of one Bayer order.
DepthRow(pack, order, depths) ==
  [i \in 1 .. 4 |-> [pack |-> pack, order |-> order, bits |-> depths[i]]]

\* stream_out_fmts: the standard names first.
stream_out_fmts ==
  [i \in 1 .. 4 |-> [pack |-> "std", order |-> i - 1, bits |-> 8]]
    \o DepthRow("MB", 0, <<10, 8, 12, 14>>) \o DepthRow("MB", 1, <<8, 10, 12, 14>>)
    \o DepthRow("MB", 2, <<8, 10, 12, 14>>) \o DepthRow("MB", 3, <<8, 10, 12, 14>>)

bin_out_fmts ==
  DepthRow("MF", 0, <<8, 10, 12, 14>>) \o DepthRow("MF", 1, <<8, 10, 12, 14>>)
    \o DepthRow("MF", 2, <<8, 10, 12, 14>>) \o DepthRow("MF", 3, <<8, 10, 12, 14>>)

fmts(node) == IF node = "main" THEN stream_out_fmts ELSE bin_out_fmts

default_fmt(node) == fmts(node)[1]

\* The fourccs the driver's switches know.
KnownFourcc == {f \in Fourcc : f.pack = "std" => f.bits = 8}

get_pixel_bits(f) == IF f \in KnownFourcc THEN f.bits ELSE 0

\* get_img_fmt: plain or full-G Bayer of some depth.
get_img_fmt(f) ==
  IF f \in KnownFourcc THEN [full |-> f.pack = "MF", bits |-> f.bits]
  ELSE [full |-> FALSE, bits |-> 0]

\* mtk_cam_fmt_to_mbus.
fmt_to_mbus(f) == [order |-> f.order, bits |-> f.bits]

\* mtk_cam_bayer_order: the depth does not matter.
bayer_order(code) == code.order

-----------------------------------------------------------------------------
(***************************************************************************)
(* Sizes.                                                                  *)
(***************************************************************************)
DivRoundUp(n, d) == (n + d - 1) \div d
AlignUp(n, a) == DivRoundUp(n, a) * a
Clamp(n, lo, hi) == IF n < lo THEN lo ELSE IF n > hi THEN hi ELSE n

\* Pixels stored per line: full-G keeps 4 G, 1 R and 1 B for 4 pixels.
PixelsPerLine(node, width) ==
  IF node = "main" THEN width ELSE DivRoundUp(width * 6, 4)

MutBytesPerLine(node, bits, width) ==
  LET line == (PixelsPerLine(node, width) * bits) \div 8
      align == IF node = "main" THEN 2 ELSE IF bits = 10 THEN 4 ELSE 8
  IN  AlignUp(AlignUp(line, align), 4)

\* cal_image_pix_mp: the stride, aligned for the port and for the DIP.
BytesPerLine(node, bits, width) ==
  LET line == DivRoundUp(PixelsPerLine(node, width) * bits, 8)
      align == IF node = "main" THEN 2 ELSE IF bits = 10 THEN 4 ELSE 8
  IN  AlignUp(AlignUp(line, align), 4)

Pix(node, f, width, height) ==
  LET bpl == BytesPerLine(node, get_pixel_bits(f), width)
  IN  [pixelformat |-> f, width |-> width, height |-> height,
       bytesperline |-> bpl, sizeimage |-> bpl * height]

MutTryWidth(w) == Clamp(w, MinWidth, MaxWidth + 1)

\* Width and height as TRY_FMT adjusts them.
TryWidth(w) == AlignUp(Clamp(w, MinWidth, MaxWidth), 4)
TryHeight(h) == Clamp(h, MinHeight, MaxHeight)

\* mtk_cam_dev_find_fmt.
find_fmt(node, f) == \E i \in 1 .. Len(fmts(node)) : fmts(node)[i] = f

MutTryFmt(node, f, w, h) ==
  Pix(node, IF find_fmt(node, f) THEN f ELSE default_fmt("bin"),
      TryWidth(w), TryHeight(h))

\* mtk_cam_vidioc_try_fmt.
try_fmt(node, f, w, h) ==
  Pix(node, IF find_fmt(node, f) THEN f ELSE default_fmt(node),
      TryWidth(w), TryHeight(h))

\* The places of the formats a listing counts: all of them without a media bus
\* code, else those of the same Bayer order, whatever their depth.
Matches(node, code) ==
  {i \in 1 .. Len(fmts(node)) :
     code = NoCode \/ bayer_order(fmt_to_mbus(fmts(node)[i])) = bayer_order(code)}

\* n of the loop in mtk_cam_vidioc_enum_fmt when it comes to a match.
MatchesBefore(node, code, i) == Cardinality({j \in Matches(node, code) : j < i})

MutEnumFmt(node, code, index) ==
  LET found == {i \in Matches(node, code) : MatchesBefore(node, code, i) + 1 = index}
  IN  IF found = {} THEN UnknownFourcc
      ELSE fmts(node)[CHOOSE i \in found : TRUE]

\* mtk_cam_vidioc_enum_fmt: the matching format number index, from 0.
\* UnknownFourcc stands for EINVAL.
enum_fmt(node, code, index) ==
  LET found == {i \in Matches(node, code) : MatchesBefore(node, code, i) = index}
  IN  IF found = {} THEN UnknownFourcc
      ELSE fmts(node)[CHOOSE i \in found : TRUE]

\* config_img_fmt refuses sizes above the sensor's, too strong a reduction,
\* and pixel formats it does not know.
config_img_fmt(pix, sd_width, sd_height) ==
  /\ pix.width <= sd_width /\ pix.height <= sd_height
  /\ (pix.width * 100) \div sd_width >= MinRatio
  /\ (pix.height * 100) \div sd_height >= MinRatio
  /\ get_img_fmt(pix.pixelformat).bits # 0
  /\ get_pixel_bits(pix.pixelformat) # 0
=============================================================================

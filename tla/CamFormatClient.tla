-------------------------- MODULE CamFormatClient --------------------------
(***************************************************************************)
(* A client of an image node that does what libcamera's simple pipeline    *)
(* does: it lists the formats for the sensor's media bus code (or all of   *)
(* them) by calling ENUM_FMT with index 0, 1, 2, ... until EINVAL, then    *)
(* negotiates a size with TRY_FMT.  A format the driver does not know may  *)
(* be asked for as well.                                                   *)
(***************************************************************************)
EXTENDS CamFormats

CONSTANTS
  Widths, Heights  \* requested sizes

ASSUME ClientAssumption == Widths \subseteq Nat /\ Heights \subseteq Nat

VARIABLES
  node,     \* the image node
  code,     \* the media bus code it lists for, or none
  listed,   \* formats listed so far
  phase,    \* "listing", "listed", "replied"
  reply     \* the last reply of TRY_FMT

clientVars == <<node, code, listed, phase, reply>>

ClientInit ==
  /\ node \in ImageNodes
  /\ code \in MbusCode \cup {NoCode}
  /\ listed = <<>>
  /\ phase = "listing"
  /\ reply = Pix(node, default_fmt(node), MinWidth, MinHeight)

\* VIDIOC_ENUM_FMT with the next index.
EnumFmt ==
  /\ phase = "listing"
  /\ LET f == enum_fmt(node, code, Len(listed))
     IN  \/ /\ f # UnknownFourcc
            /\ listed' = Append(listed, f)
            /\ UNCHANGED phase
         \/ /\ f = UnknownFourcc
            /\ phase' = "listed"
            /\ UNCHANGED listed
  /\ UNCHANGED <<node, code, reply>>

\* VIDIOC_TRY_FMT with a listed format or an unknown one.
TryFmt(f, w, h) ==
  /\ phase # "listing"
  /\ reply' = try_fmt(node, f, w, h)
  /\ phase' = "replied"
  /\ UNCHANGED <<node, code, listed>>

ClientNext ==
  \/ EnumFmt
  \/ \E i \in 1 .. Len(listed), w \in Widths, h \in Heights :
       TryFmt(listed[i], w, h)
  \/ \E w \in Widths, h \in Heights : TryFmt(UnknownFourcc, w, h)

ClientSpec == ClientInit /\ [][ClientNext]_clientVars

-----------------------------------------------------------------------------
(***************************************************************************)
(* Properties.                                                             *)
(***************************************************************************)

\* When listing ends, what it gave is every format of the node, or every one
\* with the sensor's Bayer order, each once, and each one the stream-on configuration
\* knows: the filter counts matches and must not skip or repeat one.
ListsEveryFormat ==
  /\ \A i, j \in 1 .. Len(listed) : i # j => listed[i] # listed[j]
  /\ phase # "listing" =>
       {listed[i] : i \in 1 .. Len(listed)} =
         {fmts(node)[i] : i \in {k \in 1 .. Len(fmts(node)) :
                    code = NoCode \/ fmts(node)[k].order = code.order}}
  /\ \A i \in 1 .. Len(listed) :
       get_pixel_bits(listed[i]) # 0 /\ get_img_fmt(listed[i]).bits # 0

\* A reply of TRY_FMT is in range and stable: asking again for the same gives
\* the same, so that G_FMT followed by S_FMT changes nothing.
ReplyStable ==
  phase = "replied" =>
    /\ reply.width \in MinWidth .. MaxWidth
    /\ reply.height \in MinHeight .. MaxHeight
    /\ try_fmt(node, reply.pixelformat, reply.width, reply.height) = reply

\* A line holds its pixels, wastes less than the alignment, and the stride is
\* a multiple of 4 bytes for the DIP.
LineFits ==
  phase = "replied" =>
    LET bits == PixelsPerLine(node, reply.width) * reply.pixelformat.bits
    IN  /\ reply.bytesperline * 8 >= bits
        /\ reply.bytesperline * 8 < bits + 64
        /\ reply.bytesperline % 4 = 0
        /\ reply.sizeimage = reply.bytesperline * reply.height
=============================================================================

---------------------------- MODULE GstReceivers ----------------------------
(***************************************************************************)
(* What tells the eight GStreamer receivers of src/src apart.  Each class  *)
(* is written out by hand, so each has its own tables:                     *)
(*                                                                         *)
(*   ...Stream    the encoding its constructor sets, those SetStreamInfo() *)
(*                sets (vaapijpeg: the client's), the bits per pixel it    *)
(*                reserves in the frame buffer, and whether Open() insists *)
(*                on it;                                                   *)
(*   ...Formats   the order in which NewFrameCallback() compares the       *)
(*                sample's format, by prefix;                              *)
(*   ...Pipeline  the elements Open() makes and links, those it tests for  *)
(*                nullptr, and the raw format it asks the sink for;        *)
(*   ...Calls     how Start(), Stop(), Close(), Receive(), Callback() and  *)
(*                NewFrame() behave.                                       *)
(*                                                                         *)
(* An element that is not installed makes gst_element_factory_make()       *)
(* return nullptr, which also ends the argument lists of gst_bin_add_many  *)
(* and gst_element_link_many.                                              *)
(***************************************************************************)
EXTENDS Integers, Sequences, FiniteSets

Converter == <<"videoconvert", "capsfilter2">>
H264Head == <<"udpsrc", "capsfilter", "rtph264depay", "h264parse", "queue">>

(* Calls of the receivers that test the state in each call.                 *)
(* guarded: Start, Stop and Close return early in the wrong state.           *)
(* clears: Stop resets the flag.  frees: Close also releases a pipeline that *)
(* was opened and never started.  late: Receive reads height, width and      *)
(* encoding behind its wait.  polls: a timeout of 0 returns at once instead  *)
(* of waiting for ever.  blanks: a timeout blanks the frame buffer (the       *)
(* others blank a private, empty vector that hides it).  calls: when NewFrame *)
(* calls back.  keepsState: the base class, which keeps state_, is called.    *)
CarefulCalls == [guarded |-> TRUE, keepsState |-> TRUE, clears |-> TRUE,
                 frees |-> FALSE, late |-> TRUE, polls |-> FALSE,
                 blanks |-> TRUE, calls |-> "started"]

OpenH264Stream == [encoding |-> "Rgba", prepares |-> {"Rgba"},
                    reserves |-> 32, insists |-> TRUE]
OpenH264FormatsMutant == <<"UYVY", "RGB", "RGBA", "NV12">>
OpenH264Formats == <<"UYVY", "RGBA", "RGB", "NV12">>
OpenH264Pipeline ==
  [elements |-> H264Head \o <<"openh264dec">> \o Converter \o <<"appsink">>,
   tested |-> {"udpsrc", "capsfilter", "rtph264depay", "queue", "openh264dec",
               "appsink"},
   format |-> "RGBA"]
OpenH264Calls == CarefulCalls

VaapiH264Stream == [encoding |-> "Rgba", prepares |-> {"Rgba"},
                     reserves |-> 32, insists |-> TRUE]
VaapiH264Formats == <<"UYVY", "RGBA", "RGB", "NV12">>
VaapiH264Pipeline ==
  [elements |-> H264Head \o <<"vaapih264dec">> \o Converter \o <<"appsink">>,
   tested |-> {"udpsrc", "capsfilter", "rtph264depay", "queue", "vaapih264dec",
               "appsink"},
   format |-> "RGBA"]
VaapiH264Calls == CarefulCalls

(* rgb_ is false: no converter. *)
OmxH264Stream == [encoding |-> "Nv12", prepares |-> {"Nv12"},
                   reserves |-> 12, insists |-> TRUE]
OmxH264Formats == <<"UYVY", "RGB", "NV12", "RGBA">>
OmxH264Pipeline ==
  [elements |-> H264Head \o <<"openh264dec", "appsink">>,
   tested |-> {"udpsrc", "capsfilter", "rtph264depay", "queue", "openh264dec",
               "appsink"},
   format |-> "decoded"]
OmxH264Calls == CarefulCalls

NvidiaH264Stream == [encoding |-> "Nv12", prepares |-> {"Nv12"},
                      reserves |-> 0, insists |-> FALSE]
NvidiaH264Formats == <<"UYVY", "RGB", "NV12", "RGBA">>
NvidiaH264Pipeline ==
  [elements |-> H264Head \o <<"nvh264dec", "appsink">>, tested |-> {},
   format |-> "decoded"]
NvidiaH264Calls == [guarded |-> FALSE, keepsState |-> TRUE, clears |-> FALSE,
                    frees |-> TRUE, late |-> FALSE, polls |-> TRUE,
                    blanks |-> TRUE, calls |-> "never"]

VaapiH265Stream == [encoding |-> "Nv12", prepares |-> {"Nv12"},
                     reserves |-> 24, insists |-> FALSE]
VaapiH265Formats == <<"UYVY", "RGB", "NV12", "RGBA">>
VaapiH265Pipeline ==
  [elements |-> <<"udpsrc", "capsfilter", "rtph265depay", "h265parse", "queue",
                  "vaapih265dec", "appsink">>,
   tested |-> {"udpsrc", "capsfilter", "rtph265depay", "h265parse", "queue",
               "vaapih265dec", "appsink"},
   format |-> "decoded"]
VaapiH265Calls == [guarded |-> TRUE, keepsState |-> TRUE, clears |-> FALSE,
                   frees |-> TRUE, late |-> FALSE, polls |-> TRUE,
                   blanks |-> FALSE, calls |-> "started"]

Av1Stream == [encoding |-> "Rgb24", prepares |-> {"Rgb24"},
               reserves |-> 24, insists |-> FALSE]
Av1Formats == <<"UYVY", "RGB", "NV12", "RGBA">>
Av1Pipeline ==
  [elements |-> <<"udpsrc", "capsfilter", "rtpav1depay", "av1parse", "av1dec">>
                \o Converter \o <<"appsink">>,
   tested |-> {}, format |-> "RGB"]
Av1Calls == [VaapiH265Calls EXCEPT !.calls = "always"]

JpegStream == [encoding |-> "Rgb24", prepares |-> {"Rgb24"},
                reserves |-> 24, insists |-> FALSE]
JpegFormats == <<"UYVY", "RGB", "NV12", "RGBA">>
JpegPipeline ==
  [elements |-> <<"udpsrc", "capsfilter", "rtpjpegdepay", "jpegparse", "queue",
                  "jpegdec">> \o Converter \o <<"appsink">>,
   tested |-> {}, format |-> "RGB"]
JpegCalls == Av1Calls

(* Neither Open, Start, Stop nor Close calls its base class: state_ stays    *)
(* kClosed.                                                                  *)
VaapiJpegStream == [encoding |-> "Nv12", prepares |-> {"Rgb24", "Yuv422"},
                    reserves |-> 0, insists |-> FALSE]
VaapiJpegFormats == <<"UYVY", "RGB", "NV12", "RGBA">>
VaapiJpegPipeline ==
  [elements |-> <<"udpsrc", "capsfilter", "rtpjpegdepay", "jpegparse", "queue",
                  "vaapijpegdec", "appsink">>,
   tested |-> {}, format |-> "decoded"]
VaapiJpegCalls == [NvidiaH264Calls EXCEPT !.keepsState = FALSE,
                                          !.blanks = FALSE]

Receivers ==
  [openh264 |-> [stream |-> OpenH264Stream, formats |-> OpenH264Formats,
                 pipeline |-> OpenH264Pipeline, calls |-> OpenH264Calls],
   vaapih264 |-> [stream |-> VaapiH264Stream, formats |-> VaapiH264Formats,
                  pipeline |-> VaapiH264Pipeline, calls |-> VaapiH264Calls],
   omxh264 |-> [stream |-> OmxH264Stream, formats |-> OmxH264Formats,
                pipeline |-> OmxH264Pipeline, calls |-> OmxH264Calls],
   nvidiah264 |-> [stream |-> NvidiaH264Stream, formats |-> NvidiaH264Formats,
                   pipeline |-> NvidiaH264Pipeline,
                   calls |-> NvidiaH264Calls],
   vaapih265 |-> [stream |-> VaapiH265Stream, formats |-> VaapiH265Formats,
                  pipeline |-> VaapiH265Pipeline, calls |-> VaapiH265Calls],
   av1 |-> [stream |-> Av1Stream, formats |-> Av1Formats,
            pipeline |-> Av1Pipeline, calls |-> Av1Calls],
   jpeg |-> [stream |-> JpegStream, formats |-> JpegFormats,
             pipeline |-> JpegPipeline, calls |-> JpegCalls],
   vaapijpeg |-> [stream |-> VaapiJpegStream, formats |-> VaapiJpegFormats,
                  pipeline |-> VaapiJpegPipeline, calls |-> VaapiJpegCalls]]

(* The raw format each decoder delivers when the sink does not ask for one.  *)
DecoderFormats(receiver) ==
  CASE receiver = "omxh264" -> {"I420"}
    [] receiver = "vaapijpeg" -> {"NV12", "I420"}
    [] OTHER -> {"NV12"}
Formats == {"RGBA", "RGB", "NV12", "I420"}

(* The bytes of a picture: GStreamer aligns every row, of luma and of        *)
(* chroma, to four bytes, and gives the chroma planes an even number of rows *)
(* and columns of luma.                                                      *)
Aligned(bytes) == 4 * ((bytes + 3) \div 4)
Halves(n) == (n + 1) \div 2
PictureBytes(format, height, width) ==
  CASE format = "RGBA" -> height * (4 * width)
    [] format = "RGB"  -> height * Aligned(3 * width)
    [] format = "NV12" -> Halves(height) * (3 * Aligned(width))
    [] format = "I420" -> Halves(height) *
                            (2 * Aligned(width) + 2 * Aligned(Halves(width)))

(* The bytes of a pixel in each encoding, whole ones.                        *)
BytesPerPixel == [Yuv422 |-> 2, Rgba |-> 4, Rgb24 |-> 3, Nv12 |-> 2,
                  Undefined |-> 0]
Colourspace == [UYVY |-> "Yuv422", RGBA |-> "Rgba", RGB |-> "Rgb24",
                NV12 |-> "Nv12"]
Encodings == DOMAIN BytesPerPixel

(* strncmp(format, prefix, strlen): "RGB" is a prefix of "RGBA".             *)
HasPrefix(format, prefix) ==
  format = prefix \/ (format = "RGBA" /\ prefix = "RGB")

(* The encoding the first matching comparison of NewFrameCallback() sets.    *)
Reported(formats, format) ==
  LET hits == {i \in DOMAIN formats : HasPrefix(format, formats[i])} IN
  IF hits = {} THEN "Undefined"
  ELSE Colourspace[formats[CHOOSE i \in hits : \A j \in hits : i <= j]]
=============================================================================

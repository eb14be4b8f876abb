SPECIFICATION FairSpec
CONSTANTS
  Classes = {"openh264", "vaapih264", "x264h264", "omxh264", "av1", "jpeg",
             "vaapijpeg", "h265", "vaapih265", "nvidiah264"}
  Missing = {{}, {"vaapih265enc", "videoconvert"}, {"vaapih265enc"}}
  Pixels = {1, 2}
  MaxFrames = 2
  MaxRuns = 2
INVARIANTS TransmitSound
PROPERTIES CallsTakeEffect
CHECK_DEADLOCK FALSE

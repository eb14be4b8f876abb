SPECIFICATION FairSpec
CONSTANTS
  Classes = {"openh264", "vaapih264", "omxh264", "nvidiah264", "vaapih265",
             "av1", "jpeg", "vaapijpeg"}
  Missing = {{}, {"h264parse", "h265parse"}}
  Sizes <- TwoSizes
INVARIANTS StoppedIsQuiet CallbackDescribesBuffer
PROPERTIES ReceivedFrameIsSound CallsReturn
CHECK_DEADLOCK FALSE

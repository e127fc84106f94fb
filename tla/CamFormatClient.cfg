\* IMG_MIN/MAX_WIDTH/HEIGHT and MTK_ISP_MIN_RESIZE_RATIO as in the driver.
CONSTANTS
  MinWidth = 80
  MaxWidth = 5376
  MinHeight = 60
  MaxHeight = 4032
  MinRatio = 6
  Widths <- SomeWidths
  Heights <- SomeHeights
SPECIFICATION ClientSpec
INVARIANTS
  ListsEveryFormat
  ReplyStable
  LineFits

\* Any stream, in any pieces, read by any client.
SPECIFICATION FairSpec
CONSTANTS
  Char = {"c"}
  NL = "nl"
  Space = "sp"
  Lead = "lead"
  Cont = "cont"
  Streams <- MCStreams
  MaxRead = 3
  Sizes = {1, 3}
  Widths = {0, 2}
INVARIANTS TypeOK LinesAsSent BytesInOrder EndIsEnd
PROPERTIES NothingHeldBack ResponseEnds

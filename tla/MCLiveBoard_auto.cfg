\* No fault and no reload: the page may keep an old board.
SPECIFICATION MCSpec
CONSTANTS
  Browsers = {b1}
  Writers = {1, 2}
  Handlers = {1, 2}
  MaxVersion = 1
  BufferMax = 1
  Faults = FALSE
  None = None
PROPERTIES BoardsCatchUp

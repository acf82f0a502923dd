CONSTANTS
  ChunkSize = 2
  Byte = {0, 1}
  Zero = 0
  Panic = Panic
  MaxSize = 5
  MaxInput = 3
SPECIFICATION Spec
INVARIANTS Contiguous ReadsAgree
PROPERTIES ImplementsFlat

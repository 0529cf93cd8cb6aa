\* A CPU and two GPUs, three compiles and four memories, each of which may fail
\* at any device.
CONSTANTS
  Platform <- ThePlatform
  MaxCompiles = 3
  MaxCalls = 4
SPECIFICATION Spec
INVARIANTS
  BuffersBelong
  QueueFits
  SameGPU
  IInv
PROPERTY BuffersStay
\* A program may stop calling when it likes.
CHECK_DEADLOCK FALSE

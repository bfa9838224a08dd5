\* Every way to cut short streams into chunks, with a tail of four bytes.
SPECIFICATION Spec
CONSTANTS
  CAP = 4
  Streams <- MCStreams
INVARIANT UsageIfItFits
\* A stream that broke is polled no more.
CHECK_DEADLOCK FALSE

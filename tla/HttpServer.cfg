SPECIFICATION HttpSpec
CONSTANTS
  Streams <- MCStreams
INVARIANT AnswersInOrder
INVARIANT WholeIsAnswered

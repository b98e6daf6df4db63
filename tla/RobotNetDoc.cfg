SPECIFICATION NetSpec
CONSTANT Backlog = 2
PROPERTY
  AnswerReturned

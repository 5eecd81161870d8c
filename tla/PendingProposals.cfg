SPECIFICATION FairSpec
CONSTANTS
  Names = {n}
  Approvers = {alice, bob}
  MaxQueued = 3
INVARIANTS
  TypeOK
  AnswerOnlyBehindQueue
PROPERTY ProposalComesThrough

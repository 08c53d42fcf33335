CONSTANTS
  Jobs <- MCJobs
  Workers = {w1, w2}
  Users = {"u"}
  Proposals = {"p", "q", "r"}
  Length <- MCLength
  Conversations <- MCConversations
  Answers <- MCAnswers
  Repairs <- MCRepairs
  Source <- MCSource
  Cuts <- MCCuts
  Copies <- MCCopies
  Window = 2
  MaxAttempts = 2
  MaxEvents = 1
SYMMETRY MCSymmetry
SPECIFICATION Spec
INVARIANTS
  ProposalsOnce
  
PROPERTIES
  ResolvedForGood

\* A request of either interface, alone, with every cut of the answer.
SPECIFICATION StreamSpec
CONSTANTS
  Queries <- MCQueries
  Answers <- MCAnswers
  Rewrites <- MCRewrites
  Thoughts <- MCThoughts
  RetryAttempts = 2
  MaxChanges = 1
  None = None
INVARIANTS
  OneEnding
  ItemsAnnounced
  FilesHaveAccount
  

SPECIFICATION FairSpec
CONSTANTS
  Clients = {c1, c2}
  Nobody = Nobody
  Transactions <- MCTransactions
INVARIANT CompletionIsOwn
INVARIANT NoLostCompletion
INVARIANT FrameIsMessage
INVARIANT OkIsAnswered
PROPERTY Released

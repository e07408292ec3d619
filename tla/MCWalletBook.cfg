SPECIFICATION FairSpec
CONSTANTS
  Requests = {r1, r2}
  Consumers <- MCConsumers
  Currencies <- MCCurrencies
  Keys <- MCKeys
  NoKey = NoKey
  Jobs <- MCJobs
  Opening <- MCOpening
  DailyLimit = 3
  PostAmounts = {1}
  MaxPosts = 1
  NoRow = NoRow
  MaxAttempts = 2
  Free = Free
  Waiting = Waiting
INVARIANTS NoOverdraft DailyLimitHeld OneEffectPerKey AnswersSound AnswersAgree NoDeadlock
PROPERTIES ImplementsAccountBook EveryRequestEnds
CHECK_DEADLOCK FALSE

SPECIFICATION PollFairSpec
CONSTANT MaxTries = 10
PROPERTY
    ExitsUponEsc

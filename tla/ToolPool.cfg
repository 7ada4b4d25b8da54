CONSTANTS
  c1 = c1
  Servers = {"s1", "s2"}
  MCP_SERVERS <- Configured
  Offers <- OffersOf
  Workflows <- WorkflowNames
  Chats = {c1}
  MaxChanges = 1
  MaxFaults = 1
SPECIFICATION FairSpec
INVARIANTS GatedRunsOnConsent WhatIsShownCanBeCalled
PROPERTIES EveryCallEnds
CHECK_DEADLOCK FALSE

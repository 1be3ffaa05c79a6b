SPECIFICATION Spec
CONSTANTS
  Keys <- ThreeKeys
  WindowedKeys <- Windowed
  Resources <- SixResources
  KeyOf <- Kind
  Watches <- RuleOn
  Founder <- FoundingOwner
  Changing = {2}
  Choosable <- Chosen
  Plans = {"free", "grace", "paid"}
  LimitOf <- Limited
  Lenient = {"grace"}
  Jobs = {1}
  Owners = {2}
  WindowLength = 2
  Cooldown = 3
  MaxTime = 4
  MaxFaults = 0
INVARIANT
  SettledFits
CHECK_DEADLOCK FALSE

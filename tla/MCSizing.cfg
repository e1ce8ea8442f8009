SPECIFICATION SizingSpec
CONSTANTS
  Equities <- MCEquities
  BuyingPowers <- MCBuyingPowers
  Prices <- MCPrices
  Configs <- MCConfigs
INVARIANTS KeepsLimits IsLargest GoalpostIsExact

\* Two runs for two chains; one process that loads the file.
SPECIFICATION DeploymentSpec
CONSTANTS
  first = first
  second = second
  okc = okc
  hardhat = hardhat
  server = server
  Run = {first, second}
  Network = {okc, hardhat}
  Dev = hardhat
  NetworkOf <- TwoChains
  Client = {server}
INVARIANT SavedIsReady
PROPERTY TradersGetToWork
CHECK_DEADLOCK FALSE

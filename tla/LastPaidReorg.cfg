SPECIFICATION Spec
CONSTANTS
  m1 = m1
  m2 = m2
  s1 = s1
  s2 = s2
  staker = staker
  NoMasternode = NoMasternode
  Masternodes <- MCMasternodes
  Scripts <- MCScripts
  ScriptOf <- MCScriptOf
  Blocks <- PlainBlocks
  ScanDepth = 2
  MaxHeight = 3
PROPERTIES
  DisconnectForgets

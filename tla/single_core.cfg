SPECIFICATION MCSafeSpec
CONSTRAINT Specified
CONSTANTS
  ByteMod = 2
  NumRegs = 3
  BitAnd <- MCAnd
  BitOr <- MCOr
  BitXor <- MCXor
  Sll <- MCSll
  Srl <- MCSrl
  Sra <- MCSra
  Pools <- MixedPools
  StartRegs <- OneStart
  StartMems <- OneMem
INVARIANTS TypeOK
PROPERTIES Refines

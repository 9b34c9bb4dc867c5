SPECIFICATION CoreSpec
CONSTANTS
  ByteMod = 2
  NumRegs = 3
  BitAnd <- MCAnd
  BitOr <- MCOr
  BitXor <- MCXor
  Sll <- MCSll
  Srl <- MCSrl
  Sra <- MCSra
  Pools <- CorePools
  StartRegs <- OneStart
  StartMems <- OneMem
INVARIANTS TypeOK PipelineInv OperandsUpToDate StallExcludesRedirect
PROPERTIES Refines
CONSTRAINT Followed

SPECIFICATION MCFairSpec
CONSTANTS
  ByteMod = 2
  NumRegs = 3
  BitAnd <- MCAnd
  BitOr <- MCOr
  BitXor <- MCXor
  Sll <- MCSll
  Srl <- MCSrl
  Sra <- MCSra
  Pools <- ResetStallPools
  StartRegs <- OneStart
  StartMems <- OneMem
INVARIANTS PipelineInv
PROPERTIES Refines KeepsExecuting

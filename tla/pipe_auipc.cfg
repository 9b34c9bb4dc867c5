SPECIFICATION MCSpec
CONSTANTS
  ByteMod = 2
  NumRegs = 3
  BitAnd <- MCAnd
  BitOr <- MCOr
  BitXor <- MCXor
  Sll <- MCSll
  Srl <- MCSrl
  Sra <- MCSra
  Pools <- AliasPools
  StartRegs <- OneStart
  StartMems <- OneMem
PROPERTIES Refines

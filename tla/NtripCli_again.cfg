\* A caster of version 2 that refuses in HTTP.
CHECK_DEADLOCK FALSE
SPECIFICATION Spec
CONSTANTS
    Base = 2
    HdrMax = 5
    SizeMax = 3
    Ver = 0
    Casters <- ChunkOnly
    Writing = FALSE
    MaxRsp = 6
    Raw = 4
    NOut = 2
    NPay = 1
    Kinds <- Plain
PROPERTY AsksV2Again

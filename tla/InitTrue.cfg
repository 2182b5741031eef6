SPECIFICATION Spec
CONSTANT MaxInits = 2
PROPERTY InitTrueMeansReady
CHECK_DEADLOCK FALSE

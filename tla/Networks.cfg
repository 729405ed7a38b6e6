SPECIFICATION Spec
CONSTANTS
    Name = {n1, n2}
    Sess = {1, 2, 3}
    None = None
    Workers = 3
    Overlap = FALSE
    MaxOps = 2

  
PROPERTIES RemovedLeaves 
CHECK_DEADLOCK FALSE

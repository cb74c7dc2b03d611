CONSTANTS
    Kinds = {"battery"}
    MaxSaves = 2
SPECIFICATION Spec
PROPERTY ConsoleCopyStands

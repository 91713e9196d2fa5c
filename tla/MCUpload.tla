------------------------------ MODULE MCUpload -------------------------------
EXTENDS UploadProps, TLC
CONSTANTS d1, d2, d3, d4
File0 == <<>>
File1 == <<d1>>
File2 == <<d1, d2>>
File3 == <<d1, d2, d3>>
File4 == <<d1, d2, d3, d4>>
ChildSymmetry == Permutations(Child)
=============================================================================

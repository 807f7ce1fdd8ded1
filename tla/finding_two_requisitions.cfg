\* Two documents about one position whose drafts are confirmed at the same time.
SPECIFICATION ConfirmationsOnly
CONSTANTS
    d1 = d1
    d2 = d2
    Documents = {d1, d2}
    Lines = {1, 2, 3}
    DocumentOf <- MCDocumentOf
    MaxJob = 3
    MaxImports = 0
PROPERTIES
    NoSecondRequisition
CHECK_DEADLOCK FALSE

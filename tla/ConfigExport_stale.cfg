\* The emergency rules against an edit during the export.
CONSTANTS
    e1 = e1
    e2 = e2
    Exports = {e1}
    MaxEdits = 3
SPECIFICATION Spec
INVARIANTS
    ArchivedIsValid

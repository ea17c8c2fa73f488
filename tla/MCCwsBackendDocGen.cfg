\* Up to two definitions of up to two fields each, so that a definition
\* references the same one twice, two definitions come in either order,
\* and a field reference of another form makes the loop raise.
CONSTANTS
    PropNames = {p1, p2}
    DefNames = {1, 2}
    Types = {"string"}
    Schemas <- MCSchemas
    MaxTopProps = 1
    MaxDefs = 2
    MaxDefProps = 2
    TopRefForms = {TRUE}
    DefRefForms = {TRUE, FALSE}
    NoRef = NoRef
    NoType = NoType
    NoDoc = NoDoc
    Raise = Raise

SPECIFICATION Spec
\* The command ends once the file is written.
CHECK_DEADLOCK FALSE

INVARIANT DocMatchesReference

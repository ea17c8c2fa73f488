\* Two definitions without fields, in either order in $defs.
CONSTANTS
    PropNames = {p1, p2}
    DefNames = {1, 2}
    Types = {"string"}
    Schemas <- MCSchemas
    MaxTopProps = 0
    MaxDefs = 2
    MaxDefProps = 0
    TopRefForms = {TRUE}
    DefRefForms = {TRUE}
    NoRef = NoRef
    NoType = NoType
    NoDoc = NoDoc
    Raise = Raise

SPECIFICATION Spec
\* The command ends once the file is written.
CHECK_DEADLOCK FALSE

INVARIANT DefinitionsSortedByName

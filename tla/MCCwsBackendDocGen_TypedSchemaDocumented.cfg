\* One top-level property, referencing a definition through "#/$defs/"
\* or another form.
CONSTANTS
    PropNames = {p1, p2}
    DefNames = {1, 2}
    Types = {"string"}
    Schemas <- MCSchemas
    MaxTopProps = 1
    MaxDefs = 0
    MaxDefProps = 0
    TopRefForms = {TRUE, FALSE}
    DefRefForms = {TRUE}
    NoRef = NoRef
    NoType = NoType
    NoDoc = NoDoc
    Raise = Raise

SPECIFICATION Spec
\* The command ends once the file is written.
CHECK_DEADLOCK FALSE

INVARIANT TypedSchemaDocumented

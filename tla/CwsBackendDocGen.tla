-------------------------- MODULE CwsBackendDocGen --------------------------
(***************************************************************************)
(* generate_backend_documentation (tasks/libs/cws/backend_doc_gen.py):    *)
(* reads the CWS backend JSON schema and fills the documentation template *)
(* with one parameter per top-level property and one entry per $defs      *)
(* definition, listing the definitions it references and the fields that *)
(* carry a description.                                                    *)
(*                                                                         *)
(* A schema is abstracted to what the generator reads of it.  A property  *)
(* has a name, a "$ref" (or none), a "type" (or none) and a description   *)
(* (or none); a dict is a sequence in its insertion order, with distinct  *)
(* keys.  A "$ref" string is "#/$defs/<name>" (inDefs) or a reference of  *)
(* another form to <name>.  Definition names are numbers standing for the *)
(* names in alphabetical order.  The JSON text of the schema and of each  *)
(* definition, the anchors and the template are formatting and are left  *)
(* out.                                                                    *)
(*                                                                         *)
(* The loop over the $defs and the loop over a definition's fields are    *)
(* stepped one iteration at a time (pc, di, pi), with the lists the code  *)
(* builds as variables.                                                    *)
(***************************************************************************)
EXTENDS Naturals, Sequences, Functions

CONSTANTS
    PropNames,  \* property names
    DefNames,   \* definition names, in alphabetical order
    Types,      \* values of a property's "type"
    Schemas,    \* the schema files given as input
    NoRef,      \* sentinel: the property has no "$ref"
    NoType,     \* sentinel: the property has no "type"
    NoDoc,      \* sentinel: the output file is not written yet
    Raise       \* the generator raised (KeyError, UnboundLocalError)

ASSUME DefNamesAssumption == DefNames \subseteq Nat

Ref == [inDefs : BOOLEAN, name : DefNames]
Prop == [name : PropNames, ref : Ref \cup {NoRef},
         type : Types \cup {NoType}, described : BOOLEAN]
\* A JSON object: its entries in insertion order, keys distinct.
Dict(S) == {d \in Seq(S) : \A i, j \in DOMAIN d : d[i].name = d[j].name => i = j}
Definition == [name : DefNames, props : Dict(Prop)]
Schema == [props : Dict(Prop), defs : Dict(Definition)]

ASSUME SchemasAssumption == Schemas \subseteq Schema
ASSUME SentinelAssumption ==
    NoRef \notin Ref /\ NoDoc # Raise

VARIABLES
    schema,        \* the input schema
    pc,            \* where the generator is
    parameters,    \* the SchemaParameter list
    definitions,   \* the SchemaDefinition list
    di,            \* index of the $defs entry the outer loop is at
    pi,            \* index of the field the inner loop is at
    references,    \* references of the definition being documented
    seen,          \* seen_ref_names
    descriptions,  \* descriptions of the definition being documented
    doc            \* what is written to the output file

vars == <<schema, pc, parameters, definitions, di, pi, references, seen,
          descriptions, doc>>

(***************************************************************************)
(* extract_ref_name_and_anchor: strips the "#/$defs/" prefix; for any     *)
(* other reference `name` is never bound and the return raises            *)
(* UnboundLocalError.                                                      *)
(***************************************************************************)
ExtractRefName(ref) == IF ref.inDefs THEN ref.name ELSE Raise

(***************************************************************************)
(* One SchemaParameter: a "$ref" property links to its definition, any    *)
(* other property shows its "type" (KeyError when it has none).           *)
(***************************************************************************)
Parameter(p) ==
    CASE p.ref # NoRef /\ ExtractRefName(p.ref) = Raise -> Raise
      [] p.ref # NoRef -> [name |-> p.name, type |-> "$ref",
                           link |-> ExtractRefName(p.ref)]
      [] p.type = NoType -> Raise
      [] OTHER -> [name |-> p.name, type |-> p.type, link |-> NoRef]

\* definitions.sort(key=lambda d: d.name): a permutation ordered by name.
SortedByName(defs) ==
    CHOOSE t \in {[i \in DOMAIN defs |-> defs[p[i]]] :
                    p \in Bijection(DOMAIN defs, DOMAIN defs)} :
        \A i, j \in DOMAIN t : i < j => t[i].name <= t[j].name

(***************************************************************************)
(* `ref_name not in seen_ref_names`.  The first operator is a mutant that *)
(* drops the check.                                                        *)
(***************************************************************************)
IsNewReferenceUnchecked(name, seenNames) == TRUE
IsNewReference(name, seenNames) == name \notin Range(seenNames)

\* The $defs entry the outer loop is at.
CurrentDef == schema.defs[di]

Init ==
    /\ schema \in Schemas
    /\ pc = "parameters"
    /\ parameters = <<>>
    /\ definitions = <<>>
    /\ di = 0
    /\ pi = 0
    /\ references = <<>>
    /\ seen = <<>>
    /\ descriptions = <<>>
    /\ doc = NoDoc

(***************************************************************************)
(* The parameters loop, then the empty definitions list and its sort.  A  *)
(* property that makes Parameter raise ends the run.                       *)
(***************************************************************************)
CollectParameters ==
    LET params == [i \in DOMAIN schema.props |-> Parameter(schema.props[i])] IN
    /\ pc = "parameters"
    /\ \/ /\ Raise \in Range(params)
          /\ doc' = Raise
          /\ pc' = "done"
          /\ UNCHANGED <<parameters, definitions, di>>
       \/ /\ Raise \notin Range(params)
          /\ parameters' = params
          /\ definitions' = SortedByName(<<>>)
          /\ di' = 1
          /\ pc' = "defs"
          /\ UNCHANGED doc
    /\ UNCHANGED <<schema, pi, references, seen, descriptions>>

\* Head of the $defs loop: fresh references, descriptions, seen_ref_names.
BeginDefinition ==
    /\ pc = "defs"
    /\ di <= Len(schema.defs)
    /\ references' = <<>>
    /\ seen' = <<>>
    /\ descriptions' = <<>>
    /\ pi' = 1
    /\ pc' = "fields"
    /\ UNCHANGED <<schema, parameters, definitions, di, doc>>

(***************************************************************************)
(* One field of the current definition: its "$ref", unless seen already, *)
(* is added to references and seen_ref_names; its description, if any, to *)
(* descriptions.  A reference of another form raises.                      *)
(***************************************************************************)
VisitField ==
    LET p == CurrentDef.props[pi] IN
    /\ pc = "fields"
    /\ pi <= Len(CurrentDef.props)
    /\ \/ /\ p.ref # NoRef
          /\ ExtractRefName(p.ref) = Raise
          /\ doc' = Raise
          /\ pc' = "done"
          /\ UNCHANGED <<references, seen, descriptions, pi>>
       \/ /\ p.ref # NoRef => ExtractRefName(p.ref) # Raise
          /\ IF p.ref # NoRef /\ IsNewReference(p.ref.name, seen)
               THEN /\ references' = Append(references, p.ref.name)
                    /\ seen' = Append(seen, p.ref.name)
               ELSE UNCHANGED <<references, seen>>
          /\ descriptions' = IF p.described THEN Append(descriptions, p.name)
                                            ELSE descriptions
          /\ pi' = pi + 1
          /\ UNCHANGED <<pc, doc>>
    /\ UNCHANGED <<schema, parameters, definitions, di>>

\* definitions.append(SchemaDefinition(name, ..., references, descriptions))
EndDefinition ==
    /\ pc = "fields"
    /\ pi > Len(CurrentDef.props)
    /\ definitions' = Append(definitions,
                             [name |-> CurrentDef.name, references |-> references,
                              descriptions |-> descriptions])
    /\ di' = di + 1
    /\ pc' = "defs"
    /\ UNCHANGED <<schema, parameters, pi, references, seen, descriptions, doc>>

\* The template is filled with both lists and written to the output file.
WriteDocumentation ==
    /\ pc = "defs"
    /\ di > Len(schema.defs)
    /\ doc' = [parameters |-> parameters, definitions |-> definitions]
    /\ pc' = "done"
    /\ UNCHANGED <<schema, parameters, definitions, di, pi, references, seen,
                   descriptions>>

Next ==
    \/ CollectParameters
    \/ BeginDefinition
    \/ VisitField
    \/ EndDefinition
    \/ WriteDocumentation

Spec == Init /\ [][Next]_vars

-----------------------------------------------------------------------------
Written == doc \notin {NoDoc, Raise}

\* Field j of definition d is a "$ref" to definition n.
Refers(d, j, n) == d.props[j].ref # NoRef /\ d.props[j].ref.name = n

(***************************************************************************)
(* What the documentation of a definition should say about its first n    *)
(* fields: every definition they reference, once, in the order of the     *)
(* field that first references it, and every described field.             *)
(***************************************************************************)
FieldsDocumented(refs, descs, d, n) ==
    /\ Range(refs) = {d.props[j].ref.name : j \in {k \in 1..n : d.props[k].ref # NoRef}}
    /\ IsInjective(refs)
    /\ \A a, b \in DOMAIN refs : a < b =>
         \A j \in 1..n : Refers(d, j, refs[b]) => \E i \in 1..(j - 1) : Refers(d, i, refs[a])
    /\ Range(descs) = {d.props[j].name : j \in {k \in 1..n : d.props[k].described}}

(***************************************************************************)
(* Every definition of the schema is documented, and lists each           *)
(* definition its fields reference exactly once, in the order of the     *)
(* first field that references it, with every described field: what the  *)
(* seen_ref_names bookkeeping of the loop is for.                         *)
(***************************************************************************)
DocMatchesReference ==
    Written =>
      /\ {dd.name : dd \in Range(doc.definitions)} = {d.name : d \in Range(schema.defs)}
      /\ \A dd \in Range(doc.definitions), d \in Range(schema.defs) :
           dd.name = d.name =>
             FieldsDocumented(dd.references, dd.descriptions, d, Len(d.props))

(***************************************************************************)
(* The definitions appear in the documentation sorted by name, as the     *)
(* definitions.sort(key=lambda d: d.name) call asks.                       *)
(***************************************************************************)
DefinitionsSortedByName ==
    Written =>
      \A a, b \in DOMAIN doc.definitions :
        a < b => doc.definitions[a].name < doc.definitions[b].name

(***************************************************************************)
(* A schema whose properties all have a "$ref" or a "type" is documented: *)
(* a reference that is not of the "#/$defs/" form does not crash the     *)
(* generator.                                                              *)
(***************************************************************************)
TypedSchemaDocumented ==
    (doc = Raise) =>
      \E p \in Range(schema.props) : p.ref = NoRef /\ p.type = NoType

=============================================================================

------------------------- MODULE MCCwsBackendDocGen -------------------------
(***************************************************************************)
(* Model-checking instance of CwsBackendDocGen: every schema with at most *)
(* the given number of top-level properties, of definitions and of fields *)
(* per definition, over the names and reference forms of the cfg.          *)
(***************************************************************************)
EXTENDS CwsBackendDocGen, SequencesExt

CONSTANTS MaxTopProps, MaxDefs, MaxDefProps, TopRefForms, DefRefForms

\* A top-level property: a reference of one of the forms, or a type.
MCTopProp == [name : PropNames, ref : [inDefs : TopRefForms, name : DefNames] \cup {NoRef},
              type : Types \cup {NoType}, described : {FALSE}]

\* A field of a definition: the generator reads its "$ref" and description.
MCDefProp == [name : PropNames, ref : [inDefs : DefRefForms, name : DefNames] \cup {NoRef},
              type : {NoType}, described : BOOLEAN]

MCDicts(S, n) == {d \in BoundedSeq(S, n) :
                    \A i, j \in DOMAIN d : d[i].name = d[j].name => i = j}

MCDefinitions == [name : DefNames, props : MCDicts(MCDefProp, MaxDefProps)]

MCSchemas == [props : MCDicts(MCTopProp, MaxTopProps),
              defs : MCDicts(MCDefinitions, MaxDefs)]
=============================================================================

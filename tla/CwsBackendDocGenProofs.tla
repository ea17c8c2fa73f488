----------------------- MODULE CwsBackendDocGenProofs -----------------------
(***************************************************************************)
(* Proof that generate_backend_documentation documents every definition  *)
(* of the schema with its references, each once and in first-reference   *)
(* order, and its described fields (DocMatchesReference), for every       *)
(* schema of any size.  The loops are stepped one iteration at a time, so *)
(* what they build is established by an invariant of the steps.            *)
(***************************************************************************)
EXTENDS CwsBackendDocGen, SequenceTheorems, TLAPS

DefDoc == [name : DefNames, references : Seq(DefNames),
           descriptions : Seq(PropNames)]

DocTypeOK ==
    /\ schema \in Schema
    /\ pc \in {"parameters", "defs", "fields", "done"}
    /\ definitions \in Seq(DefDoc)
    /\ di \in Nat
    /\ pi \in Nat
    /\ references \in Seq(DefNames)
    /\ seen \in Seq(DefNames)
    /\ descriptions \in Seq(PropNames)

\* The entry of definition d in the documentation is right.
DefDocumented(dd, d) ==
    /\ dd.name = d.name
    /\ FieldsDocumented(dd.references, dd.descriptions, d, Len(d.props))

(***************************************************************************)
(* The loop invariant.  At the head of the $defs loop the first di - 1    *)
(* definitions are documented; inside the fields loop the lists built so *)
(* far document the first pi - 1 fields, and seen_ref_names equals the     *)
(* names in references; once written, the file holds the whole list.       *)
(***************************************************************************)
DocInv ==
    /\ DocTypeOK
    /\ pc # "done" => doc = NoDoc
    /\ Written => /\ pc = "done"
                  /\ doc.definitions = definitions
                  /\ Len(definitions) = Len(schema.defs)
                  /\ \A k \in 1..Len(schema.defs) :
                       DefDocumented(definitions[k], schema.defs[k])
    /\ pc \in {"defs", "fields"} =>
         /\ di \in 1..(Len(schema.defs) + 1)
         /\ Len(definitions) = di - 1
         /\ \A k \in 1..(di - 1) : DefDocumented(definitions[k], schema.defs[k])
    /\ pc = "fields" =>
         /\ di <= Len(schema.defs)
         /\ pi \in 1..(Len(CurrentDef.props) + 1)
         /\ seen = references
         /\ FieldsDocumented(references, descriptions, CurrentDef, pi - 1)

-----------------------------------------------------------------------------
(***************************************************************************)
(* Lemmas about the operators the loops are built from.                   *)
(***************************************************************************)

\* Appending x to s adds x, and only x, to the values of s.
LEMMA RangeAppend ==
    ASSUME NEW S, NEW s \in Seq(S), NEW x \in S
    PROVE  Range(Append(s, x)) = Range(s) \cup {x}
<1>1. /\ DOMAIN Append(s, x) = 1..(Len(s) + 1)
      /\ DOMAIN s = 1..Len(s)
      /\ \A i \in 1..Len(s) : Append(s, x)[i] = s[i]
      /\ Append(s, x)[Len(s) + 1] = x
  BY AppendProperties, LenProperties
<1> QED  BY <1>1 DEF Range

\* Appending a value s does not hold keeps s injective.
LEMMA InjectiveAppend ==
    ASSUME NEW S, NEW s \in Seq(S), NEW x \in S,
           IsInjective(s), x \notin Range(s)
    PROVE  IsInjective(Append(s, x))
<1>1. /\ DOMAIN Append(s, x) = 1..(Len(s) + 1)
      /\ DOMAIN s = 1..Len(s)
      /\ \A i \in 1..Len(s) : Append(s, x)[i] = s[i]
      /\ Append(s, x)[Len(s) + 1] = x
  BY AppendProperties, LenProperties
<1>2. \A i \in 1..Len(s) : s[i] # x  BY <1>1 DEF Range
<1> QED  BY <1>1, <1>2 DEF IsInjective

\* Sorting the empty definitions list leaves it empty.
LEMMA SortedEmpty == SortedByName(<<>>) = <<>>
<1> DEFINE Sorts == {[i \in DOMAIN <<>> |-> <<>>[p[i]]] :
                        p \in Bijection(DOMAIN <<>>, DOMAIN <<>>)}
<1>1. DOMAIN <<>> = {}  OBVIOUS
<1>2. [i \in {} |-> i] \in Bijection({}, {})
  BY DEF Bijection, Injection, Surjection, IsInjective
<1>3. \A t \in Sorts : t = <<>>  BY <1>1
<1>4. \E t \in Sorts : \A i, j \in DOMAIN t : i < j => t[i].name <= t[j].name
  BY <1>1, <1>2, <1>3
<1> QED  BY <1>3, <1>4 DEF SortedByName


\* The definitions the first n fields of d reference, and the fields of
\* the first n that carry a description.
RefNames(d, n) == {d.props[j].ref.name : j \in {k \in 1..n : d.props[k].ref # NoRef}}
DescNames(d, n) == {d.props[j].name : j \in {k \in 1..n : d.props[k].described}}

\* One more field adds its reference, if it has one, to RefNames.
LEMMA RefNamesStep ==
    ASSUME NEW d \in Definition, NEW n \in Nat, n + 1 <= Len(d.props)
    PROVE  RefNames(d, n + 1) =
             IF d.props[n + 1].ref # NoRef
               THEN RefNames(d, n) \cup {d.props[n + 1].ref.name}
               ELSE RefNames(d, n)
<1>1. 1..(n + 1) = (1..n) \cup {n + 1}  OBVIOUS
<1> QED  BY <1>1 DEF RefNames

\* One more field adds its name, if it is described, to DescNames.
LEMMA DescNamesStep ==
    ASSUME NEW d \in Definition, NEW n \in Nat, n + 1 <= Len(d.props)
    PROVE  DescNames(d, n + 1) =
             IF d.props[n + 1].described
               THEN DescNames(d, n) \cup {d.props[n + 1].name}
               ELSE DescNames(d, n)
<1>1. 1..(n + 1) = (1..n) \cup {n + 1}  OBVIOUS
<1> QED  BY <1>1 DEF DescNames

\* The fields of a definition are properties.
LEMMA FieldType ==
    ASSUME NEW d \in Definition, NEW j \in 1..Len(d.props)
    PROVE  /\ d.props[j] \in Prop
           /\ d.props[j].ref # NoRef => d.props[j].ref.name \in DefNames
<1>1. d.props \in Seq(Prop)  BY DEF Definition, Dict
<1>2. d.props[j] \in Prop  BY <1>1, ElementOfSeq
<1> QED  BY <1>2 DEF Prop, Ref


(***************************************************************************)
(* One iteration of the fields loop, with seen_ref_names equal to         *)
(* references, keeps the lists documenting the fields visited so far.     *)
(***************************************************************************)
LEMMA FieldsStep ==
    ASSUME NEW d \in Definition, NEW n \in Nat, n + 1 <= Len(d.props),
           NEW refs \in Seq(DefNames), NEW descs \in Seq(PropNames),
           FieldsDocumented(refs, descs, d, n)
    PROVE  LET p == d.props[n + 1]
               refs2 == IF p.ref # NoRef /\ p.ref.name \notin Range(refs)
                          THEN Append(refs, p.ref.name) ELSE refs
               descs2 == IF p.described THEN Append(descs, p.name) ELSE descs
           IN  FieldsDocumented(refs2, descs2, d, n + 1)
<1> DEFINE p == d.props[n + 1]
           refs2 == IF p.ref # NoRef /\ p.ref.name \notin Range(refs)
                      THEN Append(refs, p.ref.name) ELSE refs
           descs2 == IF p.described THEN Append(descs, p.name) ELSE descs
<1>1. /\ p \in Prop
      /\ p.ref # NoRef => p.ref.name \in DefNames
  BY FieldType
<1>2. /\ Range(refs) = RefNames(d, n)
      /\ IsInjective(refs)
      /\ \A a, b \in DOMAIN refs : a < b =>
           \A j \in 1..n : Refers(d, j, refs[b]) => \E i \in 1..(j - 1) : Refers(d, i, refs[a])
      /\ Range(descs) = DescNames(d, n)
  BY DEF FieldsDocumented, RefNames, DescNames
<1>3. Range(refs2) = RefNames(d, n + 1)
  <2>0. RefNames(d, n + 1) = IF p.ref # NoRef THEN RefNames(d, n) \cup {p.ref.name}
                                             ELSE RefNames(d, n)
    BY RefNamesStep
  <2>1. CASE p.ref # NoRef /\ p.ref.name \notin Range(refs)
    <3>1. p.ref.name \in DefNames  BY <2>1, <1>1
    <3>2. Range(Append(refs, p.ref.name)) = Range(refs) \cup {p.ref.name}
      BY <3>1, RangeAppend
    <3> QED  BY <2>0, <2>1, <3>2, <1>2
  <2>2. CASE ~(p.ref # NoRef /\ p.ref.name \notin Range(refs))
    BY <2>0, <2>2, <1>2
  <2> QED  BY <2>1, <2>2
<1>4. IsInjective(refs2)
  <2>1. CASE p.ref # NoRef /\ p.ref.name \notin Range(refs)
    <3>1. p.ref.name \in DefNames  BY <2>1, <1>1
    <3> QED  BY <2>1, <3>1, <1>2, InjectiveAppend
  <2> QED  BY <2>1, <1>2
<1>5. Range(descs2) = DescNames(d, n + 1)
  <2>0. DescNames(d, n + 1) = IF p.described THEN DescNames(d, n) \cup {p.name}
                                             ELSE DescNames(d, n)
    BY DescNamesStep
  <2>1. p.name \in PropNames  BY <1>1 DEF Prop
  <2>2. Range(Append(descs, p.name)) = Range(descs) \cup {p.name}
    BY <2>1, RangeAppend
  <2> QED  BY <2>0, <2>2, <1>2
\* A reference of a visited field is to a definition in refs.
<1>6. \A j \in 1..n, x \in DefNames : Refers(d, j, x) => x \in Range(refs)
  BY <1>2 DEF Refers, RefNames
\* Every definition in refs is referenced by a visited field.
<1>7. \A a \in DOMAIN refs : \E i \in 1..n : Refers(d, i, refs[a])
  <2> SUFFICES ASSUME NEW a \in DOMAIN refs PROVE \E i \in 1..n : Refers(d, i, refs[a])
    OBVIOUS
  <2>1. refs[a] \in RefNames(d, n)  BY <1>2 DEF Range
  <2> QED  BY <2>1 DEF RefNames, Refers
<1>8. \A a, b \in DOMAIN refs2 : a < b =>
        \A j \in 1..(n + 1) : Refers(d, j, refs2[b]) => \E i \in 1..(j - 1) : Refers(d, i, refs2[a])
  <2> SUFFICES ASSUME NEW a \in DOMAIN refs2, NEW b \in DOMAIN refs2, a < b,
                      NEW j \in 1..(n + 1), Refers(d, j, refs2[b])
               PROVE  \E i \in 1..(j - 1) : Refers(d, i, refs2[a])
    OBVIOUS
  <2>1. CASE p.ref # NoRef /\ p.ref.name \notin Range(refs)
    <3>1. /\ DOMAIN refs2 = 1..(Len(refs) + 1)
          /\ DOMAIN refs = 1..Len(refs)
          /\ \A i \in 1..Len(refs) : refs2[i] = refs[i]
          /\ refs2[Len(refs) + 1] = p.ref.name
      BY <2>1, <1>1, AppendProperties, LenProperties
    <3>2. a \in DOMAIN refs /\ refs2[a] = refs[a]  BY <3>1
    <3>3. CASE j = n + 1
      BY <3>2, <3>3, <1>7
    <3>4. CASE j \in 1..n /\ b \in DOMAIN refs
      BY <3>1, <3>2, <3>4, <1>2
    <3>5. CASE j \in 1..n /\ b = Len(refs) + 1
      BY <3>1, <3>5, <2>1, <1>1, <1>6
    <3> QED  BY <3>1, <3>3, <3>4, <3>5
  <2>2. CASE ~(p.ref # NoRef /\ p.ref.name \notin Range(refs))
    <3>1. refs2 = refs  BY <2>2
    <3>2. CASE j = n + 1
      BY <3>1, <3>2, <1>7
    <3>3. CASE j \in 1..n
      BY <3>1, <3>3, <1>2
    <3> QED  BY <3>2, <3>3
  <2> QED  BY <2>1, <2>2
<1> QED  BY <1>3, <1>4, <1>5, <1>8 DEF FieldsDocumented, RefNames, DescNames

-----------------------------------------------------------------------------
(***************************************************************************)
(* DocInv holds initially and is kept by every step of the generator.      *)
(***************************************************************************)

\* The $defs of a schema are definitions with distinct names.
LEMMA SchemaDefs ==
    ASSUME NEW sc \in Schema
    PROVE  /\ sc.defs \in Seq(Definition)
           /\ \A i, j \in DOMAIN sc.defs : sc.defs[i].name = sc.defs[j].name => i = j
BY DEF Schema, Dict

\* The $defs entry the loop is at is a definition.
LEMMA CurrentDefType ==
    ASSUME schema \in Schema, NEW k \in 1..Len(schema.defs)
    PROVE  schema.defs[k] \in Definition
BY SchemaDefs, ElementOfSeq

LEMMA InitDocInv == Init => DocInv
<1> SUFFICES ASSUME Init PROVE DocInv  OBVIOUS
<1>1. schema \in Schema  BY SchemasAssumption DEF Init
<1>2. Written = FALSE  BY DEF Init, Written
<1> QED  BY <1>1, <1>2, EmptySeq DEF Init, DocInv, DocTypeOK

LEMMA CollectParametersDocInv ==
    ASSUME DocInv, CollectParameters PROVE DocInv'
<1>1. doc = NoDoc /\ pc = "parameters"  BY DEF DocInv, CollectParameters
<1>2. SortedByName(<<>>) = <<>>  BY SortedEmpty
<1>3. Len(schema.defs) \in Nat  BY SchemaDefs, LenProperties DEF DocInv, DocTypeOK
<1>4. CASE Raise \in Range([i \in DOMAIN schema.props |-> Parameter(schema.props[i])])
  <2>1. doc' = Raise /\ pc' = "done" /\ UNCHANGED <<schema, definitions, di, pi,
                                                   references, seen, descriptions>>
    BY <1>4 DEF CollectParameters
  <2>2. ~Written'  BY <2>1 DEF Written
  <2> QED  BY <2>1, <2>2 DEF DocInv, DocTypeOK
<1>5. CASE Raise \notin Range([i \in DOMAIN schema.props |-> Parameter(schema.props[i])])
  <2>1. /\ definitions' = <<>> /\ di' = 1 /\ pc' = "defs" /\ doc' = NoDoc
        /\ UNCHANGED <<schema, pi, references, seen, descriptions>>
    BY <1>1, <1>2, <1>5 DEF CollectParameters
  <2>2. ~Written'  BY <2>1, SentinelAssumption DEF Written
  <2> QED  BY <1>3, <2>1, <2>2, EmptySeq DEF DocInv, DocTypeOK
<1> QED  BY <1>4, <1>5

LEMMA BeginDefinitionDocInv ==
    ASSUME DocInv, BeginDefinition PROVE DocInv'
<1>1. /\ pc = "defs" /\ doc = NoDoc /\ di \in 1..Len(schema.defs)
      /\ pc' = "fields" /\ pi' = 1
      /\ references' = <<>> /\ seen' = <<>> /\ descriptions' = <<>>
      /\ UNCHANGED <<schema, parameters, definitions, di, doc>>
  BY DEF DocInv, DocTypeOK, BeginDefinition
<1>2. CurrentDef' \in Definition  BY <1>1, CurrentDefType DEF DocInv, DocTypeOK, CurrentDef
<1>3. Len(CurrentDef'.props) \in Nat  BY <1>2, LenProperties DEF Definition, Dict
<1>4. FieldsDocumented(<<>>, <<>>, CurrentDef', 0)  BY DEF FieldsDocumented, Range, IsInjective
<1>5. ~Written'  BY <1>1, SentinelAssumption DEF Written
<1>6. <<>> \in Seq(DefNames) /\ <<>> \in Seq(PropNames)  BY EmptySeq
<1>7. DocTypeOK'  BY <1>1, <1>6 DEF DocInv, DocTypeOK
<1>8. (pc \in {"defs", "fields"} =>
         /\ di \in 1..(Len(schema.defs) + 1)
         /\ Len(definitions) = di - 1
         /\ \A k \in 1..(di - 1) : DefDocumented(definitions[k], schema.defs[k]))'
  BY <1>1 DEF DocInv
<1>9. (pc = "fields" =>
         /\ di <= Len(schema.defs)
         /\ pi \in 1..(Len(CurrentDef.props) + 1)
         /\ seen = references
         /\ FieldsDocumented(references, descriptions, CurrentDef, pi - 1))'
  BY <1>1, <1>3, <1>4
<1> QED  BY <1>1, <1>5, <1>7, <1>8, <1>9 DEF DocInv

LEMMA WriteDocumentationDocInv ==
    ASSUME DocInv, WriteDocumentation PROVE DocInv'
<1>1. /\ pc = "defs" /\ di = Len(schema.defs) + 1
      /\ Len(definitions) = Len(schema.defs)
      /\ \A k \in 1..Len(schema.defs) : DefDocumented(definitions[k], schema.defs[k])
  BY SchemaDefs, LenProperties DEF DocInv, DocTypeOK, WriteDocumentation
<1>2. /\ doc' = [parameters |-> parameters, definitions |-> definitions]
      /\ pc' = "done"
      /\ UNCHANGED <<schema, definitions, di, pi, references, seen, descriptions>>
  BY DEF WriteDocumentation
<1> QED  BY <1>1, <1>2 DEF DocInv, DocTypeOK

LEMMA VisitFieldDocInv ==
    ASSUME DocInv, VisitField PROVE DocInv'
<1> DEFINE p == CurrentDef.props[pi]
<1>1. /\ pc = "fields" /\ doc = NoDoc
      /\ di \in 1..Len(schema.defs)
      /\ pi \in 1..Len(CurrentDef.props)
      /\ seen = references
      /\ FieldsDocumented(references, descriptions, CurrentDef, pi - 1)
      /\ UNCHANGED <<schema, definitions, di>>
  BY DEF DocInv, DocTypeOK, VisitField
<1>2. CurrentDef \in Definition  BY <1>1, CurrentDefType DEF DocInv, DocTypeOK, CurrentDef
<1>3. CASE p.ref # NoRef /\ ExtractRefName(p.ref) = Raise /\ doc' = Raise /\ pc' = "done"
           /\ UNCHANGED <<references, seen, descriptions, pi>>
  <2>1. ~Written'  BY <1>3 DEF Written
  <2> QED  BY <1>1, <1>3, <2>1 DEF DocInv, DocTypeOK
<1>4. CASE /\ IF p.ref # NoRef /\ IsNewReference(p.ref.name, seen)
                THEN /\ references' = Append(references, p.ref.name)
                     /\ seen' = Append(seen, p.ref.name)
                ELSE UNCHANGED <<references, seen>>
           /\ descriptions' = IF p.described THEN Append(descriptions, p.name)
                                             ELSE descriptions
           /\ pi' = pi + 1
           /\ UNCHANGED <<pc, doc>>
  <2>1. /\ p \in Prop
        /\ p.ref # NoRef => p.ref.name \in DefNames
    BY <1>1, <1>2, FieldType
  <2>2. /\ references \in Seq(DefNames)
        /\ descriptions \in Seq(PropNames)
        /\ pi - 1 \in Nat
    BY <1>1 DEF DocInv, DocTypeOK
  <2>3. /\ references' = (IF p.ref # NoRef /\ p.ref.name \notin Range(references)
                            THEN Append(references, p.ref.name) ELSE references)
        /\ seen' = references'
    BY <1>1, <1>4 DEF IsNewReference
  <2>4. FieldsDocumented(references', descriptions', CurrentDef, pi)
    <3>1. (pi - 1) + 1 = pi  BY <1>1
    <3> QED  BY <1>1, <1>2, <1>4, <2>2, <2>3, <3>1, FieldsStep
  <2>5. /\ references' \in Seq(DefNames)
        /\ descriptions' \in Seq(PropNames)
    BY <1>4, <2>1, <2>2, <2>3, AppendProperties DEF Prop
  <2>6. CurrentDef' = CurrentDef  BY <1>1 DEF CurrentDef
  <2>7. DocTypeOK'  BY <1>1, <1>4, <2>5, <2>3 DEF DocInv, DocTypeOK
  <2>8. ~Written'  BY <1>1, <1>4, SentinelAssumption DEF Written
  <2>9. pi' \in 1..(Len(CurrentDef.props) + 1)  BY <1>1, <1>4
  <2> QED  BY <1>1, <1>4, <2>3, <2>4, <2>6, <2>7, <2>8, <2>9 DEF DocInv
<1> QED  BY <1>3, <1>4 DEF VisitField

LEMMA EndDefinitionDocInv ==
    ASSUME DocInv, EndDefinition PROVE DocInv'
<1> DEFINE entry == [name |-> CurrentDef.name, references |-> references,
                     descriptions |-> descriptions]
<1>0. /\ pc = "fields" /\ doc = NoDoc
      /\ di \in 1..(Len(schema.defs) + 1) /\ di <= Len(schema.defs)
      /\ Len(definitions) = di - 1
      /\ \A k \in 1..(di - 1) : DefDocumented(definitions[k], schema.defs[k])
      /\ pi \in 1..(Len(CurrentDef.props) + 1)
      /\ pi > Len(CurrentDef.props)
      /\ FieldsDocumented(references, descriptions, CurrentDef, pi - 1)
      /\ definitions' = Append(definitions, entry)
      /\ di' = di + 1 /\ pc' = "defs"
      /\ UNCHANGED <<schema, pi, references, seen, descriptions, doc>>
  BY DEF DocInv, EndDefinition
<1>1. /\ pc = "fields" /\ doc = NoDoc
      /\ di \in 1..Len(schema.defs)
      /\ Len(definitions) = di - 1
      /\ \A k \in 1..(di - 1) : DefDocumented(definitions[k], schema.defs[k])
      /\ pi = Len(CurrentDef.props) + 1
      /\ FieldsDocumented(references, descriptions, CurrentDef, pi - 1)
      /\ definitions' = Append(definitions, entry)
      /\ di' = di + 1 /\ pc' = "defs"
      /\ UNCHANGED <<schema, pi, references, seen, descriptions, doc>>
  BY <1>0
<1>2. CurrentDef \in Definition  BY <1>1, CurrentDefType DEF DocInv, DocTypeOK, CurrentDef
<1>3. entry \in DefDoc  BY <1>2 DEF DocInv, DocTypeOK, DefDoc, Definition
<1>4. definitions \in Seq(DefDoc)  BY DEF DocInv, DocTypeOK
<1>5. /\ definitions' \in Seq(DefDoc)
      /\ Len(definitions') = di
      /\ \A k \in 1..(di - 1) : definitions'[k] = definitions[k]
      /\ definitions'[di] = entry
  BY <1>1, <1>3, <1>4, AppendProperties
<1>6. DefDocumented(entry, schema.defs[di])
  BY <1>1 DEF DefDocumented, CurrentDef
<1>7. \A k \in 1..di : DefDocumented(definitions'[k], schema.defs[k])
  BY <1>1, <1>5, <1>6
<1>8. DocTypeOK'  BY <1>1, <1>5 DEF DocInv, DocTypeOK
<1>9. ~Written'  BY <1>1, SentinelAssumption DEF Written
<1> QED  BY <1>1, <1>5, <1>7, <1>8, <1>9 DEF DocInv

LEMMA StutterDocInv ==
    ASSUME DocInv, UNCHANGED vars PROVE DocInv'
BY DEF DocInv, DocTypeOK, vars, Written, CurrentDef, DefDocumented

LEMMA NextDocInv == DocInv /\ [Next]_vars => DocInv'
BY CollectParametersDocInv, BeginDefinitionDocInv, VisitFieldDocInv,
   EndDefinitionDocInv, WriteDocumentationDocInv, StutterDocInv DEF Next

\* Once written, the documentation is what DocMatchesReference asks for.
LEMMA DocInvMatches == DocInv => DocMatchesReference
<1> SUFFICES ASSUME DocInv, Written
             PROVE  /\ {dd.name : dd \in Range(doc.definitions)} = {d.name : d \in Range(schema.defs)}
                    /\ \A dd \in Range(doc.definitions), d \in Range(schema.defs) :
                         dd.name = d.name =>
                           FieldsDocumented(dd.references, dd.descriptions, d, Len(d.props))
  BY DEF DocMatchesReference
<1>1. /\ doc.definitions = definitions
      /\ DOMAIN definitions = 1..Len(schema.defs)
      /\ DOMAIN schema.defs = 1..Len(schema.defs)
      /\ \A k \in 1..Len(schema.defs) : DefDocumented(definitions[k], schema.defs[k])
      /\ \A i, j \in DOMAIN schema.defs : schema.defs[i].name = schema.defs[j].name => i = j
  BY SchemaDefs, LenProperties DEF DocInv, DocTypeOK
<1>2. {dd.name : dd \in Range(doc.definitions)} = {d.name : d \in Range(schema.defs)}
  BY <1>1 DEF Range, DefDocumented
<1>3. ASSUME NEW k \in 1..Len(schema.defs), NEW m \in 1..Len(schema.defs),
             definitions[k].name = schema.defs[m].name
      PROVE  FieldsDocumented(definitions[k].references, definitions[k].descriptions,
                              schema.defs[m], Len(schema.defs[m].props))
  <2>1. k = m  BY <1>1, <1>3 DEF DefDocumented
  <2> QED  BY <1>1, <2>1 DEF DefDocumented
<1>4. ASSUME NEW dd \in Range(doc.definitions), NEW d \in Range(schema.defs),
             dd.name = d.name
      PROVE  FieldsDocumented(dd.references, dd.descriptions, d, Len(d.props))
  <2>1. PICK k \in 1..Len(schema.defs) : dd = definitions[k]  BY <1>1 DEF Range
  <2>2. PICK m \in 1..Len(schema.defs) : d = schema.defs[m]  BY <1>1 DEF Range
  <2> QED  BY <1>3, <1>4, <2>1, <2>2
<1> QED  BY <1>2, <1>4

-----------------------------------------------------------------------------
(***************************************************************************)
(* generate_backend_documentation writes, when it writes at all, one      *)
(* entry per $defs definition listing each definition its fields          *)
(* reference once, in first-reference order, and its described fields:   *)
(* the seen_ref_names check and the per-definition resets are right for  *)
(* every schema.                                                           *)
(***************************************************************************)
THEOREM DocMatchesReferenceHolds == Spec => []DocMatchesReference
<1>1. Init => DocInv  BY InitDocInv
<1>2. DocInv /\ [Next]_vars => DocInv'  BY NextDocInv
<1>3. DocInv => DocMatchesReference  BY DocInvMatches
<1> QED  BY <1>1, <1>2, <1>3, PTL DEF Spec

=============================================================================

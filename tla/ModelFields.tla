----------------------------- MODULE ModelFields ----------------------------
(***************************************************************************)
(* Which columns a query selects for a model, and where a row of the       *)
(* result is scanned to: database/sq.go and database/ql.go.  Columns and   *)
(* Scan are called apart, often on different instances of the model (one   *)
(* to build the query, a new one for every row), and must agree.           *)
(*                                                                         *)
(* The fields of a model are numbered as the model declares them; an       *)
(* instance keeps them in an order, which ScanAll changes, and a cache in  *)
(* the order they had when it was built.  Names are natural numbers in     *)
(* their sort order, and 0 is the empty one, of a field without a GraphQL  *)
(* name or without a column.  SelectAll sorts the columns quoted and with  *)
(* the alias, ScanAll bare: the orders are one unless a column has a       *)
(* character below the quotation mark in its name, a blank or "!".         *)
(***************************************************************************)
EXTENDS Naturals, Sequences, FiniteSets, SequencesExt

CONSTANTS
  Models,       \* declarations of a model: sequences of [SQL, GQL]
  Instances,    \* Go structs of that model
  MaxSelected,  \* bounds the fields that one GraphQL query selects
  MaxQueries    \* bounds the queries that are built

ASSUME ModelsAssumption == Models \subseteq Seq([SQL : Nat, GQL : Nat])
ASSUME MaxSelectedAssumption == MaxSelected \in Nat

VARIABLES
  model,        \* the declaration; never changes
  fields,       \* mf.Fields of each instance
  cache,        \* the fields that byGQL, bySQL and anon were built from, or <<>>
  queries,      \* queries built: their columns, and for what
  sorted        \* history: instances that ScanAll sorted before the cache was built

mappingVars == <<model, fields, cache, queries, sorted>>

\* The orders of the fields of m, the declared one among them.
Orders(m) == Bijection(DOMAIN m, DOMAIN m)
AsDeclared(m) == [f \in DOMAIN m |-> f]

\* The names that collectFields finds, one that a query selects twice under two
\* aliases twice; none outside of GraphQL; 0 stands for those that the model
\* maps to no column.
GQLNames == {model[f].GQL : f \in DOMAIN model} \ {0}
Selections == BoundedSeq(GQLNames \cup {0}, MaxSelected)

MappingInit ==
  /\ model \in Models
  /\ fields = [i \in Instances |-> AsDeclared(model)]
  /\ cache = [i \in Instances |-> <<>>]
  /\ queries = {}
  /\ sorted = {}

-----------------------------------------------------------------------------
(***************************************************************************)
(* Sorting                                                                 *)
(***************************************************************************)

Rearrangements(s) ==
  {[k \in DOMAIN s |-> s[p[k]]] : p \in Bijection(DOMAIN s, DOMAIN s)}

Ascending(s) == \A j, k \in DOMAIN s : j <= k => s[j] <= s[k]

\* sort.Slice and sort.Strings, of names.
Sort(s) == CHOOSE t \in Rearrangements(s) : Ascending(t)

-----------------------------------------------------------------------------
(***************************************************************************)
(* The cache                                                               *)
(***************************************************************************)

\* Mutant: a cache that is built again by every call.
Rebuilt(i) == fields[i]

\* buildCache: the order of the cache after it.
Built(i) == IF cache[i] # <<>> THEN cache[i] ELSE fields[i]

\* The fields of m with this GraphQL name, in the given order.
Having(m, order, name) ==
  FlattenSeq([k \in DOMAIN order |->
                IF m[order[k]].GQL = name THEN <<order[k]>> ELSE <<>>])

\* byGQL knows the fields with a name, anon has the others.
GQL(m, order, name) == IF name = 0 THEN <<>> ELSE Having(m, order, name)
Anonymous(m, order) == Having(m, order, 0)

-----------------------------------------------------------------------------
(***************************************************************************)
(* Columns and Scan, SelectAll and ScanAll                                 *)
(***************************************************************************)

\* The names to look up: those of the query or, when there are none, one for
\* each field, repeated and nameless ones included; sorted.
Names(i, selection) ==
  Sort(IF selection # <<>> THEN selection
       ELSE [k \in DOMAIN fields[i] |-> model[fields[i][k]].GQL])

Named(m, order, names) ==
  FlattenSeq([k \in DOMAIN names |-> GQL(m, order, names[k])])

SQLOf(m, list) == [k \in DOMAIN list |-> m[list[k]].SQL]

Columns(i, selection) ==
  SQLOf(model, Named(model, Built(i), Names(i, selection)))
    \o SQLOf(model, Anonymous(model, Built(i)))

\* The pointers to scan a row into, as the fields they belong to.
Scan(i, selection) ==
  Named(model, Built(i), Names(i, selection)) \o Anonymous(model, Built(i))

\* SelectAll: from bySQL, a column for each of its fields, sorted.
AllColumns(i) == Sort(SQLOf(model, Built(i)))

\* A query of one of the two ways, for a selection of the first.
Selecting(i, selection) ==
  /\ Cardinality(queries) < MaxQueries
  /\ cache' = [cache EXCEPT ![i] = Built(i)]
  /\ queries' = queries \cup
       {[all |-> FALSE, by |-> i, for |-> selection, columns |-> Columns(i, selection)]}
  /\ UNCHANGED <<model, fields, sorted>>

SelectingAll(i) ==
  /\ Cardinality(queries) < MaxQueries
  /\ cache' = [cache EXCEPT ![i] = Built(i)]
  /\ queries' = queries \cup
       {[all |-> TRUE, by |-> i, for |-> <<>>, columns |-> AllColumns(i)]}
  /\ UNCHANGED <<model, fields, sorted>>

\* A row is scanned.
Scanning(i) ==
  /\ queries # {}
  /\ cache' = [cache EXCEPT ![i] = Built(i)]
  /\ UNCHANGED <<model, fields, queries, sorted>>

\* Mutants: sorted by the other name; one field for each column.
ByGQL(m, list) ==
  {order \in Rearrangements(list) : Ascending([k \in DOMAIN order |-> m[order[k]].GQL])}

BySQLOnce(m, list) ==
  {order \in BoundedSeq(Range(list), Len(list)) :
     /\ Range(SQLOf(m, order)) = Range(SQLOf(m, list))
     /\ \A j, k \in DOMAIN order : j < k => m[order[j]].SQL < m[order[k]].SQL}

\* The orders sort.Slice may leave the fields in: it is not stable.
BySQL(m, list) == {order \in Rearrangements(list) : Ascending(SQLOf(m, order))}

\* ScanAll sorts mf.Fields in place.
ScanningAll(i) ==
  /\ \E q \in queries : q.all
  /\ \E order \in BySQL(model, fields[i]) : fields' = [fields EXCEPT ![i] = order]
  /\ sorted' = IF cache[i] = <<>> THEN sorted \cup {i} ELSE sorted
  /\ UNCHANGED <<model, cache, queries>>

\* What ScanAll returns: the pointers of the fields with a column.
Destinations(m, order) ==
  FlattenSeq([k \in DOMAIN order |->
                IF m[order[k]].SQL # 0 THEN <<order[k]>> ELSE <<>>])

MappingNext ==
  \/ \E i \in Instances, selection \in Selections : Selecting(i, selection)
  \/ \E i \in Instances : SelectingAll(i) \/ Scanning(i) \/ ScanningAll(i)

MappingSpec == MappingInit /\ [][MappingNext]_mappingVars

-----------------------------------------------------------------------------
(***************************************************************************)
(* Properties                                                              *)
(***************************************************************************)

\* The type invariant: what an instance and its cache hold are orders of all the
\* fields, and a query has a list of columns.
MappingTypeOK ==
  /\ model \in Models
  /\ fields \in [Instances -> Orders(model)]
  /\ cache \in [Instances -> Orders(model) \cup {<<>>}]
  /\ queries \subseteq
       [all : BOOLEAN, by : Instances, for : Seq(Nat), columns : Seq(Nat)]
  /\ sorted \subseteq Instances

\* A row of a query fits the destinations of Scan, whatever was called between
\* the two: on the instance the query was built with always, on another one if
\* ScanAll did not sort either of them before its cache was built.
ScanFitsColumns ==
  \A q \in queries, i \in Instances :
    ~q.all /\ (i = q.by \/ {i, q.by} \cap sorted = {})
      => SQLOf(model, Scan(i, q.for)) = q.columns

\* A row of SelectAll fits ScanAll, on any instance and in any state of its
\* cache, exactly if every field has a column: ScanAll leaves out the others,
\* SelectAll does not.
ScanAllFitsSelectAll ==
  [][\A i \in Instances, q \in queries :
       q.all /\ ScanningAll(i) =>
         (SQLOf(model, Destinations(model, fields'[i])) = q.columns
            <=> \A f \in DOMAIN model : model[f].SQL # 0)]_mappingVars
=============================================================================

---------------------------- MODULE MCRequestPath ---------------------------
(***************************************************************************)
(* Three parts of serving one request that share no state, each on its own *)
(* small instance: authentication (Auth, one request, with fairness), the  *)
(* response (Response) and the mapping of models (ModelFields).  `part`    *)
(* says which of them a behaviour is about; the other two stay in one      *)
(* initial state.                                                          *)
(***************************************************************************)
EXTENDS Response, ModelFields

CONSTANTS r1, u1, Nobody, i1, i2

VARIABLES
  part,
  isMeta, alive, local, meta, revoked, apc, user, method, profile, lookup,
  revocation, answers, gone, conflict, before

Requests == {r1}
Users == {u1}
TwoInstances == {i1, i2}

\* Every model of two fields, the empty names included, and every one of three
\* with one GraphQL name that is out of order by column.
SmallModels ==
  [1..2 -> [SQL : 0..2, GQL : 0..2]] \cup
  {m \in [1..3 -> [SQL : 1..2, GQL : 0..1]] : m[1].SQL > m[3].SQL}

A == INSTANCE Auth WITH pc <- apc

TwoFields == <<[SQL |-> 1, GQL |-> 1], [SQL |-> 2, GQL |-> 2]>>

PartsInit ==
  /\ part \in {"auth", "response", "models"}
  /\ A!Init
  /\ part # "auth" => ~isMeta /\ local[u1] = "active" /\ meta[u1] = "active"
  /\ Init
  /\ part # "response" => kind = "query"
  /\ MappingInit
  /\ part # "models" => model = TwoFields

authVars == <<isMeta, alive, local, meta, revoked, apc, user, method, profile,
              lookup, revocation, answers, gone, conflict, before>>
partsVars == <<part, authVars, vars, mappingVars>>

InAuth == part = "auth" /\ UNCHANGED <<part, vars, mappingVars>>
InResponse == part = "response" /\ UNCHANGED <<part, authVars, mappingVars>>
InModels == part = "models" /\ UNCHANGED <<part, authVars, vars>>

Process(r) == A!Process(r) /\ InAuth
ResponseStep(f) == Step(f) /\ InResponse
ResponseAwaitDone(f) == AwaitDone(f) /\ InResponse

PartsNext ==
  \/ \E r \in Requests : A!Arrive(r) /\ InAuth
  \/ \E r \in Requests : A!ClientGone(r) /\ InAuth
  \/ \E r \in Requests : Process(r)
  \/ \E u \in Users : A!Revoke(u) /\ InAuth
  \/ \E u \in Users : A!SuspendAtMeta(u) /\ InAuth
  \/ \E u \in Users : A!SuspendLocally(u) /\ InAuth
  \/ A!Restart /\ InAuth
  \/ \E f \in Fields : DirectivePasses(f) /\ InResponse
  \/ \E f \in Fields : DirectiveDenies(f) /\ InResponse
  \/ \E f \in Fields : DirectivePanics(f) /\ InResponse
  \/ \E f \in Fields, check \in Checks, value \in Values, holds \in BOOLEAN :
       Validate(f, check, value, holds) /\ InResponse
  \/ \E f \in Fields : ValidateWithoutInput(f) /\ InResponse
  \/ \E f \in Fields : Reject(f) /\ InResponse
  \/ \E f \in Fields : RunTx(f) /\ InResponse
  \/ \E f \in Fields : Proceed(f) /\ InResponse
  \/ \E f \in Fields : Fn(f) /\ InResponse
  \/ \E f \in Fields : FnEnds(f) /\ InResponse
  \/ \E f \in Fields : Resolve(f) /\ InResponse
  \/ \E f \in Fields : ResponseAwaitDone(f)
  \/ Cancel /\ InResponse
  \/ \E i \in Instances, selection \in Selections : Selecting(i, selection) /\ InModels
  \/ \E i \in Instances : SelectingAll(i) /\ InModels
  \/ \E i \in Instances : Scanning(i) /\ InModels
  \/ \E i \in Instances : ScanningAll(i) /\ InModels

\* The fairness of Auth and of Response.
PartsSpec ==
  /\ PartsInit /\ [][PartsNext]_partsVars
  /\ \A r \in Requests : WF_partsVars(Process(r))
  /\ \A f \in Fields :
       WF_partsVars(ResponseStep(f)) /\ WF_partsVars(ResponseAwaitDone(f))

\* The property of Auth; those of Response and of ModelFields are theirs.
EveryRequestEnds == A!EveryRequestEnds

\* EveryFieldIsAnswered, where the behaviour is one of Response: a panic with
\* any value ends in an answer.
OperationIsAnswered == part = "response" => EveryFieldIsAnswered
=============================================================================

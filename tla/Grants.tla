------------------------------- MODULE Grants -------------------------------
(***************************************************************************)
(* OAuth 2.0 grants, bearer tokens (auth/bearer.go) and the directives     *)
(* that guard a GraphQL resolver (server/directives.go), as operators.     *)
(*                                                                         *)
(* A grants string is the sequence of its space-separated parts, <<>> for  *)
(* "".  A part is a record [service, scope, access], whose access is       *)
(* "none" when it is left out, or Malformed: not of the form service/scope.*)
(***************************************************************************)
EXTENDS Naturals, Sequences

CONSTANTS
  Service,      \* config.ServiceName
  Malformed

RO == "RO"
RW == "RW"

AuthMethods == {"OAUTH_LEGACY", "OAUTH2", "COOKIE", "INTERNAL", "ANON_INTERNAL", "WEBHOOK"}

-----------------------------------------------------------------------------
(***************************************************************************)
(* Grants                                                                  *)
(***************************************************************************)

\* DecodeGrants panics.
Undecodable(grants) == \E i \in DOMAIN grants : grants[i] = Malformed

\* The parts for this service that name the scope.
Naming(grants, scope) ==
  {i \in DOMAIN grants : grants[i].service = Service /\ grants[i].scope = scope}

\* The access a scope comes with: a later part overwrites an earlier one.
AccessOf(grants, scope) ==
  LET last == CHOOSE i \in Naming(grants, scope) :
                \A j \in Naming(grants, scope) : j <= i
  IN IF grants[last].access = "none" THEN RO ELSE grants[last].access

Mine(grants) == {i \in DOMAIN grants : grants[i].service = Service}

DecodeGrants(grants) ==
  [ReadOnly |-> FALSE,
   all |-> grants = <<>>,
   grants |-> [scope \in {grants[i].scope : i \in Mine(grants)}
                 |-> AccessOf(grants, scope)],
   encoded |-> grants]

Has(g, grant, mode) ==
  /\ ~(g.ReadOnly /\ mode = RW)
  /\ \/ g.all
     \/ /\ grant \in DOMAIN g.grants
        /\ mode = RO \/ mode = g.grants[grant]

-----------------------------------------------------------------------------
(***************************************************************************)
(* Directives: what becomes of a resolver guarded by one, for the user of  *)
(* an AuthContext.  "next" runs it, "denied" is an error.                  *)
(***************************************************************************)

Guarded(allowed) == IF allowed THEN "next" ELSE "denied"

AnonInternal(user) == Guarded(user.AuthMethod = "ANON_INTERNAL")

Internal(user) == Guarded(user.AuthMethod = "INTERNAL")

Private(user) ==
  Guarded(\/ user.AuthMethod \in {"INTERNAL", "COOKIE"}
          \/ user.AuthMethod = "OAUTH2" /\ user.BearerToken.ClientID = "")

Access(user, scope, kind) ==
  CASE user.AuthMethod \in {"INTERNAL", "COOKIE"} -> "next"
    [] user.AuthMethod = "OAUTH_LEGACY" -> Guarded(kind = RO)
    [] user.AuthMethod = "WEBHOOK" -> Guarded(kind = RO /\ Has(user.Grants, scope, kind))
    [] user.AuthMethod = "OAUTH2" -> Guarded(Has(user.Grants, scope, kind))
    [] user.AuthMethod = "ANON_INTERNAL" -> "denied"
    [] OTHER -> "panic"
=============================================================================

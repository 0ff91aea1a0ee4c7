----------------------------- MODULE MCAuthority ----------------------------
(***************************************************************************)
(* Who a request may act as, and what is left of that in a delivery: Auth  *)
(* and Subscriptions on small instances.  They share no state; `part` says *)
(* which of them a behaviour is about, and the other stays in one initial  *)
(* state.                                                                  *)
(***************************************************************************)
EXTENDS Auth, Subscriptions, TLC

CONSTANTS r1, r2, id1, id2, alice, bob

VARIABLE part

TwoRequests == {r1, r2}
OneUser == {alice}
TwoUsers == {alice, bob}
TwoIds == {id1, id2}
TwoScopes == {"REPOS", "PROFILE"}

Part(service, scope, access) == [service |-> service, scope |-> scope, access |-> access]

\* A personal token for everything; two of one client, for this service and
\* another, the second with a scope named twice; and one that cannot be decoded.
FourTokens ==
  { [Username |-> alice, ClientID |-> "", Expires |-> 2, Grants |-> <<>>],
    [Username |-> alice, ClientID |-> "client", Expires |-> 1,
     Grants |-> <<Part("git", "REPOS", "RW"), Part("hub", "PROFILE", "none")>>],
    [Username |-> alice, ClientID |-> "client", Expires |-> 2,
     Grants |-> <<Part("git", "PROFILE", "RW"), Part("git", "PROFILE", "none")>>],
    [Username |-> bob, ClientID |-> "", Expires |-> 1, Grants |-> <<Malformed>>] }

PartsInit ==
  /\ part \in {"auth", "subscriptions"}
  /\ Init
  /\ part # "auth" =>
       ~isMeta /\ \A u \in Users : local[u] = "active" /\ meta[u] = "active"
  /\ SubscriptionsInit

partsVars == <<part, vars, subscriptionsVars>>

InAuth == part = "auth" /\ UNCHANGED <<part, subscriptionsVars>>
InSubscriptions == part = "subscriptions" /\ UNCHANGED <<part, vars>>

PartsNext ==
  \/ \E r \in Requests : Arrive(r) /\ InAuth
  \/ \E r \in Requests : ClientGone(r) /\ InAuth
  \/ \E r \in Requests : Process(r) /\ InAuth
  \/ \E u \in Users : Revoke(u) /\ InAuth
  \/ \E u \in Users : SuspendAtMeta(u) /\ InAuth
  \/ \E u \in Users : SuspendLocally(u) /\ InAuth
  \/ Restart /\ InAuth
  \/ Tick /\ InSubscriptions
  \/ \E r \in Callers, t \in Tokens, intact \in BOOLEAN :
       AuthenticateToken(r, t, intact) /\ InSubscriptions
  \/ \E r \in Callers, u \in Usernames, m \in AuthMethods \ {"OAUTH2", "WEBHOOK"} :
       Authenticate(r, m, u) /\ InSubscriptions
  \/ \E r \in Callers, id \in Ids : Subscribe(r, id) /\ InSubscriptions
  \/ \E r \in Callers, id \in Ids : Fire(r, id) /\ InSubscriptions
  \/ \E w \in prepared : Exec(w) /\ InSubscriptions

PartsSpec == PartsInit /\ [][PartsNext]_partsVars

\* The requests are interchangeable.
RequestSymmetry == Permutations(TwoRequests)
=============================================================================

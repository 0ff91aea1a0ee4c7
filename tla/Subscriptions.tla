--------------------------- MODULE Subscriptions ----------------------------
(***************************************************************************)
(* How the authority of a bearer token gets into a webhook delivery and    *)
(* what is left of it there: the token is decoded for a request            *)
(* (auth/bearer.go, OAuth2 of auth/middleware.go), the request stores a    *)
(* subscription (webhooks/config.go), any request fires it, and Exec       *)
(* (webhooks/context.go) runs its query in a context of its own.  Time     *)
(* passes between any two of these.                                        *)
(*                                                                         *)
(* The resolvers that create and fire subscriptions belong to the services *)
(* that use core-go.  Revocation and suspension are in module Auth.        *)
(***************************************************************************)
EXTENDS Grants

CONSTANTS
  Callers,      \* requests
  Tokens,       \* [Username, Grants, ClientID, Expires], "" for no client
  Usernames,    \* who requests come from
  Scopes,       \* the scopes that resolvers are guarded with
  Ids,          \* the primary keys of the subscription table
  MaxTime,      \* bounds the clock
  Nil,          \* NULL, a nil pointer, no context
  Refused       \* the middleware did not let the request through

ASSUME TokensAssumption ==
  \A t \in Tokens :
    /\ t # Nil /\ t.Grants # Nil /\ t.ClientID # Nil
    /\ t.Expires \in Nat /\ t.Expires # Nil

ASSUME TimeAssumption == MaxTime \in Nat

VARIABLES
  now,          \* the clock, of the process and of PostgreSQL
  context,      \* auth.ForContext of each request: Nil, Refused or an AuthContext
  subs,         \* the subscription table, and who created each row
  prepared,     \* WebhookContexts that Exec has not run
  deliveries,   \* those it runs a query for, with the AuthContext of the query
  panicked      \* Exec panicked

subscriptionsVars == <<now, context, subs, prepared, deliveries, panicked>>

\* The fields of an AuthContext that nothing fills out.
NoGrants == [ReadOnly |-> FALSE, all |-> FALSE, grants |-> <<>>, encoded |-> <<>>]

NoToken == [Grants |-> <<>>, ClientID |-> "", Expires |-> 0]

AuthContext(method, user, hash, grants, token) ==
  [AuthMethod |-> method, UserID |-> user, TokenHash |-> hash,
   Grants |-> grants, BearerToken |-> token]

SubscriptionsInit ==
  /\ now = 0
  /\ context = [r \in Callers |-> Nil]
  /\ subs = [id \in Ids |-> Nil]
  /\ prepared = {}
  /\ deliveries = {}
  /\ panicked = FALSE

Authenticated == {r \in Callers : context[r] \notin {Nil, Refused}}
Stored == {id \in Ids : subs[id] # Nil}

-----------------------------------------------------------------------------
(***************************************************************************)
(* The requests                                                            *)
(***************************************************************************)

Tick ==
  /\ now < MaxTime
  /\ now' = now + 1
  /\ UNCHANGED <<context, subs, prepared, deliveries, panicked>>

\* An issued token that reached the service intact, in base64, with a payload,
\* its MAC, its encoding and its version, must not have expired.
DecodeBearerToken(token, intact) ==
  /\ intact
  /\ ~(now > token.Expires)

\* OAuth2.  Grants that cannot be decoded panic: net/http closes the connection.
AuthenticateToken(r, token, intact) ==
  /\ context[r] = Nil
  /\ context' = [context EXCEPT ![r] =
       IF DecodeBearerToken(token, intact) /\ ~Undecodable(token.Grants)
         THEN AuthContext("OAUTH2", token.Username, token, DecodeGrants(token.Grants),
                [Grants |-> token.Grants, ClientID |-> token.ClientID,
                 Expires |-> token.Expires])
         ELSE Refused]
  /\ UNCHANGED <<now, subs, prepared, deliveries, panicked>>

\* The other ways to authenticate, which have no token.
Authenticate(r, method, user) ==
  /\ context[r] = Nil
  /\ context' = [context EXCEPT ![r] = 
       AuthContext(method, IF method = "ANON_INTERNAL" THEN Nil ELSE user,
                   Nil, NoGrants, NoToken)]
  /\ UNCHANGED <<now, subs, prepared, deliveries, panicked>>

\* Mutant: web authentication is supported, as config.go has it in a TODO.
ConfigurableFromWeb(user) == user.AuthMethod \in {"OAUTH2", "COOKIE"}

\* NewAuthConfig has a configuration for OAuth 2.0 alone: it returns an error
\* for OAUTH_LEGACY and COOKIE, and panics for the rest.
Configurable(user) == user.AuthMethod = "OAUTH2"

\* Mutant: the pointer to the client is taken even if there is none.
ConfigOfAnyClient(user) ==
  [AuthMethod |-> user.AuthMethod, TokenHash |-> user.TokenHash,
   Grants |-> user.BearerToken.Grants, Expires |-> user.BearerToken.Expires,
   NodeID |-> Nil, ClientID |-> user.BearerToken.ClientID]

NewAuthConfig(user) ==
  [AuthMethod |-> user.AuthMethod, TokenHash |-> user.TokenHash,
   Grants |-> user.BearerToken.Grants, Expires |-> user.BearerToken.Expires,
   NodeID |-> Nil,
   ClientID |-> IF user.BearerToken.ClientID = "" THEN Nil
                ELSE user.BearerToken.ClientID]

\* A resolver stores the configuration of its request.
Subscribe(r, id) ==
  /\ r \in Authenticated
  /\ Configurable(context[r])
  /\ subs[id] = Nil
  /\ subs' = [subs EXCEPT ![id] =
       [user |-> context[r].UserID, auth |-> NewAuthConfig(context[r]),
        creator |-> context[r]]]
  /\ UNCHANGED <<now, context, prepared, deliveries, panicked>>

\* Mutant: any of the client's tokens will do.
FilterByClient(user, row) ==
  LET ac == NewAuthConfig(user) IN
  /\ row.user = user.UserID
  /\ now < row.auth.Expires
  /\ ac.ClientID # Nil => row.auth.ClientID = ac.ClientID

\* FilterWebhooks: whether its SQL expression selects the row.
FilterWebhooks(user, row) ==
  LET ac == NewAuthConfig(user) IN
  /\ row.user = user.UserID
  /\ now < row.auth.Expires
  /\ ac.ClientID # Nil =>
       row.auth.TokenHash = ac.TokenHash /\ row.auth.ClientID = ac.ClientID

-----------------------------------------------------------------------------
(***************************************************************************)
(* The deliveries                                                          *)
(***************************************************************************)

\* schedule: a copy of the row and the AuthContext of the request that fired.
Fire(r, id) ==
  /\ r \in Authenticated
  /\ id \in Stored
  /\ prepared' = prepared \cup {[sub |-> id, user |-> context[r]]}
  /\ UNCHANGED <<now, context, subs, deliveries, panicked>>

\* Mutants of WebhookAuth: the grants of the request that fires; writes allowed.
AuthOfFiring(user, ac) ==
  [user EXCEPT
     !.AuthMethod = "WEBHOOK",
     !.TokenHash = ac.TokenHash,
     !.Grants = [@ EXCEPT !.ReadOnly = TRUE],
     !.BearerToken = [NoToken EXCEPT !.ClientID = IF ac.ClientID = Nil THEN "" ELSE ac.ClientID]]

AuthAsOwner(user, ac) ==
  [user EXCEPT
     !.TokenHash = ac.TokenHash,
     !.Grants = [DecodeGrants(ac.Grants) EXCEPT !.ReadOnly = TRUE],
     !.BearerToken = [NoToken EXCEPT !.ClientID = IF ac.ClientID = Nil THEN "" ELSE ac.ClientID]]

WebhookAuth(user, ac) ==
  [user EXCEPT
     !.AuthMethod = "WEBHOOK",
     !.TokenHash = ac.TokenHash,
     !.Grants = [DecodeGrants(ac.Grants) EXCEPT !.ReadOnly = TRUE],
     !.BearerToken = [NoToken EXCEPT !.ClientID = IF ac.ClientID = Nil THEN "" ELSE ac.ClientID]]

\* What Exec dereferences before it looks at the time.
Complete(ac) ==
  /\ ac.AuthMethod = "OAUTH2"
  /\ ac.TokenHash # Nil /\ ac.Grants # Nil /\ ac.Expires # Nil

Delivery(w, ac) ==
  [sub |-> w.sub, fired |-> w.user, user |-> WebhookAuth(w.user, ac)]

\* Mutant: a delivery that was prepared in time is made, however late.
ExecUntimely(w) ==
  LET ac == subs[w.sub].auth
      panics == ~Complete(ac) \/ Undecodable(ac.Grants)
  IN
  /\ w \in prepared
  /\ prepared' = prepared \ {w}
  /\ panicked' = (panicked \/ panics)
  /\ deliveries' = deliveries \cup (IF panics THEN {} ELSE {Delivery(w, ac)})
  /\ UNCHANGED <<now, context, subs>>

\* Exec: WebhookAuth returns an error when the token has expired; if it has not,
\* the resolvers of the subscription's query run.
Exec(w) ==
  LET ac == subs[w.sub].auth
      panics == ~Complete(ac) \/ (now <= ac.Expires /\ Undecodable(ac.Grants))
  IN
  /\ w \in prepared
  /\ prepared' = prepared \ {w}
  /\ panicked' = (panicked \/ panics)
  /\ deliveries' = deliveries \cup
                     (IF panics \/ now > ac.Expires THEN {} ELSE {Delivery(w, ac)})
  /\ UNCHANGED <<now, context, subs>>

-----------------------------------------------------------------------------
SubscriptionsNext ==
  \/ Tick
  \/ \E r \in Callers, t \in Tokens, intact \in BOOLEAN : AuthenticateToken(r, t, intact)
  \/ \E r \in Callers, u \in Usernames, m \in AuthMethods \ {"OAUTH2", "WEBHOOK"} :
       Authenticate(r, m, u)
  \/ \E r \in Callers, id \in Ids : Subscribe(r, id) \/ Fire(r, id)
  \/ \E w \in prepared : Exec(w)

SubscriptionsSpec == SubscriptionsInit /\ [][SubscriptionsNext]_subscriptionsVars

-----------------------------------------------------------------------------
(***************************************************************************)
(* Properties                                                              *)
(***************************************************************************)

\* The invariants of AuthConfig (webhooks/config.go:13-18), for the methods that
\* NewAuthConfig supports.
Configs ==
  [AuthMethod : {"OAUTH2"}, TokenHash : Tokens, Grants : {t.Grants : t \in Tokens},
   Expires : Nat, NodeID : {Nil},
   ClientID : ({t.ClientID : t \in Tokens} \ {""}) \cup {Nil}]

SubscriptionsTypeOK ==
  /\ now \in 0..MaxTime
  /\ \A r \in Authenticated : context[r].AuthMethod \in AuthMethods \ {"WEBHOOK"}
  /\ \A id \in Stored : subs[id].auth \in Configs
  /\ \A w \in prepared : w.sub \in Stored
  /\ \A d \in deliveries : d.sub \in Stored
  /\ panicked \in BOOLEAN

\* A delivery may read what the token that created its subscription may read,
\* whatever the authority of the request that fired it, and may write nothing.
DeliveryHasTokensReads ==
  \A d \in deliveries, scope \in Scopes :
    /\ Access(d.user, scope, RO) = Access(subs[d.sub].creator, scope, RO)
    /\ Access(d.user, scope, RW) = "denied"

\* A delivery passes no directive but Access, and its resolvers can neither
\* create nor list subscriptions, even one fired by a service or in a browser.
DeliveryIsUnprivileged ==
  \A d \in deliveries :
    /\ {Private(d.user), Internal(d.user), AnonInternal(d.user)} = {"denied"}
    /\ ~Configurable(d.user)

\* No query runs for a token that has expired by then, though the request that
\* subscribed and the one that fired were in time.
NoQueryPastExpiry ==
  [][\A d \in deliveries' \ deliveries :
       now <= subs[d.sub].creator.BearerToken.Expires]_subscriptionsVars

\* What NewAuthConfig stores, Exec can use: it neither dereferences a NULL nor
\* meets grants it cannot decode.  (Its panic about a query that is no longer
\* valid, webhooks/context.go:81-83, does not depend on the configuration.)
SubscriptionsAreUsable == ~panicked

\* A token lists the subscriptions made with it until it expires; a client is
\* listed no others, and nobody one that Exec would refuse at that moment.
ListingMatchesToken ==
  \A r \in Authenticated, id \in Stored :
    Configurable(context[r]) =>
      LET token == context[r].TokenHash
          listed == FilterWebhooks(context[r], subs[id])
      IN
      /\ subs[id].creator.TokenHash = token => (listed <=> now < token.Expires)
      /\ listed /\ token.ClientID # "" => subs[id].creator.TokenHash = token
      /\ listed => now <= subs[id].auth.Expires
=============================================================================

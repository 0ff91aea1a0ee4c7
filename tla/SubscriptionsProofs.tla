------------------------ MODULE SubscriptionsProofs -------------------------
(***************************************************************************)
(* Proofs about Subscriptions, for all tokens, requests and rows: what     *)
(* authority a webhook delivery has follows from where every AuthContext,  *)
(* every stored configuration and every delivery has come from.            *)
(***************************************************************************)
EXTENDS Subscriptions, TLAPS

\* The AuthContext of a request with a token, and of one without.
OfToken(t) ==
  AuthContext("OAUTH2", t.Username, t, DecodeGrants(t.Grants),
              [Grants |-> t.Grants, ClientID |-> t.ClientID, Expires |-> t.Expires])

Tokenless(method, user) == AuthContext(method, user, Nil, NoGrants, NoToken)

Decodable == {t \in Tokens : ~Undecodable(t.Grants)}

IsAuth(a) ==
  \/ \E t \in Decodable : a = OfToken(t)
  \/ \E m \in AuthMethods \ {"OAUTH2", "WEBHOOK"}, u \in Usernames \cup {Nil} :
       a = Tokenless(m, u)

\* Every request has one of these.
ContextInv ==
  /\ context = [r \in Callers |-> context[r]]
  /\ \A r \in Authenticated : IsAuth(context[r])

\* Every row was made from a token that could be decoded.
RowOf(t) ==
  [user |-> t.Username, auth |-> NewAuthConfig(OfToken(t)), creator |-> OfToken(t)]

RowInv ==
  /\ subs = [id \in Ids |-> subs[id]]
  /\ \A id \in Stored : \E t \in Decodable : subs[id] = RowOf(t)

\* Every delivery has the authority that WebhookAuth makes of the two.
DeliveryInv ==
  /\ \A w \in prepared : w.sub \in Stored /\ IsAuth(w.user)
  /\ \A d \in deliveries : /\ d.sub \in Stored /\ IsAuth(d.fired)
                           /\ d.user = WebhookAuth(d.fired, subs[d.sub].auth)

IInv ==
  /\ now \in 0..MaxTime
  /\ ContextInv
  /\ RowInv
  /\ DeliveryInv
  /\ panicked = FALSE

-----------------------------------------------------------------------------
USE DEF subscriptionsVars

\* What Exec reads of a row.
LEMMA RowFacts ==
  ASSUME NEW t \in Decodable, NEW row, row = RowOf(t)
  PROVE  /\ row.user = t.Username
         /\ row.creator = OfToken(t)
         /\ row.creator.BearerToken.Expires = t.Expires
         /\ row.creator.TokenHash = t
         /\ row.auth.AuthMethod = "OAUTH2"
         /\ row.auth.TokenHash = t
         /\ row.auth.Grants = t.Grants
         /\ row.auth.Expires = t.Expires
         /\ row.auth.NodeID = Nil
         /\ row.auth.ClientID = IF t.ClientID = "" THEN Nil ELSE t.ClientID
BY DEF RowOf, OfToken, AuthContext, NewAuthConfig

\* Of the requests, those with a token are the ones that NewAuthConfig accepts.
LEMMA AuthFacts ==
  ASSUME NEW a, IsAuth(a)
  PROVE  /\ a.AuthMethod \in AuthMethods \ {"WEBHOOK"}
         /\ Configurable(a) => \E t \in Decodable : a = OfToken(t)
BY DEF IsAuth, OfToken, Tokenless, AuthContext, Configurable, AuthMethods

LEMMA InitIInv == SubscriptionsInit => IInv
BY TimeAssumption
   DEF SubscriptionsInit, IInv, ContextInv, Authenticated, RowInv, Stored, DeliveryInv

LEMMA RequestNext ==
  ASSUME IInv,
         \/ Tick
         \/ \E r \in Callers, t \in Tokens, intact \in BOOLEAN : AuthenticateToken(r, t, intact)
         \/ \E r \in Callers, u \in Usernames, m \in AuthMethods \ {"OAUTH2", "WEBHOOK"} :
              Authenticate(r, m, u)
  PROVE  IInv'
<1>0. ContextInv /\ now \in 0..MaxTime
  BY DEF IInv
<1>1. now' \in 0..MaxTime
  <2>1. CASE Tick
    BY <1>0, <2>1, TimeAssumption DEF Tick
  <2> QED
    BY <1>0, <2>1 DEF AuthenticateToken, Authenticate
<1>2. UNCHANGED <<subs, prepared, deliveries, panicked>>
  BY DEF Tick, AuthenticateToken, Authenticate
<1>3. RowInv' /\ DeliveryInv' /\ panicked' = FALSE
  BY <1>2 DEF IInv, RowInv, Stored, DeliveryInv
<1>4. ContextInv'
  <2>1. CASE Tick
    BY <1>0, <2>1 DEF Tick, ContextInv, Authenticated
  <2>2. ASSUME NEW r \in Callers, NEW a, a = Refused \/ IsAuth(a),
               context' = [context EXCEPT ![r] = a]
        PROVE  ContextInv'
    BY <1>0, <2>2 DEF ContextInv, Authenticated
  <2>3. ASSUME NEW r \in Callers, NEW t \in Tokens, NEW intact \in BOOLEAN,
               AuthenticateToken(r, t, intact)
        PROVE  ContextInv'
    <3>1. ~Undecodable(t.Grants) => IsAuth(OfToken(t))
      BY DEF IsAuth, Decodable
    <3> QED
      BY <2>2, <2>3, <3>1 DEF AuthenticateToken, OfToken
  <2>4. ASSUME NEW r \in Callers, NEW u \in Usernames,
               NEW m \in AuthMethods \ {"OAUTH2", "WEBHOOK"},
               Authenticate(r, m, u)
        PROVE  ContextInv'
    <3>1. IsAuth(Tokenless(m, IF m = "ANON_INTERNAL" THEN Nil ELSE u))
      BY DEF IsAuth
    <3> QED
      BY <2>2, <2>4, <3>1 DEF Authenticate, Tokenless
  <2> QED
    BY <2>1, <2>3, <2>4
<1> QED
  BY <1>1, <1>3, <1>4 DEF IInv

LEMMA SubscribeNext ==
  ASSUME IInv, NEW r \in Callers, NEW id \in Ids, Subscribe(r, id)
  PROVE  IInv'
<1>0. ContextInv /\ RowInv /\ DeliveryInv
  BY DEF IInv
<1>1. UNCHANGED <<now, context, prepared, deliveries, panicked>> /\ id \notin Stored
  BY DEF Subscribe, Stored
<1>2. ContextInv'
  BY <1>0, <1>1 DEF ContextInv, Authenticated
<1>3. PICK t \in Decodable : context[r] = OfToken(t)
  BY <1>0, AuthFacts DEF Subscribe, ContextInv
<1>4. subs' = [subs EXCEPT ![id] = RowOf(t)]
  BY <1>3 DEF Subscribe, RowOf, OfToken, AuthContext
<1>5. RowInv'
  BY <1>0, <1>4 DEF RowInv, Stored
<1>6. \A k \in Stored : k \in Stored' /\ subs'[k] = subs[k]
  BY <1>0, <1>1, <1>4 DEF RowInv, Stored
<1>7. DeliveryInv'
  BY <1>0, <1>1, <1>6 DEF DeliveryInv
<1> QED
  BY <1>1, <1>2, <1>5, <1>7 DEF IInv

LEMMA FireNext ==
  ASSUME IInv, NEW r \in Callers, NEW id \in Ids, Fire(r, id)
  PROVE  IInv'
<1>1. UNCHANGED <<now, context, subs, deliveries, panicked>>
      /\ prepared' = prepared \cup {[sub |-> id, user |-> context[r]]}
      /\ id \in Stored /\ IsAuth(context[r])
  BY DEF Fire, IInv, ContextInv
<1> QED
  BY <1>1 DEF IInv, ContextInv, Authenticated, RowInv, Stored, DeliveryInv

\* Exec finds a configuration that it can use, and makes at most one delivery,
\* before the token has expired.
LEMMA ExecFacts ==
  ASSUME IInv, NEW w \in prepared, Exec(w)
  PROVE  /\ panicked' = FALSE /\ prepared' = prepared \ {w}
         /\ UNCHANGED <<now, context, subs>>
         /\ w.sub \in Stored /\ IsAuth(w.user)
         /\ \/ deliveries' = deliveries
            \/ /\ now <= subs[w.sub].creator.BearerToken.Expires
               /\ deliveries' = deliveries \cup {Delivery(w, subs[w.sub].auth)}
<1>1. w.sub \in Stored /\ IsAuth(w.user) /\ panicked = FALSE /\ now \in Nat
  BY TimeAssumption DEF IInv, DeliveryInv
<1>2. PICK t \in Decodable : subs[w.sub] = RowOf(t)
  BY <1>1 DEF IInv, RowInv
<1>3. PICK ac : ac = subs[w.sub].auth
  OBVIOUS
<1>4. /\ subs[w.sub].creator.BearerToken.Expires = t.Expires
      /\ ac.AuthMethod = "OAUTH2" /\ ac.TokenHash = t
      /\ ac.Grants = t.Grants /\ ac.Expires = t.Expires
  BY <1>2, <1>3, RowFacts, ZenonT(40)
<1>5. Complete(ac)
  BY <1>4, TokensAssumption DEF Complete, Decodable
<1>6. ~Undecodable(ac.Grants)
  BY <1>4 DEF Decodable
<1>7. ac.Expires \in Nat
  BY <1>4, TokensAssumption DEF Decodable
<1>8. /\ prepared' = prepared \ {w} /\ UNCHANGED <<now, context, subs>>
      /\ panicked' = FALSE
      /\ deliveries' = deliveries \cup (IF now > ac.Expires THEN {} ELSE {Delivery(w, ac)})
  BY <1>1, <1>3, <1>5, <1>6 DEF Exec
<1>9. CASE now > ac.Expires
  BY <1>1, <1>8, <1>9
<1>10. CASE now <= ac.Expires
  BY <1>1, <1>3, <1>4, <1>7, <1>8, <1>10
<1>11. now > ac.Expires \/ now <= ac.Expires
  BY <1>1, <1>7
<1> QED
  BY <1>1, <1>8, <1>9, <1>10, <1>11

LEMMA ExecNext ==
  ASSUME IInv, NEW w \in prepared, Exec(w)
  PROVE  IInv'
<1>1. DeliveryInv'
  <2>1. prepared' = prepared \ {w} /\ UNCHANGED subs /\ w.sub \in Stored /\ IsAuth(w.user)
    BY ExecFacts
  <2>2. Stored' = Stored
    BY <2>1 DEF Stored
  <2>a. \/ deliveries' = deliveries
        \/ deliveries' = deliveries \cup {Delivery(w, subs[w.sub].auth)}
    BY ExecFacts
  <2>3. \A d \in deliveries' :
          d \in deliveries \/ d = Delivery(w, subs[w.sub].auth)
    BY <2>a
  <2>4. LET d == Delivery(w, subs[w.sub].auth) IN
        d.sub = w.sub /\ d.fired = w.user /\ d.user = WebhookAuth(w.user, subs[w.sub].auth)
    BY DEF Delivery
  <2>5. ASSUME NEW d \in deliveries'
        PROVE  /\ d.sub \in Stored /\ IsAuth(d.fired)
               /\ d.user = WebhookAuth(d.fired, subs[d.sub].auth)
    BY <2>1, <2>3, <2>4 DEF IInv, DeliveryInv
  <2> QED
    BY <2>1, <2>2, <2>5 DEF IInv, DeliveryInv
<1> QED
  BY <1>1, ExecFacts DEF IInv, ContextInv, Authenticated, RowInv, Stored

THEOREM Invariance == SubscriptionsSpec => []IInv
<1>1. IInv /\ [SubscriptionsNext]_subscriptionsVars => IInv'
  <2>1. ASSUME IInv, UNCHANGED subscriptionsVars PROVE IInv'
    BY <2>1 DEF IInv, ContextInv, Authenticated, RowInv, Stored, DeliveryInv
  <2> QED
    BY <2>1, RequestNext, SubscribeNext, FireNext, ExecNext DEF SubscriptionsNext
<1> QED
  BY <1>1, InitIInv, PTL DEF SubscriptionsSpec

-----------------------------------------------------------------------------
(***************************************************************************)
(* Properties                                                              *)
(***************************************************************************)

\* A delivery, spelled out: the request that fired it has left nothing behind
\* that a directive looks at.
LEMMA DeliveryFacts ==
  ASSUME IInv, NEW d \in deliveries
  PROVE  \E t \in Decodable :
           /\ subs[d.sub].creator = OfToken(t)
           /\ d.user.AuthMethod = "WEBHOOK"
           /\ d.user.Grants = [DecodeGrants(t.Grants) EXCEPT !.ReadOnly = TRUE]
<1>1. d.sub \in Stored /\ IsAuth(d.fired) /\ d.user = WebhookAuth(d.fired, subs[d.sub].auth)
  BY DEF IInv, DeliveryInv
<1>2. PICK t \in Decodable : subs[d.sub] = RowOf(t)
  BY <1>1 DEF IInv, RowInv
<1>3. subs[d.sub].creator = OfToken(t) /\ subs[d.sub].auth.Grants = t.Grants
  BY <1>2, RowFacts
<1>4. PICK m, u, h, g, b : d.fired = AuthContext(m, u, h, g, b)
  BY <1>1 DEF IsAuth, OfToken, Tokenless
<1>5. d.user.AuthMethod = "WEBHOOK"
      /\ d.user.Grants = [DecodeGrants(subs[d.sub].auth.Grants) EXCEPT !.ReadOnly = TRUE]
  BY <1>1, <1>4 DEF WebhookAuth, AuthContext
<1> QED
  BY <1>3, <1>5

\* Every stored configuration obeys the invariants of AuthConfig.
THEOREM TypeCorrect == SubscriptionsSpec => []SubscriptionsTypeOK
<1>1. IInv => SubscriptionsTypeOK
  <2> SUFFICES ASSUME IInv PROVE SubscriptionsTypeOK
    OBVIOUS
  <2>1. \A r \in Authenticated : context[r].AuthMethod \in AuthMethods \ {"WEBHOOK"}
    BY AuthFacts DEF IInv, ContextInv
  <2>2. ASSUME NEW id \in Stored PROVE subs[id].auth \in Configs
    <3>1. PICK t \in Decodable : subs[id] = RowOf(t)
      BY DEF IInv, RowInv
    <3>2. subs[id].auth = NewAuthConfig(OfToken(t)) /\ t \in Tokens /\ t.Expires \in Nat
      BY <3>1, TokensAssumption DEF RowOf, Decodable
    <3>3. subs[id].auth = [AuthMethod |-> "OAUTH2", TokenHash |-> t, Grants |-> t.Grants,
                           Expires |-> t.Expires, NodeID |-> Nil,
                           ClientID |-> IF t.ClientID = "" THEN Nil ELSE t.ClientID]
      BY <3>2 DEF NewAuthConfig, OfToken, AuthContext
    <3>4. PICK c : c = IF t.ClientID = "" THEN Nil ELSE t.ClientID
      OBVIOUS
    <3>5. PICK C, G : /\ C = ({u.ClientID : u \in Tokens} \ {""}) \cup {Nil}
                      /\ G = {u.Grants : u \in Tokens}
      OBVIOUS
    <3>6. c \in C /\ t.Grants \in G
      BY <3>2, <3>4, <3>5
    <3>7. [AuthMethod |-> "OAUTH2", TokenHash |-> t, Grants |-> t.Grants,
           Expires |-> t.Expires, NodeID |-> Nil, ClientID |-> c]
            \in [AuthMethod : {"OAUTH2"}, TokenHash : Tokens, Grants : G,
                 Expires : Nat, NodeID : {Nil}, ClientID : C]
      BY <3>2, <3>6
    <3>8. Configs = [AuthMethod : {"OAUTH2"}, TokenHash : Tokens, Grants : G,
                     Expires : Nat, NodeID : {Nil}, ClientID : C]
      BY ONLY <3>5 DEF Configs
    <3> QED
      BY <3>3, <3>4, <3>7, <3>8, Zenon
  <2>3. /\ now \in 0..MaxTime /\ panicked \in BOOLEAN
        /\ \A w \in prepared : w.sub \in Stored
        /\ \A d \in deliveries : d.sub \in Stored
    BY DEF IInv, DeliveryInv
  <2> QED
    BY <2>1, <2>2, <2>3 DEF SubscriptionsTypeOK
<1> QED
  BY <1>1, Invariance, PTL

\* A delivery reads what its token may read, and writes nothing.
THEOREM TokensReads == SubscriptionsSpec => []DeliveryHasTokensReads
<1>1. IInv => DeliveryHasTokensReads
  <2> SUFFICES ASSUME IInv, NEW d \in deliveries, NEW scope \in Scopes
               PROVE  /\ Access(d.user, scope, RO) = Access(subs[d.sub].creator, scope, RO)
                      /\ Access(d.user, scope, RW) = "denied"
    BY DEF DeliveryHasTokensReads
  <2>1. PICK t \in Decodable :
          /\ subs[d.sub].creator = OfToken(t)
          /\ d.user.AuthMethod = "WEBHOOK"
          /\ d.user.Grants = [DecodeGrants(t.Grants) EXCEPT !.ReadOnly = TRUE]
    BY DeliveryFacts
  <2>2. Access(d.user, scope, RO) = Guarded(Has(d.user.Grants, scope, RO))
    BY <2>1 DEF Access, Guarded
  <2>3. Access(OfToken(t), scope, RO) = Guarded(Has(DecodeGrants(t.Grants), scope, RO))
    BY DEF Access, OfToken, AuthContext
  <2>4. Has(d.user.Grants, scope, RO) <=> Has(DecodeGrants(t.Grants), scope, RO)
    BY <2>1 DEF Has, DecodeGrants, RO, RW
  <2>5. Access(d.user, scope, RW) = "denied"
    BY <2>1 DEF Access, Guarded, RO, RW
  <2> QED
    BY <2>1, <2>2, <2>3, <2>4, <2>5 DEF Guarded
<1> QED
  BY <1>1, Invariance, PTL

\* A delivery has no privileges, whoever fired it.
THEOREM Unprivileged == SubscriptionsSpec => []DeliveryIsUnprivileged
<1>1. IInv => DeliveryIsUnprivileged
  <2> SUFFICES ASSUME IInv, NEW d \in deliveries
               PROVE  /\ {Private(d.user), Internal(d.user), AnonInternal(d.user)} = {"denied"}
                      /\ ~Configurable(d.user)
    BY DEF DeliveryIsUnprivileged
  <2>1. d.user.AuthMethod = "WEBHOOK"
    BY DeliveryFacts
  <2>2. Private(d.user) = "denied" /\ Internal(d.user) = "denied"
        /\ AnonInternal(d.user) = "denied"
    BY <2>1 DEF Private, Internal, AnonInternal, Guarded
  <2> QED
    BY <2>1, <2>2 DEF Configurable
<1> QED
  BY <1>1, Invariance, PTL

\* Exec can use every configuration that was stored.
THEOREM UsableByExec == SubscriptionsSpec => []SubscriptionsAreUsable
<1>1. IInv => SubscriptionsAreUsable
  BY DEF IInv, SubscriptionsAreUsable
<1> QED
  BY <1>1, Invariance, PTL

\* A token lists its subscriptions while it lives, and a client no others.
THEOREM ListingIsTrue == SubscriptionsSpec => []ListingMatchesToken
<1>1. IInv => ListingMatchesToken
  <2> SUFFICES ASSUME IInv, NEW r \in Authenticated, NEW id \in Stored,
                      Configurable(context[r])
               PROVE  LET token == context[r].TokenHash
                          listed == FilterWebhooks(context[r], subs[id])
                      IN
                      /\ subs[id].creator.TokenHash = token => (listed <=> now < token.Expires)
                      /\ listed /\ token.ClientID # "" => subs[id].creator.TokenHash = token
                      /\ listed => now <= subs[id].auth.Expires
    BY DEF ListingMatchesToken
  <2>1. PICK t \in Decodable : context[r] = OfToken(t)
    BY AuthFacts DEF IInv, ContextInv
  <2>2. PICK s \in Decodable : subs[id] = RowOf(s)
    BY DEF IInv, RowInv
  <2>3. /\ context[r].UserID = t.Username /\ context[r].TokenHash = t
        /\ NewAuthConfig(context[r]).TokenHash = t
        /\ NewAuthConfig(context[r]).ClientID = IF t.ClientID = "" THEN Nil ELSE t.ClientID
    <3>1. /\ context[r].UserID = t.Username /\ context[r].TokenHash = t
          /\ context[r].BearerToken.ClientID = t.ClientID
      BY <2>1 DEF OfToken, AuthContext
    <3> QED
      BY <3>1 DEF NewAuthConfig
  <2>4. /\ subs[id].user = s.Username /\ subs[id].creator.TokenHash = s
        /\ subs[id].auth.TokenHash = s /\ subs[id].auth.Expires = s.Expires
        /\ subs[id].auth.ClientID = IF s.ClientID = "" THEN Nil ELSE s.ClientID
    BY <2>2, RowFacts
  <2>5. t.ClientID # Nil /\ s.Expires \in Nat /\ now \in Nat
    BY TokensAssumption, TimeAssumption DEF Decodable, IInv
  <2>6. FilterWebhooks(context[r], subs[id]) <=>
          /\ s.Username = t.Username
          /\ now < s.Expires
          /\ t.ClientID # "" => s = t /\ subs[id].auth.ClientID = t.ClientID
    BY <2>3, <2>4, <2>5 DEF FilterWebhooks
  <2>7. s = t => (FilterWebhooks(context[r], subs[id]) <=> now < t.Expires)
    BY <2>4, <2>6, Zenon
  <2>8. FilterWebhooks(context[r], subs[id]) /\ t.ClientID # "" => s = t
    BY <2>6, Zenon
  <2>9. now < s.Expires => now <= s.Expires
    BY <2>5
  <2>10. FilterWebhooks(context[r], subs[id]) => now <= subs[id].auth.Expires
    BY <2>4, <2>6, <2>9, Zenon
  <2> QED
    BY <2>3, <2>4, <2>7, <2>8, <2>10, Zenon
<1> QED
  BY <1>1, Invariance, PTL

\* No query runs for a token that has expired.
THEOREM NoneRunPastExpiry == SubscriptionsSpec => NoQueryPastExpiry
<1> DEFINE A == \A d \in deliveries' \ deliveries :
                  now <= subs[d.sub].creator.BearerToken.Expires
<1>1. IInv /\ [SubscriptionsNext]_subscriptionsVars => [A]_subscriptionsVars
  <2> SUFFICES ASSUME IInv, SubscriptionsNext, NEW d \in deliveries' \ deliveries
               PROVE  now <= subs[d.sub].creator.BearerToken.Expires
    OBVIOUS
  <2>1. PICK w \in prepared : Exec(w)
    BY DEF SubscriptionsNext, Tick, AuthenticateToken, Authenticate, Subscribe, Fire
  <2>2. d = Delivery(w, subs[w.sub].auth) /\ now <= subs[w.sub].creator.BearerToken.Expires
    <3>1. \/ deliveries' = deliveries
          \/ /\ now <= subs[w.sub].creator.BearerToken.Expires
             /\ deliveries' = deliveries \cup {Delivery(w, subs[w.sub].auth)}
      BY <2>1, ExecFacts
    <3> QED
      BY <3>1, Zenon
  <2>3. d.sub = w.sub
    BY <2>2 DEF Delivery
  <2> QED
    BY <2>2, <2>3
<1> QED
  BY <1>1, Invariance, PTL DEF SubscriptionsSpec, NoQueryPastExpiry
=============================================================================

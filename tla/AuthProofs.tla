----------------------------- MODULE AuthProofs -----------------------------
(***************************************************************************)
(* Proofs about Auth, for every set of requests and of users.  IInv is an  *)
(* inductive invariant: what was known of the user when the request came   *)
(* stays true, so that neither lookup can come to the opposite later, and  *)
(* the answers are the few that the middleware can put together.           *)
(***************************************************************************)
EXTENDS Auth, SequenceTheorems, TLAPS

Refusals ==
  {<<>>, <<"400">>, <<"401">>, <<"403">>, <<"500">>, <<"403", "403">>}
Servings == {<<"served">>, <<"403", "served">>}

\* What the lookups have come to agrees with what there was to find: users are
\* not removed, a suspension and a revocation are not taken back.
LookupInv(r) ==
  /\ lookup[r] \in {"insert", "ok"} => profile[r] \in UserTypes \cup {"blank"}
  /\ lookup[r] = "ok" /\ r \notin gone => local[Account(r)] # "absent"
  /\ before[r].suspended =>
       /\ local[user[r]] = "suspended"
       /\ lookup[r] \notin {"fetch", "insert"}
       /\ lookup[r] = "ok" => profile[r] = "suspended"
  /\ before[r].known =>
       /\ local[user[r]] # "absent"
       /\ lookup[r] \notin {"fetch", "insert"}
       /\ profile[r] # "blank"
  /\ before[r].revoked => user[r] \in revoked /\ revocation[r] # "valid"
  /\ revocation[r] = "revoked" => user[r] \in revoked

\* Nothing is known of a request, or answered, before it is authenticated.
ProgressInv(r) ==
  /\ pc[r] \in {"none", "arrived"} =>
       /\ answers[r] = <<>> /\ method[r] = "none"
       /\ lookup[r] = "off" /\ revocation[r] = "off" /\ profile[r] # "blank"
  /\ pc[r] = "none" => ~before[r].suspended /\ ~before[r].revoked /\ ~before[r].known
  /\ pc[r] = "auth" =>
       /\ method[r] \in {"COOKIE", "INTERNAL", "OAUTH2"}
       /\ answers[r] = <<>> \/ (method[r] = "INTERNAL" /\ answers[r] = <<"403">>)

AnswerInv(r) ==
  /\ answers[r] \in Refusals \cup Servings
  /\ answers[r] \in Servings /\ method[r] \notin {"none", "ANON_INTERNAL"} =>
       /\ ~before[r].suspended
       /\ r \notin gone => local[Account(r)] # "absent"
       /\ before[r].known => profile[r] # "blank"
       /\ method[r] = "OAUTH2" /\ before[r].revoked => revocation[r] = "blank"
  /\ method[r] = "OAUTH2" /\ answers[r] = <<"403">> =>
       user[r] \in revoked \/ profile[r] = "suspended"
  /\ answers[r] = <<"403", "served">> => method[r] \in {"INTERNAL", "ANON_INTERNAL"}
  /\ answers[r] = <<"403", "403">> =>
       method[r] \in {"INTERNAL", "ANON_INTERNAL", "OAUTH_LEGACY"}

RequestInv(r) == LookupInv(r) /\ ProgressInv(r) /\ AnswerInv(r)

IInv ==
  /\ TypeOK
  /\ \A r \in Requests : RequestInv(r)

-----------------------------------------------------------------------------
USE DEF vars, envVars, goVars, Account, Names

LEMMA AnswerSeqs ==
  /\ Refusals \cup Servings \subseteq Seq({"served", "400", "401", "403", "500"})
  /\ \A s \in Refusals : ~\E k \in DOMAIN s : s[k] = "served"
  /\ \A s \in Refusals \cup Servings :
       Len(s) > 1 => s[1] = "403" /\ s \in {<<"403", "403">>, <<"403", "served">>}
<1>1. Refusals \cup Servings \subseteq Seq({"served", "400", "401", "403", "500"})
  BY DEF Refusals, Servings
<1>2. \A s \in Refusals : ~\E k \in DOMAIN s : s[k] = "served"
  BY DEF Refusals
<1>3. \A s \in Refusals \cup Servings :
       Len(s) > 1 => s[1] = "403" /\ s \in {<<"403", "403">>, <<"403", "served">>}
  <2>1. /\ Len(<<>>) = 0 /\ Len(<<"400">>) = 1 /\ Len(<<"401">>) = 1 /\ Len(<<"403">>) = 1
        /\ Len(<<"500">>) = 1 /\ Len(<<"served">>) = 1
        /\ <<"403", "403">>[1] = "403" /\ <<"403", "served">>[1] = "403"
    OBVIOUS
  <2> SUFFICES ASSUME NEW s \in Refusals \cup Servings, Len(s) > 1
               PROVE  s \in {<<"403", "403">>, <<"403", "served">>}
    BY <2>1
  <2>2. Len(s) # 0 /\ Len(s) # 1
    <3>1. \A n \in Nat : n > 1 => n # 0 /\ n # 1
      OBVIOUS
    <3>2. s \in Seq({"served", "400", "401", "403", "500"})
      BY <1>1
    <3>3. Len(s) \in Nat
      BY ONLY <3>2
    <3> QED
      BY <3>1, <3>3, Zenon
  <2>3. s # <<>> /\ s # <<"400">> /\ s # <<"401">> /\ s # <<"403">> /\ s # <<"500">>
        /\ s # <<"served">>
    BY <2>1, <2>2
  <2> QED
    BY <2>3 DEF Refusals, Servings
<1> QED
  BY <1>1, <1>2, <1>3

\* One more answer, or two, after none or after a complaint about the ids.
LEMMA OneMoreAnswer ==
  ASSUME NEW S, NEW b \in S, NEW c \in S, NEW d \in S
  PROVE  /\ <<>> \o <<>> = <<>> /\ <<>> \o <<c>> = <<c>> /\ <<>> \o <<c, d>> = <<c, d>>
         /\ <<b>> \o <<c>> = <<b, c>>
<1>1. <<c>> \in Seq(S) /\ <<>> \in Seq(S) /\ <<c, d>> \in Seq(S)
  OBVIOUS
<1>2. <<b>> \o <<c>> = <<b, c>>
  <2>1. <<b>> \in Seq(S) /\ <<b, c>> \in Seq(S)
    OBVIOUS
  <2>2. /\ <<b>> \o <<c>> \in Seq(S) /\ Len(<<b>> \o <<c>>) = 2 /\ Len(<<b, c>>) = 2
        /\ (<<b>> \o <<c>>)[1] = b /\ (<<b>> \o <<c>>)[2] = c
        /\ <<b, c>>[1] = b /\ <<b, c>>[2] = c
    BY <1>1, <2>1
  <2>3. \A i \in 1..2 : i = 1 \/ i = 2
    OBVIOUS
  <2> QED
    BY <2>1, <2>2, <2>3, SeqEqual
<1> QED
  BY <1>1, <1>2, ConcatEmptySeq

LEMMA DistinctAnswers ==
  /\ \A a, b, c : <<>> # <<a>> /\ <<a>> # <<b, c>> /\ <<>> # <<a, b>>
  /\ \A a, b : <<a>> = <<b>> => a = b
  /\ \A a, b, c, d : <<a, b>> = <<c, d>> => a = c /\ b = d
OBVIOUS

LEMMA InitIInv == Init => IInv
<1> SUFFICES ASSUME Init PROVE IInv
  OBVIOUS
<1>1. TypeOK
  <2>1. <<>> \in Seq({"served", "400", "401", "403", "500"})
    OBVIOUS
  <2>2. answers \in [Requests -> Seq({"served", "400", "401", "403", "500"})]
    BY <2>1 DEF Init
  <2>3. before \in [Requests -> [revoked : BOOLEAN, suspended : BOOLEAN, known : BOOLEAN]]
    BY DEF Init
  <2> QED
    BY <2>2, <2>3, NobodyAssumption DEF Init, TypeOK, Methods, UserTypes
<1>2. ASSUME NEW r \in Requests PROVE RequestInv(r)
  <2>1. LookupInv(r) /\ ProgressInv(r)
    BY DEF Init, LookupInv, ProgressInv
  <2>2. answers[r] = <<>> /\ method[r] = "none"
    BY DEF Init
  <2>3. AnswerInv(r)
    BY <2>2, DistinctAnswers DEF AnswerInv, Refusals, Servings
  <2> QED
    BY <2>1, <2>3 DEF RequestInv
<1> QED
  BY <1>1, <1>2 DEF IInv

\* What may happen around a request that does not step itself.
LEMMA Bystander ==
  ASSUME IInv, NEW r \in Requests,
         pc'[r] = pc[r] \/ pc'[r] \in {"lost", "panicked"},
         user'[r] = user[r], method'[r] = method[r], profile'[r] = profile[r],
         lookup'[r] = lookup[r], revocation'[r] = revocation[r],
         answers'[r] = answers[r], before'[r] = before[r],
         gone \subseteq gone', revoked \subseteq revoked',
         \A u \in Names : local[u] # "absent" => local'[u] # "absent",
         local[user[r]] = "suspended" => local'[user[r]] = "suspended"
  PROVE  RequestInv(r)'
<1>1. LookupInv(r) /\ ProgressInv(r) /\ AnswerInv(r)
  BY DEF IInv, RequestInv
<1>5. Account(r)' = Account(r) /\ Account(r) \in Names /\ user[r] \in Names
  BY DEF IInv, TypeOK
<1> HIDE DEF Account, Names
<1>2. LookupInv(r)'
  BY <1>1, <1>5 DEF LookupInv
<1>3. ProgressInv(r)'
  BY <1>1 DEF ProgressInv
<1>4. AnswerInv(r)'
  BY <1>1, <1>5 DEF AnswerInv
<1> QED
  BY <1>2, <1>3, <1>4 DEF RequestInv

-----------------------------------------------------------------------------
(***************************************************************************)
(* A request that has arrived                                              *)
(***************************************************************************)

\* Every answer the code gives to a request that has just arrived.
LEMMA AnsweredOnArrival ==
  ASSUME IInv, NEW r \in Requests, NEW sent, NEW m, pc[r] = "arrived", AnswerAs(r, sent, m),
         NEW a, a = <<>> \o sent, a \in Refusals \cup Servings, m # "OAUTH2",
         a \in Servings /\ m \notin {"none", "ANON_INTERNAL"} =>
           ~before[r].suspended /\ local[user[r]] # "absent",
         a = <<"403", "served">> => m \in {"INTERNAL", "ANON_INTERNAL"},
         a = <<"403", "403">> => m \in {"INTERNAL", "ANON_INTERNAL", "OAUTH_LEGACY"}
  PROVE  RequestInv(r)'
<1>1. TypeOK /\ LookupInv(r) /\ ProgressInv(r)
  BY DEF IInv, RequestInv
<1>2. /\ answers'[r] = a /\ method'[r] = m /\ pc'[r] = "done"
      /\ UNCHANGED <<envVars, user, goVars, gone, before>>
  BY <1>1 DEF AnswerAs, Answer, ProgressInv, TypeOK
<1>3. LookupInv(r)'
  BY <1>1, <1>2 DEF LookupInv
<1>4. ProgressInv(r)'
  BY <1>2 DEF ProgressInv
<1>5. AnswerInv(r)'
  BY <1>1, <1>2 DEF AnswerInv, ProgressInv
<1> QED
  BY <1>3, <1>4, <1>5 DEF RequestInv

LEMMA Singles ==
  ASSUME NEW c \in {"served", "400", "401", "403", "500"}
  PROVE  /\ <<>> \o <<c>> = <<c>> /\ <<c>> \in Refusals \cup Servings
         /\ <<c>> # <<"403", "served">> /\ <<c>> # <<"403", "403">>
         /\ c # "served" => <<c>> \notin Servings
         /\ c # "403" => <<c>> # <<"403">>
BY OneMoreAnswer, DistinctAnswers DEF Refusals, Servings

LEMMA Pairs ==
  ASSUME NEW c \in {"served", "403"}
  PROVE  /\ <<"403">> \o <<c>> = <<"403", c>> /\ <<>> \o <<"403", c>> = <<"403", c>>
         /\ <<"403", c>> \in Refusals \cup Servings
         /\ <<"403", c>> # <<"403">>
         /\ c # "served" => <<"403", c>> \notin Servings /\ <<"403", c>> # <<"403", "served">>
         /\ c # "403" => <<"403", c>> # <<"403", "403">>
<1>1. <<"403">> \o <<c>> = <<"403", c>> /\ <<>> \o <<"403", c>> = <<"403", c>>
  BY OneMoreAnswer
<1>2. <<"403", c>> # <<"403">>
  BY DistinctAnswers
<1>3. CASE c = "served"
  BY <1>1, <1>2, <1>3, DistinctAnswers DEF Refusals, Servings
<1>4. CASE c = "403"
  BY <1>1, <1>2, <1>4, DistinctAnswers DEF Refusals, Servings
<1> QED
  BY <1>3, <1>4

\* The answers of internalAuth, with or without the complaint.
LEMMA Complaints ==
  ASSUME NEW ids \in BOOLEAN, NEW c \in {"served", "403"}
  PROVE  \E a \in {<<c>>, <<"403", c>>} :
           /\ Complaint(ids) \o <<c>> = a /\ <<>> \o (Complaint(ids) \o <<c>>) = a
           /\ a \in Refusals \cup Servings
           /\ c # "served" => a \notin Servings
<1>1. <<>> \o <<c>> = <<c>> /\ <<"403">> \o <<c>> = <<"403", c>>
      /\ <<>> \o <<"403", c>> = <<"403", c>>
  BY Singles, Pairs
<1>2. CASE ids
  BY <1>1, <1>2, Singles DEF Complaint
<1>3. CASE ~ids
  BY <1>1, <1>3, Pairs DEF Complaint
<1> QED
  BY <1>2, <1>3

\* RejectHeader, RejectCredentials, and the paths that need no authentication.
LEMMA ArrivedOpen ==
  ASSUME IInv, NEW r \in Requests, ServeOpenPath(r) \/ RejectHeader(r) \/ RejectCredentials(r)
  PROVE  RequestInv(r)'
<1>1. PICK c \in {"served", "400", "401", "403"} :
        pc[r] = "arrived" /\ AnswerAs(r, <<c>>, "none")
  BY DEF ServeOpenPath, RejectHeader, RejectCredentials
<1>2. /\ <<>> \o <<c>> = <<c>> /\ <<c>> \in Refusals \cup Servings
      /\ <<c>> # <<"403", "served">> /\ <<c>> # <<"403", "403">>
  BY Singles
<1> QED
  BY <1>1, <1>2, AnsweredOnArrival

LEMMA ArrivedAnonymous ==
  ASSUME IInv, NEW r \in Requests, NEW ids \in BOOLEAN, AnonInternalAuth(r, ids)
  PROVE  RequestInv(r)'
<1>1. pc[r] = "arrived" /\ AnswerAs(r, Complaint(ids) \o <<"served">>, "ANON_INTERNAL")
  BY DEF AnonInternalAuth
<1>2. PICK a \in {<<"served">>, <<"403", "served">>} :
        a = <<>> \o (Complaint(ids) \o <<"served">>) /\ a \in Refusals \cup Servings
  BY Complaints
<1>3. PICK m : m = "ANON_INTERNAL"
  OBVIOUS
<1>4. PICK sent : sent = Complaint(ids) \o <<"served">>
  OBVIOUS
<1>5. /\ AnswerAs(r, sent, m) /\ a = <<>> \o sent /\ m # "OAUTH2"
      /\ m \in {"none", "ANON_INTERNAL"} /\ m \in {"INTERNAL", "ANON_INTERNAL"}
      /\ m \in {"INTERNAL", "ANON_INTERNAL", "OAUTH_LEGACY"}
  BY <1>1, <1>2, <1>3, <1>4
<1> QED
  BY <1>1, <1>2, <1>5, AnsweredOnArrival, Zenon

LEMMA ArrivedClient ==
  ASSUME IInv, NEW r \in Requests, NEW ids \in BOOLEAN, InternalOAuthClient(r, ids)
  PROVE  RequestInv(r)'
<1>0. TypeOK /\ LookupInv(r) /\ ProgressInv(r) /\ pc[r] = "arrived"
  BY DEF IInv, RequestInv, InternalOAuthClient
<1>1. CASE AnswerAs(r, Complaint(ids) \o <<"403">>, "INTERNAL")
  <2>1. PICK a \in {<<"403">>, <<"403", "403">>} :
          /\ a = <<>> \o (Complaint(ids) \o <<"403">>)
          /\ a \in Refusals \cup Servings /\ a \notin Servings
    BY Complaints
  <2>2. PICK m, sent : m = "INTERNAL" /\ sent = Complaint(ids) \o <<"403">>
    OBVIOUS
  <2>3. /\ AnswerAs(r, sent, m) /\ a = <<>> \o sent /\ m # "OAUTH2"
        /\ m \in {"INTERNAL", "ANON_INTERNAL"}
        /\ m \in {"INTERNAL", "ANON_INTERNAL", "OAUTH_LEGACY"}
    BY <1>1, <2>1, <2>2
  <2> QED
    BY <1>0, <2>1, <2>3, AnsweredOnArrival, Zenon
<1>2. CASE local[user[r]] = "active" /\ AnswerAs(r, Complaint(ids) \o <<"served">>, "INTERNAL")
  <2>1. PICK a \in {<<"served">>, <<"403", "served">>} :
          /\ a = <<>> \o (Complaint(ids) \o <<"served">>)
          /\ a \in Refusals \cup Servings
    BY Complaints
  <2>2. ~before[r].suspended /\ local[user[r]] # "absent"
    BY <1>0, <1>2 DEF LookupInv
  <2>3. PICK m, sent : m = "INTERNAL" /\ sent = Complaint(ids) \o <<"served">>
    OBVIOUS
  <2>4. /\ AnswerAs(r, sent, m) /\ a = <<>> \o sent /\ m # "OAUTH2"
        /\ m \in {"INTERNAL", "ANON_INTERNAL"}
        /\ m \in {"INTERNAL", "ANON_INTERNAL", "OAUTH_LEGACY"}
    BY <1>2, <2>1, <2>3
  <2> QED
    BY <1>0, <2>1, <2>2, <2>4, AnsweredOnArrival, Zenon
<1>3. CASE /\ pc' = [pc EXCEPT ![r] = "panicked"]
           /\ answers' = [answers EXCEPT ![r] = @ \o Complaint(ids)]
           /\ UNCHANGED <<alive, envVars, user, method, goVars, gone, conflict, before>>
  <2>1. answers'[r] = <<>> \o Complaint(ids) /\ method'[r] = "none" /\ pc'[r] = "panicked"
    BY <1>0, <1>3 DEF TypeOK, ProgressInv
  <2>2. <<>> \o <<"403">> = <<"403">> /\ <<>> \o <<>> = <<>>
    BY OneMoreAnswer
  <2>3. answers'[r] = <<>> \/ answers'[r] = <<"403">>
    BY <2>1, <2>2 DEF Complaint
  <2>4. AnswerInv(r)'
    BY <2>1, <2>3, DistinctAnswers DEF AnswerInv, Refusals, Servings
  <2>5. LookupInv(r)' /\ ProgressInv(r)'
    BY <1>0, <1>3, <2>1 DEF LookupInv, ProgressInv
  <2> QED
    BY <2>4, <2>5 DEF RequestInv
<1> QED
  BY <1>1, <1>2, <1>3 DEF InternalOAuthClient

LEMMA ArrivedLegacy ==
  ASSUME IInv, NEW r \in Requests, LegacyOAuth(r)
  PROVE  RequestInv(r)'
<1>0. TypeOK /\ LookupInv(r) /\ ProgressInv(r) /\ pc[r] = "arrived"
  BY DEF IInv, RequestInv, LegacyOAuth
<1>1. CASE AnswerAs(r, <<"403", "403">>, "OAUTH_LEGACY")
  <2>1. /\ <<>> \o <<"403", "403">> = <<"403", "403">>
        /\ <<"403", "403">> \in Refusals \cup Servings
        /\ <<"403", "403">> \notin Servings /\ <<"403", "403">> # <<"403", "served">>
    BY Pairs
  <2> QED
    BY <1>0, <1>1, <2>1, AnsweredOnArrival
<1>2. CASE AnswerAs(r, <<"403">>, "OAUTH_LEGACY")
  <2>1. /\ <<>> \o <<"403">> = <<"403">> /\ <<"403">> \in Refusals \cup Servings
        /\ <<"403">> \notin Servings /\ <<"403">> # <<"403", "served">>
        /\ <<"403">> # <<"403", "403">>
    BY Singles
  <2> QED
    BY <1>0, <1>2, <2>1, AnsweredOnArrival
<1>3. CASE /\ local[user[r]] # "absent" /\ local[user[r]] # "suspended"
           /\ AnswerAs(r, <<"served">>, "OAUTH_LEGACY")
  <2>1. /\ <<>> \o <<"served">> = <<"served">> /\ <<"served">> \in Refusals \cup Servings
        /\ <<"served">> # <<"403", "served">> /\ <<"served">> # <<"403", "403">>
    BY Singles
  <2>2. ~before[r].suspended
    BY <1>0, <1>3 DEF LookupInv
  <2> QED
    BY <1>0, <1>3, <2>1, <2>2, AnsweredOnArrival
<1>4. CASE /\ pc' = [pc EXCEPT ![r] = "panicked"]
           /\ UNCHANGED <<alive, envVars, user, method, goVars, answers, gone, conflict, before>>
  <2>1. pc'[r] = "panicked"
    BY <1>0, <1>4 DEF TypeOK
  <2> QED
    BY <1>4, <2>1, Bystander
<1> QED
  BY <1>1, <1>2, <1>3, <1>4 DEF LegacyOAuth

\* The lookups begin.
LEMMA ArrivedLookup ==
  ASSUME IInv, NEW r \in Requests,
         CookieAuth(r) \/ (\E ids \in BOOLEAN : InternalAuth(r, ids)) \/ OAuth2(r)
  PROVE  RequestInv(r)'
<1>0. TypeOK /\ LookupInv(r) /\ ProgressInv(r) /\ pc[r] = "arrived"
  BY DEF IInv, RequestInv, CookieAuth, InternalAuth, StartLookup, OAuth2
<1>1. <<>> \o <<"403">> = <<"403">> /\ <<>> \o <<>> = <<>>
  BY OneMoreAnswer
<1>2. /\ pc'[r] = "auth" /\ lookup'[r] = "select" /\ revocation'[r] \in {"off", "query"}
      /\ UNCHANGED <<envVars, user, profile, gone, before>>
  BY <1>0 DEF CookieAuth, InternalAuth, StartLookup, OAuth2, TypeOK, ProgressInv
<1>3. \/ answers'[r] = <<>> /\ method'[r] \in {"COOKIE", "INTERNAL", "OAUTH2"}
      \/ answers'[r] = <<"403">> /\ method'[r] = "INTERNAL"
  <2>1. CASE CookieAuth(r)
    BY <1>0, <1>1, <2>1 DEF CookieAuth, StartLookup, Complaint, TypeOK, ProgressInv
  <2>2. ASSUME NEW ids \in BOOLEAN, InternalAuth(r, ids)
        PROVE  (answers'[r] = <<>> \/ answers'[r] = <<"403">>) /\ method'[r] = "INTERNAL"
    BY <1>0, <1>1, <2>2 DEF InternalAuth, StartLookup, Complaint, TypeOK, ProgressInv
  <2>3. CASE OAuth2(r)
    BY <1>0, <2>3 DEF OAuth2, TypeOK, ProgressInv
  <2> QED
    BY <2>1, <2>2, <2>3
<1>4. LookupInv(r)'
  BY <1>0, <1>2 DEF LookupInv
<1>5. ProgressInv(r)'
  BY <1>2, <1>3 DEF ProgressInv
<1>6. AnswerInv(r)'
  <2>1. answers'[r] \in Refusals /\ answers'[r] \notin Servings
        /\ answers'[r] # <<"403", "served">> /\ answers'[r] # <<"403", "403">>
    BY <1>3, DistinctAnswers DEF Refusals, Servings
  <2>2. ~(method'[r] = "OAUTH2" /\ answers'[r] = <<"403">>)
    BY <1>3, DistinctAnswers
  <2> QED
    BY <2>1, <2>2 DEF AnswerInv
<1> QED
  BY <1>4, <1>5, <1>6 DEF RequestInv

-----------------------------------------------------------------------------
(***************************************************************************)
(* A request whose user and token are looked up                            *)
(***************************************************************************)

LEMMA StillLooking ==
  ASSUME IInv, NEW r \in Requests, pc[r] = "auth",
         pc'[r] \in {"auth", "lost", "panicked"},
         answers'[r] = answers[r], method'[r] = method[r], LookupInv(r)'
  PROVE  RequestInv(r)'
<1>1. ProgressInv(r)
  BY DEF IInv, RequestInv
<1>2. ProgressInv(r)'
  BY <1>1 DEF ProgressInv
<1>3. answers[r] = <<>> \/ (method[r] = "INTERNAL" /\ answers[r] = <<"403">>)
  BY <1>1 DEF ProgressInv
<1>4. answers[r] \in Refusals /\ answers[r] \notin Servings
      /\ answers[r] # <<"403", "served">> /\ answers[r] # <<"403", "403">>
  <2>1. CASE answers[r] = <<>>
    BY <2>1, DistinctAnswers DEF Refusals, Servings
  <2>2. CASE answers[r] = <<"403">>
    BY <2>2, Singles DEF Refusals
  <2> QED
    BY <1>3, <2>1, <2>2
<1>5. ~(method[r] = "OAUTH2" /\ answers[r] = <<"403">>)
  BY <1>3, DistinctAnswers
<1>6. AnswerInv(r)'
  BY <1>4, <1>5 DEF AnswerInv
<1> QED
  BY <1>2, <1>6 DEF RequestInv

LEMMA PanicEnds ==
  ASSUME TypeOK, NEW r \in Requests, pc[r] = "auth", Panic(r)
  PROVE  /\ pc'[r] \in {"lost", "panicked"}
         /\ \A q \in Requests : q # r => pc'[q] = pc[q] \/ pc'[q] = "lost"
         /\ alive' \in BOOLEAN
         /\ pc' \in [Requests -> {"none", "arrived", "auth", "done", "panicked", "lost"}]
<1> USE DEF Panic, TypeOK
<1>1. CASE method[r] = "OAUTH2"
  <2>1. pc' = [q \in Requests |-> IF pc[q] \in {"arrived", "auth"} THEN "lost" ELSE pc[q]]
        /\ alive' = FALSE
    BY <1>1
  <2>2. \A q \in Requests : pc'[q] = IF pc[q] \in {"arrived", "auth"} THEN "lost" ELSE pc[q]
    BY <2>1
  <2> QED
    BY <2>1, <2>2
<1>2. CASE method[r] # "OAUTH2"
  BY <1>2
<1> QED
  BY <1>1, <1>2

\* LookupUser and LookupTokenRevocation.
LEMMA LookupNext ==
  ASSUME IInv, NEW r \in Requests,
         LookupUser(r) \/ LookupTokenRevocation(r) \/ RevocationFails(r)
  PROVE  RequestInv(r)'
<1>0. TypeOK /\ LookupInv(r)
  BY DEF IInv, RequestInv
<1>1. /\ pc[r] = "auth"
      /\ UNCHANGED <<user, method, answers, gone, before, revoked>>
  BY DEF LookupUser, SelectUser, LookupFails, FetchMetaProfile, InsertUser, InsertRolledBack,
         CommitPanics, LookupTokenRevocation, RevocationFails
<1>2. pc'[r] \in {"auth", "lost", "panicked"}
  <2>1. CASE Panic(r)
    BY <1>0, <1>1, <2>1, PanicEnds
  <2>2. CASE UNCHANGED pc
    BY <1>1, <2>2
  <2>3. Panic(r) \/ UNCHANGED pc
    BY DEF LookupUser, SelectUser, LookupFails, FetchMetaProfile, InsertUser, InsertRolledBack,
           CommitPanics, LookupTokenRevocation, RevocationFails
  <2> QED
    BY <2>1, <2>2, <2>3
<1>3. LookupInv(r)'
  <2> USE <1>0, <1>1 DEF LookupInv, TypeOK, UserTypes
  <2>1. CASE SelectUser(r)
    BY <2>1 DEF SelectUser
  <2>2. CASE LookupFails(r) \/ InsertRolledBack(r)
    BY <2>2 DEF LookupFails, InsertRolledBack
  <2>3. CASE FetchMetaProfile(r)
    BY <2>3 DEF FetchMetaProfile
  <2>4. CASE InsertUser(r)
    BY <2>4 DEF InsertUser
  <2>5. CASE CommitPanics(r)
    BY <2>5 DEF CommitPanics
  <2>6. CASE LookupTokenRevocation(r) \/ RevocationFails(r)
    BY <2>6 DEF LookupTokenRevocation, RevocationFails
  <2> QED
    BY <2>1, <2>2, <2>3, <2>4, <2>5, <2>6 DEF LookupUser
<1> QED
  BY <1>1, <1>2, <1>3, StillLooking

\* The verdict, on its own or after the complaint of internalAuth.
LEMMA VerdictNext ==
  ASSUME IInv, NEW r \in Requests,
         FinishLookup(r) \/ FinishOAuth2(r) \/ GrantsPanic(r)
  PROVE  RequestInv(r)'
<1>0. TypeOK /\ LookupInv(r) /\ ProgressInv(r) /\ pc[r] = "auth"
  BY DEF IInv, RequestInv, FinishLookup, FinishOAuth2, GrantsPanic
<1>1. /\ method[r] \in {"COOKIE", "INTERNAL", "OAUTH2"}
      /\ answers[r] = <<>> \/ (method[r] = "INTERNAL" /\ answers[r] = <<"403">>)
  BY <1>0 DEF ProgressInv
<1>2. CASE GrantsPanic(r)
  <2>1. pc'[r] = "panicked"
        /\ UNCHANGED <<envVars, user, method, goVars, answers, gone, before>>
    BY <1>0, <1>2 DEF GrantsPanic, TypeOK
  <2> QED
    BY <2>1, Bystander
<1>3. ASSUME FinishLookup(r) \/ FinishOAuth2(r) PROVE RequestInv(r)'
  <2>1. PICK c \in {"served", "403", "500"} :
          /\ Finish(r, <<c>>)
          /\ c = "served" => /\ lookup[r] = "ok" /\ profile[r] # "suspended"
                             /\ method[r] = "OAUTH2" => revocation[r] \in {"valid", "blank"}
          /\ c = "403" /\ method[r] = "OAUTH2" =>
               revocation[r] = "revoked" \/ profile[r] = "suspended"
          /\ method[r] = "INTERNAL" => c # "500"
    BY <1>3 DEF FinishLookup, FinishOAuth2, Waited, Res, TempErr
  <2>2. /\ answers'[r] = answers[r] \o <<c>> /\ pc'[r] = "done"
        /\ UNCHANGED <<envVars, user, method, goVars, gone, before>>
    BY <1>0, <2>1 DEF Finish, Answer, TypeOK
  <2>3. c = "served" => /\ ~before[r].suspended
                        /\ r \notin gone => local[Account(r)] # "absent"
                        /\ before[r].known => profile[r] # "blank"
                        /\ method[r] = "OAUTH2" /\ before[r].revoked =>
                             revocation[r] = "blank"
    BY <1>0, <2>1 DEF LookupInv
  <2>4. c = "403" /\ method[r] = "OAUTH2" => user[r] \in revoked \/ profile[r] = "suspended"
    BY <1>0, <2>1 DEF LookupInv
  <2>5. ASSUME answers[r] = <<>> PROVE AnswerInv(r)'
    <3>1. /\ answers'[r] = <<c>> /\ <<c>> \in Refusals \cup Servings
          /\ <<c>> # <<"403", "served">> /\ <<c>> # <<"403", "403">>
          /\ c # "served" => <<c>> \notin Servings
          /\ c # "403" => <<c>> # <<"403">>
      BY <2>2, <2>5, Singles
    <3> QED
      BY <2>2, <2>3, <2>4, <3>1 DEF AnswerInv
  <2>6. ASSUME method[r] = "INTERNAL", answers[r] = <<"403">> PROVE AnswerInv(r)'
    <3>1. c \in {"served", "403"}
      BY <2>1, <2>6
    <3>2. /\ answers'[r] = <<"403", c>> /\ <<"403", c>> \in Refusals \cup Servings
          /\ <<"403", c>> # <<"403">>
          /\ c # "served" => <<"403", c>> \notin Servings
      BY <2>2, <2>6, <3>1, Pairs
    <3> QED
      BY <2>2, <2>3, <2>6, <3>1, <3>2 DEF AnswerInv
  <2>7. LookupInv(r)' /\ ProgressInv(r)'
    BY <1>0, <2>2 DEF LookupInv, ProgressInv
  <2> QED
    BY <1>1, <2>5, <2>6, <2>7 DEF RequestInv
<1> QED
  BY <1>2, <1>3

LEMMA ProcessNext ==
  ASSUME IInv, NEW r \in Requests, Process(r)
  PROVE  RequestInv(r)'
<1>1. CASE MalformedPanics(r)
  <2>1. pc'[r] = "panicked"
        /\ UNCHANGED <<envVars, user, method, goVars, answers, gone, before>>
    BY <1>1 DEF MalformedPanics, IInv, TypeOK
  <2> QED
    BY <2>1, Bystander
<1> QED
  BY <1>1, ArrivedOpen, ArrivedAnonymous, ArrivedClient, ArrivedLegacy, ArrivedLookup,
     LookupNext, VerdictNext DEF Process, Middleware

-----------------------------------------------------------------------------
(***************************************************************************)
(* The other requests, and the types                                       *)
(***************************************************************************)

\* A request steps on its own: the others keep what they have, and at most a
\* row is added to the user table, or the process ends.
LEMMA ProcessFrame ==
  ASSUME TypeOK, NEW r \in Requests, Process(r), NEW q \in Requests, q # r
  PROVE  /\ UNCHANGED <<revoked, user, gone, before>>
         /\ pc'[q] = pc[q] \/ pc'[q] = "lost"
         /\ method'[q] = method[q] /\ profile'[q] = profile[q] /\ lookup'[q] = lookup[q]
         /\ revocation'[q] = revocation[q] /\ answers'[q] = answers[q]
         /\ \A u \in Names : local[u] # "absent" => local'[u] = local[u]
<1> USE DEF TypeOK
<1>1. CASE ServeOpenPath(r) \/ RejectHeader(r) \/ RejectCredentials(r)
  <2>1. PICK sent : AnswerAs(r, sent, "none")
    BY <1>1 DEF ServeOpenPath, RejectHeader, RejectCredentials
  <2> QED
    BY <2>1 DEF AnswerAs, Answer, Methods
<1>2. CASE \E ids \in BOOLEAN : AnonInternalAuth(r, ids) \/ InternalOAuthClient(r, ids)
  <2>1. CASE \E sent : AnswerAs(r, sent, "ANON_INTERNAL") \/ AnswerAs(r, sent, "INTERNAL")
    <3>1. PICK sent : AnswerAs(r, sent, "ANON_INTERNAL") \/ AnswerAs(r, sent, "INTERNAL")
      BY <2>1
    <3>2. CASE AnswerAs(r, sent, "ANON_INTERNAL")
      BY <3>2 DEF AnswerAs, Answer, Methods
    <3>3. CASE AnswerAs(r, sent, "INTERNAL")
      BY <3>3 DEF AnswerAs, Answer, Methods
    <3> QED
      BY <3>1, <3>2, <3>3
  <2>2. CASE \E ids \in BOOLEAN :
               /\ pc' = [pc EXCEPT ![r] = "panicked"]
               /\ answers' = [answers EXCEPT ![r] = @ \o Complaint(ids)]
               /\ UNCHANGED <<alive, envVars, user, method, goVars, gone, conflict, before>>
    BY <2>2
  <2> QED
    BY <1>2, <2>1, <2>2 DEF AnonInternalAuth, InternalOAuthClient
<1>3. CASE LegacyOAuth(r) \/ MalformedPanics(r)
  <2>1. CASE \E sent : AnswerAs(r, sent, "OAUTH_LEGACY")
    <3>1. PICK sent : AnswerAs(r, sent, "OAUTH_LEGACY")
      BY <2>1
    <3> QED
      BY <3>1 DEF AnswerAs, Answer, Methods
  <2>2. CASE /\ pc' = [pc EXCEPT ![r] = "panicked"]
             /\ UNCHANGED <<alive, envVars, user, method, goVars, answers,
                            gone, conflict, before>>
    BY <2>2
  <2> QED
    BY <1>3, <2>1, <2>2 DEF LegacyOAuth, MalformedPanics
<1>4. CASE CookieAuth(r) \/ (\E ids \in BOOLEAN : InternalAuth(r, ids))
  <2>1. CASE CookieAuth(r)
    BY <2>1 DEF CookieAuth, StartLookup, Methods
  <2>2. CASE \E ids \in BOOLEAN : InternalAuth(r, ids)
    <3>1. PICK ids \in BOOLEAN : InternalAuth(r, ids)
      BY <2>2
    <3> QED
      BY <3>1 DEF InternalAuth, StartLookup, Methods
  <2> QED
    BY <1>4, <2>1, <2>2
<1>5. CASE OAuth2(r)
  BY <1>5 DEF OAuth2, Methods
<1>10. CASE SelectUser(r)
  BY <1>10 DEF SelectUser, UserTypes
<1>11. CASE LookupFails(r)
  BY <1>11 DEF LookupFails
<1>12. CASE InsertRolledBack(r)
  BY <1>12 DEF InsertRolledBack
<1>13. CASE LookupTokenRevocation(r)
  BY <1>13 DEF LookupTokenRevocation
<1>14. CASE RevocationFails(r)
  BY <1>14 DEF RevocationFails
<1>6. CASE FetchMetaProfile(r)
  BY <1>6, PanicEnds DEF FetchMetaProfile, UserTypes
<1>7. CASE InsertUser(r)
  BY <1>7, PanicEnds DEF InsertUser, UserTypes
<1>8. CASE CommitPanics(r)
  BY <1>8, PanicEnds DEF CommitPanics, UserTypes
<1>9. CASE FinishLookup(r) \/ FinishOAuth2(r) \/ GrantsPanic(r)
  <2>1. CASE \E sent : Finish(r, sent)
    <3>1. PICK sent : Finish(r, sent)
      BY <2>1
    <3> QED
      BY <3>1 DEF Finish, Answer
  <2>2. CASE GrantsPanic(r)
    BY <2>2 DEF GrantsPanic
  <2> QED
    BY <1>9, <2>1, <2>2 DEF FinishLookup, FinishOAuth2
<1> QED
  BY <1>1, <1>2, <1>3, <1>4, <1>5, <1>6, <1>7, <1>8, <1>9, <1>10, <1>11, <1>12,
     <1>13, <1>14 DEF Process, Middleware, LookupUser

\* The row of a profile: only the user without a name has a blank one.
LEMMA StoredRow ==
  ASSUME TypeOK, NEW r \in Requests, profile[r] \in UserTypes \cup {"blank"}
  PROVE  LET t == [local EXCEPT ![Account(r)] = profile[r]]
         IN  /\ t \in [Names -> UserTypes \cup {"absent", "blank"}]
             /\ \A u \in Users : t[u] # "blank"
<1>1. Account(r) \in Names /\ (profile[r] = "blank" => Account(r) \notin Users)
  BY NobodyAssumption DEF TypeOK
<1> HIDE DEF Account
<1> QED
  BY <1>1 DEF TypeOK, UserTypes

LEMMA ProcessTypes ==
  ASSUME TypeOK, NEW r \in Requests, LookupInv(r), Process(r)
  PROVE  /\ UNCHANGED <<isMeta, meta, revoked, user, gone, before>>
         /\ alive' \in BOOLEAN /\ conflict' \in BOOLEAN
         /\ local' \in [Names -> UserTypes \cup {"absent", "blank"}]
         /\ \A u \in Users : local'[u] # "blank"
         /\ pc' \in [Requests -> {"none", "arrived", "auth", "done", "panicked", "lost"}]
         /\ method' \in [Requests -> Methods]
         /\ profile' \in [Requests -> UserTypes \cup {"none", "blank"}]
         /\ lookup' \in [Requests -> {"off", "select", "fetch", "insert", "ok", "error"}]
         /\ revocation' \in [Requests -> {"off", "query", "valid", "blank", "revoked", "error"}]
         /\ answers' = answers \/ \E x : answers' = [answers EXCEPT ![r] = x]
<1> USE DEF TypeOK, LookupInv
<1>1. CASE ServeOpenPath(r) \/ RejectHeader(r) \/ RejectCredentials(r)
  <2>1. PICK sent : AnswerAs(r, sent, "none")
    BY <1>1 DEF ServeOpenPath, RejectHeader, RejectCredentials
  <2> QED
    BY <2>1 DEF AnswerAs, Answer, Methods
<1>2. CASE \E ids \in BOOLEAN : AnonInternalAuth(r, ids) \/ InternalOAuthClient(r, ids)
  <2>1. CASE \E sent : AnswerAs(r, sent, "ANON_INTERNAL") \/ AnswerAs(r, sent, "INTERNAL")
    <3>1. PICK sent : AnswerAs(r, sent, "ANON_INTERNAL") \/ AnswerAs(r, sent, "INTERNAL")
      BY <2>1
    <3>2. CASE AnswerAs(r, sent, "ANON_INTERNAL")
      BY <3>2 DEF AnswerAs, Answer, Methods
    <3>3. CASE AnswerAs(r, sent, "INTERNAL")
      BY <3>3 DEF AnswerAs, Answer, Methods
    <3> QED
      BY <3>1, <3>2, <3>3
  <2>2. CASE \E ids \in BOOLEAN :
               /\ pc' = [pc EXCEPT ![r] = "panicked"]
               /\ answers' = [answers EXCEPT ![r] = @ \o Complaint(ids)]
               /\ UNCHANGED <<alive, envVars, user, method, goVars, gone, conflict, before>>
    BY <2>2
  <2> QED
    BY <1>2, <2>1, <2>2 DEF AnonInternalAuth, InternalOAuthClient
<1>3. CASE LegacyOAuth(r) \/ MalformedPanics(r)
  <2>1. CASE \E sent : AnswerAs(r, sent, "OAUTH_LEGACY")
    <3>1. PICK sent : AnswerAs(r, sent, "OAUTH_LEGACY")
      BY <2>1
    <3> QED
      BY <3>1 DEF AnswerAs, Answer, Methods
  <2>2. CASE /\ pc' = [pc EXCEPT ![r] = "panicked"]
             /\ UNCHANGED <<alive, envVars, user, method, goVars, answers,
                            gone, conflict, before>>
    BY <2>2
  <2> QED
    BY <1>3, <2>1, <2>2 DEF LegacyOAuth, MalformedPanics
<1>4. CASE CookieAuth(r) \/ (\E ids \in BOOLEAN : InternalAuth(r, ids))
  <2>1. CASE CookieAuth(r)
    BY <2>1 DEF CookieAuth, StartLookup, Methods
  <2>2. CASE \E ids \in BOOLEAN : InternalAuth(r, ids)
    <3>1. PICK ids \in BOOLEAN : InternalAuth(r, ids)
      BY <2>2
    <3> QED
      BY <3>1 DEF InternalAuth, StartLookup, Methods
  <2> QED
    BY <1>4, <2>1, <2>2
<1>5. CASE OAuth2(r)
  BY <1>5 DEF OAuth2, Methods
<1>10. CASE SelectUser(r)
  <2>1. CASE local[user[r]] = "absent"
    BY <1>10, <2>1 DEF SelectUser
  <2>2. CASE local[user[r]] # "absent"
    <3>1. local[user[r]] \in UserTypes
      BY <1>10, <2>2 DEF SelectUser
    <3> QED
      BY <1>10, <2>2, <3>1 DEF SelectUser
  <2> QED
    BY <2>1, <2>2
<1>11. CASE LookupFails(r)
  BY <1>11 DEF LookupFails
<1>12. CASE InsertRolledBack(r)
  BY <1>12 DEF InsertRolledBack
<1>13. CASE LookupTokenRevocation(r)
  BY <1>13 DEF LookupTokenRevocation
<1>14. CASE RevocationFails(r)
  BY <1>14 DEF RevocationFails
<1>6. CASE FetchMetaProfile(r)
  <2>1. CASE isMeta
    <3>1. alive' \in BOOLEAN
          /\ pc' \in [Requests -> {"none", "arrived", "auth", "done", "panicked", "lost"}]
      BY <1>6, <2>1, PanicEnds DEF FetchMetaProfile
    <3> QED
      BY <1>6, <2>1, <3>1 DEF FetchMetaProfile
  <2>2. CASE ~isMeta
    <3>1. /\ lookup' = [lookup EXCEPT ![r] = "insert"]
          /\ \E told \in {meta[user[r]], "blank"} : profile' = [profile EXCEPT ![r] = told]
          /\ UNCHANGED <<alive, pc, envVars, user, method, revocation, answers, gone,
                         conflict, before>>
      BY <1>6, <2>2 DEF FetchMetaProfile
    <3>2. /\ meta[user[r]] \in UserTypes
          /\ lookup' \in [Requests -> {"off", "select", "fetch", "insert", "ok", "error"}]
      BY <3>1
    <3>3. profile' \in [Requests -> UserTypes \cup {"none", "blank"}]
      BY <3>1, <3>2
    <3> QED
      BY <3>1, <3>2, <3>3
  <2> QED
    BY <2>1, <2>2
<1>7. CASE InsertUser(r)
  <2>1. pc[r] = "auth" /\ lookup[r] = "insert" /\ profile[r] \in UserTypes \cup {"blank"}
    BY <1>7 DEF InsertUser
  <2>2. /\ local' \in [Names -> UserTypes \cup {"absent", "blank"}]
        /\ \A u \in Users : local'[u] # "blank"
    <3>1. CASE local' = local
      BY <3>1
    <3>2. CASE local' = [local EXCEPT ![Account(r)] = profile[r]]
      BY <2>1, <3>2, StoredRow
    <3> QED
      BY <1>7, <3>1, <3>2 DEF InsertUser
  <2>3. alive' \in BOOLEAN /\ conflict' \in BOOLEAN
        /\ pc' \in [Requests -> {"none", "arrived", "auth", "done", "panicked", "lost"}]
    BY <1>7, <2>1, PanicEnds DEF InsertUser
  <2>4. lookup' \in [Requests -> {"off", "select", "fetch", "insert", "ok", "error"}]
    <3>1. lookup' = lookup \/ lookup' = [lookup EXCEPT ![r] = "ok"]
      BY <1>7 DEF InsertUser
    <3> QED
      BY <3>1
  <2>5. UNCHANGED <<isMeta, meta, revoked, user, method, profile, revocation, answers,
                    gone, before>>
    BY <1>7 DEF InsertUser
  <2>6. UNCHANGED <<isMeta, meta, revoked, user, gone, before>>
    BY <2>5
  <2>7. method' \in [Requests -> Methods] /\ profile' \in [Requests -> UserTypes \cup {"none", "blank"}]
        /\ revocation' \in [Requests -> {"off", "query", "valid", "blank", "revoked", "error"}]
    BY <2>5
  <2>8. answers' = answers
    BY <2>5
  <2> HIDE DEF TypeOK
  <2> QED
    BY <2>2, <2>3, <2>4, <2>6, <2>7, <2>8
<1>8. CASE CommitPanics(r)
  <2>1. /\ local' \in [Names -> UserTypes \cup {"absent", "blank"}]
        /\ \A u \in Users : local'[u] # "blank"
    <3>1. CASE local' = local
      BY <3>1
    <3>2. CASE lookup[r] = "insert" /\ local' = [local EXCEPT ![Account(r)] = profile[r]]
      BY <3>2, StoredRow
    <3> QED
      BY <1>8, <3>1, <3>2 DEF CommitPanics
  <2>2. alive' \in BOOLEAN
        /\ pc' \in [Requests -> {"none", "arrived", "auth", "done", "panicked", "lost"}]
    BY <1>8, PanicEnds DEF CommitPanics
  <2> QED
    BY <1>8, <2>1, <2>2 DEF CommitPanics
<1>9. CASE FinishLookup(r) \/ FinishOAuth2(r) \/ GrantsPanic(r)
  <2>1. CASE \E sent : Finish(r, sent)
    <3>1. PICK sent : Finish(r, sent)
      BY <2>1
    <3> QED
      BY <3>1 DEF Finish, Answer
  <2>2. CASE GrantsPanic(r)
    BY <2>2 DEF GrantsPanic
  <2> QED
    BY <1>9, <2>1, <2>2 DEF FinishLookup, FinishOAuth2
<1> QED
  BY <1>1, <1>2, <1>3, <1>4, <1>5, <1>6, <1>7, <1>8, <1>9, <1>10, <1>11, <1>12,
     <1>13, <1>14 DEF Process, Middleware, LookupUser

-----------------------------------------------------------------------------
(***************************************************************************)
(* Theorems                                                                *)
(***************************************************************************)

LEMMA RequestsNext == IInv /\ [Next]_vars => \A q \in Requests : RequestInv(q)'
<1> SUFFICES ASSUME IInv, [Next]_vars, NEW q \in Requests PROVE RequestInv(q)'
  OBVIOUS
<1>0. TypeOK /\ LookupInv(q) /\ ProgressInv(q) /\ AnswerInv(q)
  BY DEF IInv, RequestInv
<1>1. ASSUME NEW r \in Requests, Process(r) PROVE RequestInv(q)'
  <2>1. CASE q = r
    BY <1>1, <2>1, ProcessNext
  <2>2. CASE q # r
    <3>1. /\ UNCHANGED <<revoked, user, gone, before>>
          /\ pc'[q] = pc[q] \/ pc'[q] = "lost"
          /\ method'[q] = method[q] /\ profile'[q] = profile[q] /\ lookup'[q] = lookup[q]
          /\ revocation'[q] = revocation[q] /\ answers'[q] = answers[q]
          /\ \A u \in Names : local[u] # "absent" => local'[u] = local[u]
      BY <1>0, <1>1, <2>2, ProcessFrame
    <3>2. /\ user[q] \in Names
          /\ local[user[q]] # "absent" => local'[user[q]] = local[user[q]]
          /\ \A u \in Names : local[u] # "absent" => local'[u] # "absent"
      BY <1>0, <3>1 DEF TypeOK
    <3> QED
      BY <3>1, <3>2, Bystander
  <2> QED
    BY <2>1, <2>2
<1>2. ASSUME NEW r \in Requests, Arrive(r) PROVE RequestInv(q)'
  <2>1. CASE q # r
    <3>1. /\ pc'[q] = pc[q] /\ before'[q] = before[q]
          /\ UNCHANGED <<local, revoked, user, method, goVars, answers, gone>>
      BY <1>0, <1>2, <2>1 DEF Arrive, TypeOK
    <3> QED
      BY <3>1, Bystander
  <2>2. CASE q = r
    <3>1. /\ pc[q] = "none" /\ pc'[q] = "arrived"
          /\ before'[q] = [revoked |-> user[q] \in revoked,
                           suspended |-> local[user[q]] = "suspended",
                           known |-> local[user[q]] # "absent"]
          /\ UNCHANGED <<local, revoked, user, method, goVars, answers, gone>>
      BY <1>0, <1>2, <2>2 DEF Arrive, TypeOK
    <3>2. lookup[q] = "off" /\ revocation[q] = "off" /\ profile[q] # "blank"
      BY <1>0, <3>1 DEF ProgressInv
    <3>3. answers[q] = <<>> /\ method[q] = "none"
      BY <1>0, <3>1 DEF ProgressInv
    <3>6. LookupInv(q)'
      <4> DEFINE x == user[q] \in revoked
                 y == local[user[q]] = "suspended"
                 z == local[user[q]] # "absent"
      <4>2. before'[q] = [revoked |-> x, suspended |-> y, known |-> z]
        BY <3>1
      <4> HIDE DEF x, y, z
      <4>3. before'[q].revoked = x /\ before'[q].suspended = y /\ before'[q].known = z
        BY <4>2
      <4>1. /\ before'[q].suspended => local[user[q]] = "suspended"
            /\ before'[q].revoked => user[q] \in revoked
            /\ before'[q].known => local[user[q]] # "absent"
        BY <4>3, Zenon DEF x, y, z
      <4> QED
        BY <3>1, <3>2, <4>1 DEF LookupInv
    <3>7. ProgressInv(q)'
      BY <3>1, <3>2, <3>3 DEF ProgressInv
    <3>4. <<>> \in Refusals /\ <<>> \notin Servings
          /\ <<>> # <<"403", "served">> /\ <<>> # <<"403", "403">>
      BY DistinctAnswers DEF Refusals, Servings
    <3>5. AnswerInv(q)'
      BY <3>1, <3>3, <3>4 DEF AnswerInv
    <3> QED
      BY <3>5, <3>6, <3>7 DEF RequestInv
  <2> QED
    BY <2>1, <2>2
<1>3. CASE \E r \in Requests : ClientGone(r)
  BY <1>3, Bystander DEF ClientGone
<1>4. ASSUME NEW u \in Users, Revoke(u) \/ SuspendAtMeta(u) \/ SuspendLocally(u)
      PROVE  RequestInv(q)'
  <2>1. /\ UNCHANGED <<pc, user, method, goVars, answers, gone, before>>
        /\ revoked \subseteq revoked'
        /\ \A v \in Names : local[v] # "absent" => local'[v] # "absent"
        /\ \A v \in Users : local[v] = "suspended" => local'[v] = "suspended"
    BY <1>0, <1>4 DEF Revoke, SuspendAtMeta, SuspendLocally, TypeOK
  <2>2. /\ local[user[q]] = "suspended" => local'[user[q]] = "suspended"
    BY <1>0, <2>1 DEF TypeOK
  <2>3. /\ pc'[q] = pc[q] /\ user'[q] = user[q] /\ method'[q] = method[q]
        /\ profile'[q] = profile[q] /\ lookup'[q] = lookup[q] /\ revocation'[q] = revocation[q]
        /\ answers'[q] = answers[q] /\ before'[q] = before[q]
        /\ gone \subseteq gone' /\ revoked \subseteq revoked'
    BY <2>1
  <2> QED
    BY <2>1, <2>2, <2>3, Bystander
<1>5. CASE Restart \/ UNCHANGED vars
  BY <1>5, Bystander DEF Restart
<1> QED
  BY <1>1, <1>2, <1>3, <1>4, <1>5 DEF Next

LEMMA TypeNext ==
  ASSUME IInv, [Next]_vars, \A q \in Requests : RequestInv(q)' PROVE TypeOK'
<1>0. TypeOK
  BY DEF IInv
<1>1. ASSUME NEW r \in Requests, Process(r) PROVE TypeOK'
  <2>1. LookupInv(r)
    BY DEF IInv, RequestInv
  <2>2. /\ UNCHANGED <<isMeta, meta, revoked, user, gone, before>>
        /\ alive' \in BOOLEAN /\ conflict' \in BOOLEAN
        /\ local' \in [Names -> UserTypes \cup {"absent", "blank"}]
        /\ \A u \in Users : local'[u] # "blank"
        /\ pc' \in [Requests -> {"none", "arrived", "auth", "done", "panicked", "lost"}]
        /\ method' \in [Requests -> Methods]
        /\ profile' \in [Requests -> UserTypes \cup {"none", "blank"}]
        /\ lookup' \in [Requests -> {"off", "select", "fetch", "insert", "ok", "error"}]
        /\ revocation' \in [Requests -> {"off", "query", "valid", "blank", "revoked", "error"}]
        /\ answers' = answers \/ \E x : answers' = [answers EXCEPT ![r] = x]
    BY <1>0, <1>1, <2>1, ProcessTypes
  <2>3. \A q \in Requests : answers'[q] \in Seq({"served", "400", "401", "403", "500"})
    BY AnswerSeqs DEF RequestInv, AnswerInv
  <2>4. answers' \in [Requests -> Seq({"served", "400", "401", "403", "500"})]
    <3>1. CASE answers' = answers
      BY <1>0, <3>1 DEF TypeOK
    <3>2. ASSUME NEW x, answers' = [answers EXCEPT ![r] = x]
          PROVE  answers' \in [Requests -> Seq({"served", "400", "401", "403", "500"})]
      <4>1. answers'[r] = x
        BY <1>0, <3>2 DEF TypeOK
      <4> QED
        BY <1>0, <2>3, <3>2, <4>1 DEF TypeOK
    <3> QED
      BY <2>2, <3>1, <3>2
  <2> QED
    BY <1>0, <2>2, <2>4 DEF TypeOK
<1>2. ASSUME NEW r \in Requests, Arrive(r) PROVE TypeOK'
  <2>1. before' \in [Requests -> [revoked : BOOLEAN, suspended : BOOLEAN, known : BOOLEAN]]
    BY <1>0, <1>2 DEF Arrive, TypeOK
  <2> QED
    BY <1>0, <1>2, <2>1 DEF Arrive, TypeOK
<1>3. CASE \E r \in Requests : ClientGone(r)
  BY <1>0, <1>3 DEF ClientGone, TypeOK
<1>4. ASSUME NEW u \in Users, Revoke(u) \/ SuspendAtMeta(u) \/ SuspendLocally(u)
      PROVE  TypeOK'
  <2>1. CASE Revoke(u)
    BY <1>0, <2>1 DEF Revoke, TypeOK
  <2>2. CASE SuspendAtMeta(u)
    BY <1>0, <2>2 DEF SuspendAtMeta, TypeOK, UserTypes
  <2>3. CASE SuspendLocally(u)
    BY <1>0, <2>3 DEF SuspendLocally, TypeOK, UserTypes
  <2> QED
    BY <1>4, <2>1, <2>2, <2>3
<1>5. CASE Restart \/ UNCHANGED vars
  <2>1. CASE Restart
    BY <1>0, <2>1 DEF Restart, TypeOK
  <2>2. CASE UNCHANGED vars
    BY <1>0, <2>2 DEF TypeOK
  <2> QED
    BY <1>5, <2>1, <2>2
<1> QED
  BY <1>1, <1>2, <1>3, <1>4, <1>5 DEF Next

\* IInv holds of every reachable state of the middleware.
THEOREM Invariance == Spec => []IInv
<1>1. IInv /\ [Next]_vars => IInv'
  <2> SUFFICES ASSUME IInv, [Next]_vars PROVE IInv'
    OBVIOUS
  <2>1. \A q \in Requests : RequestInv(q)'
    BY RequestsNext
  <2>2. TypeOK'
    BY <2>1, TypeNext
  <2> QED
    BY <2>1, <2>2 DEF IInv
<1> QED
  BY InitIInv, <1>1, PTL DEF Spec

\* The variables of the middleware stay in their types.
THEOREM TypeCorrect == Spec => []TypeOK
<1>1. IInv => TypeOK
  BY DEF IInv
<1> QED
  BY <1>1, Invariance, PTL

\* Whichever of the two lookups of OAuth2 comes first, and whatever fails, a
\* token revoked before its request arrived is served only if the answer of
\* meta.sr.ht had no data.
THEOREM RevokedIsRefused == Spec => []RevokedTokenIsRefused
<1>1. IInv => RevokedTokenIsRefused
  BY AnswerSeqs DEF IInv, RequestInv, AnswerInv, RevokedTokenIsRefused, Served
<1> QED
  BY <1>1, Invariance, PTL

\* A user suspended in the service's table before the request arrived is not
\* served, by any method of authentication.
THEOREM SuspendedIsRefused == Spec => []SuspendedUserIsRefused
<1>1. IInv => SuspendedUserIsRefused
  BY AnswerSeqs DEF IInv, RequestInv, AnswerInv, SuspendedUserIsRefused, Served
<1> QED
  BY <1>1, Invariance, PTL

\* The user the next handler is called for has a row in the service's table,
\* however the inserts of several requests interleave and whatever meta.sr.ht
\* answers, and is the one who was claimed if the service knew that one.
THEOREM ServedIsLocal == Spec => []ServedUserIsLocal
<1>1. IInv => ServedUserIsLocal
  BY AnswerSeqs DEF IInv, RequestInv, AnswerInv, ServedUserIsLocal, Served
<1> QED
  BY <1>1, Invariance, PTL

\* A decoded token is answered 403 for a cause, never for a failed lookup.
THEOREM ForbiddenHasCause == Spec => []ForbiddenIsDeserved
<1>1. IInv => ForbiddenIsDeserved
  BY DEF IInv, RequestInv, AnswerInv, ForbiddenIsDeserved
<1> QED
  BY <1>1, Invariance, PTL

\* The middleware answers a request once, except where the code goes on after
\* a refusal.
THEOREM AnsweredOnce == Spec => []OneAnswer
<1>1. IInv => OneAnswer
  <2> SUFFICES ASSUME IInv, NEW r \in Requests, Len(answers[r]) > 1
               PROVE  \/ method[r] \in {"INTERNAL", "ANON_INTERNAL"} /\ answers[r][1] = "403"
                      \/ method[r] = "OAUTH_LEGACY" /\ ~Served(r)
    BY DEF OneAnswer
  <2>1. AnswerInv(r)
    BY DEF IInv, RequestInv
  <2>2. answers[r][1] = "403" /\ answers[r] \in {<<"403", "403">>, <<"403", "served">>}
    BY <2>1, AnswerSeqs DEF AnswerInv
  <2>3. <<"403", "403">> \in Refusals
    BY DEF Refusals
  <2>4. answers[r] = <<"403", "403">> => ~Served(r)
    BY <2>3, AnswerSeqs DEF Served
  <2> QED
    BY <2>1, <2>2, <2>4 DEF AnswerInv
<1> QED
  BY <1>1, Invariance, PTL
=============================================================================

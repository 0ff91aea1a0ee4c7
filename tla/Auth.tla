-------------------------------- MODULE Auth --------------------------------
(***************************************************************************)
(* The authentication middleware: auth/middleware.go.  Several requests    *)
(* are authenticated at once, in one process, against the service's copy   *)
(* of the user table and against meta.sr.ht, which answers for the users   *)
(* the service has not met and for the revocation of OAuth 2.0 tokens.     *)
(*                                                                         *)
(* A request claims to come from one user.  What its credentials decode to *)
(* is a choice made where the code decodes them.  An answer is the status  *)
(* the client is sent, or "served" for a call of the next handler.         *)
(*                                                                         *)
(* client.Execute reports a failure of the transport, another status than  *)
(* 200 and a body that is no JSON.  An answer with GraphQL errors and no   *)
(* data has status 200 and leaves the result as it was: "blank".           *)
(***************************************************************************)
EXTENDS Naturals, Sequences, FiniteSets

CONSTANTS
  Requests,
  Users,
  Nobody        \* the user name of a blank profile

ASSUME NobodyAssumption == Nobody \notin Users

VARIABLES
  isMeta,       \* the service is meta.sr.ht itself; never changes
  alive,        \* the process runs
  local,        \* the service's "user" table
  meta,         \* the user types that meta.sr.ht reports
  revoked,      \* users whose OAuth 2.0 token was revoked at meta.sr.ht
  pc,           \* where the middleware is with each request
  user,         \* the user the request claims to come from
  method,       \* auth.AuthMethod
  profile,      \* auth.UserType, or the one fetched from meta.sr.ht
  lookup,       \* where LookupUser is
  revocation,   \* what LookupTokenRevocation came to
  answers,      \* what the client was sent
  gone,         \* requests whose client disconnected, cancelling r.Context()
  conflict,     \* history: an INSERT met a row of the user it was for
  before        \* history: what held of the user when the request arrived

envVars == <<isMeta, local, meta, revoked>>
goVars == <<profile, lookup, revocation>>
vars == <<alive, envVars, pc, user, method, goVars, answers, gone, conflict, before>>

UserTypes == {"active", "suspended"}
Names == Users \cup {Nobody}
Methods == {"none", "COOKIE", "INTERNAL", "ANON_INTERNAL", "OAUTH2", "OAUTH_LEGACY"}

TypeOK ==
  /\ isMeta \in BOOLEAN
  /\ alive \in BOOLEAN
  /\ local \in [Names -> UserTypes \cup {"absent", "blank"}]
  /\ \A u \in Users : local[u] # "blank"
  /\ meta \in [Users -> UserTypes]
  /\ revoked \subseteq Users
  /\ pc \in [Requests -> {"none", "arrived", "auth", "done", "panicked", "lost"}]
  /\ user \in [Requests -> Users]
  /\ method \in [Requests -> Methods]
  /\ profile \in [Requests -> UserTypes \cup {"none", "blank"}]
  /\ lookup \in [Requests -> {"off", "select", "fetch", "insert", "ok", "error"}]
  /\ revocation \in [Requests -> {"off", "query", "valid", "blank", "revoked", "error"}]
  /\ answers \in [Requests -> Seq({"served", "400", "401", "403", "500"})]
  /\ gone \subseteq Requests
  /\ conflict \in BOOLEAN
  /\ before \in [Requests -> [revoked : BOOLEAN, suspended : BOOLEAN, known : BOOLEAN]]

Init ==
  /\ isMeta \in BOOLEAN
  /\ alive = TRUE
  /\ local \in [Names -> UserTypes \cup {"absent"}]
  /\ local[Nobody] = "absent"
  /\ meta \in [Users -> UserTypes]
  /\ revoked = {}
  /\ pc = [r \in Requests |-> "none"]
  /\ user \in [Requests -> Users]
  /\ method = [r \in Requests |-> "none"]
  /\ profile = [r \in Requests |-> "none"]
  /\ lookup = [r \in Requests |-> "off"]
  /\ revocation = [r \in Requests |-> "off"]
  /\ answers = [r \in Requests |-> <<>>]
  /\ gone = {}
  /\ conflict = FALSE
  /\ before = [r \in Requests |-> [revoked |-> FALSE, suspended |-> FALSE, known |-> FALSE]]

-----------------------------------------------------------------------------
(***************************************************************************)
(* Around the middleware                                                   *)
(***************************************************************************)

Arrive(r) ==
  /\ alive
  /\ pc[r] = "none"
  /\ pc' = [pc EXCEPT ![r] = "arrived"]
  /\ before' = [before EXCEPT ![r] =
                  [revoked |-> user[r] \in revoked,
                   suspended |-> local[user[r]] = "suspended",
                   known |-> local[user[r]] # "absent"]]
  /\ UNCHANGED <<alive, envVars, user, method, goVars, answers, gone, conflict>>

\* It makes a difference where the database is asked with r.Context().
ClientGone(r) ==
  /\ pc[r] = "auth"
  /\ gone' = gone \cup {r}
  /\ UNCHANGED <<alive, envVars, pc, user, method, goVars, answers, conflict, before>>

\* A token is revoked, a user is suspended at meta.sr.ht, the service learns of
\* a suspension.
Revoke(u) ==
  /\ revoked' = revoked \cup {u}
  /\ UNCHANGED <<alive, isMeta, local, meta, pc, user, method, goVars, answers,
                 gone, conflict, before>>

SuspendAtMeta(u) ==
  /\ meta' = [meta EXCEPT ![u] = "suspended"]
  /\ UNCHANGED <<alive, isMeta, local, revoked, pc, user, method, goVars, answers,
                 gone, conflict, before>>

SuspendLocally(u) ==
  /\ local[u] = "active"
  /\ meta[u] = "suspended"
  /\ local' = [local EXCEPT ![u] = "suspended"]
  /\ UNCHANGED <<alive, isMeta, meta, revoked, pc, user, method, goVars, answers,
                 gone, conflict, before>>

Restart ==
  /\ ~alive
  /\ alive' = TRUE
  /\ UNCHANGED <<envVars, pc, user, method, goVars, answers,
                 gone, conflict, before>>

-----------------------------------------------------------------------------
(***************************************************************************)
(* Answers and panics                                                      *)
(***************************************************************************)

\* authError or next.ServeHTTP, then return.
Answer(r, sent) ==
  /\ answers' = [answers EXCEPT ![r] = @ \o sent]
  /\ pc' = [pc EXCEPT ![r] = "done"]

\* Serving starts the next handler with the context of this method.
AnswerAs(r, sent, m) ==
  /\ Answer(r, sent)
  /\ method' = [method EXCEPT ![r] = m]
  /\ UNCHANGED <<alive, envVars, user, goVars, gone, conflict, before>>

\* In the handler's goroutine a panic is recovered by net/http, which closes
\* the connection.  LookupUser of OAuth2 runs in a goroutine of its own, where
\* nobody recovers: the process ends, and with it every request.
Panic(r) ==
  IF method[r] = "OAUTH2"
    THEN /\ alive' = FALSE
         /\ pc' = [q \in Requests |-> IF pc[q] \in {"arrived", "auth"}
                                        THEN "lost" ELSE pc[q]]
    ELSE /\ pc' = [pc EXCEPT ![r] = "panicked"]
         /\ UNCHANGED alive

-----------------------------------------------------------------------------
(***************************************************************************)
(* Middleware: the kind of authentication is picked from the request       *)
(***************************************************************************)

\* A path that needs no authentication: /query/metrics, /query/external/...
ServeOpenPath(r) ==
  /\ pc[r] = "arrived"
  /\ AnswerAs(r, <<"served">>, "none")

\* There is no cookie, and the Authorization header is missing (401) or
\* malformed (400).
RejectHeader(r) ==
  /\ pc[r] = "arrived"
  /\ \E code \in {"400", "401"} : AnswerAs(r, <<code>>, "none")

\* cookieAuth, internalAuth and OAuth2 refuse credentials they cannot decrypt,
\* verify or that have expired (403); internalAuth also a source address that
\* is not internal (401).
RejectCredentials(r) ==
  /\ pc[r] = "arrived"
  /\ \E code \in {"401", "403"} : AnswerAs(r, <<code>>, "none")

\* internalAuth complains about a missing ClientID or NodeID and goes on.
Complaint(ids) == IF ids THEN <<>> ELSE <<"403">>

\* cookieAuth, or internalAuth with a user name: on to authForUsername.
StartLookup(r, m, ids) ==
  /\ pc[r] = "arrived"
  /\ pc' = [pc EXCEPT ![r] = "auth"]
  /\ method' = [method EXCEPT ![r] = m]
  /\ lookup' = [lookup EXCEPT ![r] = "select"]
  /\ answers' = [answers EXCEPT ![r] = @ \o Complaint(ids)]
  /\ UNCHANGED <<alive, envVars, user, profile, revocation, gone, conflict, before>>

CookieAuth(r) == StartLookup(r, "COOKIE", TRUE)

InternalAuth(r, ids) == StartLookup(r, "INTERNAL", ids)

\* internalAuth without a user name: a new account is being registered.
AnonInternalAuth(r, ids) ==
  /\ pc[r] = "arrived"
  /\ AnswerAs(r, Complaint(ids) \o <<"served">>, "ANON_INTERNAL")

\* internalAuth for an OAuth client, whose owner authForOAuthClient reads from
\* the tables of meta.sr.ht in one query: there is no such client, or the owner
\* is served or refused.  Any database error panics.
InternalOAuthClient(r, ids) ==
  /\ pc[r] = "arrived"
  /\ isMeta
  /\ \/ AnswerAs(r, Complaint(ids) \o <<"403">>, "INTERNAL")
     \/ /\ local[user[r]] = "active"
        /\ AnswerAs(r, Complaint(ids) \o <<"served">>, "INTERNAL")
     \/ /\ pc' = [pc EXCEPT ![r] = "panicked"]
        /\ answers' = [answers EXCEPT ![r] = @ \o Complaint(ids)]
        /\ UNCHANGED <<alive, envVars, user, method, goVars, gone, conflict, before>>

\* LegacyOAuth: one query for the token and its user, then the checks in the
\* code's order.  Without a row the query's function answers, and the zero
\* expiry answers again.
LegacyOAuth(r) ==
  /\ pc[r] = "arrived"
  /\ \/ AnswerAs(r, <<"403", "403">>, "OAUTH_LEGACY")
     \/ /\ local[user[r]] # "absent"
        /\ \/ AnswerAs(r, <<"403">>, "OAUTH_LEGACY")
           \/ /\ local[user[r]] # "suspended"
              /\ AnswerAs(r, <<"served">>, "OAUTH_LEGACY")
     \/ /\ pc' = [pc EXCEPT ![r] = "panicked"]
        /\ UNCHANGED <<alive, envVars, user, method, goVars, answers, gone, conflict, before>>

\* The remote address cannot be parsed, or the decrypted cookie or header is
\* no JSON ("Programmer error").
MalformedPanics(r) ==
  /\ pc[r] = "arrived"
  /\ pc' = [pc EXCEPT ![r] = "panicked"]
  /\ UNCHANGED <<alive, envVars, user, method, goVars, answers,
                 gone, conflict, before>>

\* OAuth2: the token was decoded, the two goroutines start.
OAuth2(r) ==
  /\ pc[r] = "arrived"
  /\ pc' = [pc EXCEPT ![r] = "auth"]
  /\ method' = [method EXCEPT ![r] = "OAUTH2"]
  /\ lookup' = [lookup EXCEPT ![r] = "select"]
  /\ revocation' = [revocation EXCEPT ![r] = "query"]
  /\ UNCHANGED <<alive, envVars, user, profile, answers,
                 gone, conflict, before>>

Middleware(r) ==
  \/ ServeOpenPath(r)
  \/ RejectHeader(r)
  \/ RejectCredentials(r)
  \/ CookieAuth(r)
  \/ \E ids \in BOOLEAN :
       InternalAuth(r, ids) \/ AnonInternalAuth(r, ids) \/ InternalOAuthClient(r, ids)
  \/ LegacyOAuth(r)
  \/ MalformedPanics(r)
  \/ OAuth2(r)

-----------------------------------------------------------------------------
(***************************************************************************)
(* LookupUser and FetchMetaProfile                                         *)
(***************************************************************************)

\* The user table is read; a user it does not have is fetched.
SelectUser(r) ==
  /\ pc[r] = "auth" /\ lookup[r] = "select"
  /\ IF local[user[r]] = "absent"
       THEN /\ lookup' = [lookup EXCEPT ![r] = "fetch"]
            /\ UNCHANGED profile
       ELSE /\ lookup' = [lookup EXCEPT ![r] = "ok"]
            /\ profile' = [profile EXCEPT ![r] = local[user[r]]]
  /\ UNCHANGED <<alive, envVars, pc, user, method, revocation, answers,
                 gone, conflict, before>>

\* The database, or meta.sr.ht, returns an error.
LookupFails(r) ==
  /\ pc[r] = "auth" /\ lookup[r] \in {"select", "fetch", "insert"}
  /\ lookup' = [lookup EXCEPT ![r] = "error"]
  /\ UNCHANGED <<alive, envVars, pc, user, method, profile, revocation, answers,
                 gone, conflict, before>>

\* Mutant: the user type is stored in the case that meta.sr.ht uses.
FetchUpperCase(r) ==
  /\ pc[r] = "auth" /\ lookup[r] = "fetch"
  /\ lookup' = [lookup EXCEPT ![r] = "insert"]
  /\ profile' = [profile EXCEPT ![r] =
                   IF meta[user[r]] = "active" THEN "ACTIVE" ELSE "SUSPENDED"]
  /\ UNCHANGED <<alive, envVars, pc, user, method, revocation, answers,
                 gone, conflict, before>>

\* client.Execute asks meta.sr.ht for the profile; meta.sr.ht cannot ask
\* itself.  The profile may come back blank.
FetchMetaProfile(r) ==
  /\ pc[r] = "auth" /\ lookup[r] = "fetch"
  /\ IF isMeta
       THEN Panic(r) /\ UNCHANGED <<lookup, profile>>
       ELSE /\ lookup' = [lookup EXCEPT ![r] = "insert"]
            /\ \E told \in {meta[user[r]], "blank"} :
                 profile' = [profile EXCEPT ![r] = told]
            /\ UNCHANGED <<alive, pc>>
  /\ UNCHANGED <<envVars, user, method, revocation, answers,
                 gone, conflict, before>>

\* auth.Username, which comes with auth.UserType.
Account(r) == IF profile[r] = "blank" THEN Nobody ELSE user[r]

\* Mutant: the profile is used without being stored.
InsertNothing(r) ==
  /\ pc[r] = "auth" /\ lookup[r] = "insert"
  /\ lookup' = [lookup EXCEPT ![r] = "ok"]
  /\ UNCHANGED <<alive, envVars, pc, user, method, profile, revocation, answers,
                 gone, conflict, before>>

\* INSERT ... ON CONFLICT DO NOTHING RETURNING: no row comes back when there is
\* one already, and FetchMetaProfile panics.
InsertUser(r) ==
  /\ pc[r] = "auth" /\ lookup[r] = "insert"
  /\ IF local[Account(r)] = "absent"
       THEN /\ local' = [local EXCEPT ![Account(r)] = profile[r]]
            /\ lookup' = [lookup EXCEPT ![r] = "ok"]
            /\ UNCHANGED <<alive, pc, conflict>>
       ELSE /\ Panic(r)
            /\ conflict' = (conflict \/ profile[r] # "blank")
            /\ UNCHANGED <<local, lookup>>
  /\ UNCHANGED <<isMeta, meta, revoked, user, method, profile, revocation, answers, gone, before>>

\* The request was cancelled and database/sql has rolled the INSERT back: the
\* ErrTxDone of tx.Commit is ignored, and WithTx reports success.
InsertRolledBack(r) ==
  /\ pc[r] = "auth" /\ lookup[r] = "insert"
  /\ r \in gone
  /\ local[Account(r)] = "absent"
  /\ lookup' = [lookup EXCEPT ![r] = "ok"]
  /\ UNCHANGED <<alive, envVars, pc, user, method, profile, revocation, answers,
                 gone, conflict, before>>

\* WithTx panics with any other error of tx.Commit, a cancelled request's
\* context among them; PostgreSQL may have committed the INSERT.
CommitPanics(r) ==
  /\ pc[r] = "auth" /\ lookup[r] \in {"select", "insert"}
  /\ \/ UNCHANGED local
     \/ /\ lookup[r] = "insert" /\ local[Account(r)] = "absent"
        /\ local' = [local EXCEPT ![Account(r)] = profile[r]]
  /\ Panic(r)
  /\ UNCHANGED <<isMeta, meta, revoked, user, method, goVars, answers,
                 gone, conflict, before>>

LookupUser(r) ==
  \/ SelectUser(r)
  \/ LookupFails(r)
  \/ FetchMetaProfile(r)
  \/ InsertUser(r)
  \/ InsertRolledBack(r)
  \/ CommitPanics(r)

-----------------------------------------------------------------------------
(***************************************************************************)
(* LookupTokenRevocation                                                   *)
(***************************************************************************)

\* client.Execute asks meta.sr.ht for the status of the token.  A blank result is
\* FALSE, "not revoked".
LookupTokenRevocation(r) ==
  /\ pc[r] = "auth" /\ revocation[r] = "query"
  /\ \E told \in {IF user[r] \in revoked THEN "revoked" ELSE "valid", "blank"} :
       revocation' = [revocation EXCEPT ![r] = told]
  /\ UNCHANGED <<alive, envVars, pc, user, method, profile, lookup, answers,
                 gone, conflict, before>>

\* Mutant: a failed query counts as an answer.
RevocationFailsRevoked(r) ==
  /\ pc[r] = "auth" /\ revocation[r] = "query"
  /\ revocation' = [revocation EXCEPT ![r] = "revoked"]
  /\ UNCHANGED <<alive, envVars, pc, user, method, profile, lookup, answers,
                 gone, conflict, before>>

\* Mutant: the goroutine returns without wg.Done().
RevocationFailsHangs(r) ==
  /\ pc[r] = "auth" /\ revocation[r] = "query"
  /\ revocation' = [revocation EXCEPT ![r] = "off"]
  /\ UNCHANGED <<alive, envVars, pc, user, method, profile, lookup, answers,
                 gone, conflict, before>>

\* The errors that client.Execute does report.
RevocationFails(r) ==
  /\ pc[r] = "auth" /\ revocation[r] = "query"
  /\ revocation' = [revocation EXCEPT ![r] = "error"]
  /\ UNCHANGED <<alive, envVars, pc, user, method, profile, lookup, answers,
                 gone, conflict, before>>

-----------------------------------------------------------------------------
(***************************************************************************)
(* The verdict                                                             *)
(***************************************************************************)

Finish(r, sent) ==
  /\ Answer(r, sent)
  /\ UNCHANGED <<alive, envVars, user, method, goVars, gone, conflict, before>>

\* authForUsername returned to cookieAuth or internalAuth.
FinishLookup(r) ==
  /\ pc[r] = "auth" /\ method[r] # "OAUTH2"
  /\ lookup[r] \in {"ok", "error"}
  /\ Finish(r, IF lookup[r] = "error" \/ profile[r] = "suspended"
                 THEN <<"403">> ELSE <<"served">>)

\* res and tempErr count what the goroutines of OAuth2 reported.
Res(r) == (IF lookup[r] = "ok" THEN 1 ELSE 0)
            + (IF revocation[r] \in {"valid", "blank"} THEN 1 ELSE 0)
TempErr(r) == (IF lookup[r] = "error" THEN 1 ELSE 0)
                + (IF revocation[r] = "error" THEN 1 ELSE 0)

Waited(r) ==
  /\ lookup[r] \in {"ok", "error"}
  /\ revocation[r] \in {"valid", "blank", "revoked", "error"}

\* Mutant: one success is enough.
FinishOAuth2OneOfTwo(r) ==
  /\ pc[r] = "auth" /\ method[r] = "OAUTH2"
  /\ Waited(r)
  /\ Finish(r, IF Res(r) = 0 \/ profile[r] = "suspended" THEN <<"403">> ELSE <<"served">>)

\* Mutant: the user type is not looked at.
FinishOAuth2AnyUser(r) ==
  /\ pc[r] = "auth" /\ method[r] = "OAUTH2"
  /\ Waited(r)
  /\ Finish(r, IF Res(r) # 2 THEN <<"403">> ELSE <<"served">>)

\* Mutant: the return after the first authError is missing.
FinishOAuth2GoesOn(r) ==
  /\ pc[r] = "auth" /\ method[r] = "OAUTH2"
  /\ Waited(r)
  /\ Finish(r, IF Res(r) # 2 THEN <<"403", "served">> ELSE <<"served">>)

\* After wg.Wait().
FinishOAuth2(r) ==
  /\ pc[r] = "auth" /\ method[r] = "OAUTH2"
  /\ Waited(r)
  /\ Finish(r, IF Res(r) # 2
                 THEN IF TempErr(r) # 0 THEN <<"500">> ELSE <<"403">>
                 ELSE IF profile[r] = "suspended" THEN <<"403">> ELSE <<"served">>)

\* DecodeGrants panics about a grant that is not service/scope; this is the
\* handler's goroutine again.
GrantsPanic(r) ==
  /\ pc[r] = "auth" /\ method[r] = "OAUTH2"
  /\ Waited(r)
  /\ Res(r) = 2 /\ profile[r] # "suspended"
  /\ pc' = [pc EXCEPT ![r] = "panicked"]
  /\ UNCHANGED <<alive, envVars, user, method, goVars, answers,
                 gone, conflict, before>>

Process(r) ==
  \/ Middleware(r)
  \/ LookupUser(r)
  \/ LookupTokenRevocation(r)
  \/ RevocationFails(r)
  \/ FinishLookup(r)
  \/ FinishOAuth2(r)
  \/ GrantsPanic(r)

Next ==
  \/ \E r \in Requests : Arrive(r) \/ ClientGone(r) \/ Process(r)
  \/ \E u \in Users : Revoke(u) \/ SuspendAtMeta(u) \/ SuspendLocally(u)
  \/ Restart

Spec == Init /\ [][Next]_vars

\* Every goroutine of a request is scheduled; the database and meta.sr.ht
\* answer, or fail, or the client leaves, which cancels r.Context().  The code
\* sets no limit here: middleware.Timeout comes after auth.Middleware.
FairSpec == Spec /\ \A r \in Requests : WF_vars(Process(r))

-----------------------------------------------------------------------------
(***************************************************************************)
(* Properties                                                              *)
(***************************************************************************)

Served(r) == \E k \in DOMAIN answers[r] : answers[r][k] = "served"

\* OAuth2: a token that was revoked when the request arrived is not served if
\* meta.sr.ht said anything about it, whichever goroutine comes first and
\* whatever else fails.
RevokedTokenIsRefused ==
  \A r \in Requests :
    method[r] = "OAUTH2" /\ Served(r) /\ revocation[r] # "blank" => ~before[r].revoked

\* A user whom the service knew to be suspended when the request arrived is not
\* served as that user, however the request authenticates.
SuspendedUserIsRefused ==
  \A r \in Requests :
    method[r] \notin {"none", "ANON_INTERNAL"} /\ Served(r) => ~before[r].suspended

\* LookupUser: the next handler finds the user of its context in the service's
\* own table (its rows refer to it), unless the client is gone and nobody reads
\* the answer; and a user whom the service knew when the request came is served
\* under his own name.  Only for a new user, and a blank profile of meta.sr.ht,
\* is it the user without a name.
ServedUserIsLocal ==
  \A r \in Requests :
    method[r] \notin {"none", "ANON_INTERNAL"} /\ Served(r) =>
      /\ r \notin gone => local[Account(r)] # "absent"
      /\ before[r].known => Account(r) = user[r]

\* OAuth2: a decoded token is answered 403 only if it is revoked or its user is
\* suspended; a failure that a lookup reports is a 500.
ForbiddenIsDeserved ==
  \A r \in Requests :
    method[r] = "OAUTH2" /\ answers[r] = <<"403">>
      => user[r] \in revoked \/ profile[r] = "suspended"

\* A request is answered once.  The exceptions are the code's: internalAuth
\* goes on after its complaint about the ids, LegacyOAuth after the missing row.
OneAnswer ==
  \A r \in Requests :
    Len(answers[r]) > 1 =>
      \/ method[r] \in {"INTERNAL", "ANON_INTERNAL"} /\ answers[r][1] = "403"
      \/ method[r] = "OAUTH_LEGACY" /\ ~Served(r)

\* Every request is answered, or ends with its goroutine or its process: no
\* goroutine of OAuth2 leaves wg.Wait() waiting.
EveryRequestEnds ==
  \A r \in Requests : pc[r] = "arrived" ~> pc[r] \in {"done", "panicked", "lost"}

\* FetchMetaProfile "upserts" (auth/middleware.go:374) the user record: a row
\* that another request has inserted meanwhile is no failure.
UpsertFindsNoConflict == ~conflict

\* LookupTokenRevocation "Returns true if this token or client ID has been
\* revoked (and therefore should not be trusted)" (auth/middleware.go:444-445): a
\* token that was revoked before its request came is not served.
RevokedIsNotTrusted ==
  \A r \in Requests : method[r] = "OAUTH2" /\ Served(r) => ~before[r].revoked
=============================================================================

------------------------------ MODULE Gateway ------------------------------
(***************************************************************************)
(* The way of a request from the listener to the routing logic: the        *)
(* middleware chain that main builds (authentication, rate limiter), the   *)
(* checks at the head of ServeHTTP and the call of the classifier, whose   *)
(* hard-coded address is the router's own default address.  Each request   *)
(* has a goroutine; a request that the router sends to itself passes the   *)
(* whole chain again while the one that caused it waits.                   *)
(*                                                                         *)
(* A slot <<c, "client">> is a connection of a client, <<c, "self">> the   *)
(* request that the router sends to itself on account of it.  What         *)
(* follows the classification is module Router; here it ends with an       *)
(* answer.                                                                 *)
(***************************************************************************)
EXTENDS RateLimiter, Integers, Sequences

CONSTANTS Conns,      \* concurrent connections of clients
          Entries,    \* cfg.Auth.Keys, as <<key, tenant>>
          Offered,    \* API keys that clients present, valid or not
          Hosts,      \* addresses of clients
          Loopback,   \* the one the router's own requests come from
          Absent,     \* a header that is not there
          Watched     \* clients whose requests an observer counts

Tenants == {Entries[i][2] : i \in DOMAIN Entries}

ASSUME GatewayAssumption == /\ Loopback \in Hosts
                            /\ Hosts \cup Tenants \subseteq Keys
                            /\ Absent \notin Tenants
                            /\ Len(Entries) \in Nat /\ DOMAIN Entries = 1 .. Len(Entries)
                            /\ Watched \subseteq Keys

VARIABLES enabled,      \* parts of the chain that the configuration enables
          selfAddress,  \* the router listens where it expects the classifier
          stage,        \* where the goroutine of each slot is
          probe,        \* whether the path is one of the health probes
          host,         \* RemoteAddr, until the limiter has used it
          tenant,       \* auth.TenantFromContext, likewise
          status,       \* the answer to each of the router's own requests
          classified,   \* the classifier's answer, not the fallback, is used
          reached,      \* history: requests of each client that the limiter
                        \* let through since its observer began to count ...
          lastReached   \* ... and when the last one was

chainVars == <<enabled, selfAddress>>
reqVars   == <<stage, probe, host, tenant, status, classified>>
countVars == <<reached, lastReached>>
gatewayVars == <<vars, chainVars, reqVars, countVars>>

Slots == Conns \X {"client", "self"}
Client(c) == <<c, "client">>
Self(c)   == <<c, "self">>

NoStatus == 0

Never == 0 - RetryAfter

GatewayInit == /\ Init
               /\ enabled \in SUBSET {"auth", "ratelimit"}
               /\ selfAddress \in BOOLEAN
               /\ stage = [s \in Slots |-> "idle"]
               /\ probe = [s \in Slots |-> FALSE]
               /\ host = [s \in Slots |-> Loopback]
               /\ tenant = [s \in Slots |-> Absent]
               /\ status = [c \in Conns |-> NoStatus]
               /\ classified = [s \in Slots |-> FALSE]
               /\ reached = [w \in Keys |-> 0]
               /\ lastReached = [w \in Keys |-> Never]

Goto(s, from, to) == stage[s] = from /\ stage' = [stage EXCEPT ![s] = to]

\* The values of a request that nothing reads any more.
Forget(s) == /\ host' = [host EXCEPT ![s] = Loopback]
             /\ tenant' = [tenant EXCEPT ![s] = Absent]

\* The handler writes its answer and returns; the answer to a request of the
\* router itself is kept until it is read.
Answer(s, from, code) ==
  /\ \/ /\ s[2] = "client"
        /\ Goto(s, from, "idle")
        /\ UNCHANGED status
     \/ /\ s[2] = "self"
        /\ Goto(s, from, "answered")
        /\ status' = [status EXCEPT ![s[1]] = code]
  /\ probe' = [probe EXCEPT ![s] = FALSE]
  /\ classified' = [classified EXCEPT ![s] = FALSE]
  /\ Forget(s)

\* A client sends a request.
Arrive(c) ==
  /\ stage[Self(c)] = "idle"
  /\ Goto(Client(c), "idle", "auth")
  /\ \E p \in BOOLEAN, h \in Hosts : /\ probe' = [probe EXCEPT ![Client(c)] = p]
                                    /\ host' = [host EXCEPT ![Client(c)] = h]
  /\ UNCHANGED <<vars, chainVars, tenant, status, classified, countVars>>

-----------------------------------------------------------------------------
(* auth.Middleware *)

\* The part is configured and the path is not one of its skipPaths.
Applies(part, s) == part \in enabled /\ ~probe[s]

Header == [bearer : Offered \cup {Absent, ""}, apiKey : Offered \cup {Absent}]

\* An Authorization header without "Bearer " counts as absent; one with
\* nothing after it is the empty key.
extractKey(h) == IF h.bearer # Absent THEN h.bearer
                 ELSE IF h.apiKey # Absent THEN h.apiKey ELSE ""

Presented == {extractKey(h) : h \in Header}

\* The router's own request carries neither header.
KeysOf(s) == IF s[2] = "self" THEN {""} ELSE Presented

\* Keystore.Validate: of two entries with one key NewKeystore keeps the last.
EntriesOf(k) == {i \in DOMAIN Entries : Entries[i][1] = k}

Validate(k) == Entries[CHOOSE i \in EntriesOf(k) : \A j \in EntriesOf(k) : j <= i][2]

\* The empty key is missing, even if it is configured.
Known(k) == k # "" /\ EntriesOf(k) # {}

SkipAuth(s) == /\ ~Applies("auth", s)
               /\ Goto(s, "auth", "limit")
               /\ UNCHANGED <<vars, chainVars, probe, host, tenant, status, classified, countVars>>

Authenticate(s) ==
  /\ Applies("auth", s)
  /\ \E k \in KeysOf(s) : /\ Known(k)
                          /\ tenant' = [tenant EXCEPT ![s] = Validate(k)]
  /\ Goto(s, "auth", "limit")
  /\ UNCHANGED <<vars, chainVars, probe, host, status, classified, countVars>>

Unauthorized(s) ==
  /\ Applies("auth", s)
  /\ \E k \in KeysOf(s) : ~Known(k)
  /\ Answer(s, "auth", 401)
  /\ UNCHANGED <<vars, chainVars, countVars>>

-----------------------------------------------------------------------------
(* ratelimit.Middleware *)

\* Bug: the tenant is not looked at.
MutantClientKey(s) == host[s]

clientKey(s) == IF tenant[s] # Absent THEN tenant[s] ELSE host[s]

SkipLimit(s) == /\ ~Applies("ratelimit", s)
                /\ Goto(s, "limit", "handle")
                /\ Forget(s)
                /\ UNCHANGED <<vars, chainVars, probe, status, classified, countVars>>

\* The first request of a key makes its bucket ...
MakeBucket(s) == /\ Applies("ratelimit", s) /\ stage[s] = "limit"
                 /\ newBucket(clientKey(s))
                 /\ UNCHANGED <<chainVars, reqVars, countVars>>

\* The client that an observer would hold to account for a request: its tenant,
\* or its host without authentication; nobody for the router's own.
AsksFor(s, w) == s[2] = "client" /\ w = IF "auth" \in enabled THEN tenant[s] ELSE host[s]

\* ... and the bucket decides.
Admit(s) ==
  /\ Applies("ratelimit", s)
  /\ Goto(s, "limit", "handle")
  /\ Grant(clientKey(s))
  /\ reached' = [w \in Keys |-> IF AsksFor(s, w) THEN reached[w] + 1 ELSE reached[w]]
  /\ lastReached' = [w \in Keys |-> IF AsksFor(s, w) THEN clock ELSE lastReached[w]]
  /\ Forget(s)
  /\ UNCHANGED <<chainVars, probe, status, classified>>

Throttle(s) ==
  /\ Applies("ratelimit", s)
  /\ Answer(s, "limit", 429)
  /\ Refuse(clientKey(s))
  /\ UNCHANGED <<chainVars, countVars>>

-----------------------------------------------------------------------------
(* ServeHTTP up to the classification *)

\* The endpoints that only read: readiness may be 503, usage 404.
ServeRead(s) ==
  /\ s[2] = "client"
  /\ \E code \in IF probe[s] THEN {200, 503} ELSE {200, 404} : Answer(s, "handle", code)
  /\ UNCHANGED <<vars, chainVars, countVars>>

\* What a request to any other path may carry; the one for the classifier is a
\* JSON object without messages.
Bodies(s) == IF s[2] = "self" THEN {"no_messages"}
             ELSE {"not_post", "too_large", "empty", "not_json", "null", "no_messages", "messages"}

\* Outcomes without a status: a connection closed, a request to classify.
Aborted == 2
Routable == 1

\* Bug: the messages are not looked at before the classification.
MutantVerdict(body) ==
  CASE body = "not_post" -> 405
    [] body \in {"too_large", "empty", "not_json"} -> 400
    [] body = "null" -> Aborted
    [] OTHER -> Routable

\* The checks in their order.  A JSON null passes Unmarshal, and injectDefaults
\* then assigns to a nil map: net/http recovers the panic and closes the
\* connection without an answer.
Verdict(body) ==
  CASE body = "not_post" -> 405
    [] body \in {"too_large", "empty", "not_json"} -> 400
    [] body = "null" -> Aborted
    [] body = "no_messages" -> 400
    [] body = "messages" -> Routable

RejectBody(s) ==
  /\ ~probe[s]
  /\ \E body \in Bodies(s) : /\ Verdict(body) # Routable
                             /\ Answer(s, "handle", Verdict(body))
  /\ UNCHANGED <<vars, chainVars, countVars>>

AcceptBody(s) ==
  /\ ~probe[s]
  /\ \E body \in Bodies(s) : Verdict(body) = Routable
  /\ Goto(s, "handle", "classify")
  /\ UNCHANGED <<vars, chainVars, probe, host, tenant, status, classified, countVars>>

-----------------------------------------------------------------------------
(* classifier.Router.Classify *)

\* The classifier is another process; it answers, or there is an error.
AskService(s) ==
  /\ ~selfAddress
  /\ Goto(s, "classify", "route")
  /\ \E ok \in BOOLEAN : classified' = [classified EXCEPT ![s] = ok]
  /\ UNCHANGED <<vars, chainVars, probe, host, tenant, status, countVars>>

\* The request comes back to the router, which serves it like any other.
AskSelf(c) ==
  /\ selfAddress
  /\ stage[Client(c)] = "classify" /\ stage[Self(c)] = "idle"
  /\ stage' = [stage EXCEPT ![Client(c)] = "await", ![Self(c)] = "auth"]
  /\ UNCHANGED <<vars, chainVars, probe, host, tenant, status, classified, countVars>>

\* Any status but 200 is an error, and the handler falls back to "small".
HearSelf(c) ==
  /\ stage[Client(c)] = "await" /\ stage[Self(c)] = "answered"
  /\ stage' = [stage EXCEPT ![Client(c)] = "route", ![Self(c)] = "idle"]
  /\ classified' = [classified EXCEPT ![Client(c)] = status[c] = 200]
  /\ status' = [status EXCEPT ![c] = NoStatus]
  /\ UNCHANGED <<vars, chainVars, probe, host, tenant, countVars>>

\* The client's 2 s are over; the request it gave up on goes on.
GiveUp(c) ==
  /\ Goto(Client(c), "await", "route")
  /\ UNCHANGED <<vars, chainVars, probe, host, tenant, status, classified, countVars>>

\* An answer that nobody waits for any more.
Discard(c) ==
  /\ stage[Client(c)] # "await"
  /\ Goto(Self(c), "answered", "idle")
  /\ status' = [status EXCEPT ![c] = NoStatus]
  /\ UNCHANGED <<vars, chainVars, probe, host, tenant, classified, countVars>>

\* The rest of ServeHTTP: module Router.
Route(s) ==
  /\ \E code \in {200, 503} : Answer(s, "route", code)
  /\ UNCHANGED <<vars, chainVars, countVars>>

-----------------------------------------------------------------------------

\* The observer of a key restarts both counts.
Observe(k) == /\ k \in IF "auth" \in enabled THEN Tenants ELSE Hosts
              /\ Mark(k)
              /\ reached' = [reached EXCEPT ![k] = 0]
              /\ UNCHANGED <<chainVars, reqVars, lastReached>>

TimePasses == Tick /\ UNCHANGED <<chainVars, reqVars, countVars>>

Serve(s) == \/ SkipAuth(s) \/ Authenticate(s) \/ Unauthorized(s)
            \/ SkipLimit(s) \/ MakeBucket(s) \/ Admit(s) \/ Throttle(s)
            \/ ServeRead(s) \/ RejectBody(s) \/ AcceptBody(s)
            \/ AskService(s) \/ Route(s)

GatewayNext == \/ \E s \in Slots : Serve(s)
               \/ \E c \in Conns : \/ Arrive(c) \/ AskSelf(c)
                                  \/ HearSelf(c) \/ GiveUp(c) \/ Discard(c)
               \/ \E k \in Watched : Observe(k)
               \/ TimePasses

GatewaySpec == GatewayInit /\ [][GatewayNext]_gatewayVars

-----------------------------------------------------------------------------
(* Properties *)

\* A tenant gets one quota, whichever of its keys and headers it uses and
\* wherever it calls from, and without authentication a host gets one: what
\* reaches the handler on its account in any interval is at most the burst
\* plus what the rate adds (Middleware of auth and ratelimit, clientKey).
QuotaPerClient ==
  \A w \in Keys : reached[w] * TokenUnits <= Capacity + RatePerTick * (clock - markedAt[w])

\* A client is answered 429 only because of its own requests: one of them was
\* let through less than Retry-After ago.  The exception is a client on the
\* router's own host when the router classifies by calling itself without
\* authentication: it shares its bucket with those calls (clientKey, Classify).
RefusedForOwnUse ==
  [][\A c \in Conns : LET s == Client(c) IN
       /\ stage[s] = "limit" /\ stage'[s] = "idle"
       /\ "auth" \in enabled \/ ~selfAddress \/ host[s] # Loopback
       => \E w \in Keys : AsksFor(s, w) /\ clock - lastReached[w] < RetryAfter]_gatewayVars

\* A router that listens where it expects its classifier does not call itself
\* without end: its own request is turned away before it is classified,
\* whatever is enabled, and no answer to it is ever taken for a tier (Classify,
\* ServeHTTP).
SelfCallFallsBack ==
  selfAddress => \A c \in Conns : /\ stage[Self(c)] \notin {"classify", "await", "route"}
                                  /\ ~classified[Client(c)]

=============================================================================

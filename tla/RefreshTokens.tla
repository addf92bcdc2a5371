--------------------------- MODULE RefreshTokens ---------------------------
(***************************************************************************)
(* The sessions of a user: the RefreshToken rows, one for each device, the *)
(* copies of them that refresh keeps in Redis under                        *)
(* refresh:<deviceId>:<token>, and the cookies of the user's browsers,     *)
(* which have several requests in flight at a time.                        *)
(*                                                                         *)
(* One user.  Tokens and devices are numbered in the order in which they   *)
(* are made.  The clock moves between the instants of interest; a request  *)
(* is shorter than that.  A browser drops a cookie whose maxAge has        *)
(* passed.  Passwords and access tokens are left out.                      *)
(***************************************************************************)
EXTENDS Integers, FiniteSets

CONSTANTS Clients,          \* the browsers of the user
          Handlers,         \* concurrent requests
          Nobody,           \* no browser
          TokenLife,        \* REFRESH_TOKEN_EXPIRY_MS, in ticks of the clock
          RotateThreshold,  \* ROTATE_THRESHOLD_MS, in ticks
          Instants,         \* the values of the clock
          MaxRequests,      \* bound of the requests
          MaxFaults         \* bound of the Redis errors and lost requests

ASSUME ClientsAssumption == Nobody \notin Clients
\* The life is what the environment says, seven days by default; the threshold
\* is an hour.
ASSUME LifeAssumption == TokenLife \in Nat \ {0} /\ RotateThreshold \in Nat
ASSUME HandlersAssumption == IsFiniteSet(Handlers)
ASSUME InstantsAssumption == Instants \subseteq Nat /\ 0 \in Instants
ASSUME BoundAssumption == MaxRequests \in Nat /\ MaxFaults \in Nat

VARIABLES registered,   \* the User row exists
          rows,         \* rows[d]: the RefreshToken row of device d
          cached,       \* cached[d][t]: until when Redis has the key of d and t
          cookies,      \* cookies[c]: what browser c has stored
          req,          \* req[h]: the request that h serves
          minted,       \* tokens made so far
          madeAt,       \* madeAt[t]: when token t was made
          devices,      \* device ids made so far
          superseded,   \* the pairs of device and token that a request has replaced or deleted
          now,
          requests,     \* requests so far
          redisErrors,
          lost          \* requests lost so far

store == <<registered, rows, cached, minted, madeAt, devices, superseded>>
vars  == <<store, cookies, req, now, requests, redisErrors, lost>>

\* No token and no device are 0.
Tokens  == 0..MaxRequests
Devices == 0..MaxRequests

Row   == [token : Tokens, expiresAt : Nat]
NoRow == [token |-> 0, expiresAt |-> 0]

\* of: the device that the token was made for.  until and deviceUntil: the
\* maxAge of the refreshToken cookie and of the deviceId cookie.
Cookie   == [token : Tokens, of : Devices, until : Nat, device : Devices, deviceUntil : Nat]
NoCookie == [token |-> 0, of |-> 0, until |-> 0, device |-> 0, deviceUntil |-> 0]

\* found: login has found a row of the device.  new: the token to answer with.
Request == [pc : {"idle", "write", "find", "set", "ttl", "rotate", "del", "setNew",
                  "signedIn", "refreshed", "signedOut", "signedOutAll"},
            client : Clients \cup {Nobody}, token : Tokens, device : Devices,
            found : BOOLEAN, new : Tokens]
Idle == [pc |-> "idle", client |-> Nobody, token |-> 0, device |-> 0, found |-> FALSE, new |-> 0]

\* cacheSet takes seconds and is given milliseconds.
CacheLife == 1000 * TokenLife

Live(d, t) == rows[d].token = t /\ rows[d].expiresAt > now
Hit(d, t)  == cached[d][t] > now

-----------------------------------------------------------------------------
(* Requests. *)

\* Browser c sends a request with the cookies it has.
Send(h, c, pc) ==
    /\ req[h].pc = "idle"
    /\ requests < MaxRequests
    /\ requests' = requests + 1
    /\ req' = [req EXCEPT ![h] = [Idle EXCEPT !.pc = pc, !.client = c,
                                  !.token = cookies[c].token, !.device = cookies[c].device]]

Goto(h, pc) == req' = [req EXCEPT ![h].pc = pc]

\* A token is a function of the user and the second it is made in.
Mint(t) ==
    /\ t = minted + 1 \/ (t = minted /\ madeAt[t] = now)
    /\ t \in Tokens \ {0}
    /\ minted' = t
    /\ madeAt' = [madeAt EXCEPT ![t] = now]

\* Variant of NewRow for mutation: the life is taken from the present.
NewRowExpired(t) == [token |-> t, expiresAt |-> now - TokenLife]

NewRow(t) == [token |-> t, expiresAt |-> now + TokenLife]

\* A sign-in gives device d a row of token t instead of the one it has; it
\* replaces that one, and the older ones that d may have.
PutRow(d, t) ==
    /\ rows' = [rows EXCEPT ![d] = NewRow(t)]
    /\ superseded' = superseded \cup
          {<<d, u>> : u \in {v \in (1..minted) \ {t} : v = rows[d].token \/ madeAt[v] < now}}

\* The rows of the devices in D are deleted.
DropRows(D) ==
    /\ rows' = [d \in Devices |-> IF d \in D THEN NoRow ELSE rows[d]]
    /\ superseded' = superseded \cup {<<d, rows[d].token>> : d \in {e \in D : rows[e] # NoRow}}

SignIn(h, c, d, t) ==
    /\ Mint(t)
    /\ PutRow(d, t)
    /\ req' = [req EXCEPT ![h] = [Idle EXCEPT !.pc = "signedIn", !.client = c,
                                  !.device = d, !.new = t]]
    /\ UNCHANGED <<cached, cookies, now, redisErrors, lost>>

\* register: the user and a first device, in one transaction.
Register(h, c) ==
    /\ ~registered
    /\ req[h].pc = "idle"
    /\ requests < MaxRequests
    /\ requests' = requests + 1
    /\ registered' = TRUE
    /\ devices' = devices + 1
    /\ \E t \in Tokens : SignIn(h, c, devices + 1, t)

\* login looks for a row of the device ...
Login(h, c) ==
    /\ registered
    /\ requests < MaxRequests
    /\ req[h].pc = "idle"
    /\ requests' = requests + 1
    /\ req' = [req EXCEPT ![h] = [Idle EXCEPT !.pc = "write", !.client = c,
                                  !.device = cookies[c].device,
                                  !.found = rows[cookies[c].device] # NoRow]]
    /\ UNCHANGED <<store, cookies, now, redisErrors, lost>>

\* ... and updates it ...
LoginUpdate(h) ==
    /\ req[h].pc = "write"
    /\ req[h].found
    /\ rows[req[h].device] # NoRow
    /\ \E t \in Tokens : SignIn(h, req[h].client, req[h].device, t)
    /\ UNCHANGED <<registered, devices, requests>>

\* ... which fails when it was deleted in between ...
LoginFails(h) ==
    /\ req[h].pc = "write"
    /\ req[h].found
    /\ rows[req[h].device] = NoRow
    /\ req' = [req EXCEPT ![h] = Idle]
    /\ UNCHANGED <<store, cookies, now, requests, redisErrors, lost>>

\* ... or makes a new device.
LoginCreate(h) ==
    /\ req[h].pc = "write"
    /\ ~req[h].found
    /\ devices' = devices + 1
    /\ \E t \in Tokens : SignIn(h, req[h].client, devices + 1, t)
    /\ UNCHANGED <<registered, requests>>

\* logout deletes the row of its token; without a deviceId, of any device.
Logout(h, c) ==
    /\ cookies[c].token # 0
    /\ Send(h, c, "signedOut")
    /\ DropRows({d \in Devices : /\ rows[d].token = cookies[c].token
                                 /\ cookies[c].device \in {0, d}})
    /\ UNCHANGED <<registered, cached, cookies, minted, madeAt, devices, now, redisErrors, lost>>

LogoutAllDevices(h, c) ==
    /\ registered
    /\ Send(h, c, "signedOutAll")
    /\ DropRows(Devices)
    /\ UNCHANGED <<registered, cached, cookies, minted, madeAt, devices, now, redisErrors, lost>>

-----------------------------------------------------------------------------
(* refresh, one await at a time. *)

\* Every cache operation catches its errors.
RedisFails == /\ redisErrors + lost < MaxFaults
              /\ redisErrors' = redisErrors + 1

CacheGet(h, c) ==
    /\ cookies[c].token # 0
    /\ cookies[c].device # 0
    /\ \/ /\ Send(h, c, IF Hit(cookies[c].device, cookies[c].token) THEN "ttl" ELSE "find")
          /\ UNCHANGED redisErrors
       \/ Send(h, c, "find") /\ RedisFails
    /\ UNCHANGED <<store, cookies, now, lost>>

FindRow(h) ==
    /\ req[h].pc = "find"
    /\ IF Live(req[h].device, req[h].token) THEN Goto(h, "set")
       ELSE req' = [req EXCEPT ![h] = Idle]
    /\ UNCHANGED <<store, cookies, now, requests, redisErrors, lost>>

\* cacheSet of the key of device d and token t.
SetKey(d, t) == \/ /\ cached' = [cached EXCEPT ![d][t] = now + CacheLife]
                   /\ UNCHANGED redisErrors
                \/ UNCHANGED cached /\ RedisFails

CacheSet(h) ==
    /\ req[h].pc = "set"
    /\ SetKey(req[h].device, req[h].token)
    /\ Goto(h, "ttl")
    /\ UNCHANGED <<registered, rows, minted, madeAt, devices, superseded,
                   cookies, now, requests, lost>>

\* A key that is not there, or an error, is no reason to rotate.
CacheTTL(h) ==
    LET d == req[h].device
        t == req[h].token
    IN  /\ req[h].pc = "ttl"
        /\ \/ /\ Hit(d, t) => cached[d][t] - now >= RotateThreshold
              /\ UNCHANGED redisErrors
           \/ RedisFails
        /\ req' = [req EXCEPT ![h].pc = "refreshed", ![h].new = t]
        /\ UNCHANGED <<store, cookies, now, requests, lost>>

StartRotation(h) ==
    LET d == req[h].device
        t == req[h].token
    IN  /\ req[h].pc = "ttl"
        /\ Hit(d, t)
        /\ cached[d][t] - now < RotateThreshold
        /\ \E new \in Tokens : /\ Mint(new)
                               /\ req' = [req EXCEPT ![h].pc = "rotate", ![h].new = new]
        /\ UNCHANGED <<registered, rows, cached, devices, superseded,
                       cookies, now, requests, redisErrors, lost>>

\* updateMany, whose count nobody looks at: the row may have another token.
RotateRow(h) ==
    LET d == req[h].device
        t == req[h].token
    IN  /\ req[h].pc = "rotate"
        /\ rows' = IF rows[d].token = t THEN [rows EXCEPT ![d] = NewRow(req[h].new)] ELSE rows
        /\ superseded' = superseded \cup {<<d, t>>}
        /\ Goto(h, "del")
        /\ UNCHANGED <<registered, cached, minted, madeAt, devices,
                       cookies, now, requests, redisErrors, lost>>

\* cacheDel of the old key.
DeleteKey(h) ==
    /\ req[h].pc = "del"
    /\ \/ /\ cached' = [cached EXCEPT ![req[h].device][req[h].token] = 0]
          /\ UNCHANGED redisErrors
       \/ UNCHANGED cached /\ RedisFails
    /\ Goto(h, "setNew")
    /\ UNCHANGED <<registered, rows, minted, madeAt, devices, superseded,
                   cookies, now, requests, lost>>

\* Variant of SetNewKey for mutation: only the row knows the new token.
LeaveToDatabase(h) ==
    /\ req[h].pc = "setNew"
    /\ Goto(h, "refreshed")
    /\ UNCHANGED <<store, cookies, now, requests, redisErrors, lost>>

SetNewKey(h) ==
    /\ req[h].pc = "setNew"
    /\ SetKey(req[h].device, req[h].new)
    /\ Goto(h, "refreshed")
    /\ UNCHANGED <<registered, rows, minted, madeAt, devices, superseded,
                   cookies, now, requests, lost>>

-----------------------------------------------------------------------------
(* Answers, in any order, and what they do to the cookies. *)

\* The cookies of a browser that had cookies, after the answer to r: a refresh
\* and logoutAll leave the deviceId cookie, and its maxAge, alone.
SetCookies(had, r) ==
    CASE r.pc = "signedIn"     -> [token |-> r.new, of |-> r.device, until |-> now + TokenLife,
                                   device |-> r.device, deviceUntil |-> now + TokenLife]
      [] r.pc = "refreshed"    -> [had EXCEPT !.token = r.new, !.of = r.device, !.until = now + TokenLife]
      [] r.pc = "signedOut"    -> NoCookie
      [] r.pc = "signedOutAll" -> [had EXCEPT !.token = 0, !.of = 0, !.until = 0]

Answer(h) ==
    LET c == req[h].client
    IN  /\ req[h].pc \in {"signedIn", "refreshed", "signedOut", "signedOutAll"}
        /\ cookies' = [cookies EXCEPT ![c] = SetCookies(@, req[h])]
        /\ req' = [req EXCEPT ![h] = Idle]
        /\ UNCHANGED <<store, now, requests, redisErrors, lost>>

\* The server stops, or the answer does not arrive.
LoseRequest(h) ==
    /\ req[h].pc # "idle"
    /\ redisErrors + lost < MaxFaults
    /\ lost' = lost + 1
    /\ req' = [req EXCEPT ![h] = Idle]
    /\ UNCHANGED <<store, cookies, now, requests, redisErrors>>

\* The cookies that a browser still has at instant i.
Kept(had, i) == [token  |-> IF had.until > i THEN had.token ELSE 0,
                 of     |-> IF had.until > i THEN had.of ELSE 0,
                 until  |-> IF had.until > i THEN had.until ELSE 0,
                 device |-> IF had.deviceUntil > i THEN had.device ELSE 0,
                 deviceUntil |-> IF had.deviceUntil > i THEN had.deviceUntil ELSE 0]

Advance ==
    /\ \A h \in Handlers : req[h].pc = "idle"
    /\ now' \in {i \in Instants : i > now}
    /\ cookies' = [c \in Clients |-> Kept(cookies[c], now')]
    /\ UNCHANGED <<store, req, requests, redisErrors, lost>>

-----------------------------------------------------------------------------
Init == /\ registered = FALSE
        /\ rows = [d \in Devices |-> NoRow]
        /\ cached = [d \in Devices |-> [t \in Tokens |-> 0]]
        /\ cookies = [c \in Clients |-> NoCookie]
        /\ req = [h \in Handlers |-> Idle]
        /\ minted = 0
        /\ madeAt = [t \in Tokens |-> 0]
        /\ devices = 0
        /\ superseded = {}
        /\ now = 0
        /\ requests = 0
        /\ redisErrors = 0
        /\ lost = 0

\* Every request the bound allows is over, at the last instant.
Terminating == /\ requests = MaxRequests
               /\ \A h \in Handlers : req[h].pc = "idle"
               /\ \A i \in Instants : i <= now
               /\ UNCHANGED vars

Refresh(h) == \/ FindRow(h) \/ CacheSet(h) \/ CacheTTL(h) \/ StartRotation(h)
              \/ RotateRow(h) \/ DeleteKey(h) \/ SetNewKey(h)

Next == \/ \E h \in Handlers, c \in Clients :
              \/ Register(h, c) \/ Login(h, c) \/ Logout(h, c) \/ LogoutAllDevices(h, c)
              \/ CacheGet(h, c)
        \/ \E h \in Handlers :
              \/ LoginUpdate(h) \/ LoginFails(h) \/ LoginCreate(h)
              \/ Refresh(h) \/ Answer(h) \/ LoseRequest(h)
        \/ Advance
        \/ Terminating

Spec == Init /\ [][Next]_vars

-----------------------------------------------------------------------------
(* Properties. *)

\* Every variable has its type.
TypeOK ==
    /\ registered \in BOOLEAN
    /\ rows \in [Devices -> Row]
    /\ cached \in [Devices -> [Tokens -> Nat]]
    /\ cookies \in [Clients -> Cookie]
    /\ req \in [Handlers -> Request]
    /\ minted \in Tokens
    /\ madeAt \in [Tokens -> Nat]
    /\ devices \in Devices
    /\ superseded \in SUBSET (Devices \X Tokens)
    /\ now \in Nat
    /\ {requests, redisErrors, lost} \subseteq Nat

\* While Redis answers, a browser that has its two cookies, of one device, has
\* a session: its token has a row that lives or a copy in Redis that does,
\* unless another request has replaced or deleted that token.  Refreshes that
\* rotate at the same time, of which the row takes one, and the sign-ins and
\* sign-outs around them, leave no browser with a token that nobody knows.
SessionKnown ==
    redisErrors = 0 =>
        \A c \in Clients :
            LET t == cookies[c].token
                d == cookies[c].device
            IN  t # 0 /\ d # 0 /\ cookies[c].of = d =>
                    <<d, t>> \in superseded \/ Live(d, t) \/ Hit(d, t)

-----------------------------------------------------------------------------
(* What the documents say and the code does not keep. *)

\* docs/SYSTEM.md, "Refresh tokens are rotated if TTL < ROTATE_THRESHOLD_MS": a
\* refresh does not answer with the token it was sent when that has less to
\* live.
RotatedWhenDue ==
    [][\A h \in Handlers :
          LET d == req[h].device
              t == req[h].token
          IN  req[h].pc = "ttl" /\ req'[h].pc = "refreshed" /\ rows[d].token = t
                  => rows[d].expiresAt - now >= RotateThreshold]_vars
=============================================================================

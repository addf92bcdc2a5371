------------------------ MODULE RefreshTokensProofs ------------------------
(***************************************************************************)
(* The sessions of a user are typed, and overlapping refreshes, sign-ins   *)
(* and sign-outs leave no browser with a token that nobody knows: for any  *)
(* browsers, handlers, life, threshold and instants.                       *)
(***************************************************************************)
EXTENDS RefreshTokens, FiniteSetTheorems, TLAPS

\* The logins that are about to make a device.
Creating == {h \in Handlers : req[h].pc = "write" /\ ~req[h].found}

\* Every device was asked for by a request of its own.
CountInv == /\ devices + Cardinality(Creating) <= requests
            /\ requests <= MaxRequests

Inv == TypeOK /\ CountInv

USE DEF Tokens, Devices

-----------------------------------------------------------------------------
(* What the steps do. *)

\* The parts of a typed state that the cases of a step start from.
LEMMA Parts == ASSUME TypeOK PROVE
        /\ \A h \in Handlers : req[h] \in Request
        /\ \A c \in Clients : cookies[c] \in Cookie
        /\ \A d \in Devices : rows[d] \in Row
        /\ \A d \in Devices, t \in Tokens : cached[d][t] \in Nat
        /\ now \in Nat /\ MaxRequests \in Nat /\ TokenLife \in Nat /\ CacheLife \in Nat
        /\ CacheLife = 1000 * TokenLife
<1>1. /\ rows \in [Devices -> Row] /\ cached \in [Devices -> [Tokens -> Nat]]
      /\ cookies \in [Clients -> Cookie] /\ req \in [Handlers -> Request]
      /\ now \in Nat
  BY Zenon DEF TypeOK
<1>2. /\ \A h \in Handlers : req[h] \in Request
      /\ \A c \in Clients : cookies[c] \in Cookie
      /\ \A d \in Devices : rows[d] \in Row
      /\ \A d \in Devices, t \in Tokens : cached[d][t] \in Nat
  BY <1>1
<1>3. MaxRequests \in Nat /\ TokenLife \in Nat /\ CacheLife \in Nat /\ CacheLife = 1000 * TokenLife
  BY BoundAssumption, LifeAssumption DEF CacheLife
<1>. QED
  BY <1>1, <1>2, <1>3

\* A request that is no longer creating a device only makes the set smaller.
LEMMA CreatingShrinks ==
    ASSUME TypeOK, NEW h \in Handlers, NEW r \in Request,
           req' = [req EXCEPT ![h] = r],
           r.pc # "write" \/ r.found
    PROVE  /\ IsFiniteSet(Creating) /\ IsFiniteSet(Creating')
           /\ Creating' = Creating \ {h}
           /\ Cardinality(Creating') <= Cardinality(Creating)
           /\ Cardinality(Creating) \in Nat /\ Cardinality(Creating') \in Nat
           /\ h \in Creating => Cardinality(Creating') = Cardinality(Creating) - 1
<1>1. Creating \subseteq Handlers /\ Creating' = Creating \ {h}
  BY DEF TypeOK, Creating
<1>2. IsFiniteSet(Creating)
  BY <1>1, HandlersAssumption, FS_Subset
<1>3. /\ IsFiniteSet(Creating \ {h})
      /\ Cardinality(Creating \ {h}) =
            IF h \in Creating THEN Cardinality(Creating) - 1 ELSE Cardinality(Creating)
  BY <1>2, FS_RemoveElement
<1>4. Cardinality(Creating) \in Nat /\ Cardinality(Creating \ {h}) \in Nat
  BY <1>2, <1>3, FS_CardinalityType
<1>. QED
  BY <1>1, <1>2, <1>3, <1>4

\* A new request that looks for a row it does not find makes the set larger.
LEMMA CreatingGrows ==
    ASSUME TypeOK, NEW h \in Handlers, NEW r \in Request,
           req' = [req EXCEPT ![h] = r]
    PROVE  /\ Cardinality(Creating') <= Cardinality(Creating) + 1
           /\ Cardinality(Creating) \in Nat /\ Cardinality(Creating') \in Nat
<1>1. /\ Creating \subseteq Handlers /\ Creating' \subseteq Handlers
      /\ Creating' \subseteq Creating \cup {h}
  BY DEF TypeOK, Creating
<1>2. IsFiniteSet(Creating) /\ IsFiniteSet(Creating')
  BY <1>1, HandlersAssumption, FS_Subset
<1>3. /\ IsFiniteSet(Creating \cup {h})
      /\ Cardinality(Creating \cup {h}) =
            IF h \in Creating THEN Cardinality(Creating) ELSE Cardinality(Creating) + 1
  BY <1>2, FS_AddElement
<1>4. Cardinality(Creating') <= Cardinality(Creating \cup {h})
  BY <1>1, <1>3, FS_Subset
<1>5. Cardinality(Creating) \in Nat /\ Cardinality(Creating') \in Nat
  BY <1>2, FS_CardinalityType
<1>. QED
  BY <1>3, <1>4, <1>5

-----------------------------------------------------------------------------
(* Types. *)

\* What a sign-in writes is typed, and its request makes no device any more.
LEMMA SignInTyped ==
    ASSUME TypeOK, NEW h \in Handlers, NEW c \in Clients \cup {Nobody},
           NEW d \in Devices, NEW t \in Tokens, SignIn(h, c, d, t)
    PROVE  /\ rows' \in [Devices -> Row]
           /\ cached' \in [Devices -> [Tokens -> Nat]]
           /\ cookies' \in [Clients -> Cookie]
           /\ req' \in [Handlers -> Request]
           /\ minted' \in Tokens
           /\ madeAt' \in [Tokens -> Nat]
           /\ superseded' \in SUBSET (Devices \X Tokens)
           /\ now' \in Nat
           /\ {redisErrors, lost}' \subseteq Nat
           /\ \E r \in Request : r.pc = "signedIn" /\ req' = [req EXCEPT ![h] = r]
<1> DEFINE r == [Idle EXCEPT !.pc = "signedIn", !.client = c, !.device = d, !.new = t]
<1>a. 0 \in Tokens
  BY BoundAssumption
<1>b. r \in Request /\ r.pc = "signedIn"
  BY <1>a DEF Idle, Request
<1>1. r \in Request /\ r.pc = "signedIn" /\ req' = [req EXCEPT ![h] = r]
  BY <1>b DEF SignIn
<1>2. NewRow(t) \in Row
  BY Parts DEF NewRow, Row
<1>3. rows' \in [Devices -> Row]
  BY <1>2 DEF TypeOK, SignIn, PutRow
<1>4. minted \in Tokens /\ (1..minted) \subseteq Tokens
  BY BoundAssumption DEF TypeOK
<1> DEFINE old == {<<d, u>> : u \in {v \in (1..minted) \ {t} : v = rows[d].token \/ madeAt[v] < now}}
<1>c. old \subseteq Devices \X Tokens
  BY <1>4
<1>5. superseded' \in SUBSET (Devices \X Tokens)
  BY <1>c DEF TypeOK, SignIn, PutRow
<1>6. req' \in [Handlers -> Request]
  BY <1>1 DEF TypeOK
<1>7. minted' \in Tokens /\ madeAt' \in [Tokens -> Nat]
  BY DEF TypeOK, SignIn, Mint
<1>. QED
  BY <1>1, <1>3, <1>5, <1>6, <1>7 DEF TypeOK, SignIn

\* Dropping rows keeps them typed.
LEMMA DropTyped ==
    ASSUME TypeOK, NEW D \in SUBSET Devices, DropRows(D)
    PROVE  rows' \in [Devices -> Row] /\ superseded' \in SUBSET (Devices \X Tokens)
<1>1. NoRow \in Row
  BY Parts DEF NoRow, Row
<1>2. \A d \in Devices : rows[d] \in Row /\ rows[d].token \in Tokens
  BY Parts DEF Row
<1>3. rows' \in [Devices -> Row]
  BY <1>1, <1>2 DEF DropRows
<1>4. superseded' \in SUBSET (Devices \X Tokens)
  BY <1>2 DEF DropRows, TypeOK
<1>. QED
  BY <1>3, <1>4

\* A request that starts with the cookies of its browser.
LEMMA SendTyped ==
    ASSUME Inv, NEW h \in Handlers, NEW c \in Clients,
           NEW pc \in {"find", "ttl", "signedOut", "signedOutAll"}, Send(h, c, pc)
    PROVE  /\ req' \in [Handlers -> Request]
           /\ \E r \in Request : r.pc = pc /\ req' = [req EXCEPT ![h] = r]
           /\ requests' = requests + 1 /\ requests' <= MaxRequests
<1> DEFINE r == [Idle EXCEPT !.pc = pc, !.client = c,
                             !.token = cookies[c].token, !.device = cookies[c].device]
<1>1. cookies[c].token \in Tokens /\ cookies[c].device \in Devices
  BY Parts DEF Inv, Cookie
<1>a. 0 \in Tokens
  BY BoundAssumption
<1>2. r \in Request /\ r.pc = pc
  BY <1>1, <1>a DEF Idle, Request
<1>3. req' = [req EXCEPT ![h] = r] /\ requests < MaxRequests /\ requests' = requests + 1
  BY DEF Send
<1>4. requests \in Nat /\ MaxRequests \in Nat
  BY BoundAssumption DEF Inv, TypeOK
<1>5. req \in [Handlers -> Request]
  BY DEF Inv, TypeOK
<1>6. req' \in [Handlers -> Request]
  BY <1>2, <1>3, <1>5
<1>7. \E s \in Request : s.pc = pc /\ req' = [req EXCEPT ![h] = s]
  BY <1>2, <1>3
<1>. QED
  <2>1. requests' = requests + 1 /\ requests' <= MaxRequests
    BY <1>3, <1>4
  <2>. QED
    BY <1>6, <1>7, <2>1

\* A step of a request that makes no device: what is left to show is the types
\* of what else it changes.
LEMMA OtherStep ==
    ASSUME Inv, NEW h \in Handlers, NEW r \in Request,
           req' = [req EXCEPT ![h] = r], r.pc # "write" \/ r.found,
           devices' = devices,
           requests' \in Nat, requests <= requests', requests' <= MaxRequests
    PROVE  CountInv' /\ req' \in [Handlers -> Request]
<1>1. Cardinality(Creating') <= Cardinality(Creating)
      /\ Cardinality(Creating) \in Nat /\ Cardinality(Creating') \in Nat
  BY CreatingShrinks DEF Inv
<1> DEFINE n == Cardinality(Creating)
           m == Cardinality(Creating')
<1>2. n \in Nat /\ m \in Nat /\ m <= n /\ devices + n <= requests /\ CountInv' = (devices + m <= requests' /\ requests' <= MaxRequests)
  BY <1>1 DEF Inv, CountInv
<1>3. devices \in Nat /\ requests \in Nat /\ MaxRequests \in Nat
  BY BoundAssumption DEF Inv, TypeOK
<1> HIDE DEF n, m
<1>4. devices + m <= requests'
  BY <1>2, <1>3
<1>5. req' \in [Handlers -> Request]
  BY DEF Inv, TypeOK
<1>. QED
  BY <1>2, <1>4, <1>5

\* A request that goes on.
LEMMA GotoTyped ==
    ASSUME TypeOK, NEW h \in Handlers, NEW pc \in {"set", "ttl", "del", "setNew", "refreshed"},
           Goto(h, pc)
    PROVE  \E r \in Request : r.pc = pc /\ req' = [req EXCEPT ![h] = r]
<1> DEFINE r == [req[h] EXCEPT !.pc = pc]
<1>1. r \in Request /\ r.pc = pc
  BY Parts DEF Request
<1>2. req' = [req EXCEPT ![h] = r]
  BY DEF Goto
<1>. QED
  BY <1>1, <1>2

\* A request that is over.
LEMMA IdleTyped == Idle \in Request /\ Idle.pc = "idle"
BY BoundAssumption DEF Idle, Request

LEMMA SetKeyTyped ==
    ASSUME TypeOK, NEW d \in Devices, NEW t \in Tokens, SetKey(d, t)
    PROVE  cached' \in [Devices -> [Tokens -> Nat]] /\ redisErrors' \in Nat
<1>1. now + CacheLife \in Nat
  BY Parts
<1>2. redisErrors \in Nat /\ redisErrors + 1 \in Nat
  BY DEF TypeOK
<1>3. CASE cached' = [cached EXCEPT ![d][t] = now + CacheLife] /\ redisErrors' = redisErrors
  <2>1. cached' \in [Devices -> [Tokens -> Nat]]
    BY <1>1, <1>3 DEF TypeOK
  <2>. QED
    BY <1>2, <1>3, <2>1
<1>4. CASE cached' = cached /\ redisErrors' = redisErrors + 1
  BY <1>2, <1>4 DEF TypeOK
<1>. QED
  BY <1>3, <1>4 DEF SetKey, RedisFails

\* register and login.
LEMMA SignsIn ==
    ASSUME Inv, NEW h \in Handlers
    PROVE  /\ \A c \in Clients : Register(h, c) \/ Login(h, c) => Inv'
           /\ LoginUpdate(h) \/ LoginFails(h) \/ LoginCreate(h) => Inv'
<1> USE DEF Inv
<1>0. /\ devices \in Nat /\ requests \in Nat /\ MaxRequests \in Nat
      /\ requests <= MaxRequests
      /\ req \in [Handlers -> Request] /\ req[h] \in Request
  BY BoundAssumption DEF TypeOK, CountInv
<1>1. ASSUME NEW c \in Clients, Register(h, c) PROVE Inv'
  <2>1. /\ requests' = requests + 1 /\ requests < MaxRequests
        /\ devices' = devices + 1 /\ registered' = TRUE
    BY <1>1 DEF Register
  <2>2. PICK t \in Tokens : SignIn(h, c, devices + 1, t)
    BY <1>1 DEF Register
  <2>3. devices + Cardinality(Creating) <= requests /\ Cardinality(Creating) \in Nat
    BY CreatingGrows, FS_CardinalityType, FS_Subset, HandlersAssumption DEF CountInv, Creating
  <2> DEFINE n == Cardinality(Creating)
             m == Cardinality(Creating')
  <2> HIDE DEF n, m
  <2>4. devices + n <= requests /\ n \in Nat
    BY <2>3 DEF n
  <2>5. devices + 1 \in Devices
    BY <1>0, <2>1, <2>4
  <2>6. /\ TypeOK'
        /\ \E r \in Request : r.pc = "signedIn" /\ req' = [req EXCEPT ![h] = r]
    <3>1. requests' \in Nat
      BY <1>0, <2>1
    <3>. QED
      BY <2>1, <2>2, <2>5, <3>1, SignInTyped DEF TypeOK
  <2>7. m <= n /\ m \in Nat
    BY <2>6, CreatingShrinks DEF m, n
  <2>8. devices' + m <= requests' /\ requests' <= MaxRequests
    BY <1>0, <2>1, <2>4, <2>7
  <2>. QED
    BY <2>6, <2>8 DEF CountInv, m
<1>2. ASSUME NEW c \in Clients, Login(h, c) PROVE Inv'
  <2> DEFINE r == [Idle EXCEPT !.pc = "write", !.client = c, !.device = cookies[c].device,
                               !.found = rows[cookies[c].device] # NoRow]
             n == Cardinality(Creating)
             m == Cardinality(Creating')
  <2>1. cookies[c].device \in Devices
    BY Parts DEF Cookie
  <2>2. 0 \in Tokens
    BY <1>0
  <2>3. r \in Request
    BY <2>1, <2>2 DEF Idle, Request
  <2>4. /\ req' = [req EXCEPT ![h] = r]
        /\ requests' = requests + 1 /\ requests < MaxRequests
        /\ UNCHANGED <<store, cookies, now, redisErrors, lost>>
    BY <1>2 DEF Login
  <2>5. m <= n + 1 /\ n \in Nat /\ m \in Nat
    BY <2>3, <2>4, CreatingGrows
  <2>6. devices + n <= requests
    BY DEF CountInv
  <2>7. CountInv' = (devices' + m <= requests' /\ requests' <= MaxRequests)
    BY DEF CountInv
  <2>8. req' \in [Handlers -> Request]
    BY <1>0, <2>3, <2>4
  <2> HIDE DEF n, m, r
  <2>9. devices' + m <= requests' /\ requests' <= MaxRequests
    BY <1>0, <2>4, <2>5, <2>6 DEF store
  <2>10. requests' \in Nat
    BY <1>0, <2>4
  <2>11. TypeOK'
    BY <2>4, <2>8, <2>10 DEF TypeOK, store
  <2>. QED
    BY <2>7, <2>9, <2>11
<1>3. ASSUME LoginUpdate(h) PROVE Inv'
  <2>1. req[h].client \in Clients \cup {Nobody} /\ req[h].device \in Devices
    BY <1>0 DEF Request
  <2>2. PICK t \in Tokens : SignIn(h, req[h].client, req[h].device, t)
    BY <1>3 DEF LoginUpdate
  <2>3. UNCHANGED <<registered, devices, requests>>
    BY <1>3 DEF LoginUpdate
  <2>4. /\ TypeOK'
        /\ \E r \in Request : r.pc = "signedIn" /\ req' = [req EXCEPT ![h] = r]
    BY <2>1, <2>2, <2>3, SignInTyped DEF TypeOK
  <2>5. CountInv'
    <3>1. requests' = requests /\ requests <= requests /\ devices' = devices
      BY <1>0, <2>3
    <3>2. PICK r \in Request : r.pc = "signedIn" /\ req' = [req EXCEPT ![h] = r]
      BY <2>4
    <3>3. requests' \in Nat /\ requests <= requests' /\ requests' <= MaxRequests
      BY <1>0, <3>1
    <3>. QED
      BY <3>1, <3>2, <3>3, OtherStep
  <2>. QED
    BY <2>4, <2>5
<1>4. ASSUME LoginFails(h) PROVE Inv'
  <2>1. req' = [req EXCEPT ![h] = Idle] /\ UNCHANGED <<store, cookies, now, requests, redisErrors, lost>>
    BY <1>4 DEF LoginFails
  <2>2. CountInv' /\ req' \in [Handlers -> Request]
    <3>1. requests' = requests /\ devices' = devices
      BY <2>1 DEF store
    <3>2. requests' \in Nat /\ requests <= requests' /\ requests' <= MaxRequests
      BY <1>0, <3>1
    <3>. QED
      BY <2>1, <3>1, <3>2, IdleTyped, OtherStep
  <2>. QED
    BY <2>1, <2>2 DEF TypeOK, store
<1>5. ASSUME LoginCreate(h) PROVE Inv'
  <2>1. /\ UNCHANGED <<registered, requests>>
        /\ devices' = devices + 1
        /\ h \in Creating
        /\ req[h].client \in Clients \cup {Nobody}
    BY <1>0, <1>5 DEF LoginCreate, Creating, Request
  <2>2. PICK t \in Tokens : SignIn(h, req[h].client, devices + 1, t)
    BY <1>5 DEF LoginCreate
  <2>3. IsFiniteSet(Creating) /\ Cardinality(Creating) \in Nat /\ Cardinality(Creating) # 0
    <3>1. IsFiniteSet(Creating)
      BY FS_Subset, HandlersAssumption DEF Creating
    <3>. QED
      BY <2>1, <3>1, FS_CardinalityType, FS_EmptySet
  <2> DEFINE n == Cardinality(Creating)
             m == Cardinality(Creating')
  <2>4. devices + n <= requests /\ n \in Nat /\ n # 0
    BY <2>3 DEF CountInv
  <2> HIDE DEF n, m
  <2>5. devices + 1 \in Devices
    BY <1>0, <2>4
  <2>6. /\ TypeOK'
        /\ \E r \in Request : r.pc = "signedIn" /\ req' = [req EXCEPT ![h] = r]
    BY <2>1, <2>2, <2>5, SignInTyped DEF TypeOK
  <2>7. m = n - 1 /\ m \in Nat
    BY <2>1, <2>6, CreatingShrinks DEF m, n
  <2>8. devices' + m <= requests' /\ requests' <= MaxRequests
    BY <1>0, <2>1, <2>4, <2>7
  <2>. QED
    BY <2>6, <2>8 DEF CountInv, m
<1>. QED
  BY <1>1, <1>2, <1>3, <1>4, <1>5

\* A step of a request that counts nothing.
LEMMA QuietStep ==
    ASSUME Inv, NEW h \in Handlers, NEW r \in Request,
           req' = [req EXCEPT ![h] = r], r.pc # "write",
           UNCHANGED <<devices, requests>>
    PROVE  CountInv' /\ req' \in [Handlers -> Request]
<1>1. requests' \in Nat /\ requests <= requests' /\ requests' <= MaxRequests
  BY BoundAssumption DEF Inv, TypeOK, CountInv
<1>. QED
  BY <1>1, OtherStep

\* What a sending counts.
LEMMA SentStep ==
    ASSUME Inv, NEW h \in Handlers, NEW c \in Clients,
           NEW pc \in {"find", "ttl", "signedOut", "signedOutAll"}, Send(h, c, pc),
           UNCHANGED devices
    PROVE  CountInv' /\ req' \in [Handlers -> Request] /\ requests' \in Nat
<1>1. requests' \in Nat /\ requests <= requests' /\ requests' <= MaxRequests
  <2>1. requests' = requests + 1 /\ requests' <= MaxRequests
    BY SendTyped
  <2>2. requests \in Nat /\ MaxRequests \in Nat
    BY BoundAssumption DEF Inv, TypeOK
  <2>. QED
    BY <2>1, <2>2
<1>2. PICK r \in Request : r.pc = pc /\ req' = [req EXCEPT ![h] = r]
  BY SendTyped
<1>. QED
  BY <1>1, <1>2, OtherStep

\* logout and the first step of refresh.
LEMMA Sends ==
    ASSUME Inv, NEW h \in Handlers, NEW c \in Clients
    PROVE  Logout(h, c) \/ LogoutAllDevices(h, c) \/ CacheGet(h, c) => Inv'
<1>1. ASSUME Logout(h, c) PROVE Inv'
  <2>1. /\ Send(h, c, "signedOut")
        /\ UNCHANGED <<registered, cached, cookies, minted, madeAt, devices, now, redisErrors, lost>>
    BY <1>1 DEF Logout
  <2>2. \E D \in SUBSET Devices : DropRows(D)
    BY <1>1 DEF Logout
  <2>3. rows' \in [Devices -> Row] /\ superseded' \in SUBSET (Devices \X Tokens)
    BY <2>2, DropTyped DEF Inv
  <2>4. CountInv' /\ req' \in [Handlers -> Request] /\ requests' \in Nat
    BY <2>1, SentStep
  <2>. QED
    BY <2>1, <2>3, <2>4 DEF Inv, TypeOK
<1>2. ASSUME LogoutAllDevices(h, c) PROVE Inv'
  <2>1. /\ Send(h, c, "signedOutAll")
        /\ DropRows(Devices)
        /\ UNCHANGED <<registered, cached, cookies, minted, madeAt, devices, now, redisErrors, lost>>
    BY <1>2 DEF LogoutAllDevices
  <2>3. rows' \in [Devices -> Row] /\ superseded' \in SUBSET (Devices \X Tokens)
    BY <2>1, DropTyped DEF Inv
  <2>4. CountInv' /\ req' \in [Handlers -> Request] /\ requests' \in Nat
    BY <2>1, SentStep
  <2>. QED
    BY <2>1, <2>3, <2>4 DEF Inv, TypeOK
<1>3. ASSUME CacheGet(h, c) PROVE Inv'
  <2>1. /\ \E pc \in {"find", "ttl"} : Send(h, c, pc)
        /\ redisErrors' = redisErrors \/ redisErrors' = redisErrors + 1
        /\ UNCHANGED <<store, cookies, now, lost>>
    BY <1>3 DEF CacheGet, RedisFails
  <2>2. CountInv' /\ req' \in [Handlers -> Request] /\ requests' \in Nat
    BY <2>1, SentStep DEF store
  <2>3. redisErrors' \in Nat
    BY <2>1 DEF Inv, TypeOK
  <2>. QED
    BY <2>1, <2>2, <2>3 DEF Inv, TypeOK, store
<1>. QED
  BY <1>1, <1>2, <1>3

\* The other steps of refresh.
LEMMA Refreshes ==
    ASSUME Inv, NEW h \in Handlers, Refresh(h)
    PROVE  Inv'
<1> USE DEF Inv
<1>0. /\ req[h] \in Request /\ req[h].device \in Devices
      /\ req[h].token \in Tokens /\ req[h].new \in Tokens
      /\ redisErrors \in Nat
  BY DEF TypeOK, Request
<1>1. ASSUME FindRow(h) PROVE Inv'
  <2>1. \E r \in Request : r.pc # "write" /\ req' = [req EXCEPT ![h] = r]
    BY <1>1, GotoTyped, IdleTyped DEF FindRow
  <2>2. UNCHANGED <<store, cookies, now, requests, redisErrors, lost>>
    BY <1>1 DEF FindRow
  <2>3. CountInv' /\ req' \in [Handlers -> Request]
    BY <2>1, <2>2, QuietStep DEF store
  <2>. QED
    BY <2>2, <2>3 DEF TypeOK, store
<1>2. ASSUME CacheSet(h) PROVE Inv'
  <2>1. /\ SetKey(req[h].device, req[h].token)
        /\ Goto(h, "ttl")
        /\ UNCHANGED <<registered, rows, minted, madeAt, devices, superseded,
                       cookies, now, requests, lost>>
    BY <1>2 DEF CacheSet
  <2>2. CountInv' /\ req' \in [Handlers -> Request]
    BY <2>1, GotoTyped, QuietStep
  <2>3. cached' \in [Devices -> [Tokens -> Nat]] /\ redisErrors' \in Nat
    BY <1>0, <2>1, SetKeyTyped
  <2>. QED
    BY <2>1, <2>2, <2>3 DEF TypeOK
<1>3. ASSUME CacheTTL(h) PROVE Inv'
  <2> DEFINE r == [req[h] EXCEPT !.pc = "refreshed", !.new = req[h].token]
  <2>1. r \in Request /\ r.pc # "write"
    BY <1>0 DEF Request
  <2>2. /\ req' = [req EXCEPT ![h] = r]
        /\ redisErrors' = redisErrors \/ redisErrors' = redisErrors + 1
        /\ UNCHANGED <<store, cookies, now, requests, lost>>
    BY <1>3 DEF CacheTTL, RedisFails
  <2>3. CountInv' /\ req' \in [Handlers -> Request]
    BY <2>1, <2>2, QuietStep DEF store
  <2>4. redisErrors' \in Nat
    BY <1>0, <2>2
  <2>. QED
    BY <2>2, <2>3, <2>4 DEF TypeOK, store
<1>4. ASSUME StartRotation(h) PROVE Inv'
  <2>1. PICK t \in Tokens : Mint(t) /\ req' = [req EXCEPT ![h].pc = "rotate", ![h].new = t]
    BY <1>4 DEF StartRotation
  <2> DEFINE r == [req[h] EXCEPT !.pc = "rotate", !.new = t]
  <2>2. r \in Request /\ r.pc # "write"
    BY <1>0 DEF Request
  <2>3. /\ req' = [req EXCEPT ![h] = r]
        /\ UNCHANGED <<registered, rows, cached, devices, superseded,
                       cookies, now, requests, redisErrors, lost>>
    BY <1>4, <2>1 DEF StartRotation, TypeOK
  <2>4. CountInv' /\ req' \in [Handlers -> Request]
    BY <2>2, <2>3, QuietStep
  <2>5. minted' \in Tokens /\ madeAt' \in [Tokens -> Nat]
    BY <2>1 DEF Mint, TypeOK
  <2>. QED
    BY <2>3, <2>4, <2>5 DEF TypeOK
<1>5. ASSUME RotateRow(h) PROVE Inv'
  <2>1. NewRow(req[h].new) \in Row
    BY <1>0, Parts DEF NewRow, Row
  <2>2. /\ Goto(h, "del")
        /\ UNCHANGED <<registered, cached, minted, madeAt, devices,
                       cookies, now, requests, redisErrors, lost>>
    BY <1>5 DEF RotateRow
  <2>3. rows' \in [Devices -> Row]
    <3>1. rows' = rows \/ rows' = [rows EXCEPT ![req[h].device] = NewRow(req[h].new)]
      BY <1>5 DEF RotateRow
    <3>. QED
      BY <1>0, <2>1, <3>1 DEF TypeOK
  <2>4. superseded' \in SUBSET (Devices \X Tokens)
    <3>1. superseded' = superseded \cup {<<req[h].device, req[h].token>>}
      BY <1>5 DEF RotateRow
    <3>2. superseded \in SUBSET (Devices \X Tokens)
      BY <1>0 DEF TypeOK
    <3>3. req[h].device \in Devices /\ req[h].token \in Tokens
      BY <1>0
    <3>. QED
      BY <3>1, <3>2, <3>3
  <2>5. CountInv' /\ req' \in [Handlers -> Request]
    BY <2>2, GotoTyped, QuietStep
  <2>. QED
    BY <2>2, <2>3, <2>4, <2>5 DEF TypeOK
<1>6. ASSUME DeleteKey(h) PROVE Inv'
  <2>1. /\ cached' = [cached EXCEPT ![req[h].device][req[h].token] = 0] \/ cached' = cached
        /\ redisErrors' = redisErrors \/ redisErrors' = redisErrors + 1
        /\ Goto(h, "setNew")
        /\ UNCHANGED <<registered, rows, minted, madeAt, devices, superseded,
                       cookies, now, requests, lost>>
    BY <1>6 DEF DeleteKey, RedisFails
  <2>2. cached' \in [Devices -> [Tokens -> Nat]]
    <3>1. CASE cached' = [cached EXCEPT ![req[h].device][req[h].token] = 0]
      BY <1>0, <3>1 DEF TypeOK
    <3>. QED
      BY <2>1, <3>1 DEF TypeOK
  <2>3. redisErrors' \in Nat
    BY <1>0, <2>1
  <2>4. CountInv' /\ req' \in [Handlers -> Request]
    BY <2>1, GotoTyped, QuietStep
  <2>. QED
    BY <2>1, <2>2, <2>3, <2>4 DEF TypeOK
<1>7. ASSUME SetNewKey(h) PROVE Inv'
  <2>1. /\ SetKey(req[h].device, req[h].new)
        /\ Goto(h, "refreshed")
        /\ UNCHANGED <<registered, rows, minted, madeAt, devices, superseded,
                       cookies, now, requests, lost>>
    BY <1>7 DEF SetNewKey
  <2>2. CountInv' /\ req' \in [Handlers -> Request]
    BY <2>1, GotoTyped, QuietStep
  <2>3. cached' \in [Devices -> [Tokens -> Nat]] /\ redisErrors' \in Nat
    BY <1>0, <2>1, SetKeyTyped
  <2>. QED
    BY <2>1, <2>2, <2>3 DEF TypeOK
<1>. QED
  BY <1>1, <1>2, <1>3, <1>4, <1>5, <1>6, <1>7 DEF Refresh

\* The cookies after an answer.
LEMMA AnswerTyped ==
    ASSUME TypeOK, NEW h \in Handlers, Answer(h)
    PROVE  cookies' \in [Clients -> Cookie]
<1>1. /\ req[h] \in Request
      /\ req[h].pc \in {"signedIn", "refreshed", "signedOut", "signedOutAll"}
      /\ now + TokenLife \in Nat /\ 0 \in Tokens
  BY Parts DEF Answer
<1> DEFINE c == req[h].client
<1>2. ASSUME c \in Clients PROVE SetCookies(cookies[c], req[h]) \in Cookie
  <2>1. cookies[c] \in Cookie /\ NoCookie \in Cookie
    BY <1>1, <1>2 DEF TypeOK, NoCookie, Cookie
  <2>2. CASE req[h].pc = "signedIn"
    BY <1>1, <2>2 DEF SetCookies, Request, Cookie
  <2>3. CASE req[h].pc = "refreshed"
    BY <1>1, <2>1, <2>3 DEF SetCookies, Request, Cookie
  <2>4. CASE req[h].pc = "signedOut"
    BY <2>1, <2>4 DEF SetCookies
  <2>5. CASE req[h].pc = "signedOutAll"
    <3>1. SetCookies(cookies[c], req[h]) = [cookies[c] EXCEPT !.token = 0, !.of = 0, !.until = 0]
      BY <2>5 DEF SetCookies
    <3>2. 0 \in Tokens /\ 0 \in Devices /\ 0 \in Nat
      BY <1>1
    <3>. QED
      BY <2>1, <3>1, <3>2 DEF Cookie
  <2>. QED
    BY <1>1, <2>2, <2>3, <2>4, <2>5
<1>. QED
  BY <1>2 DEF Answer, TypeOK

\* The invariant of the types is inductive.
LEMMA InvStep == Inv /\ [Next]_vars => Inv'
<1> SUFFICES ASSUME Inv, [Next]_vars PROVE Inv'
  OBVIOUS
<1>1. ASSUME NEW h \in Handlers, Answer(h) PROVE Inv'
  <2>1. req' = [req EXCEPT ![h] = Idle] /\ UNCHANGED <<store, now, requests, redisErrors, lost>>
    BY <1>1 DEF Answer
  <2>2. CountInv' /\ req' \in [Handlers -> Request]
    BY <2>1, IdleTyped, QuietStep DEF store
  <2>. QED
    BY <1>1, <2>1, <2>2, AnswerTyped DEF Inv, TypeOK, store
<1>2. ASSUME NEW h \in Handlers, LoseRequest(h) PROVE Inv'
  <2>1. /\ req' = [req EXCEPT ![h] = Idle] /\ lost' = lost + 1
        /\ UNCHANGED <<store, cookies, now, requests, redisErrors>>
    BY <1>2 DEF LoseRequest
  <2>2. CountInv' /\ req' \in [Handlers -> Request]
    BY <2>1, IdleTyped, QuietStep DEF store
  <2>3. TypeOK'
    <3>1. {requests, redisErrors, lost}' \subseteq Nat
      BY <2>1 DEF Inv, TypeOK
    <3>. QED
      BY <2>1, <2>2, <3>1 DEF Inv, TypeOK, store
  <2>. QED
    BY <2>2, <2>3 DEF Inv
<1>3. ASSUME Advance PROVE Inv'
  <2>1. now' \in Nat /\ UNCHANGED <<store, req, requests, redisErrors, lost>>
    BY <1>3, InstantsAssumption DEF Advance
  <2>a. cookies' \in [Clients -> Cookie]
    <3>1. \A c \in Clients : Kept(cookies[c], now') \in Cookie
      BY BoundAssumption, Parts DEF Inv, Cookie, Kept
    <3>. QED
      BY <1>3, <3>1 DEF Advance
  <2>2. TypeOK'
    BY <2>1, <2>a DEF Inv, TypeOK, store
  <2>3. CountInv'
    BY <2>1 DEF Inv, CountInv, Creating, store
  <2>. QED
    BY <2>2, <2>3 DEF Inv
<1>4. ASSUME UNCHANGED vars PROVE Inv'
  BY <1>4 DEF Inv, TypeOK, CountInv, Creating, vars, store
<1>. QED
  BY <1>1, <1>2, <1>3, <1>4, SignsIn, Sends, Refreshes DEF Next, Terminating

-----------------------------------------------------------------------------
(* Ages: a copy outlives its token, and a row lives as long as its token's   *)
(* first cookie.                                                             *)

\* What was made was made by now.
MadeBefore == \A t \in 1..minted : madeAt[t] <= now

\* What requests and browsers hold has been made.
TokensMinted ==
    /\ \A h \in Handlers : req[h].token <= minted /\ req[h].new <= minted
    /\ \A c \in Clients : cookies[c].token <= minted

\* A copy has its whole life from when its token was made, at least ...
CopiesFresh ==
    \A d \in Devices, t \in Tokens :
        t # 0 /\ cached[d][t] # 0 => t <= minted /\ cached[d][t] >= madeAt[t] + CacheLife

\* ... and so has a row.
RowsFresh ==
    \A d \in Devices :
        LET t == rows[d].token
        IN  t # 0 => t <= minted /\ rows[d].expiresAt >= madeAt[t] + TokenLife

\* The tokens of device d that nobody has replaced were made from i on.
Since(d, i) == \A t \in 1..minted : <<d, t>> \in superseded \/ madeAt[t] >= i

\* A sign-in replaces the older tokens of its device, and no deviceId cookie
\* is older than the last sign-in.
DevicesFresh ==
    /\ \A h \in Handlers : req[h].pc = "signedIn" => Since(req[h].device, now)
    /\ \A c \in Clients :
          LET k == cookies[c]
          IN  k.device # 0 => /\ now < k.deviceUntil /\ k.deviceUntil <= now + TokenLife
                              /\ Since(k.device, k.deviceUntil - TokenLife)

FreshInv == MadeBefore /\ TokensMinted /\ CopiesFresh /\ RowsFresh /\ DevicesFresh

-----------------------------------------------------------------------------
(* Sessions: what a browser and a request about to answer can count on. *)

Known(d, t) == t = 0 \/ <<d, t>> \in superseded \/ rows[d].token = t \/ cached[d][t] # 0

\* A request that has read its copy, has rotated, or is about to answer.
KnownRequest(h) ==
    LET d == req[h].device
    IN  /\ req[h].pc = "ttl" => Known(d, req[h].token)
        /\ req[h].pc = "del" => <<d, req[h].token>> \in superseded
        /\ req[h].pc \in {"refreshed", "signedIn"} => Known(d, req[h].new)

RequestKnown == \A h \in Handlers : KnownRequest(h)

CookieKnown == \A c \in Clients : Known(cookies[c].of, cookies[c].token)

SessionInv == redisErrors = 0 => RequestKnown /\ CookieKnown

-----------------------------------------------------------------------------
(* What one step of a request does to rows, copies and tokens.               *)

\* Tokens are made now; what has been made or replaced stays so.
Grows == /\ minted <= minted'
         /\ superseded \subseteq superseded'
         /\ \A t \in 1..minted : madeAt'[t] = madeAt[t]
         /\ \A t \in 1..minted' : t > minted => madeAt'[t] = now

\* Since after the step.
SinceNext(d, i) == \A t \in 1..minted' : <<d, t>> \in superseded' \/ madeAt'[t] >= i

\* A copy stays, goes or is made now of a token that has been made ...
CopiesMade ==
    \A d \in Devices, t \in Tokens :
        t # 0 => \/ cached'[d][t] \in {0, cached[d][t]}
                 \/ t <= minted /\ cached'[d][t] = now + CacheLife

\* ... and so does a row.
RowsMade ==
    \A d \in Devices :
        \/ rows'[d] \in {rows[d], NoRow}
        \/ rows'[d].token <= minted' /\ rows'[d].expiresAt = now + TokenLife

\* Nobody's session is lost.
StoreKept == \A d \in Devices, t \in Tokens : Known(d, t) => Known(d, t)'

\* A step of request h, which is r after it.
StepOf(h, r) ==
    /\ req' = [req EXCEPT ![h] = r]
    /\ UNCHANGED <<now, cookies>>
    /\ Grows /\ CopiesMade /\ RowsMade
    /\ r.token <= minted' /\ r.new <= minted'
    /\ r.pc = "signedIn" => SinceNext(r.device, now)
    /\ redisErrors' = 0 => redisErrors = 0 /\ StoreKept /\ KnownRequest(h)'

\* What the cases of a step start from.
LEMMA FreshParts == ASSUME Inv PROVE
        /\ minted \in Nat /\ minted <= MaxRequests /\ now \in Nat /\ redisErrors \in Nat
        /\ (1..minted) \subseteq Tokens /\ 0 \in Tokens
        /\ \A t \in Tokens : madeAt[t] \in Nat
        /\ \A h \in Handlers : /\ req[h].token \in Tokens /\ req[h].new \in Tokens
                               /\ req[h].device \in Devices
        /\ \A c \in Clients : /\ cookies[c].token \in Tokens /\ cookies[c].of \in Devices
                              /\ cookies[c].device \in Devices /\ cookies[c].deviceUntil \in Nat
        /\ \A d \in Devices : rows[d].token \in Tokens /\ rows[d].expiresAt \in Nat
        /\ \A d \in Devices, t \in Tokens : cached[d][t] \in Nat
        /\ TokenLife \in Nat /\ TokenLife # 0 /\ CacheLife \in Nat /\ CacheLife = 1000 * TokenLife
        /\ MaxRequests \in Nat
<1>1. TypeOK
  BY DEF Inv
<1>2. /\ minted \in Nat /\ minted <= MaxRequests /\ now \in Nat /\ redisErrors \in Nat
      /\ (1..minted) \subseteq Tokens /\ 0 \in Tokens
      /\ \A t \in Tokens : madeAt[t] \in Nat
      /\ MaxRequests \in Nat
  BY <1>1, BoundAssumption DEF TypeOK
<1>3. \A h \in Handlers : /\ req[h].token \in Tokens /\ req[h].new \in Tokens
                          /\ req[h].device \in Devices
  BY <1>1, Parts DEF Request
<1>4. \A c \in Clients : /\ cookies[c].token \in Tokens /\ cookies[c].of \in Devices
                         /\ cookies[c].device \in Devices /\ cookies[c].deviceUntil \in Nat
  BY <1>1, Parts DEF Cookie
<1>5. \A d \in Devices : rows[d].token \in Tokens /\ rows[d].expiresAt \in Nat
  BY <1>1, Parts DEF Row
<1>6. /\ \A d \in Devices, t \in Tokens : cached[d][t] \in Nat
      /\ TokenLife \in Nat /\ TokenLife # 0 /\ CacheLife \in Nat /\ CacheLife = 1000 * TokenLife
  BY <1>1, Parts, LifeAssumption
<1>. QED
  BY <1>2, <1>3, <1>4, <1>5, <1>6

LEMMA NextParts == ASSUME Inv' PROVE
        /\ minted' \in Nat /\ redisErrors' \in Nat
        /\ (1..minted') \subseteq Tokens
        /\ \A t \in Tokens : madeAt'[t] \in Nat
        /\ \A d \in Devices : rows'[d].token \in Tokens /\ rows'[d].expiresAt \in Nat
        /\ \A d \in Devices, t \in Tokens : cached'[d][t] \in Nat
<1>1. TypeOK'
  BY DEF Inv
<1>a. minted' \in Tokens /\ madeAt' \in [Tokens -> Nat] /\ {requests, redisErrors, lost}' \subseteq Nat
  BY <1>1 DEF TypeOK
<1>2. /\ minted' \in Nat /\ redisErrors' \in Nat
      /\ (1..minted') \subseteq Tokens
      /\ \A t \in Tokens : madeAt'[t] \in Nat
  BY <1>a, BoundAssumption
<1>3. \A d \in Devices : rows'[d].token \in Tokens /\ rows'[d].expiresAt \in Nat
  BY <1>1 DEF TypeOK, Row
<1>4. \A d \in Devices, t \in Tokens : cached'[d][t] \in Nat
  BY <1>1 DEF TypeOK
<1>. QED
  BY <1>2, <1>3, <1>4

\* Tokens that a device had not replaced are still from then on.
LEMMA SinceKept ==
    ASSUME Inv, Inv', Grows, UNCHANGED now, NEW d \in Devices, NEW i \in Int, i <= now, Since(d, i)
    PROVE  SinceNext(d, i)
<1> SUFFICES ASSUME NEW t \in 1..minted' PROVE <<d, t>> \in superseded' \/ madeAt'[t] >= i
  BY DEF SinceNext
<1>1. minted \in Nat /\ minted' \in Nat /\ t \in Nat /\ now \in Nat
  BY FreshParts, NextParts
<1>2. CASE t > minted
  BY <1>1, <1>2 DEF Grows
<1>3. CASE t <= minted
  <2>1. t \in 1..minted
    BY <1>1, <1>3
  <2>. QED
    BY <2>1 DEF Grows, Since
<1>. QED
  BY <1>1, <1>2, <1>3

\* The ages of tokens, copies and rows.
LEMMA AgesKept ==
    ASSUME Inv, Inv', FreshInv, Grows, CopiesMade, RowsMade, UNCHANGED now
    PROVE  MadeBefore' /\ CopiesFresh' /\ RowsFresh'
<1>0. /\ minted \in Nat /\ minted' \in Nat /\ now \in Nat /\ minted <= minted'
      /\ TokenLife \in Nat /\ CacheLife \in Nat
      /\ (1..minted) \subseteq (1..minted')
      /\ \A t \in Tokens : madeAt[t] \in Nat /\ madeAt'[t] \in Nat
      /\ \A d \in Devices, t \in Tokens : cached[d][t] \in Nat /\ cached'[d][t] \in Nat
      /\ \A d \in Devices : /\ rows[d].token \in Tokens /\ rows[d].expiresAt \in Nat
                            /\ rows'[d].token \in Tokens /\ rows'[d].expiresAt \in Nat
  BY FreshParts, NextParts DEF Grows
<1>1. MadeBefore'
  <2> SUFFICES ASSUME NEW t \in 1..minted' PROVE madeAt'[t] <= now
    BY DEF MadeBefore
  <2>1. CASE t > minted
    BY <1>0, <2>1 DEF Grows
  <2>2. CASE t \in 1..minted
    BY <1>0, <2>2 DEF Grows, FreshInv, MadeBefore
  <2>. QED
    BY <1>0, <2>1, <2>2
<1>2. CopiesFresh'
  <2> SUFFICES ASSUME NEW d \in Devices, NEW t \in Tokens, t # 0, cached'[d][t] # 0
               PROVE  t <= minted' /\ cached'[d][t] >= madeAt'[t] + CacheLife
    BY DEF CopiesFresh, CacheLife
  <2>1. CASE cached'[d][t] = cached[d][t]
    <3>1. t <= minted /\ cached[d][t] >= madeAt[t] + CacheLife
      BY <2>1 DEF FreshInv, CopiesFresh
    <3>2. t \in 1..minted /\ madeAt'[t] = madeAt[t]
      BY <1>0, <3>1 DEF Grows
    <3>. QED
      BY <1>0, <2>1, <3>1, <3>2
  <2>2. CASE t <= minted /\ cached'[d][t] = now + CacheLife
    <3>1. t \in 1..minted'
      BY <1>0, <2>2
    <3>2. madeAt'[t] <= now
      BY <1>1, <3>1 DEF MadeBefore
    <3>. QED
      BY <1>0, <2>2, <3>2
  <2>. QED
    BY <2>1, <2>2 DEF CopiesMade
<1>3. RowsFresh'
  <2> SUFFICES ASSUME NEW d \in Devices, rows'[d].token # 0
               PROVE  /\ rows'[d].token <= minted'
                      /\ rows'[d].expiresAt >= madeAt'[rows'[d].token] + TokenLife
    BY DEF RowsFresh
  <2>1. CASE rows'[d] = rows[d]
    <3>1. rows[d].token <= minted /\ rows[d].expiresAt >= madeAt[rows[d].token] + TokenLife
      BY <2>1 DEF FreshInv, RowsFresh
    <3>2. rows[d].token \in 1..minted
      BY <1>0, <2>1, <3>1
    <3>. QED
      BY <1>0, <2>1, <3>1, <3>2 DEF Grows
  <2>2. CASE rows'[d] = NoRow
    BY <2>2 DEF NoRow
  <2>3. CASE rows'[d].token <= minted' /\ rows'[d].expiresAt = now + TokenLife
    <3>1. rows'[d].token \in 1..minted'
      BY <1>0, <2>3
    <3>2. madeAt'[rows'[d].token] <= now
      BY <1>1, <3>1 DEF MadeBefore
    <3>. QED
      BY <1>0, <2>3, <3>2
  <2>. QED
    BY <2>1, <2>2, <2>3 DEF RowsMade
<1>. QED
  BY <1>1, <1>2, <1>3

\* A browser that a step leaves alone keeps a deviceId cookie that is no older
\* than the last sign-in of its device.
LEMMA DeviceKept ==
    ASSUME Inv, Inv', Grows, UNCHANGED now, NEW c \in Clients, DevicesFresh,
           cookies'[c].device = cookies[c].device,
           cookies'[c].deviceUntil = cookies[c].deviceUntil,
           cookies[c].device # 0
    PROVE  /\ now < cookies'[c].deviceUntil /\ cookies'[c].deviceUntil <= now + TokenLife
           /\ SinceNext(cookies'[c].device, cookies'[c].deviceUntil - TokenLife)
<1> DEFINE d == cookies[c].device
           i == cookies[c].deviceUntil - TokenLife
<1>1. /\ d \in Devices /\ cookies[c].deviceUntil \in Nat /\ TokenLife \in Nat /\ now \in Nat
      /\ i \in Int
  BY FreshParts
<1>2. /\ now < cookies[c].deviceUntil /\ cookies[c].deviceUntil <= now + TokenLife
      /\ Since(d, i)
  BY DEF DevicesFresh
<1>3. i <= now
  BY <1>1, <1>2
<1> HIDE DEF d, i
<1>4. SinceNext(d, i)
  BY <1>1, <1>2, <1>3, SinceKept DEF d
<1>5. /\ now < cookies'[c].deviceUntil /\ cookies'[c].deviceUntil <= now + TokenLife
  BY <1>2
<1>6. SinceNext(cookies'[c].device, cookies'[c].deviceUntil - TokenLife)
  BY <1>4 DEF d, i
<1>. QED
  BY <1>5, <1>6

\* A step of a request keeps the ages and the sessions.
LEMMA OneRequest ==
    ASSUME Inv, Inv', FreshInv, SessionInv, NEW h \in Handlers, NEW r \in Request, StepOf(h, r)
    PROVE  FreshInv' /\ SessionInv'
<1>0. /\ req' = [req EXCEPT ![h] = r] /\ now' = now /\ cookies' = cookies
      /\ Grows /\ CopiesMade /\ RowsMade
      /\ r.token <= minted' /\ r.new <= minted'
      /\ r.pc = "signedIn" => SinceNext(r.device, now)
      /\ redisErrors' = 0 => redisErrors = 0 /\ StoreKept /\ KnownRequest(h)'
  BY DEF StepOf
<1>1. /\ req \in [Handlers -> Request]
      /\ \A g \in Handlers : req'[g] = IF g = h THEN r ELSE req[g]
  BY <1>0 DEF Inv, TypeOK
<1>2. MadeBefore' /\ CopiesFresh' /\ RowsFresh'
  BY <1>0, AgesKept
<1>3. TokensMinted'
  <2>1. /\ minted \in Nat /\ minted' \in Nat /\ minted <= minted'
        /\ \A g \in Handlers : /\ req[g].token \in Nat /\ req[g].token <= minted
                              /\ req[g].new \in Nat /\ req[g].new <= minted
        /\ \A c \in Clients : cookies[c].token \in Nat /\ cookies[c].token <= minted
    BY <1>0, FreshParts, NextParts DEF Grows, FreshInv, TokensMinted
  <2>. QED
    BY <1>0, <1>1, <2>1 DEF TokensMinted
<1>4. DevicesFresh'
  <2>1. ASSUME NEW g \in Handlers, req'[g].pc = "signedIn" PROVE SinceNext(req'[g].device, now)
    <3>1. CASE g = h
      BY <1>0, <1>1, <2>1, <3>1
    <3>2. CASE g # h
      <4>1. req'[g] = req[g] /\ Since(req[g].device, now)
        BY <1>1, <2>1, <3>2 DEF FreshInv, DevicesFresh
      <4>2. req[g].device \in Devices /\ now \in Int /\ now <= now
        BY FreshParts
      <4>. QED
        BY <1>0, <4>1, <4>2, SinceKept
    <3>. QED
      BY <3>1, <3>2
  <2>2. ASSUME NEW c \in Clients, cookies'[c].device # 0
        PROVE  /\ now < cookies'[c].deviceUntil /\ cookies'[c].deviceUntil <= now + TokenLife
               /\ SinceNext(cookies'[c].device, cookies'[c].deviceUntil - TokenLife)
    BY <1>0, <2>2, DeviceKept DEF FreshInv
  <2>. QED
    BY <1>0, <2>1, <2>2 DEF DevicesFresh, Since, SinceNext
<1>5. SessionInv'
  <2> SUFFICES ASSUME redisErrors' = 0 PROVE RequestKnown' /\ CookieKnown'
    BY DEF SessionInv
  <2>1. redisErrors = 0 /\ StoreKept /\ KnownRequest(h)' /\ RequestKnown /\ CookieKnown
    BY <1>0 DEF SessionInv
  <2>2. ASSUME NEW g \in Handlers PROVE KnownRequest(g)'
    <3>1. CASE g # h
      <4>1. req'[g] = req[g] /\ KnownRequest(g)
        BY <1>1, <2>1, <3>1 DEF RequestKnown
      <4>2. req[g].device \in Devices /\ req[g].token \in Tokens /\ req[g].new \in Tokens
        BY FreshParts
      <4>3. /\ Known(req[g].device, req[g].token) => Known(req[g].device, req[g].token)'
            /\ Known(req[g].device, req[g].new) => Known(req[g].device, req[g].new)'
            /\ superseded \subseteq superseded'
        BY <1>0, <2>1, <4>1, <4>2 DEF StoreKept, Grows, Known
      <4>. QED
        BY <4>1, <4>3 DEF KnownRequest, Known
    <3>. QED
      BY <2>1, <3>1
  <2>3. ASSUME NEW c \in Clients PROVE Known(cookies[c].of, cookies[c].token)'
    <3>1. cookies[c].of \in Devices /\ cookies[c].token \in Tokens
      BY FreshParts
    <3>. QED
      BY <1>0, <2>1, <3>1 DEF StoreKept, CookieKnown, Known
  <2>. QED
    BY <2>2, <2>3 DEF RequestKnown, CookieKnown
<1>. QED
  BY <1>2, <1>3, <1>4, <1>5 DEF FreshInv

-----------------------------------------------------------------------------
(* The steps of requests.                                                    *)

\* A step that makes no token.
LEMMA NoneMade ==
    ASSUME Inv, UNCHANGED <<minted, madeAt>>, superseded \subseteq superseded'
    PROVE  Grows
BY FreshParts DEF Grows

\* A step that makes token t.
LEMMA OneMade ==
    ASSUME Inv, NEW t \in Tokens, Mint(t), superseded \subseteq superseded'
    PROVE  /\ Grows /\ minted' = t /\ t # 0 /\ madeAt'[t] = now
           /\ \A u \in (1..minted') \ {t} : u \in 1..minted /\ madeAt'[u] = madeAt[u]
<1>1. /\ minted \in Nat /\ t \in Nat /\ t # 0 /\ minted' = t
      /\ t = minted + 1 \/ (t = minted /\ madeAt[t] = now)
      /\ madeAt' = [madeAt EXCEPT ![t] = now]
      /\ (1..minted) \subseteq Tokens
  BY FreshParts DEF Mint
<1>2. madeAt \in [Tokens -> Nat]
  BY DEF Inv, TypeOK
<1>3. \A u \in Tokens : madeAt'[u] = IF u = t THEN now ELSE madeAt[u]
  BY <1>1, <1>2
<1>4. \A u \in 1..minted : madeAt'[u] = madeAt[u]
  BY <1>1, <1>3
<1>5. \A u \in (1..minted') \ {t} : u \in 1..minted
  BY <1>1
<1>6. \A u \in 1..minted' : u > minted => u = t
  BY <1>1
<1>7. madeAt'[t] = now
  BY <1>3
<1>. QED
  BY <1>1, <1>4, <1>5, <1>6, <1>7 DEF Grows

\* A sign-in: the older tokens of its device are replaced.
LEMMA SignInStep ==
    ASSUME Inv, Inv', FreshInv, NEW h \in Handlers, NEW c \in Clients \cup {Nobody},
           NEW d \in Devices, NEW t \in Tokens, SignIn(h, c, d, t)
    PROVE  \E r \in Request : StepOf(h, r)
<1> DEFINE r == [Idle EXCEPT !.pc = "signedIn", !.client = c, !.device = d, !.new = t]
           old == {v \in (1..minted) \ {t} : v = rows[d].token \/ madeAt[v] < now}
<1>0. 0 \in Tokens /\ minted' \in Nat /\ now \in Nat
  BY FreshParts, NextParts
<1>1. /\ r \in Request /\ r.pc = "signedIn" /\ r.token = 0 /\ r.new = t /\ r.device = d
  BY <1>0 DEF Idle, Request
<1>2. /\ req' = [req EXCEPT ![h] = r]
      /\ Mint(t)
      /\ rows' = [rows EXCEPT ![d] = NewRow(t)]
      /\ superseded' = superseded \cup {<<d, u>> : u \in old}
      /\ UNCHANGED <<cached, cookies, now, redisErrors>>
  BY DEF SignIn, PutRow
<1> HIDE DEF r
<1>3. /\ Grows /\ minted' = t /\ t # 0 /\ madeAt'[t] = now
      /\ \A u \in (1..minted') \ {t} : u \in 1..minted /\ madeAt'[u] = madeAt[u]
  BY <1>2, OneMade
<1>4. CopiesMade
  BY <1>2 DEF CopiesMade
<1>5. \A e \in Devices : rows'[e] = IF e = d THEN NewRow(t) ELSE rows[e]
  BY <1>2 DEF Inv, TypeOK
<1>6. NewRow(t).token = t /\ NewRow(t).expiresAt = now + TokenLife
  BY DEF NewRow
<1>7. RowsMade
  BY <1>0, <1>3, <1>5, <1>6 DEF RowsMade
<1>8. SinceNext(d, now)
  <2> SUFFICES ASSUME NEW u \in 1..minted' PROVE <<d, u>> \in superseded' \/ madeAt'[u] >= now
    BY DEF SinceNext
  <2>1. CASE u = t
    BY <1>0, <1>3, <2>1
  <2>2. CASE u # t
    <3>1. u \in (1..minted) \ {t} /\ madeAt'[u] = madeAt[u]
      BY <1>3, <2>2
    <3>2. madeAt[u] \in Nat
      BY <3>1, FreshParts
    <3>3. CASE madeAt[u] < now
      BY <1>2, <3>1, <3>3
    <3>. QED
      BY <1>0, <3>1, <3>2, <3>3
  <2>. QED
    BY <2>1, <2>2
<1>9. StoreKept
  <2> SUFFICES ASSUME NEW e \in Devices, NEW u \in Tokens, u # 0, rows[e].token = u
               PROVE  <<e, u>> \in superseded' \/ rows'[e].token = u
    BY <1>2 DEF StoreKept, Known
  <2>1. CASE e # d
    BY <1>5, <2>1
  <2>2. CASE e = d /\ u = t
    BY <1>5, <1>6, <2>2
  <2>3. CASE e = d /\ u # t
    <3>1. u \in 1..minted
      BY FreshParts DEF FreshInv, RowsFresh
    <3>. QED
      BY <1>2, <2>3, <3>1
  <2>. QED
    BY <2>1, <2>2, <2>3
<1>10. KnownRequest(h)'
  <2>1. req'[h] = r
    BY <1>2 DEF Inv, TypeOK
  <2>2. rows'[d].token = t
    BY <1>5, <1>6
  <2>. QED
    BY <1>1, <2>1, <2>2 DEF KnownRequest, Known
<1>11. r.token <= minted' /\ r.new <= minted'
  BY <1>0, <1>1, <1>3
<1>12. StepOf(h, r)
  BY <1>1, <1>2, <1>3, <1>4, <1>7, <1>8, <1>9, <1>10, <1>11 DEF StepOf
<1>. QED
  BY <1>1, <1>12

\* A step that leaves the store alone.
LEMMA StoreAlone ==
    ASSUME Inv, UNCHANGED <<rows, cached, minted, madeAt, superseded>>
    PROVE  Grows /\ CopiesMade /\ RowsMade /\ StoreKept
<1>1. Grows
  BY NoneMade
<1>2. CopiesMade /\ RowsMade /\ StoreKept
  BY DEF CopiesMade, RowsMade, StoreKept, Known
<1>. QED
  BY <1>1, <1>2

\* A request that is over.
LEMMA OverStep ==
    ASSUME Inv, NEW h \in Handlers, req' = [req EXCEPT ![h] = Idle],
           UNCHANGED <<rows, cached, minted, madeAt, superseded, now, cookies, redisErrors>>
    PROVE  StepOf(h, Idle)
<1>1. Grows /\ CopiesMade /\ RowsMade /\ StoreKept
  BY StoreAlone
<1>2. Idle.pc = "idle" /\ Idle.token = 0 /\ Idle.new = 0
  BY DEF Idle
<1>3. req'[h] = Idle
  BY DEF Inv, TypeOK
<1>4. KnownRequest(h)'
  BY <1>2, <1>3 DEF KnownRequest
<1>5. minted \in Nat /\ minted' = minted
  BY FreshParts
<1>. QED
  BY <1>1, <1>2, <1>4, <1>5 DEF StepOf

\* register and login.
LEMMA SignInSteps ==
    ASSUME Inv, Inv', FreshInv, NEW h \in Handlers
    PROVE  /\ \A c \in Clients : Register(h, c) \/ Login(h, c) => \E r \in Request : StepOf(h, r)
           /\ LoginUpdate(h) \/ LoginFails(h) \/ LoginCreate(h) => \E r \in Request : StepOf(h, r)
<1>0. req[h].client \in Clients \cup {Nobody} /\ req[h].device \in Devices
  BY Parts DEF Inv, Request
<1>1. ASSUME NEW c \in Clients, Register(h, c) PROVE \E r \in Request : StepOf(h, r)
  <2>1. devices' = devices + 1 /\ devices' \in Devices
    BY <1>1 DEF Register, Inv, TypeOK
  <2>2. PICK t \in Tokens : SignIn(h, c, devices + 1, t)
    BY <1>1 DEF Register
  <2>. QED
    BY <2>1, <2>2, SignInStep
<1>2. ASSUME NEW c \in Clients, Login(h, c) PROVE \E r \in Request : StepOf(h, r)
  <2> DEFINE r == [Idle EXCEPT !.pc = "write", !.client = c, !.device = cookies[c].device,
                               !.found = rows[cookies[c].device] # NoRow]
  <2>1. cookies[c].device \in Devices /\ 0 \in Tokens /\ minted \in Nat
    BY FreshParts
  <2>2. r \in Request /\ r.pc = "write" /\ r.token = 0 /\ r.new = 0
    BY <2>1 DEF Idle, Request
  <2>3. /\ req' = [req EXCEPT ![h] = r]
        /\ UNCHANGED <<rows, cached, minted, madeAt, superseded, now, cookies, redisErrors>>
    BY <1>2 DEF Login, store
  <2> HIDE DEF r
  <2>4. Grows /\ CopiesMade /\ RowsMade /\ StoreKept
    BY <2>3, StoreAlone
  <2>5. KnownRequest(h)'
    <3>1. req'[h] = r
      BY <2>3 DEF Inv, TypeOK
    <3>. QED
      BY <2>2, <3>1 DEF KnownRequest
  <2>6. r.token <= minted' /\ r.new <= minted'
    BY <2>1, <2>2, <2>3
  <2>7. StepOf(h, r)
    BY <2>2, <2>3, <2>4, <2>5, <2>6 DEF StepOf
  <2>. QED
    BY <2>2, <2>7
<1>3. ASSUME LoginUpdate(h) PROVE \E r \in Request : StepOf(h, r)
  <2>1. PICK t \in Tokens : SignIn(h, req[h].client, req[h].device, t)
    BY <1>3 DEF LoginUpdate
  <2>. QED
    BY <1>0, <2>1, SignInStep
<1>4. ASSUME LoginFails(h) PROVE \E r \in Request : StepOf(h, r)
  BY <1>4, OverStep, IdleTyped DEF LoginFails, store
<1>5. ASSUME LoginCreate(h) PROVE \E r \in Request : StepOf(h, r)
  <2>1. devices' = devices + 1 /\ devices' \in Devices
    BY <1>5 DEF LoginCreate, Inv, TypeOK
  <2>2. PICK t \in Tokens : SignIn(h, req[h].client, devices + 1, t)
    BY <1>5 DEF LoginCreate
  <2>. QED
    BY <1>0, <2>1, <2>2, SignInStep
<1>. QED
  BY <1>1, <1>2, <1>3, <1>4, <1>5

\* The request that Send starts.
LEMMA SendStarts ==
    ASSUME Inv, FreshInv, NEW h \in Handlers, NEW c \in Clients,
           NEW pc \in {"find", "ttl", "signedOut", "signedOutAll"}, Send(h, c, pc)
    PROVE  \E r \in Request : /\ req' = [req EXCEPT ![h] = r] /\ req'[h] = r
                             /\ r.pc = pc /\ r.token = cookies[c].token
                             /\ r.device = cookies[c].device /\ r.new = 0
                             /\ r.token <= minted /\ r.new <= minted
<1> DEFINE r == [Idle EXCEPT !.pc = pc, !.client = c,
                             !.token = cookies[c].token, !.device = cookies[c].device]
<1>1. /\ cookies[c].token \in Tokens /\ cookies[c].device \in Devices /\ 0 \in Tokens
      /\ minted \in Nat
  BY FreshParts
<1>2. /\ r \in Request /\ r.pc = pc /\ r.token = cookies[c].token
      /\ r.device = cookies[c].device /\ r.new = 0
  BY <1>1 DEF Idle, Request
<1>3. req' = [req EXCEPT ![h] = r]
  BY DEF Send
<1> HIDE DEF r
<1>4. req'[h] = r
  BY <1>3 DEF Inv, TypeOK
<1>5. r.token <= minted /\ r.new <= minted
  BY <1>1, <1>2 DEF FreshInv, TokensMinted
<1>. QED
  BY <1>2, <1>3, <1>4, <1>5

\* Rows that are deleted are replaced.
LEMMA DropKeeps ==
    ASSUME Inv, NEW D \in SUBSET Devices, DropRows(D), UNCHANGED <<cached, minted, madeAt>>
    PROVE  Grows /\ CopiesMade /\ RowsMade /\ StoreKept
<1>1. /\ superseded \subseteq superseded'
      /\ \A d \in Devices : rows'[d] = IF d \in D THEN NoRow ELSE rows[d]
      /\ \A d \in D : rows[d] # NoRow => <<d, rows[d].token>> \in superseded'
  BY DEF DropRows
<1>2. Grows
  BY <1>1, NoneMade
<1>3. CopiesMade /\ RowsMade
  BY <1>1 DEF CopiesMade, RowsMade
<1>4. StoreKept
  <2> SUFFICES ASSUME NEW d \in Devices, NEW t \in Tokens, t # 0, rows[d].token = t
               PROVE  <<d, t>> \in superseded' \/ rows'[d].token = t
    BY <1>1 DEF StoreKept, Known
  <2>1. rows[d] # NoRow
    BY DEF NoRow
  <2>. QED
    BY <1>1, <2>1
<1>. QED
  BY <1>2, <1>3, <1>4

\* logout and the first step of refresh.
LEMMA SendSteps ==
    ASSUME Inv, Inv', FreshInv, NEW h \in Handlers, NEW c \in Clients
    PROVE  Logout(h, c) \/ LogoutAllDevices(h, c) \/ CacheGet(h, c)
               => \E r \in Request : StepOf(h, r)
<1>1. ASSUME NEW pc \in {"signedOut", "signedOutAll"}, Send(h, c, pc),
             NEW D \in SUBSET Devices, DropRows(D),
             UNCHANGED <<cached, cookies, minted, madeAt, now, redisErrors>>
      PROVE  \E r \in Request : StepOf(h, r)
  <2>1. PICK r \in Request : /\ req' = [req EXCEPT ![h] = r] /\ req'[h] = r
                             /\ r.pc = pc /\ r.token = cookies[c].token
                             /\ r.device = cookies[c].device /\ r.new = 0
                             /\ r.token <= minted /\ r.new <= minted
    BY <1>1, SendStarts
  <2>2. Grows /\ CopiesMade /\ RowsMade /\ StoreKept
    BY <1>1, DropKeeps
  <2>3. KnownRequest(h)'
    BY <1>1, <2>1 DEF KnownRequest
  <2>4. StepOf(h, r)
    BY <1>1, <2>1, <2>2, <2>3 DEF StepOf
  <2>. QED
    BY <2>4
<1>2. ASSUME Logout(h, c) PROVE \E r \in Request : StepOf(h, r)
  <2>1. \E D \in SUBSET Devices : DropRows(D)
    BY <1>2 DEF Logout
  <2>. QED
    BY <1>1, <1>2, <2>1 DEF Logout
<1>3. ASSUME LogoutAllDevices(h, c) PROVE \E r \in Request : StepOf(h, r)
  <2>1. Devices \in SUBSET Devices /\ DropRows(Devices)
    BY <1>3 DEF LogoutAllDevices
  <2>. QED
    BY <1>1, <1>3, <2>1 DEF LogoutAllDevices
<1>4. ASSUME CacheGet(h, c) PROVE \E r \in Request : StepOf(h, r)
  <2>0. UNCHANGED <<rows, cached, minted, madeAt, superseded, now, cookies>>
    BY <1>4 DEF CacheGet, store
  <2>1. redisErrors \in Nat
    BY FreshParts
  <2>2. PICK pc \in {"find", "ttl"} :
           /\ Send(h, c, pc)
           /\ pc = "ttl" => Hit(cookies[c].device, cookies[c].token)
           /\ redisErrors' = 0 => redisErrors = 0
    BY <1>4, <2>1 DEF CacheGet, RedisFails
  <2>3. PICK r \in Request : /\ req' = [req EXCEPT ![h] = r] /\ req'[h] = r
                             /\ r.pc = pc /\ r.token = cookies[c].token
                             /\ r.device = cookies[c].device /\ r.new = 0
                             /\ r.token <= minted /\ r.new <= minted
    BY <2>2, SendStarts
  <2>4. Grows /\ CopiesMade /\ RowsMade /\ StoreKept
    BY <2>0, StoreAlone
  <2>5. KnownRequest(h)'
    <3>1. pc = "ttl" => cached'[r.device][r.token] # 0
      <4>1. now \in Nat
        BY FreshParts
      <4>. QED
        BY <2>0, <2>2, <2>3, <4>1 DEF Hit
    <3>. QED
      BY <2>2, <2>3, <3>1 DEF KnownRequest, Known
  <2>6. StepOf(h, r)
    BY <2>0, <2>2, <2>3, <2>4, <2>5 DEF StepOf
  <2>. QED
    BY <2>6
<1>. QED
  BY <1>2, <1>3, <1>4

\* What SetKey does to the copies: that of d and t is there afterwards.
LEMMA SetKeyKeeps ==
    ASSUME Inv, Inv', NEW d \in Devices, NEW t \in Tokens, t <= minted, SetKey(d, t),
           UNCHANGED <<rows, minted, madeAt, superseded, now>>
    PROVE  /\ Grows /\ CopiesMade /\ RowsMade
           /\ redisErrors' = 0 => redisErrors = 0 /\ StoreKept /\ Known(d, t)'
<1>0. redisErrors \in Nat /\ now \in Nat /\ CacheLife \in Nat /\ CacheLife # 0
  BY FreshParts
<1>1. Grows
  BY NoneMade
<1>2. CASE cached' = [cached EXCEPT ![d][t] = now + CacheLife] /\ redisErrors' = redisErrors
  <2>1. \A e \in Devices, u \in Tokens :
           cached'[e][u] = IF e = d /\ u = t THEN now + CacheLife ELSE cached[e][u]
    BY <1>2 DEF Inv, TypeOK
  <2>2. now + CacheLife # 0
    BY <1>0
  <2>3. CopiesMade
    BY <2>1 DEF CopiesMade
  <2>4. RowsMade
    BY DEF RowsMade
  <2>5. StoreKept
    BY <2>1, <2>2 DEF StoreKept, Known
  <2>6. Known(d, t)'
    BY <2>1, <2>2 DEF Known
  <2>. QED
    BY <1>1, <1>2, <2>3, <2>4, <2>5, <2>6
<1>3. CASE cached' = cached /\ redisErrors' = redisErrors + 1
  <2>1. redisErrors' # 0
    BY <1>0, <1>3
  <2>. QED
    BY <1>1, <1>3, <2>1 DEF CopiesMade, RowsMade
<1>. QED
  BY <1>2, <1>3 DEF SetKey, RedisFails

\* A request that goes on.
LEMMA GoesOn ==
    ASSUME Inv, FreshInv, NEW h \in Handlers,
           NEW pc \in {"set", "ttl", "del", "setNew", "refreshed"}, Goto(h, pc),
           minted' = minted
    PROVE  \E r \in Request : /\ req' = [req EXCEPT ![h] = r] /\ req'[h] = r
                             /\ r.pc = pc /\ r.token = req[h].token
                             /\ r.device = req[h].device /\ r.new = req[h].new
                             /\ r.token <= minted' /\ r.new <= minted'
<1> DEFINE r == [req[h] EXCEPT !.pc = pc]
<1>1. req \in [Handlers -> Request] /\ req[h] \in Request
  BY DEF Inv, TypeOK
<1>2. /\ r \in Request /\ r.pc = pc /\ r.token = req[h].token
      /\ r.device = req[h].device /\ r.new = req[h].new
  BY <1>1 DEF Request
<1>3. req' = [req EXCEPT ![h] = r]
  BY DEF Goto
<1> HIDE DEF r
<1>4. req'[h] = r
  BY <1>1, <1>3
<1>5. r.token <= minted' /\ r.new <= minted'
  BY <1>2 DEF FreshInv, TokensMinted
<1>. QED
  BY <1>2, <1>3, <1>4, <1>5

\* The other steps of refresh.
LEMMA RefreshSteps ==
    ASSUME Inv, Inv', FreshInv, SessionInv, NEW h \in Handlers, Refresh(h)
    PROVE  \E r \in Request : StepOf(h, r)
<1>0. /\ req \in [Handlers -> Request] /\ req[h] \in Request /\ req[h].device \in Devices
      /\ req[h].token \in Tokens /\ req[h].new \in Tokens
      /\ req[h].token <= minted /\ req[h].new <= minted
      /\ redisErrors \in Nat /\ minted \in Nat /\ now \in Nat
      /\ redisErrors = 0 => KnownRequest(h)
  <2>1. req \in [Handlers -> Request] /\ req[h] \in Request
    BY Zenon DEF Inv, TypeOK
  <2>2. req[h].token <= minted /\ req[h].new <= minted
    BY DEF FreshInv, TokensMinted
  <2>3. redisErrors = 0 => KnownRequest(h)
    BY DEF SessionInv, RequestKnown
  <2>. QED
    BY <2>1, <2>2, <2>3, FreshParts
<1>1. ASSUME FindRow(h) PROVE \E r \in Request : StepOf(h, r)
  <2>1. UNCHANGED <<rows, cached, minted, madeAt, superseded, now, cookies, redisErrors>>
    BY <1>1 DEF FindRow, store
  <2>2. CASE Goto(h, "set")
    <3>1. PICK r \in Request : /\ req' = [req EXCEPT ![h] = r] /\ req'[h] = r
                               /\ r.pc = "set" /\ r.token <= minted' /\ r.new <= minted'
      BY <2>1, <2>2, GoesOn
    <3>2. Grows /\ CopiesMade /\ RowsMade /\ StoreKept
      BY <2>1, StoreAlone
    <3>3. KnownRequest(h)'
      BY <3>1 DEF KnownRequest
    <3>4. StepOf(h, r)
      BY <2>1, <3>1, <3>2, <3>3 DEF StepOf
    <3>. QED
      BY <3>4
  <2>3. CASE req' = [req EXCEPT ![h] = Idle]
    BY <2>1, <2>3, OverStep, IdleTyped
  <2>. QED
    BY <1>1, <2>2, <2>3 DEF FindRow
<1>2. ASSUME CacheSet(h) PROVE \E r \in Request : StepOf(h, r)
  <2>1. /\ SetKey(req[h].device, req[h].token) /\ Goto(h, "ttl")
        /\ UNCHANGED <<rows, minted, madeAt, superseded, now, cookies>>
    BY <1>2 DEF CacheSet
  <2>2. PICK r \in Request : /\ req' = [req EXCEPT ![h] = r] /\ req'[h] = r
                             /\ r.pc = "ttl" /\ r.token = req[h].token
                             /\ r.device = req[h].device
                             /\ r.token <= minted' /\ r.new <= minted'
    BY <2>1, GoesOn
  <2>a. /\ r.device \in Devices /\ r.token \in Tokens /\ r.token <= minted
        /\ SetKey(r.device, r.token)
    BY <1>0, <2>1, <2>2
  <2>3. /\ Grows /\ CopiesMade /\ RowsMade
        /\ redisErrors' = 0 => redisErrors = 0 /\ StoreKept /\ Known(r.device, r.token)'
    BY <2>1, <2>a, SetKeyKeeps
  <2>4. redisErrors' = 0 => KnownRequest(h)'
    BY <2>2, <2>3 DEF KnownRequest, Known
  <2>5. StepOf(h, r)
    BY <2>1, <2>2, <2>3, <2>4 DEF StepOf
  <2>. QED
    BY <2>5
<1>3. ASSUME CacheTTL(h) PROVE \E r \in Request : StepOf(h, r)
  <2> DEFINE r == [req[h] EXCEPT !.pc = "refreshed", !.new = req[h].token]
  <2>1. /\ r \in Request /\ r.pc = "refreshed" /\ r.token = req[h].token
        /\ r.new = req[h].token /\ r.device = req[h].device
    BY <1>0 DEF Request
  <2>a. req' = [req EXCEPT ![h] = r]
    BY <1>0, <1>3 DEF CacheTTL
  <2>b. redisErrors' = 0 => redisErrors = 0
    <3>1. redisErrors' = redisErrors \/ redisErrors' = redisErrors + 1
      BY <1>3 DEF CacheTTL, RedisFails
    <3>. QED
      BY <1>0, <3>1
  <2>c. /\ req[h].pc = "ttl"
        /\ UNCHANGED <<rows, cached, minted, madeAt, superseded, now, cookies>>
    BY <1>3 DEF CacheTTL, store
  <2>2. /\ req[h].pc = "ttl"
        /\ req' = [req EXCEPT ![h] = r]
        /\ redisErrors' = 0 => redisErrors = 0
        /\ UNCHANGED <<rows, cached, minted, madeAt, superseded, now, cookies>>
    BY <2>a, <2>b, <2>c
  <2> HIDE DEF r
  <2>3. Grows /\ CopiesMade /\ RowsMade /\ StoreKept
    BY <2>2, StoreAlone
  <2>4. req'[h] = r
    BY <1>0, <2>2
  <2>5. redisErrors' = 0 => KnownRequest(h)'
    <3>1. redisErrors' = 0 => Known(req[h].device, req[h].token)
      BY <1>0, <2>2 DEF KnownRequest
    <3>. QED
      BY <2>1, <2>2, <2>4, <3>1 DEF KnownRequest, Known
  <2>6. StepOf(h, r)
    BY <1>0, <2>1, <2>2, <2>3, <2>5 DEF StepOf
  <2>. QED
    BY <2>1, <2>6
<1>4. ASSUME StartRotation(h) PROVE \E r \in Request : StepOf(h, r)
  <2>1. PICK t \in Tokens : Mint(t) /\ req' = [req EXCEPT ![h].pc = "rotate", ![h].new = t]
    BY <1>4 DEF StartRotation
  <2> DEFINE r == [req[h] EXCEPT !.pc = "rotate", !.new = t]
  <2>2. /\ r \in Request /\ r.pc = "rotate" /\ r.token = req[h].token /\ r.new = t
    BY <1>0 DEF Request
  <2>3. /\ req' = [req EXCEPT ![h] = r]
        /\ UNCHANGED <<rows, cached, superseded, now, cookies, redisErrors>>
    BY <1>0, <1>4, <2>1 DEF StartRotation
  <2> HIDE DEF r
  <2>4. Grows /\ minted' = t
    BY <2>1, <2>3, OneMade
  <2>5. CopiesMade /\ RowsMade /\ StoreKept
    BY <2>3 DEF CopiesMade, RowsMade, StoreKept, Known
  <2>6. KnownRequest(h)'
    <3>1. req'[h] = r
      BY <1>0, <2>3
    <3>. QED
      BY <2>2, <3>1 DEF KnownRequest
  <2>7. r.token <= minted' /\ r.new <= minted'
    <3>1. req[h].token \in Nat /\ minted' \in Nat /\ minted <= minted'
      BY <1>0, <2>4, NextParts DEF Grows
    <3>. QED
      BY <1>0, <2>2, <2>4, <3>1
  <2>8. StepOf(h, r)
    BY <2>2, <2>3, <2>4, <2>5, <2>6, <2>7 DEF StepOf
  <2>. QED
    BY <2>2, <2>8
<1>5. ASSUME RotateRow(h) PROVE \E r \in Request : StepOf(h, r)
  <2> DEFINE d == req[h].device
             t == req[h].token
  <2>1. /\ rows' = IF rows[d].token = t THEN [rows EXCEPT ![d] = NewRow(req[h].new)] ELSE rows
        /\ superseded' = superseded \cup {<<d, t>>}
        /\ Goto(h, "del")
        /\ UNCHANGED <<cached, minted, madeAt, now, cookies, redisErrors>>
    BY <1>5 DEF RotateRow
  <2>2. PICK r \in Request : /\ req' = [req EXCEPT ![h] = r] /\ req'[h] = r
                             /\ r.pc = "del" /\ r.token = t /\ r.device = d
                             /\ r.token <= minted' /\ r.new <= minted'
    BY <2>1, GoesOn
  <2>3. Grows
    BY <2>1, NoneMade
  <2>4. CopiesMade
    BY <2>1 DEF CopiesMade
  <2>5. /\ NewRow(req[h].new).token = req[h].new
        /\ NewRow(req[h].new).expiresAt = now + TokenLife
        /\ rows \in [Devices -> Row] /\ d \in Devices
    BY <1>0 DEF NewRow, Inv, TypeOK
  <2>6. RowsMade
    BY <1>0, <2>1, <2>5 DEF RowsMade
  <2>7. StoreKept
    <3> SUFFICES ASSUME NEW e \in Devices, NEW u \in Tokens, u # 0, rows[e].token = u
                 PROVE  <<e, u>> \in superseded' \/ rows'[e].token = u
      BY <2>1 DEF StoreKept, Known
    <3>1. CASE e = d /\ u = t
      BY <2>1, <3>1
    <3>2. CASE ~(e = d /\ u = t)
      BY <2>1, <2>5, <3>2
    <3>. QED
      BY <3>1, <3>2
  <2>8. KnownRequest(h)'
    BY <2>1, <2>2 DEF KnownRequest
  <2>9. StepOf(h, r)
    BY <2>1, <2>2, <2>3, <2>4, <2>6, <2>7, <2>8 DEF StepOf
  <2>. QED
    BY <2>9
<1>6. ASSUME DeleteKey(h) PROVE \E r \in Request : StepOf(h, r)
  <2> DEFINE d == req[h].device
             t == req[h].token
  <2>1. /\ req[h].pc = "del"
        /\ cached' = [cached EXCEPT ![d][t] = 0] \/ cached' = cached
        /\ redisErrors' = 0 => redisErrors = 0
        /\ Goto(h, "setNew")
        /\ UNCHANGED <<rows, minted, madeAt, superseded, now, cookies>>
    BY <1>0, <1>6 DEF DeleteKey, RedisFails
  <2>2. PICK r \in Request : /\ req' = [req EXCEPT ![h] = r] /\ req'[h] = r
                             /\ r.pc = "setNew" /\ r.token <= minted' /\ r.new <= minted'
    BY <2>1, GoesOn
  <2>3. Grows
    BY <2>1, NoneMade
  <2>4. \A e \in Devices, u \in Tokens :
           cached'[e][u] = cached[e][u] \/ (e = d /\ u = t /\ cached'[e][u] = 0)
    <3>1. cached \in [Devices -> [Tokens -> Nat]] /\ d \in Devices /\ t \in Tokens
      BY <1>0 DEF Inv, TypeOK
    <3>2. CASE cached' = cached
      BY <3>2
    <3>3. CASE cached' = [cached EXCEPT ![d][t] = 0]
      <4> HIDE DEF d, t
      <4>1. \A e \in Devices : cached'[e] = IF e = d THEN [cached[e] EXCEPT ![t] = 0] ELSE cached[e]
        BY <3>1, <3>3
      <4>. QED
        BY <3>1, <4>1
    <3>. QED
      BY <2>1, <3>2, <3>3
  <2>5. CopiesMade /\ RowsMade
    BY <2>1, <2>4 DEF CopiesMade, RowsMade
  <2>6. redisErrors = 0 => StoreKept
    <3>1. redisErrors = 0 => <<d, t>> \in superseded
      BY <1>0, <2>1 DEF KnownRequest
    <3>. QED
      BY <2>1, <2>4, <3>1 DEF StoreKept, Known
  <2>7. KnownRequest(h)'
    BY <2>2 DEF KnownRequest
  <2>8. StepOf(h, r)
    BY <2>1, <2>2, <2>3, <2>5, <2>6, <2>7 DEF StepOf
  <2>. QED
    BY <2>8
<1>7. ASSUME SetNewKey(h) PROVE \E r \in Request : StepOf(h, r)
  <2>1. /\ SetKey(req[h].device, req[h].new) /\ Goto(h, "refreshed")
        /\ UNCHANGED <<rows, minted, madeAt, superseded, now, cookies>>
    BY <1>7 DEF SetNewKey
  <2>2. PICK r \in Request : /\ req' = [req EXCEPT ![h] = r] /\ req'[h] = r
                             /\ r.pc = "refreshed" /\ r.new = req[h].new
                             /\ r.device = req[h].device
                             /\ r.token <= minted' /\ r.new <= minted'
    BY <2>1, GoesOn
  <2>a. /\ r.device \in Devices /\ r.new \in Tokens /\ r.new <= minted
        /\ SetKey(r.device, r.new)
    BY <1>0, <2>1, <2>2
  <2>3. /\ Grows /\ CopiesMade /\ RowsMade
        /\ redisErrors' = 0 => redisErrors = 0 /\ StoreKept /\ Known(r.device, r.new)'
    BY <2>1, <2>a, SetKeyKeeps
  <2>4. redisErrors' = 0 => KnownRequest(h)'
    BY <2>2, <2>3 DEF KnownRequest, Known
  <2>5. StepOf(h, r)
    BY <2>1, <2>2, <2>3, <2>4 DEF StepOf
  <2>. QED
    BY <2>5
<1>. QED
  BY <1>1, <1>2, <1>3, <1>4, <1>5, <1>6, <1>7 DEF Refresh

-----------------------------------------------------------------------------
(* Answers and the clock.                                                    *)

\* What an answer leaves in the browser.
LEMMA AnswerStep ==
    ASSUME Inv, FreshInv, SessionInv, NEW h \in Handlers, Answer(h)
    PROVE  FreshInv' /\ SessionInv'
<1> DEFINE r == req[h]
<1>0. /\ cookies' = [cookies EXCEPT ![r.client] = SetCookies(@, r)]
      /\ req' = [req EXCEPT ![h] = Idle]
      /\ r.pc \in {"signedIn", "refreshed", "signedOut", "signedOutAll"}
      /\ UNCHANGED <<rows, cached, minted, madeAt, superseded, now, redisErrors>>
  BY DEF Answer, store
<1>1. /\ req \in [Handlers -> Request] /\ cookies \in [Clients -> Cookie]
      /\ \A g \in Handlers : req'[g] = IF g = h THEN Idle ELSE req[g]
      /\ \A c \in Clients : cookies'[c] = IF c = r.client THEN SetCookies(cookies[c], r) ELSE cookies[c]
  BY <1>0 DEF Inv, TypeOK
<1>2. /\ minted \in Nat /\ now \in Nat /\ TokenLife \in Nat /\ TokenLife # 0
      /\ \A c \in Clients : cookies[c] \in Cookie
  BY <1>1, FreshParts
<1>a. Idle.pc = "idle" /\ Idle.token = 0 /\ Idle.new = 0
  BY DEF Idle
\* What the cookies of a browser are afterwards.
<1>3. ASSUME NEW c \in Clients
      PROVE  \/ cookies'[c] = cookies[c]
             \/ cookies'[c].token = 0 /\ cookies'[c].device = 0
             \/ /\ cookies'[c].token \in {0, r.new}
                /\ cookies'[c].token # 0 => cookies'[c].of = r.device /\ r.pc = "refreshed"
                /\ cookies'[c].device = cookies[c].device
                /\ cookies'[c].deviceUntil = cookies[c].deviceUntil
             \/ /\ r.pc = "signedIn"
                /\ cookies'[c].token = r.new /\ cookies'[c].of = r.device
                /\ cookies'[c].device = r.device
                /\ cookies'[c].deviceUntil = now + TokenLife
  <2>1. CASE c # r.client
    BY <1>1, <2>1
  <2>2. CASE c = r.client /\ r.pc = "signedIn"
    <3>1. cookies'[c] = [token |-> r.new, of |-> r.device, until |-> now + TokenLife,
                         device |-> r.device, deviceUntil |-> now + TokenLife]
      BY <1>1, <2>2 DEF SetCookies
    <3>. QED
      BY <2>2, <3>1
  <2>3. CASE c = r.client /\ r.pc = "refreshed"
    <3>1. cookies'[c] = [cookies[c] EXCEPT !.token = r.new, !.of = r.device, !.until = now + TokenLife]
      BY <1>1, <2>3 DEF SetCookies
    <3>. QED
      BY <1>2, <2>3, <3>1 DEF Cookie
  <2>4. CASE c = r.client /\ r.pc = "signedOut"
    <3>1. cookies'[c] = NoCookie
      BY <1>1, <2>4 DEF SetCookies
    <3>. QED
      BY <3>1 DEF NoCookie
  <2>5. CASE c = r.client /\ r.pc = "signedOutAll"
    <3>1. cookies'[c] = [cookies[c] EXCEPT !.token = 0, !.of = 0, !.until = 0]
      BY <1>1, <2>5 DEF SetCookies
    <3>. QED
      BY <1>2, <3>1 DEF Cookie
  <2>. QED
    BY <1>0, <2>1, <2>2, <2>3, <2>4, <2>5
<1>4. r.new <= minted /\ (r.pc = "signedIn" => Since(r.device, now))
  BY DEF FreshInv, TokensMinted, DevicesFresh
<1>5. MadeBefore' /\ CopiesFresh' /\ RowsFresh'
  BY <1>0 DEF FreshInv, MadeBefore, CopiesFresh, RowsFresh, CacheLife
<1>6. TokensMinted'
  <2>1. \A g \in Handlers : req'[g].token <= minted /\ req'[g].new <= minted
    BY <1>1, <1>2, <1>a DEF FreshInv, TokensMinted
  <2>2. \A c \in Clients : cookies'[c].token <= minted
    BY <1>2, <1>3, <1>4 DEF FreshInv, TokensMinted
  <2>. QED
    BY <1>0, <2>1, <2>2 DEF TokensMinted
<1> HIDE DEF r
<1>7. DevicesFresh'
  <2>1. ASSUME NEW g \in Handlers, req'[g].pc = "signedIn" PROVE SinceNext(req'[g].device, now)
    BY <1>0, <1>1, <1>a, <2>1 DEF FreshInv, DevicesFresh, Since, SinceNext
  <2>2. ASSUME NEW c \in Clients, cookies'[c].device # 0
        PROVE  /\ now < cookies'[c].deviceUntil /\ cookies'[c].deviceUntil <= now + TokenLife
               /\ SinceNext(cookies'[c].device, cookies'[c].deviceUntil - TokenLife)
    <3>1. CASE /\ cookies'[c].device = cookies[c].device
               /\ cookies'[c].deviceUntil = cookies[c].deviceUntil
      BY <1>0, <2>2, <3>1 DEF FreshInv, DevicesFresh, Since, SinceNext
    <3>2. CASE /\ r.pc = "signedIn" /\ cookies'[c].device = r.device
               /\ cookies'[c].deviceUntil = now + TokenLife
      <4>1. now < now + TokenLife /\ (now + TokenLife) - TokenLife = now
        BY <1>2
      <4>2. SinceNext(r.device, now)
        BY <1>0, <1>4, <3>2 DEF Since, SinceNext
      <4>3. cookies'[c].deviceUntil - TokenLife = now
        BY <3>2, <4>1
      <4>4. SinceNext(cookies'[c].device, cookies'[c].deviceUntil - TokenLife)
        BY <3>2, <4>2, <4>3
      <4>5. now < cookies'[c].deviceUntil /\ cookies'[c].deviceUntil <= now + TokenLife
        BY <1>2, <3>2
      <4>. QED
        BY <4>4, <4>5
    <3>. QED
      BY <1>3, <2>2, <3>1, <3>2
  <2>. QED
    BY <1>0, <2>1, <2>2 DEF DevicesFresh, Since, SinceNext
<1>8. SessionInv'
  <2> SUFFICES ASSUME redisErrors' = 0 PROVE RequestKnown' /\ CookieKnown'
    BY DEF SessionInv
  <2>1. RequestKnown /\ CookieKnown
    BY <1>0 DEF SessionInv
  <2>2. RequestKnown'
    BY <1>0, <1>1, <1>a, <2>1 DEF RequestKnown, KnownRequest, Known
  <2>3. r.pc \in {"refreshed", "signedIn"} => Known(r.device, r.new)
    BY <2>1 DEF RequestKnown, KnownRequest, r
  <2>4. ASSUME NEW c \in Clients PROVE Known(cookies'[c].of, cookies'[c].token)
    <3>1. CASE cookies'[c] = cookies[c]
      BY <2>1, <3>1 DEF CookieKnown
    <3>2. CASE cookies'[c].token = 0
      BY <3>2 DEF Known
    <3>3. CASE /\ cookies'[c].token = r.new /\ cookies'[c].of = r.device
               /\ r.pc \in {"refreshed", "signedIn"}
      BY <2>3, <3>3
    <3>. QED
      BY <1>3, <3>1, <3>2, <3>3
  <2>5. CookieKnown'
    BY <1>0, <2>4 DEF CookieKnown, Known
  <2>. QED
    BY <2>2, <2>5
<1>. QED
  BY <1>5, <1>6, <1>7, <1>8 DEF FreshInv

\* The clock moves, and browsers drop cookies.
LEMMA AdvanceStep ==
    ASSUME Inv, Inv', FreshInv, SessionInv, Advance
    PROVE  FreshInv' /\ SessionInv'
<1>0. /\ \A h \in Handlers : req[h].pc = "idle"
      /\ now < now' /\ now \in Nat /\ now' \in Nat
      /\ \A c \in Clients : cookies'[c] = Kept(cookies[c], now')
      /\ UNCHANGED <<rows, cached, minted, madeAt, superseded, req, redisErrors>>
      /\ TokenLife \in Nat /\ minted \in Nat
      /\ (1..minted) \subseteq Tokens /\ \A t \in Tokens : madeAt[t] \in Nat
  BY FreshParts, InstantsAssumption DEF Advance, store
<1>1. ASSUME NEW c \in Clients
      PROVE  /\ cookies'[c].token # 0 => /\ cookies'[c].token = cookies[c].token
                                         /\ cookies'[c].of = cookies[c].of
             /\ cookies'[c].device # 0 => /\ cookies'[c].device = cookies[c].device
                                          /\ cookies'[c].deviceUntil = cookies[c].deviceUntil
                                          /\ now' < cookies'[c].deviceUntil
  <2> DEFINE k == Kept(cookies[c], now')
  <2>1. cookies'[c] = k
    BY <1>0
  <2>2. k.token # 0 => k.token = cookies[c].token /\ k.of = cookies[c].of
    BY DEF Kept
  <2>3. k.device # 0 => /\ k.device = cookies[c].device
                        /\ k.deviceUntil = cookies[c].deviceUntil
                        /\ cookies[c].deviceUntil > now'
    BY DEF Kept
  <2>4. cookies[c].deviceUntil \in Nat
    BY DEF Inv, TypeOK, Cookie
  <2> HIDE DEF k
  <2>. QED
    BY <1>0, <2>1, <2>2, <2>3, <2>4
<1>2. MadeBefore'
  BY <1>0 DEF FreshInv, MadeBefore
<1>3. CopiesFresh' /\ RowsFresh'
  BY <1>0 DEF FreshInv, CopiesFresh, RowsFresh, CacheLife
<1>4. TokensMinted'
  <2>1. \A c \in Clients : cookies'[c].token <= minted
    BY <1>0, <1>1 DEF FreshInv, TokensMinted
  <2>. QED
    BY <1>0, <2>1 DEF FreshInv, TokensMinted
<1>5. DevicesFresh'
  <2>1. ASSUME NEW c \in Clients, cookies'[c].device # 0
        PROVE  /\ now' < cookies'[c].deviceUntil /\ cookies'[c].deviceUntil <= now' + TokenLife
               /\ SinceNext(cookies'[c].device, cookies'[c].deviceUntil - TokenLife)
    <3>1. /\ cookies[c].deviceUntil \in Nat /\ cookies[c].deviceUntil <= now + TokenLife
          /\ Since(cookies[c].device, cookies[c].deviceUntil - TokenLife)
      BY <1>1, <2>1, FreshParts DEF FreshInv, DevicesFresh
    <3>2. cookies[c].deviceUntil <= now' + TokenLife
      BY <1>0, <3>1
    <3>. QED
      BY <1>0, <1>1, <2>1, <3>1, <3>2 DEF Since, SinceNext
  <2>. QED
    BY <1>0, <2>1 DEF DevicesFresh, Since, SinceNext
<1>6. SessionInv'
  <2> SUFFICES ASSUME redisErrors' = 0 PROVE RequestKnown' /\ CookieKnown'
    BY DEF SessionInv
  <2>1. RequestKnown /\ CookieKnown
    BY <1>0 DEF SessionInv
  <2>2. RequestKnown'
    BY <1>0, <2>1 DEF RequestKnown, KnownRequest, Known
  <2>3. ASSUME NEW c \in Clients PROVE Known(cookies'[c].of, cookies'[c].token)
    BY <1>1, <2>1 DEF CookieKnown, Known
  <2>. QED
    BY <1>0, <2>2, <2>3 DEF CookieKnown, Known
<1>. QED
  BY <1>2, <1>3, <1>4, <1>5, <1>6 DEF FreshInv

-----------------------------------------------------------------------------
(* The theorems.                                                             *)

LEMMA InitInv == Init => Inv /\ FreshInv /\ SessionInv
<1> SUFFICES ASSUME Init PROVE Inv /\ FreshInv /\ SessionInv
  OBVIOUS
<1>1. 0 \in Tokens /\ 0 \in Nat
  BY BoundAssumption
<1>2. NoRow \in Row /\ NoCookie \in Cookie /\ Idle \in Request
  BY <1>1, IdleTyped DEF NoRow, Row, NoCookie, Cookie
<1>3. TypeOK
  BY <1>1, <1>2 DEF Init, TypeOK
<1>4. Creating = {}
  BY DEF Init, Creating, Idle
<1>5. CountInv
  BY <1>4, FS_EmptySet, BoundAssumption DEF Init, CountInv
<1>6. FreshInv
  BY <1>1 DEF Init, FreshInv, MadeBefore, TokensMinted, CopiesFresh, RowsFresh, DevicesFresh,
              NoRow, NoCookie, Idle
<1>7. SessionInv
  BY DEF Init, SessionInv, RequestKnown, CookieKnown, KnownRequest, Known, NoCookie, Idle
<1>. QED
  BY <1>3, <1>5, <1>6, <1>7 DEF Inv

\* Every state the program reaches is typed.
THEOREM SessionTypes == Spec => []TypeOK
<1>1. Init => Inv
  BY InitInv
<1>2. Inv => TypeOK
  BY DEF Inv
<1>. QED
  BY <1>1, <1>2, InvStep, PTL DEF Spec

\* The invariant of ages and sessions is inductive.
LEMMA SessionStep == Inv /\ Inv' /\ FreshInv /\ SessionInv /\ [Next]_vars => FreshInv' /\ SessionInv'
<1> SUFFICES ASSUME Inv, Inv', FreshInv, SessionInv, [Next]_vars PROVE FreshInv' /\ SessionInv'
  OBVIOUS
<1>1. ASSUME NEW h \in Handlers, \E r \in Request : StepOf(h, r) PROVE FreshInv' /\ SessionInv'
  BY <1>1, OneRequest
<1>2. ASSUME NEW h \in Handlers, NEW c \in Clients,
             \/ Register(h, c) \/ Login(h, c) \/ Logout(h, c) \/ LogoutAllDevices(h, c)
             \/ CacheGet(h, c)
      PROVE  FreshInv' /\ SessionInv'
  BY <1>1, <1>2, SignInSteps, SendSteps
<1>3. ASSUME NEW h \in Handlers,
             LoginUpdate(h) \/ LoginFails(h) \/ LoginCreate(h) \/ Refresh(h)
      PROVE  FreshInv' /\ SessionInv'
  BY <1>1, <1>3, SignInSteps, RefreshSteps
<1>4. ASSUME NEW h \in Handlers, LoseRequest(h) PROVE FreshInv' /\ SessionInv'
  <2>1. StepOf(h, Idle)
    BY <1>4, OverStep DEF LoseRequest, store
  <2>. QED
    BY <1>1, <2>1, IdleTyped
<1>5. ASSUME NEW h \in Handlers, Answer(h) PROVE FreshInv' /\ SessionInv'
  BY <1>5, AnswerStep
<1>6. CASE Advance
  BY <1>6, AdvanceStep
<1>7. CASE UNCHANGED vars
  <2>1. FreshInv'
    BY <1>7 DEF FreshInv, MadeBefore, TokensMinted, CopiesFresh, RowsFresh, DevicesFresh, Since,
                CacheLife, vars, store
  <2>2. SessionInv'
    BY <1>7 DEF SessionInv, RequestKnown, CookieKnown, KnownRequest, Known, vars, store
  <2>. QED
    BY <2>1, <2>2
<1>. QED
  BY <1>2, <1>3, <1>4, <1>5, <1>6, <1>7 DEF Next, Terminating

\* Ages tell that a row or a copy of a token lives as long as the deviceId
\* cookie of the browser that has the token.
LEMMA KnownLives == ASSUME Inv, FreshInv, SessionInv PROVE SessionKnown
<1> SUFFICES ASSUME redisErrors = 0, NEW c \in Clients,
                    cookies[c].token # 0, cookies[c].device # 0, cookies[c].of = cookies[c].device,
                    <<cookies[c].device, cookies[c].token>> \notin superseded
             PROVE  Live(cookies[c].device, cookies[c].token) \/ Hit(cookies[c].device, cookies[c].token)
  BY DEF SessionKnown
<1> DEFINE t == cookies[c].token
           d == cookies[c].device
           u == cookies[c].deviceUntil
<1>1. /\ t \in Tokens /\ d \in Devices /\ u \in Nat /\ now \in Nat /\ minted \in Nat
      /\ TokenLife \in Nat /\ CacheLife = 1000 * TokenLife /\ CacheLife \in Nat
      /\ \A v \in Tokens : madeAt[v] \in Nat
      /\ rows[d].expiresAt \in Nat /\ cached[d][t] \in Nat
  BY FreshParts
<1>2. t <= minted /\ now < u /\ Since(d, u - TokenLife)
  BY DEF FreshInv, TokensMinted, DevicesFresh
<1>3. t \in 1..minted
  BY <1>1, <1>2
<1>4. madeAt[t] >= u - TokenLife
  BY <1>2, <1>3 DEF Since
<1>5. rows[d].token = t \/ cached[d][t] # 0
  BY DEF SessionInv, CookieKnown, Known
<1>6. CASE rows[d].token = t
  <2>1. rows[d].expiresAt >= madeAt[t] + TokenLife
    BY <1>1, <1>6 DEF FreshInv, RowsFresh
  <2>2. madeAt[t] \in Nat
    BY <1>1
  <2> HIDE DEF t, d, u
  <2>3. rows[d].expiresAt > now
    BY <1>1, <1>2, <1>4, <2>1, <2>2
  <2>4. Live(d, t)
    BY <1>6, <2>3 DEF Live
  <2>. QED
    BY <2>4 DEF d, t
<1>7. CASE cached[d][t] # 0
  <2>1. cached[d][t] >= madeAt[t] + CacheLife
    BY <1>1, <1>7 DEF FreshInv, CopiesFresh
  <2>2. madeAt[t] \in Nat
    BY <1>1
  <2> HIDE DEF t, d, u
  <2>3. cached[d][t] > now
    BY <1>1, <1>2, <1>4, <2>1, <2>2
  <2>4. Hit(d, t)
    BY <2>3 DEF Hit
  <2>. QED
    BY <2>4 DEF d, t
<1>. QED
  BY <1>5, <1>6, <1>7

\* While Redis answers, a browser with its two cookies, of one device, has a
\* session, for every life of a token and every threshold of rotation: refreshes
\* that overlap, rotate or do not, and the sign-ins and sign-outs around them
\* leave none with a token that neither a row nor a copy knows.
THEOREM SessionsAreKnown == Spec => []SessionKnown
<1>1. Init => Inv /\ FreshInv /\ SessionInv
  BY InitInv
<1>2. Inv /\ FreshInv /\ SessionInv => SessionKnown
  BY KnownLives
<1>. QED
  BY <1>1, <1>2, InvStep, SessionStep, PTL DEF Spec

=============================================================================

-------------------------- MODULE QueueViewsProofs --------------------------
(***************************************************************************)
(* What is cached and told of a queue follows the life cycle of its        *)
(* tickets; a fresh cached answer does not survive the deletions of the    *)
(* handler that changes it; nothing goes untold: for any users, handlers,  *)
(* readers, promotions, requests and slots.                                *)
(***************************************************************************)
EXTENDS QueueViews, FiniteSetTheorems, SequenceTheorems, TLAPS

\* The activities that finish what they have begun: all but the worker, which
\* may abort.
Finishing == Handlers \cup Promotions

\* Sequence s has effect e.
Has(s, e) == \E i \in 1..Len(s) : s[i] = e

\* Sequence s is yet to read the tickets and tell the room.
Announces(s) == \E i \in 1..(Len(s) - 1) : s[i].do = "readQueue" /\ s[i + 1].do = "tellQueue"

\* Sequence s is yet to delete key k.
Deletes(s, k) == \E i \in 1..Len(s) : s[i].key = k /\ s[i].do \in {"del", "unlink"}

\* What the worker is about to commit is still right, and was told or is the
\* next thing that it tells.
ExpiryInv ==
    \A i \in 1..Len(work[ExpiryWorker].todo) :
        LET e == work[ExpiryWorker].todo[i]
        IN  e.do = "commit" =>
                /\ e.user \in Users
                /\ exists
                /\ status[e.user] = "LATE"
                /\ \/ Newer(e.user) \in told[e.user]
                   \/ Next1(ExpiryWorker) = TellUser(e.user, Newer(e.user))[1]

\* Who reads, and what is cached.
ReadersInv ==
    /\ \A r \in Readers : reads[r].pc # "idle" => reads[r].key \in Keys /\ reads[r].key[1] \in CachedKinds
    /\ \A k \in Keys : cache[k].hit => k[1] \in CachedKinds

\* A fresh answer that is to be swept will be deleted by a handler, or a
\* command that was to delete it has failed.
DeletionInv ==
    \A k \in Keys :
        /\ swept[k] <= version[k]
        /\ cache[k].hit /\ cache[k].fresh /\ cache[k].version < swept[k]
              => \/ \E p \in Handlers : Deletes(work[p].todo, k)
                 \/ cache[k].version < undeleted[k]

\* Every change of a ticket is told, or will be.
UserTold ==
    exists => \A u \in Users : \A v \in 1..version[StatusKey(u)] :
                  v \in told[u] \/ \E a \in Finishing : Has(work[a].todo, TellUser(u, v)[1])

\* Activity a will send the room a snapshot that has the announced version.
WillAnnounce(a) ==
    \/ Announces(work[a].todo)
    \/ ~Idle(a) /\ Next1(a).do = "tellQueue" /\ work[a].seen >= announced

RoomTold ==
    /\ announced <= version[PagesKey]
    /\ roomTold >= announced \/ \E a \in Finishing : WillAnnounce(a)

ViewsInv == /\ TypeOK /\ ExpiryInv /\ ReadersInv /\ DeletionInv /\ UserTold /\ RoomTold

\* What an action leaves of Redis, it leaves of each of its parts.
USE DEF redis

-----------------------------------------------------------------------------
(* Lists of effects. *)

\* What a concatenation has is what its parts have.
LEMMA Concat ==
    ASSUME NEW s \in Seq(Effect), NEW t \in Seq(Effect)
    PROVE  /\ s \o t \in Seq(Effect)
           /\ \A e : Has(s \o t, e) <=> Has(s, e) \/ Has(t, e)
           /\ \A k : Deletes(s, k) \/ Deletes(t, k) => Deletes(s \o t, k)
           /\ Announces(t) => Announces(s \o t)
<1>1. /\ s \o t \in Seq(Effect) /\ Len(s \o t) = Len(s) + Len(t)
      /\ Len(s) \in Nat /\ Len(t) \in Nat
      /\ \A i \in 1..(Len(s) + Len(t)) : (s \o t)[i] = IF i <= Len(s) THEN s[i] ELSE t[i - Len(s)]
  BY ConcatProperties, LenProperties
<1>2. \A i \in 1..Len(s) : i \in 1..Len(s \o t) /\ (s \o t)[i] = s[i]
  BY <1>1
<1>3. \A i \in 1..Len(t) : Len(s) + i \in 1..Len(s \o t) /\ (s \o t)[Len(s) + i] = t[i]
  BY <1>1
<1>4. \A i \in 1..Len(s \o t) : \/ i \in 1..Len(s) /\ (s \o t)[i] = s[i]
                                \/ i - Len(s) \in 1..Len(t) /\ (s \o t)[i] = t[i - Len(s)]
  BY <1>1
<1>5. \A e : Has(s \o t, e) <=> Has(s, e) \/ Has(t, e)
  BY <1>2, <1>3, <1>4 DEF Has
<1>6. \A k : Deletes(s, k) \/ Deletes(t, k) => Deletes(s \o t, k)
  BY <1>2, <1>3 DEF Deletes
<1>7. ASSUME Announces(t) PROVE Announces(s \o t)
  <2>1. PICK i \in 1..(Len(t) - 1) : t[i].do = "readQueue" /\ t[i + 1].do = "tellQueue"
    BY <1>7 DEF Announces
  <2>2. /\ i \in 1..Len(t) /\ i + 1 \in 1..Len(t)
        /\ Len(s) + i \in 1..(Len(s \o t) - 1) /\ Len(s) + (i + 1) = (Len(s) + i) + 1
    BY <1>1, <2>1
  <2>3. (s \o t)[Len(s) + i] = t[i] /\ (s \o t)[(Len(s) + i) + 1] = t[i + 1]
    BY <1>3, <2>2
  <2>. QED
    BY <2>1, <2>2, <2>3 DEF Announces
<1>. QED
  BY <1>1, <1>5, <1>6, <1>7

\* What is left of a list when its head is done.
LEMMA Popped ==
    ASSUME NEW s \in Seq(Effect), s # <<>>
    PROVE  /\ Tail(s) \in Seq(Effect) /\ Head(s) \in Effect /\ Head(s) = s[1] /\ Len(s) \in Nat \ {0}
           /\ \A e : Has(s, e) <=> e = Head(s) \/ Has(Tail(s), e)
           /\ \A k : Deletes(s, k) => Deletes(Tail(s), k)
                                      \/ (Head(s).key = k /\ Head(s).do \in {"del", "unlink"})
           /\ Announces(s) => \/ Announces(Tail(s))
                              \/ /\ Head(s).do = "readQueue" /\ Tail(s) # <<>>
                                 /\ Head(Tail(s)).do = "tellQueue"
<1>1. /\ Tail(s) \in Seq(Effect) /\ Head(s) \in Effect /\ Len(Tail(s)) = Len(s) - 1
      /\ \A i \in 1..Len(Tail(s)) : Tail(s)[i] = s[i + 1]
  BY HeadTailProperties
<1>2. Len(s) \in Nat \ {0} /\ Head(s) = s[1]
  BY EmptySeq
<1>3. \A i \in 1..Len(s) : i = 1 \/ (i - 1 \in 1..Len(Tail(s)) /\ Tail(s)[i - 1] = s[i])
  BY <1>1, <1>2
<1>4. \A i \in 1..Len(Tail(s)) : i + 1 \in 1..Len(s)
  BY <1>1, <1>2
<1>5. 1 \in 1..Len(s)
  BY <1>2
<1>6. \A e : Has(s, e) <=> e = Head(s) \/ Has(Tail(s), e)
  BY <1>1, <1>2, <1>3, <1>4, <1>5 DEF Has
<1>7. \A k : Deletes(s, k) => Deletes(Tail(s), k)
                              \/ (Head(s).key = k /\ Head(s).do \in {"del", "unlink"})
  BY <1>2, <1>3 DEF Deletes
<1>8. ASSUME Announces(s)
      PROVE  \/ Announces(Tail(s))
             \/ /\ Head(s).do = "readQueue" /\ Tail(s) # <<>>
                /\ Head(Tail(s)).do = "tellQueue"
  <2>1. PICK i \in 1..(Len(s) - 1) : s[i].do = "readQueue" /\ s[i + 1].do = "tellQueue"
    BY <1>8 DEF Announces
  <2>2. CASE i = 1
    <3>1. 1 \in 1..Len(Tail(s)) /\ Tail(s)[1] = s[2] /\ s[i + 1] = s[2]
      BY <1>1, <1>2, <2>1, <2>2
    <3>2. Tail(s) # <<>>
      <4>1. Len(Tail(s)) # 0
        BY <1>1, <1>2, <3>1
      <4>2. Len(<<>>) = 0
        OBVIOUS
      <4>. QED
        BY <4>1, <4>2
    <3>3. Head(Tail(s)) = Tail(s)[1]
      BY <1>1, <3>2
    <3>. QED
      BY <1>2, <2>1, <2>2, <3>1, <3>2, <3>3
  <2>3. CASE i # 1
    <3>1. i - 1 \in 1..(Len(Tail(s)) - 1) /\ (i - 1) + 1 = i /\ i \in 1..Len(Tail(s))
          /\ i - 1 \in 1..Len(Tail(s))
      BY <1>1, <1>2, <2>1, <2>3
    <3>2. Tail(s)[i - 1] = s[i] /\ Tail(s)[(i - 1) + 1] = s[i + 1]
      BY <1>1, <3>1
    <3>. QED
      BY <2>1, <3>1, <3>2 DEF Announces
  <2>. QED
    BY <2>2, <2>3
<1>. QED
  BY <1>1, <1>2, <1>6, <1>7, <1>8

\* An empty list has nothing.
LEMMA Empty == /\ <<>> \in Seq(Effect)
               /\ \A e : ~Has(<<>>, e)
               /\ \A k : ~Deletes(<<>>, k)
               /\ ~Announces(<<>>)
BY DEF Has, Deletes, Announces

\* The parts that the lists of effects are made of.
LEMMA TellIsEffect ==
    ASSUME NEW u \in Users, NEW v \in Nat
    PROVE  /\ TellUser(u, v) \in Seq(Effect) /\ Len(TellUser(u, v)) = 1
           /\ TellUser(u, v)[1] \in Effect
           /\ TellUser(u, v)[1].do = "tellUser" /\ TellUser(u, v)[1].user = u
           /\ TellUser(u, v)[1].version = v
           /\ \A e : Has(TellUser(u, v), e) <=> e = TellUser(u, v)[1]
<1> DEFINE e == [Do("tellUser") EXCEPT !.user = u, !.version = v]
<1>1. e \in Effect /\ e.do = "tellUser" /\ e.user = u /\ e.version = v
  BY DEF Do, Effect, NoKey
<1>2. TellUser(u, v) = <<e>>
  BY DEF TellUser
<1> HIDE DEF e
<1>. QED
  BY <1>1, <1>2 DEF Has

LEMMA DelIsEffect ==
    ASSUME NEW k \in Keys
    PROVE  /\ Del(k) \in Seq(Effect)
           /\ \A e : Has(Del(k), e) => e.do = "del"
           /\ k[1] \in CachedKinds => Deletes(Del(k), k)
<1> DEFINE e == [Do("del") EXCEPT !.key = k]
<1>1. e \in Effect /\ e.do = "del" /\ e.key = k
  BY DEF Do, Effect, NoKey
<1>2. Del(k) = IF k[1] \in CachedKinds THEN <<e>> ELSE <<>>
  BY DEF Del
<1> HIDE DEF e
<1>. QED
  BY <1>1, <1>2 DEF Has, Deletes

LEMMA EmitIsEffect ==
    /\ EmitQueueUpdate \in Seq(Effect)
    /\ EmitQueueUpdate = <<Do("readQueue"), Do("tellQueue")>>
    /\ Do("readQueue") \in Effect /\ Do("readQueue").do = "readQueue"
    /\ Do("tellQueue") \in Effect /\ Do("tellQueue").do = "tellQueue"
    /\ Announces(EmitQueueUpdate)
<1>1. /\ Do("readQueue") \in Effect /\ Do("readQueue").do = "readQueue"
      /\ Do("tellQueue") \in Effect /\ Do("tellQueue").do = "tellQueue"
  BY DEF Do, Effect, NoKey
<1>2. EmitQueueUpdate = <<Do("readQueue"), Do("tellQueue")>>
  BY DEF EmitQueueUpdate
<1>. QED
  BY <1>1, <1>2 DEF Announces

\* What the commit of a request leaves to do: it tells the user, it announces,
\* and it deletes the answers about the ticket that readers fill.
Sweeps(s, u, v) ==
    /\ s \in Seq(Effect)
    /\ Has(s, TellUser(u, v)[1])
    /\ Announces(s)
    /\ \A k \in {StatusKey(u), PagesKey} : k[1] \in CachedKinds => Deletes(s, k)

LEMMA KeysOf ==
    ASSUME NEW u \in Users
    PROVE  /\ {StatusKey(u), TicketsKey(u), PagesKey, CountKey, MetaKey, AdminKey} \subseteq Keys
           /\ \A w : StatusKey(w) = StatusKey(u) => w = u
           /\ \A w : StatusKey(w) \notin {TicketsKey(u), PagesKey, CountKey, MetaKey, AdminKey}
BY DEF Keys, StatusKey, TicketsKey, PagesKey, CountKey, MetaKey, AdminKey

\* Three parts in any order, and the announcement.
LEMMA ThreeParts ==
    ASSUME NEW u \in Users, NEW v \in Nat, NEW x \in Seq(Effect), NEW y \in Seq(Effect),
           NEW z \in Seq(Effect), NEW w \in Seq(Effect), Announces(w),
           LET e == TellUser(u, v)[1] IN Has(x, e) \/ Has(y, e) \/ Has(z, e),
           \A k \in {StatusKey(u), PagesKey} :
              k[1] \in CachedKinds => Deletes(x, k) \/ Deletes(y, k) \/ Deletes(z, k)
    PROVE  Sweeps(((x \o y) \o z) \o w, u, v)
<1>1. x \o y \in Seq(Effect)
  BY Concat
<1>2. (x \o y) \o z \in Seq(Effect)
  BY <1>1, Concat
<1>3. ((x \o y) \o z) \o w \in Seq(Effect) /\ Announces(((x \o y) \o z) \o w)
  BY <1>2, Concat
<1>4. ASSUME NEW e, Has(x, e) \/ Has(y, e) \/ Has(z, e) PROVE Has(((x \o y) \o z) \o w, e)
  <2>1. Has(x \o y, e) \/ Has(z, e)
    BY <1>4, Concat
  <2>2. Has((x \o y) \o z, e)
    BY <1>1, <2>1, Concat
  <2>. QED
    BY <1>2, <2>2, Concat
<1>5. ASSUME NEW k, Deletes(x, k) \/ Deletes(y, k) \/ Deletes(z, k)
      PROVE  Deletes(((x \o y) \o z) \o w, k)
  <2>1. Deletes(x \o y, k) \/ Deletes(z, k)
    BY <1>5, Concat
  <2>2. Deletes((x \o y) \o z, k)
    BY <1>1, <2>1, Concat
  <2>. QED
    BY <1>2, <2>2, Concat
<1>. QED
  BY <1>3, <1>4, <1>5 DEF Sweeps

LEMMA RequestEffects ==
    ASSUME NEW u \in Users, NEW v \in Nat
    PROVE  /\ Sweeps(DeleteThenTell(u, v), u, v)
           /\ Sweeps(TellThenDeletePages(u, v), u, v)
           /\ Sweeps(TellThenDeleteStatus(u, v), u, v)
<1> DEFINE T == TellUser(u, v)
           S == Del(StatusKey(u))
           P == Del(PagesKey)
           E == EmitQueueUpdate
<1>1. /\ T \in Seq(Effect) /\ S \in Seq(Effect) /\ P \in Seq(Effect) /\ E \in Seq(Effect)
      /\ Has(T, TellUser(u, v)[1]) /\ Announces(E)
      /\ StatusKey(u)[1] \in CachedKinds => Deletes(S, StatusKey(u))
      /\ PagesKey[1] \in CachedKinds => Deletes(P, PagesKey)
  BY TellIsEffect, DelIsEffect, EmitIsEffect, KeysOf
<1>2. /\ DeleteThenTell(u, v) = ((S \o P) \o T) \o E
      /\ TellThenDeletePages(u, v) = ((T \o P) \o S) \o E
      /\ TellThenDeleteStatus(u, v) = ((T \o S) \o P) \o E
  BY DEF DeleteThenTell, TellThenDeletePages, TellThenDeleteStatus
<1> HIDE DEF T, S, P, E
<1>3. Sweeps(((S \o P) \o T) \o E, u, v)
  BY <1>1, ThreeParts
<1>4. Sweeps(((T \o P) \o S) \o E, u, v)
  BY <1>1, ThreeParts
<1>5. Sweeps(((T \o S) \o P) \o E, u, v)
  BY <1>1, ThreeParts
<1>. QED
  BY <1>2, <1>3, <1>4, <1>5

\* The arithmetic of PromotionEffects: three effects for each user.
LEMMA Thirds ==
    ASSUME NEW n \in Nat
    PROVE  /\ \A i \in 1..(3 * n) : i % 3 = 1 => (i + 2) \div 3 \in 1..n
           /\ \A j \in 1..n : /\ 3 * j - 2 \in 1..(3 * n) /\ (3 * j - 2) % 3 = 1
                              /\ ((3 * j - 2) + 2) \div 3 = j
                              /\ 3 * j - 1 \in 1..(3 * n) /\ (3 * j - 1) % 3 = 2
                              /\ 3 * j - 1 \in 1..(3 * n - 1)
                              /\ (3 * j - 1) + 1 = 3 * j
                              /\ 3 * j \in 1..(3 * n) /\ (3 * j) % 3 = 0
OBVIOUS

\* What a promotion of S leaves to do.
LEMMA PromotionEffectsAre ==
    ASSUME TypeOK, NEW S \in SUBSET Users, S # {}
    PROVE  /\ PromotionEffects(S) \in Seq(Effect)
           /\ \A u \in S : Has(PromotionEffects(S), TellUser(u, Newer(u))[1])
           /\ Announces(PromotionEffects(S))
<1> DEFINE n == Cardinality(S)
           good(s) == \A u \in S : \E i \in DOMAIN s : s[i] = u
           order == CHOOSE s \in [1..n -> S] : good(s)
           f == PromotionEffects(S)
<1>1. IsFiniteSet(S)
  BY ActivitiesAssumption, FS_Subset
<1>2. n \in Nat /\ n # 0 /\ Bijection(1..n, S) # {}
  BY <1>1, FS_CardinalityType, FS_EmptySet DEF ExistsBijection
<1>3. \E s \in [1..n -> S] : good(s)
  BY <1>2 DEF Bijection, Surjection
<1>4. order \in [1..n -> S] /\ good(order)
  BY <1>3
<1>5. f = [i \in 1..(3 * n) |->
              IF i % 3 = 1
              THEN TellUser(order[(i + 2) \div 3], Newer(order[(i + 2) \div 3]))[1]
              ELSE EmitQueueUpdate[IF i % 3 = 2 THEN 1 ELSE 2]]
  BY DEF PromotionEffects
<1> HIDE DEF n, order, f
<1>6. /\ \A i \in 1..(3 * n) : i % 3 = 1 =>
            f[i] = TellUser(order[(i + 2) \div 3], Newer(order[(i + 2) \div 3]))[1]
      /\ \A i \in 1..(3 * n) : i % 3 = 2 => f[i] = Do("readQueue")
      /\ \A i \in 1..(3 * n) : i % 3 = 0 => f[i] = Do("tellQueue")
      /\ \A i \in 1..(3 * n) : i % 3 \in {0, 1, 2}
  BY <1>2, <1>5, EmitIsEffect
<1>7. ASSUME NEW u \in S PROVE Newer(u) \in Nat /\ TellUser(u, Newer(u))[1] \in Effect
  <2>1. u \in Users /\ StatusKey(u) \in Keys
    BY KeysOf
  <2>2. Newer(u) \in Nat
    BY <2>1 DEF TypeOK, Newer
  <2>. QED
    BY <2>1, <2>2, TellIsEffect
<1>8. \A i \in 1..(3 * n) : f[i] \in Effect
  <2>1. ASSUME NEW i \in 1..(3 * n), i % 3 = 1 PROVE f[i] \in Effect
    <3>1. (i + 2) \div 3 \in 1..n
      BY <1>2, <2>1, Thirds
    <3>2. order[(i + 2) \div 3] \in S
      BY <1>4, <3>1
    <3>. QED
      BY <1>6, <1>7, <2>1, <3>2
  <2>. QED
    BY <1>6, <2>1, EmitIsEffect
<1>9. f \in Seq(Effect) /\ Len(f) = 3 * n
  <2>1. f \in [1..(3 * n) -> Effect] /\ 3 * n \in Nat
    BY <1>2, <1>5, <1>8
  <2>. QED
    BY <2>1
<1>10. ASSUME NEW u \in S PROVE Has(f, TellUser(u, Newer(u))[1])
  <2>1. PICK j \in 1..n : order[j] = u
    BY <1>4
  <2>2. /\ 3 * j - 2 \in 1..(3 * n) /\ (3 * j - 2) % 3 = 1
        /\ ((3 * j - 2) + 2) \div 3 = j
    BY <1>2, Thirds
  <2>3. f[3 * j - 2] = TellUser(u, Newer(u))[1]
    BY <1>6, <2>1, <2>2
  <2>. QED
    BY <1>9, <2>2, <2>3 DEF Has
<1>11. Announces(f)
  <2>1. 1 \in 1..n
    BY <1>2
  <2>2. /\ 3 * 1 - 1 \in 1..(3 * n - 1) /\ 3 * 1 - 1 \in 1..(3 * n) /\ (3 * 1 - 1) % 3 = 2
        /\ 3 * 1 \in 1..(3 * n) /\ (3 * 1) % 3 = 0 /\ (3 * 1 - 1) + 1 = 3 * 1
    BY <1>2, <2>1, Thirds
  <2>3. f[3 * 1 - 1] = Do("readQueue") /\ f[(3 * 1 - 1) + 1] = Do("tellQueue")
    BY <1>6, <2>2
  <2>. QED
    BY <1>9, <2>2, <2>3, EmitIsEffect DEF Announces
<1>. QED
  BY <1>9, <1>10, <1>11 DEF f

-----------------------------------------------------------------------------
(* Commits. *)

\* The parts of a typed state.
LEMMA Parts == ASSUME TypeOK PROVE
        /\ \A a \in Activities : work[a] \in Work /\ work[a].todo \in Seq(Effect) /\ work[a].seen \in Nat
        /\ \A k \in Keys : /\ version[k] \in Nat /\ swept[k] \in Nat
                           /\ cache[k] \in Entry /\ cache[k].version \in Nat
                           /\ undeleted[k] \in Nat
        /\ \A u \in Users : status[u] \in AnyStatus /\ told[u] \in SUBSET Nat
        /\ Finishing \subseteq Activities /\ Handlers \subseteq Finishing
        /\ Promotions \subseteq Finishing
        /\ ExpiryWorker \in Activities /\ ExpiryWorker \notin Finishing
        /\ announced \in Nat /\ roomTold \in Nat
<1>1. \A a \in Activities : work[a] \in Work
  BY DEF TypeOK
<1>2. \A a \in Activities : work[a].todo \in Seq(Effect) /\ work[a].seen \in Nat
  BY <1>1 DEF Work
<1>3. \A k \in Keys : /\ version[k] \in Nat /\ swept[k] \in Nat
                      /\ cache[k] \in Entry /\ cache[k].version \in Nat
                      /\ undeleted[k] \in Nat
  BY DEF TypeOK, Entry
<1>4. /\ Finishing \subseteq Activities /\ Handlers \subseteq Finishing
      /\ Promotions \subseteq Finishing
      /\ ExpiryWorker \in Activities /\ ExpiryWorker \notin Finishing
  BY ActivitiesAssumption DEF Activities, Finishing
<1>. QED
  BY <1>1, <1>2, <1>3, <1>4 DEF TypeOK

\* The version of a user's ticket is a number.
LEMMA NewerTyped ==
    ASSUME TypeOK, NEW u \in Users
    PROVE  version[StatusKey(u)] \in Nat /\ Newer(u) = version[StatusKey(u)] + 1 /\ Newer(u) \in Nat
BY Parts, KeysOf DEF Newer

\* What an activity with nothing left to do has.
LEMMA IdleHas ==
    ASSUME NEW a, Idle(a)
    PROVE  /\ \A e : ~Has(work[a].todo, e)
           /\ \A k : ~Deletes(work[a].todo, k)
           /\ ~WillAnnounce(a)
BY Empty DEF Idle, WillAnnounce

\* A held ticket is one that the worker is to commit.
LEMMA HeldIs ==
    ASSUME TypeOK, NEW i \in 1..Len(work[ExpiryWorker].todo),
           work[ExpiryWorker].todo[i].do = "commit"
    PROVE  Held(work[ExpiryWorker].todo[i].user)
<1>1. DOMAIN work[ExpiryWorker].todo = 1..Len(work[ExpiryWorker].todo)
  BY Parts, LenProperties
<1>. QED
  BY <1>1 DEF Held

\* What a commit does.
LEMMA CommitDoes ==
    ASSUME TypeOK, NEW a \in Activities, NEW rows \in [Users -> AnyStatus], NEW keys, NEW sweeps,
           NEW effects \in Seq(Effect), Commit(a, rows, keys, sweeps, effects)
    PROVE  /\ status' = rows
           /\ \A k \in Keys : version'[k] = IF k \in keys THEN version[k] + 1 ELSE version[k]
           /\ \A k \in Keys : swept'[k] = IF k \in sweeps THEN version[k] + 1 ELSE swept[k]
           /\ version' \in [Keys -> Nat] /\ swept' \in [Keys -> Nat]
           /\ work' \in [Activities -> Work]
           /\ work'[a].todo = effects
           /\ \A b \in Activities : b # a => work'[b] = work[b]
           /\ UNCHANGED <<redis, reads, told, roomTold>>
<1>1. version' = [k \in Keys |-> IF k \in keys THEN version[k] + 1 ELSE version[k]]
  BY DEF Commit, Changed
<1>2. swept' = [k \in Keys |-> IF k \in sweeps THEN version[k] + 1 ELSE swept[k]]
  BY DEF Commit
<1> DEFINE w == [todo |-> effects, seen |-> 0]
<1>3. w \in Work /\ w.todo = effects
  BY DEF Work
<1>4. work' = [work EXCEPT ![a] = w]
  BY DEF Commit
<1> HIDE DEF w
<1>5. /\ work' \in [Activities -> Work] /\ work'[a].todo = effects
      /\ \A b \in Activities : b # a => work'[b] = work[b]
  BY <1>3, <1>4 DEF TypeOK
<1>6. version' \in [Keys -> Nat] /\ swept' \in [Keys -> Nat]
  BY <1>1, <1>2, Parts
<1>. QED
  BY <1>1, <1>2, <1>5, <1>6 DEF Commit

\* The worker goes on when nobody touches the tickets that it holds.
LEMMA ExpiryKept ==
    ASSUME TypeOK, ExpiryInv, work'[ExpiryWorker] = work[ExpiryWorker],
           \A w \in Users : told[w] \subseteq told'[w],
           \A w \in Users : Held(w) => /\ exists' = exists /\ status'[w] = status[w]
                                       /\ version'[StatusKey(w)] = version[StatusKey(w)]
    PROVE  ExpiryInv'
<1>1. ASSUME NEW i \in 1..Len(work[ExpiryWorker].todo),
             work[ExpiryWorker].todo[i].do = "commit"
      PROVE  LET u == work[ExpiryWorker].todo[i].user
             IN  /\ u \in Users /\ exists' /\ status'[u] = "LATE"
                 /\ \/ version'[StatusKey(u)] + 1 \in told'[u]
                    \/ Next1(ExpiryWorker) = TellUser(u, version'[StatusKey(u)] + 1)[1]
  <2> DEFINE u == work[ExpiryWorker].todo[i].user
  <2>1. /\ u \in Users /\ exists /\ status[u] = "LATE"
        /\ \/ Newer(u) \in told[u]
           \/ Next1(ExpiryWorker) = TellUser(u, Newer(u))[1]
    BY <1>1 DEF ExpiryInv
  <2>2. Held(u)
    BY <1>1, HeldIs
  <2> HIDE DEF u
  <2>3. version'[StatusKey(u)] + 1 = Newer(u)
    BY <2>1, <2>2 DEF Newer
  <2>4. exists' /\ status'[u] = "LATE" /\ told[u] \subseteq told'[u]
    BY <2>1, <2>2
  <2>. QED
    BY <2>1, <2>3, <2>4 DEF u
<1>2. Next1(ExpiryWorker)' = Next1(ExpiryWorker)
  BY DEF Next1
<1>. QED
  BY <1>1, <1>2, ZenonT(60) DEF ExpiryInv, Newer, TellUser, StatusKey, Do, NoKey

\* A commit of a request or a promotion that deletes, tells and announces what
\* it changes keeps the invariant.
LEMMA CommitKeeps ==
    ASSUME ViewsInv, NEW a \in Finishing, Idle(a), NEW rows \in [Users -> AnyStatus],
           NEW keys, NEW sweeps \in SUBSET keys, NEW effects \in Seq(Effect),
           Commit(a, rows, keys, sweeps, effects),
           exists' \in BOOLEAN, exists' => exists, commits' \in Nat,
           a \in Handlers \/ sweeps = {},
           \A k \in sweeps : k[1] \in CachedKinds => Deletes(effects, k),
           exists' => \A w \in Users : StatusKey(w) \in keys
                                          => Has(effects, TellUser(w, Newer(w))[1]),
           \A w \in Users : Held(w) => /\ exists' = exists /\ rows[w] = status[w]
                                       /\ StatusKey(w) \notin keys,
           \/ announced' = announced
           \/ /\ announced' = version[PagesKey] + 1 /\ PagesKey \in keys
              /\ Announces(effects)
    PROVE  ViewsInv'
<1> USE DEF ViewsInv
<1>0. a \in Activities /\ a # ExpiryWorker
  BY Parts
<1>1. /\ status' = rows
      /\ \A k \in Keys : version'[k] = IF k \in keys THEN version[k] + 1 ELSE version[k]
      /\ \A k \in Keys : swept'[k] = IF k \in sweeps THEN version[k] + 1 ELSE swept[k]
      /\ version' \in [Keys -> Nat] /\ swept' \in [Keys -> Nat]
      /\ work' \in [Activities -> Work]
      /\ work'[a].todo = effects
      /\ \A b \in Activities : b # a => work'[b] = work[b]
      /\ UNCHANGED <<redis, reads, told, roomTold>>
  BY <1>0, CommitDoes
<1>2. PagesKey \in Keys /\ version[PagesKey] \in Nat
  BY Parts DEF Keys
<1>3. TypeOK'
  <2>1. announced' \in Nat
    BY <1>2, Parts
  <2>. QED
    BY <1>1, <2>1 DEF TypeOK
<1>4. ExpiryInv'
  <2>1. \A w \in Users : StatusKey(w) \in Keys
    BY KeysOf
  <2>2. \A w \in Users : Held(w) => /\ exists' = exists /\ status'[w] = status[w]
                                    /\ version'[StatusKey(w)] = version[StatusKey(w)]
    BY <1>1, <2>1
  <2>3. work'[ExpiryWorker] = work[ExpiryWorker]
    BY <1>0, <1>1, Parts
  <2>. QED
    BY <1>1, <2>2, <2>3, ExpiryKept
<1>5. ReadersInv'
  BY <1>1 DEF ReadersInv
<1>6. DeletionInv'
  <2>1. ASSUME NEW k \in Keys
        PROVE  /\ swept'[k] <= version'[k]
               /\ cache[k].hit /\ cache[k].fresh /\ cache[k].version < swept'[k]
                     => \/ \E p \in Handlers : Deletes(work'[p].todo, k)
                        \/ cache[k].version < undeleted[k]
    <3>1. /\ swept[k] <= version[k] /\ swept[k] \in Nat /\ version[k] \in Nat
          /\ cache[k].hit /\ cache[k].fresh /\ cache[k].version < swept[k]
                => \/ \E p \in Handlers : Deletes(work[p].todo, k)
                   \/ cache[k].version < undeleted[k]
          /\ cache[k].hit => k[1] \in CachedKinds
      BY Parts DEF DeletionInv, ReadersInv
    <3>2. CASE k \in sweeps
      <4>1. swept'[k] <= version'[k]
        BY <1>1, <3>1, <3>2
      <4>2. cache[k].hit => Deletes(work'[a].todo, k) /\ a \in Handlers
        BY <1>1, <3>1, <3>2
      <4>. QED
        BY <4>1, <4>2
    <3>3. CASE k \notin sweeps
      <4>1. swept'[k] = swept[k] /\ swept'[k] <= version'[k]
        <5>1. swept'[k] = swept[k]
          BY <1>1, <3>3
        <5>2. version'[k] = version[k] \/ version'[k] = version[k] + 1
          BY <1>1
        <5>. QED
          BY <3>1, <5>1, <5>2
      <4>2. ASSUME NEW p \in Handlers, Deletes(work[p].todo, k) PROVE Deletes(work'[p].todo, k)
        <5>1. ~Deletes(work[a].todo, k)
          BY IdleHas
        <5>2. p # a /\ p \in Activities
          BY <4>2, <5>1 DEF Activities, Finishing
        <5>3. work'[p] = work[p]
          BY <1>1, <5>2
        <5>. QED
          BY <4>2, <5>3
      <4>. QED
        BY <3>1, <4>1, <4>2
    <3>. QED
      BY <3>2, <3>3
  <2>. QED
    BY <1>1, <2>1 DEF DeletionInv
<1>7. UserTold'
  <2>1. SUFFICES ASSUME exists', NEW u \in Users, NEW v \in 1..version'[StatusKey(u)]
                 PROVE  v \in told[u] \/ \E b \in Finishing : Has(work'[b].todo, TellUser(u, v)[1])
    BY <1>1 DEF UserTold, StatusKey, TellUser, Do, NoKey
  <2>2. version[StatusKey(u)] \in Nat /\ StatusKey(u) \in Keys
    BY Parts, KeysOf
  <2>3. CASE v \in 1..version[StatusKey(u)]
    <3>1. v \in told[u] \/ \E b \in Finishing : Has(work[b].todo, TellUser(u, v)[1])
      BY <2>1, <2>3 DEF UserTold
    <3>2. \A b \in Finishing : Has(work[b].todo, TellUser(u, v)[1])
                                  => b # a /\ Has(work'[b].todo, TellUser(u, v)[1])
      <4>1. ~Has(work[a].todo, TellUser(u, v)[1])
        BY IdleHas
      <4>2. \A b \in Finishing : b # a => work'[b] = work[b]
        BY <1>1, Parts
      <4>. QED
        BY <4>1, <4>2
    <3>. QED
      BY <3>1, <3>2
  <2>4. CASE v \notin 1..version[StatusKey(u)]
    <3>1. v = Newer(u) /\ StatusKey(u) \in keys
      BY <1>1, <2>1, <2>2, <2>4 DEF Newer
    <3>2. Has(work'[a].todo, TellUser(u, v)[1])
      BY <1>1, <2>1, <3>1
    <3>. QED
      BY <3>2
  <2>. QED
    BY <2>3, <2>4
<1>8. RoomTold'
  <2>1. announced \in Nat /\ announced <= version[PagesKey]
    BY Parts DEF RoomTold
  <2>2. CASE announced' = announced
    <3>1. announced' <= version'[PagesKey]
      BY <1>1, <1>2, <2>1, <2>2
    <3>2. ~WillAnnounce(a)
      BY IdleHas
    <3>3. \A b \in Finishing : WillAnnounce(b) => work'[b] = work[b]
      BY <1>1, <3>2, Parts
    <3>4. \A b \in Finishing : WillAnnounce(b) => WillAnnounce(b)'
      BY <2>2, <3>3 DEF WillAnnounce, Announces, Idle, Next1
    <3>. QED
      BY <1>1, <2>2, <3>1, <3>4 DEF RoomTold
  <2>3. CASE announced' = version[PagesKey] + 1 /\ PagesKey \in keys /\ Announces(effects)
    <3>1. announced' <= version'[PagesKey]
      BY <1>1, <1>2, <2>3
    <3>2. WillAnnounce(a)'
      BY <1>1, <2>3 DEF WillAnnounce, Announces
    <3>. QED
      BY <3>1, <3>2 DEF RoomTold
  <2>. QED
    BY <2>2, <2>3
<1>. QED
  BY <1>3, <1>4, <1>5, <1>6, <1>7, <1>8

\* The keys whose data a change of tickets changes.
LEMMA TicketDataHas ==
    ASSUME NEW S \in SUBSET Users, NEW rows
    PROVE  /\ PagesKey \in TicketData(S, rows)
           /\ \A w : StatusKey(w) \in TicketData(S, rows) <=> w \in S
<1> DEFINE own == UNION {{StatusKey(u), TicketsKey(u)} : u \in S}
           rest == IF Active(rows) = Active(status) THEN {} ELSE {CountKey, AdminKey}
<1>1. TicketData(S, rows) = own \cup {PagesKey} \cup rest
  BY DEF TicketData
<1>2. \A k : k \in own <=> \E u \in S : k \in {StatusKey(u), TicketsKey(u)}
  OBVIOUS
<1>3. \A k : k \in rest => k \in {CountKey, AdminKey}
  OBVIOUS
<1> HIDE DEF own, rest
<1>4. \A w, u : StatusKey(w) = StatusKey(u) <=> w = u
  BY DEF StatusKey
<1>5. \A w, u : StatusKey(w) \notin {TicketsKey(u), PagesKey, CountKey, AdminKey}
  BY DEF StatusKey, TicketsKey, PagesKey, CountKey, AdminKey
<1>. QED
  BY <1>1, <1>2, <1>3, <1>4, <1>5

\* A request that moves a ticket.
LEMMA MoveKeeps ==
    ASSUME ViewsInv, NEW p \in Handlers, NEW op, NEW u \in Users, NEW to \in AnyStatus,
           NEW effects, Sweeps(effects, u, Newer(u)), MoveTicket(p, op, u, to, effects)
    PROVE  ViewsInv'
<1> DEFINE rows == [status EXCEPT ![u] = to]
           keys == TicketData({u}, rows)
           sweeps == {StatusKey(u), PagesKey}
<1>1. /\ exists /\ exists' = exists /\ Idle(p) /\ ~Held(u)
      /\ Commit(p, rows, keys, sweeps, effects)
      /\ announced' = version[PagesKey] + 1
      /\ commits' = commits + 1
  BY DEF MoveTicket
<1>2. /\ rows \in [Users -> AnyStatus]
      /\ \A w \in Users : w # u => rows[w] = status[w]
  BY DEF ViewsInv, TypeOK
<1>3. sweeps \subseteq keys
  BY TicketDataHas
<1>4. \A w \in Users : StatusKey(w) \in keys <=> w = u
  BY TicketDataHas
<1>5. /\ effects \in Seq(Effect) /\ Has(effects, TellUser(u, Newer(u))[1]) /\ Announces(effects)
      /\ \A k \in sweeps : k[1] \in CachedKinds => Deletes(effects, k)
  BY DEF Sweeps
<1>6. commits' \in Nat /\ p \in Finishing
  BY <1>1 DEF ViewsInv, TypeOK, Finishing
<1> HIDE DEF rows, keys
<1>7. \A w \in Users : Held(w) => /\ exists' = exists /\ rows[w] = status[w]
                                  /\ StatusKey(w) \notin keys
  BY <1>1, <1>2, <1>4
<1>8. \A w \in Users : StatusKey(w) \in keys => Has(effects, TellUser(w, Newer(w))[1])
  BY <1>4, <1>5
<1>9. PagesKey \in keys /\ exists' \in BOOLEAN /\ (exists' => exists)
  BY <1>1, <1>3
<1>. QED
  BY <1>1, <1>2, <1>3, <1>5, <1>6, <1>7, <1>8, <1>9, CommitKeeps

LEMMA RequestsKeep ==
    ASSUME ViewsInv, NEW p \in Handlers, NEW u \in Users, Request(p, u)
    PROVE  ViewsInv'
<1>1. Newer(u) \in Nat
  BY NewerTyped DEF ViewsInv
<1>2. /\ Sweeps(DeleteThenTell(u, Newer(u)), u, Newer(u))
      /\ Sweeps(TellThenDeletePages(u, Newer(u)), u, Newer(u))
      /\ Sweeps(TellThenDeleteStatus(u, Newer(u)), u, Newer(u))
  BY <1>1, RequestEffects
<1>3. {"WAITING", "CANCELLED", "COMPLETED", "LATE", "MISSED"} \subseteq AnyStatus
  BY DEF AnyStatus, Status
<1>. QED
  BY <1>2, <1>3, MoveKeeps
     DEF Request, JoinQueue, LeaveQueue, RemoveQueueUser, MarkComplete, MarkLate,
         LateRejoin, LateArrived

\* The administrator's keys.
LEMMA AdminSweeps ==
    /\ Del(AdminKey) \o Del(MetaKey) \in Seq(Effect)
    /\ \A k \in {AdminKey, MetaKey} :
          k[1] \in CachedKinds => Deletes(Del(AdminKey) \o Del(MetaKey), k)
    /\ {AdminKey, MetaKey} \subseteq Keys
<1>1. AdminKey \in Keys /\ MetaKey \in Keys
  BY DEF Keys
<1>. QED
  BY <1>1, DelIsEffect, Concat

LEMMA ChangesKeep ==
    ASSUME ViewsInv, NEW p \in Handlers, UpdateQueue(p) \/ DeleteQueue(p)
    PROVE  ViewsInv'
<1> DEFINE effects == Del(AdminKey) \o Del(MetaKey)
<1>0. p \in Finishing
  BY DEF Finishing
<1>1. CASE UpdateQueue(p)
  <2>1. /\ exists' = exists /\ announced' = announced /\ commits' = commits + 1 /\ Idle(p)
        /\ Commit(p, status, {AdminKey, MetaKey}, {AdminKey, MetaKey}, effects)
    BY <1>1 DEF UpdateQueue, ChangeQueue
  <2>2. status \in [Users -> AnyStatus] /\ commits' \in Nat /\ exists' \in BOOLEAN
    BY <2>1 DEF ViewsInv, TypeOK
  <2>3. \A w \in Users : StatusKey(w) \notin {AdminKey, MetaKey}
    BY DEF StatusKey, AdminKey, MetaKey
  <2> HIDE DEF effects
  <2>. QED
    BY <1>0, <2>1, <2>2, <2>3, AdminSweeps, CommitKeeps DEF effects
<1>2. CASE DeleteQueue(p)
  <2> DEFINE rows == [u \in Users |-> "NONE"]
  <2>1. /\ exists' = FALSE /\ announced' = announced /\ commits' = commits + 1 /\ Idle(p)
        /\ Commit(p, rows, Keys, {AdminKey, MetaKey}, effects)
        /\ \A w \in Users : ~Held(w)
    BY <1>2 DEF DeleteQueue, ChangeQueue
  <2>2. rows \in [Users -> AnyStatus]
    BY DEF AnyStatus
  <2>3. commits' \in Nat
    BY <2>1 DEF ViewsInv, TypeOK
  <2>4. {AdminKey, MetaKey} \in SUBSET Keys
    BY AdminSweeps
  <2>5. /\ effects \in Seq(Effect)
        /\ \A k \in {AdminKey, MetaKey} : k[1] \in CachedKinds => Deletes(effects, k)
    BY AdminSweeps
  <2> DEFINE sweeps == {AdminKey, MetaKey}
  <2> HIDE DEF effects, rows, sweeps
  <2>6. Commit(p, rows, Keys, sweeps, effects) /\ sweeps \in SUBSET Keys
        /\ \A k \in sweeps : k[1] \in CachedKinds => Deletes(effects, k)
    BY <2>1, <2>4, <2>5 DEF sweeps
  <2>7. /\ exists' \in BOOLEAN /\ (exists' => exists)
        /\ exists' => \A w \in Users : StatusKey(w) \in Keys
                                            => Has(effects, TellUser(w, Newer(w))[1])
        /\ \A w \in Users : Held(w) => /\ exists' = exists /\ rows[w] = status[w]
                                       /\ StatusKey(w) \notin Keys
    BY <2>1
  <2>. QED
    BY <1>0, <2>1, <2>2, <2>3, <2>5, <2>6, <2>7, CommitKeeps
<1>. QED
  BY <1>1, <1>2

LEMMA PromoteKeeps ==
    ASSUME ViewsInv, NEW a \in Promotions, Promote(a)
    PROVE  ViewsInv'
<1>1. PICK S \in SUBSET {u \in Users : status[u] = "WAITING"} :
          LET rows == [u \in Users |-> IF u \in S THEN "SERVING" ELSE status[u]]
          IN  S # {} /\ Commit(a, rows, TicketData(S, rows), {}, PromotionEffects(S))
  <2>1. \E S \in (SUBSET {u \in Users : status[u] = "WAITING"}) \ {{}} :
            LET rows == [u \in Users |-> IF u \in S THEN "SERVING" ELSE status[u]]
            IN  Commit(a, rows, TicketData(S, rows), {}, PromotionEffects(S))
    BY Zenon DEF Promote
  <2>2. PICK S \in (SUBSET {u \in Users : status[u] = "WAITING"}) \ {{}} :
            LET rows == [u \in Users |-> IF u \in S THEN "SERVING" ELSE status[u]]
            IN  Commit(a, rows, TicketData(S, rows), {}, PromotionEffects(S))
    BY <2>1, Zenon
  <2>3. S \in SUBSET {u \in Users : status[u] = "WAITING"} /\ S # {}
    OBVIOUS
  <2>. QED
    BY <2>2, <2>3, Zenon
<1> DEFINE rows == [u \in Users |-> IF u \in S THEN "SERVING" ELSE status[u]]
           keys == TicketData(S, rows)
           effects == PromotionEffects(S)
<1>2. /\ S \subseteq Users /\ S # {} /\ Commit(a, rows, keys, {}, effects)
      /\ exists /\ exists' = exists /\ Idle(a) /\ commits' = commits
      /\ announced' = version[PagesKey] + 1
  BY <1>1 DEF Promote
<1>3. rows \in [Users -> AnyStatus] /\ \A w \in Users : w \notin S => rows[w] = status[w]
  BY DEF ViewsInv, TypeOK, AnyStatus, Status
<1>4. /\ \A w \in Users : StatusKey(w) \in keys <=> w \in S
      /\ PagesKey \in keys
  BY <1>2, TicketDataHas
<1>5. /\ effects \in Seq(Effect) /\ Announces(effects)
      /\ \A w \in S : Has(effects, TellUser(w, Newer(w))[1])
  BY <1>2, PromotionEffectsAre DEF ViewsInv
<1>6. \A w \in Users : Held(w) => status[w] = "LATE"
  <2>1. DOMAIN work[ExpiryWorker].todo = 1..Len(work[ExpiryWorker].todo)
    BY Parts, LenProperties DEF ViewsInv
  <2>. QED
    BY <2>1 DEF Held, ViewsInv, ExpiryInv
<1>7. \A w \in Users : Held(w) => w \notin S
  BY <1>1, <1>6
<1> HIDE DEF rows, keys, effects
<1>8. \A w \in Users : Held(w) => /\ exists' = exists /\ rows[w] = status[w]
                                  /\ StatusKey(w) \notin keys
  BY <1>2, <1>3, <1>4, <1>7
<1>9. commits' \in Nat /\ exists' \in BOOLEAN /\ a \in Finishing
  BY <1>2 DEF ViewsInv, TypeOK, Finishing
<1>. QED
  BY <1>2, <1>3, <1>4, <1>5, <1>8, <1>9, CommitKeeps
-----------------------------------------------------------------------------
(* The late-expiry worker. *)

\* What the worker keeps is what it has, and what it has is in its list.
LEMMA ExpiryHas ==
    ASSUME TypeOK
    PROVE  ExpiryInv <=>
              \A e : Has(work[ExpiryWorker].todo, e) /\ e.do = "commit" =>
                  /\ e.user \in Users
                  /\ exists
                  /\ status[e.user] = "LATE"
                  /\ \/ Newer(e.user) \in told[e.user]
                     \/ Next1(ExpiryWorker) = TellUser(e.user, Newer(e.user))[1]
BY Zenon DEF ExpiryInv, Has

\* The steps of the worker that commit nothing touch no other activity.
LEMMA WorkerKeeps ==
    ASSUME ViewsInv, TypeOK', ExpiryInv',
           UNCHANGED <<data, redis, reads, told, roomTold>>,
           \A a \in Finishing : work'[a] = work[a]
    PROVE  ViewsInv'
<1> USE DEF ViewsInv, data
<1>1. ReadersInv'
  BY DEF ReadersInv
<1>2. DeletionInv'
  <2>1. \A p \in Handlers : work'[p] = work[p]
    BY Parts
  <2>. QED
    BY <2>1 DEF DeletionInv, Deletes
<1>3. UserTold'
  <2>1. SUFFICES ASSUME exists, NEW u \in Users, NEW v \in 1..version[StatusKey(u)]
                 PROVE  v \in told[u] \/ \E b \in Finishing : Has(work'[b].todo, TellUser(u, v)[1])
    BY DEF UserTold, StatusKey, TellUser, Do, NoKey
  <2>. QED
    BY <2>1 DEF UserTold
<1>4. RoomTold'
  <2>1. \A b \in Finishing : WillAnnounce(b) => WillAnnounce(b)'
    BY DEF WillAnnounce, Announces, Idle, Next1
  <2>. QED
    BY <2>1 DEF RoomTold
<1>. QED
  BY <1>1, <1>2, <1>3, <1>4

LEMMA StartKeeps ==
    ASSUME ViewsInv, NEW u \in Users, StartExpiry(u)
    PROVE  ViewsInv'
<1> DEFINE T == TellUser(u, Newer(u))
           C == Del(CountKey)
           S == Del(StatusKey(u))
           e == [Do("commit") EXCEPT !.user = u]
           L == (((T \o C) \o S) \o C) \o <<e>>
<1>0. TypeOK /\ ExpiryWorker \in Activities
  BY Parts DEF ViewsInv
<1>1. /\ exists /\ status[u] = "LATE"
      /\ work' = [work EXCEPT ![ExpiryWorker].todo = L]
      /\ UNCHANGED <<data, redis, reads, told, roomTold>>
  BY DEF StartExpiry
<1>2. e \in Effect /\ e.do = "commit" /\ e.user = u
  BY DEF Do, Effect, NoKey
<1>3. Newer(u) \in Nat
  BY <1>0, NewerTyped
<1>4. /\ T \in Seq(Effect) /\ C \in Seq(Effect) /\ S \in Seq(Effect) /\ Len(T) = 1
      /\ T[1].do = "tellUser"
      /\ \A x : Has(T, x) => x.do # "commit"
      /\ \A x : Has(C, x) \/ Has(S, x) => x.do # "commit"
  BY <1>3, TellIsEffect, DelIsEffect, KeysOf
<1> HIDE DEF T, C, S, e
<1>5. <<e>> \in Seq(Effect) /\ \A x : Has(<<e>>, x) => x = e
  BY <1>2 DEF Has
<1>6. T \o C \in Seq(Effect)
  BY <1>4, Concat
<1>7. (T \o C) \o S \in Seq(Effect)
  BY <1>4, <1>6, Concat
<1>8. ((T \o C) \o S) \o C \in Seq(Effect)
  BY <1>4, <1>7, Concat
<1>9. L \in Seq(Effect)
  BY <1>5, <1>8, Concat
<1>10. ASSUME NEW x, Has(L, x), x.do = "commit" PROVE x = e
  <2>1. Has(((T \o C) \o S) \o C, x) \/ Has(<<e>>, x)
    BY <1>5, <1>8, <1>10, Concat
  <2>2. Has((T \o C) \o S, x) \/ Has(C, x) \/ Has(<<e>>, x)
    BY <1>4, <1>7, <2>1, Concat
  <2>3. Has(T \o C, x) \/ Has(S, x) \/ Has(C, x) \/ Has(<<e>>, x)
    BY <1>4, <1>6, <2>2, Concat
  <2>4. Has(T, x) \/ Has(S, x) \/ Has(C, x) \/ Has(<<e>>, x)
    BY <1>4, <2>3, Concat
  <2>. QED
    BY <1>4, <1>5, <1>10, <2>4
<1>11. Head(L) = T[1]
  <2>1. ASSUME NEW s \in Seq(Effect), NEW t \in Seq(Effect), Len(s) # 0
        PROVE  Len(s \o t) # 0 /\ (s \o t)[1] = s[1]
    BY <2>1, ConcatProperties, LenProperties
  <2>2. Len(T \o C) # 0 /\ (T \o C)[1] = T[1]
    <3>1. T \in Seq(Effect) /\ C \in Seq(Effect) /\ Len(T) # 0
      BY <1>4
    <3>. QED
      BY <2>1, <3>1
  <2>3. Len((T \o C) \o S) # 0 /\ ((T \o C) \o S)[1] = T[1]
    BY <1>4, <1>6, <2>1, <2>2
  <2>4. Len(((T \o C) \o S) \o C) # 0 /\ (((T \o C) \o S) \o C)[1] = T[1]
    BY <1>4, <1>7, <2>1, <2>3
  <2>5. Len(L) # 0 /\ L[1] = T[1]
    BY <1>5, <1>8, <2>1, <2>4
  <2>. QED
    BY <2>5
<1> HIDE DEF L
<1>12. /\ work' \in [Activities -> Work] /\ work'[ExpiryWorker].todo = L
       /\ \A b \in Finishing : work'[b] = work[b]
  <2>1. work \in [Activities -> Work]
    BY <1>0 DEF TypeOK
  <2>2. [work[ExpiryWorker] EXCEPT !.todo = L] \in Work
    BY <1>0, <1>9, <2>1 DEF Work
  <2>3. [work[ExpiryWorker] EXCEPT !.todo = L].todo = L
    BY <1>0, <2>1 DEF Work
  <2>4. work' = [work EXCEPT ![ExpiryWorker] = [work[ExpiryWorker] EXCEPT !.todo = L]]
    BY <1>1
  <2>. QED
    BY <1>0, <2>1, <2>2, <2>3, <2>4, Parts
<1>13. TypeOK'
  BY <1>0, <1>1, <1>12 DEF TypeOK, data
<1>14. Newer(u)' = Newer(u) /\ TellUser(u, Newer(u))' = T /\ Next1(ExpiryWorker)' = T[1]
  BY <1>1, <1>11, <1>12 DEF Newer, StatusKey, TellUser, Do, NoKey, Next1, data, T
<1>15. ExpiryInv'
  <2>1. ASSUME NEW i \in 1..Len(L), L[i].do = "commit" PROVE L[i].user = u
    BY <1>2, <1>10, <2>1 DEF Has
  <2>2. exists' /\ status'[u] = "LATE"
    BY <1>1 DEF data
  <2>. QED
    BY <1>12, <1>14, <2>1, <2>2 DEF ExpiryInv
<1>. QED
  BY <1>1, <1>12, <1>13, <1>15, WorkerKeeps

LEMMA AbortKeeps ==
    ASSUME ViewsInv, AbortMissed
    PROVE  ViewsInv'
<1>0. TypeOK /\ ExpiryWorker \in Activities /\ work \in [Activities -> Work]
  BY Parts DEF ViewsInv, TypeOK
<1>1. Rest \in Work /\ Rest.todo = <<>>
  BY DEF Rest, Work
<1> HIDE DEF Rest
<1>2. /\ work' = [work EXCEPT ![ExpiryWorker] = Rest]
      /\ UNCHANGED <<data, redis, reads, told, roomTold>>
  BY DEF AbortMissed
<1>3. /\ work' \in [Activities -> Work] /\ work'[ExpiryWorker].todo = <<>>
      /\ \A b \in Finishing : work'[b] = work[b]
  BY <1>0, <1>1, <1>2, Parts
<1>4. TypeOK'
  BY <1>0, <1>2, <1>3 DEF TypeOK, data
<1>5. ExpiryInv'
  BY <1>3 DEF ExpiryInv
<1>. QED
  BY <1>2, <1>3, <1>4, <1>5, WorkerKeeps

\* The commit of the worker: the user was told before.
LEMMA MissedIs ==
    ASSUME ViewsInv, CommitMissed
    PROVE  \E u \in Users :
              /\ exists /\ exists' = exists /\ status[u] = "LATE" /\ Newer(u) \in told[u]
              /\ announced' = announced /\ commits' = commits
              /\ LET rows == [status EXCEPT ![u] = "MISSED"]
                 IN  Commit(ExpiryWorker, rows, TicketData({u}, rows), {}, <<>>)
<1> DEFINE u == Next1(ExpiryWorker).user
           s == work[ExpiryWorker].todo
<1>1. /\ s # <<>> /\ Next1(ExpiryWorker).do = "commit"
      /\ UNCHANGED <<exists, announced, commits>>
      /\ LET rows == [status EXCEPT ![u] = "MISSED"]
         IN  Commit(ExpiryWorker, rows, TicketData({u}, rows), {}, <<>>)
  BY DEF CommitMissed, Idle
<1>2. s \in Seq(Effect)
  BY Parts DEF ViewsInv
<1>3. 1 \in 1..Len(s) /\ Next1(ExpiryWorker) = s[1]
  BY <1>1, <1>2, Popped DEF Next1
<1>4. /\ u \in Users /\ exists /\ status[u] = "LATE"
      /\ Newer(u) \in told[u] \/ Next1(ExpiryWorker) = TellUser(u, Newer(u))[1]
  BY <1>1, <1>3 DEF ViewsInv, ExpiryInv
<1>5. Newer(u) \in told[u]
  BY <1>1, <1>4, NewerTyped, TellIsEffect DEF ViewsInv
<1> HIDE DEF u
<1>. QED
  BY <1>1, <1>4, <1>5

LEMMA MissedKeeps ==
    ASSUME ViewsInv, CommitMissed
    PROVE  ViewsInv'
<1> USE DEF ViewsInv
<1>1. PICK u \in Users :
              /\ exists /\ exists' = exists /\ status[u] = "LATE" /\ Newer(u) \in told[u]
              /\ announced' = announced /\ commits' = commits
              /\ LET rows == [status EXCEPT ![u] = "MISSED"]
                 IN  Commit(ExpiryWorker, rows, TicketData({u}, rows), {}, <<>>)
  BY MissedIs
<1> DEFINE rows == [status EXCEPT ![u] = "MISSED"]
           keys == TicketData({u}, rows)
<1>2. rows \in [Users -> AnyStatus]
  BY DEF TypeOK, AnyStatus, Status
<1>3. \A w \in Users : StatusKey(w) \in keys <=> w = u
  BY TicketDataHas
<1>4. Commit(ExpiryWorker, rows, keys, {}, <<>>) /\ ExpiryWorker \in Activities
  BY <1>1, Parts
<1> HIDE DEF rows, keys
<1>5. /\ status' = rows
      /\ \A k \in Keys : version'[k] = IF k \in keys THEN version[k] + 1 ELSE version[k]
      /\ \A k \in Keys : swept'[k] = swept[k]
      /\ version' \in [Keys -> Nat] /\ swept' \in [Keys -> Nat]
      /\ work' \in [Activities -> Work]
      /\ work'[ExpiryWorker].todo = <<>>
      /\ \A b \in Finishing : work'[b] = work[b]
      /\ UNCHANGED <<redis, reads, told, roomTold>>
  <2>1. <<>> \in Seq(Effect)
    BY Empty
  <2> DEFINE none == {}
             effects == <<>>
  <2>2. Commit(ExpiryWorker, rows, keys, none, effects) /\ effects \in Seq(Effect)
    BY <1>4, <2>1
  <2>3. \A k : k \notin none
    OBVIOUS
  <2> HIDE DEF none
  <2>4. /\ status' = rows
        /\ \A k \in Keys : version'[k] = IF k \in keys THEN version[k] + 1 ELSE version[k]
        /\ \A k \in Keys : swept'[k] = IF k \in none THEN version[k] + 1 ELSE swept[k]
        /\ version' \in [Keys -> Nat] /\ swept' \in [Keys -> Nat]
        /\ work' \in [Activities -> Work]
        /\ work'[ExpiryWorker].todo = effects
        /\ \A b \in Activities : b # ExpiryWorker => work'[b] = work[b]
        /\ UNCHANGED <<redis, reads, told, roomTold>>
    <3> HIDE DEF effects
    <3>. QED
      BY <1>2, <1>4, <2>2, CommitDoes
  <2>. QED
    BY <2>3, <2>4, Parts
<1>6. TypeOK'
  BY <1>1, <1>2, <1>5 DEF TypeOK
<1>7. ExpiryInv'
  BY <1>5 DEF ExpiryInv
<1>8. ReadersInv'
  BY <1>5 DEF ReadersInv
<1>9. DeletionInv'
  <2>1. \A p \in Handlers : work'[p] = work[p]
    BY <1>5, Parts
  <2>2. \A k \in Keys : swept[k] <= version'[k]
    BY <1>5, Parts DEF DeletionInv
  <2>3. ASSUME NEW k \in Keys, cache'[k].hit, cache'[k].fresh, cache'[k].version < swept'[k]
        PROVE  \/ \E p \in Handlers : Deletes(work'[p].todo, k)
               \/ cache'[k].version < undeleted'[k]
    <3>1. \/ \E p \in Handlers : Deletes(work[p].todo, k)
          \/ cache[k].version < undeleted[k]
      BY <1>5, <2>3 DEF DeletionInv
    <3>. QED
      BY <1>5, <2>1, <3>1
  <2>. QED
    BY <1>5, <2>2, <2>3 DEF DeletionInv
<1>10. UserTold'
  <2>1. SUFFICES ASSUME NEW w \in Users, NEW v \in 1..version'[StatusKey(w)]
                 PROVE  v \in told[w] \/ \E b \in Finishing : Has(work'[b].todo, TellUser(w, v)[1])
    BY <1>5 DEF UserTold, StatusKey, TellUser, Do, NoKey
  <2>2. version[StatusKey(w)] \in Nat /\ StatusKey(w) \in Keys
    BY Parts, KeysOf
  <2>3. CASE v \in 1..version[StatusKey(w)]
    BY <1>1, <1>5, <2>3 DEF UserTold
  <2>4. CASE v \notin 1..version[StatusKey(w)]
    <3>1. v = Newer(w) /\ StatusKey(w) \in keys
      BY <1>5, <2>1, <2>2, <2>4 DEF Newer
    <3>. QED
      BY <1>1, <1>3, <3>1
  <2>. QED
    BY <2>3, <2>4
<1>11. RoomTold'
  <2>1. announced' <= version'[PagesKey]
    <3>1. PagesKey \in Keys /\ version[PagesKey] \in Nat /\ announced \in Nat
      BY Parts DEF Keys
    <3>. QED
      BY <1>1, <1>5, <3>1 DEF RoomTold
  <2>2. \A b \in Finishing : WillAnnounce(b) => WillAnnounce(b)'
    BY <1>1, <1>5 DEF WillAnnounce, Announces, Idle, Next1
  <2>. QED
    BY <1>1, <1>5, <2>1, <2>2 DEF RoomTold
<1>. QED
  BY <1>6, <1>7, <1>8, <1>9, <1>10, <1>11

-----------------------------------------------------------------------------
(* The effects. *)

\* An activity that performs its next effect keeps the invariant when it drops
\* no deletion of what is cached, no untold change and no announcement.
LEMMA EffectKeeps ==
    ASSUME ViewsInv, TypeOK', NEW a \in Activities, ~Idle(a),
           UNCHANGED <<data, reads>>,
           \A b \in Activities : b # a => work'[b] = work[b],
           \A k \in Keys : cache'[k].hit => cache'[k] = cache[k],
           \A k \in Keys : undeleted'[k] \in {undeleted[k], swept[k]},
           \A w \in Users : told[w] \subseteq told'[w],
           Next1(a).do = "tellUser" /\ Next1(a).user \in Users
              => Next1(a).version \in told'[Next1(a).user],
           \A e : Has(work'[a].todo, e) /\ e.do # "unlink" => Has(work[a].todo, e),
           \A e : Has(work[a].todo, e) /\ e.do = "tellUser" /\ e.user \in Users =>
                     Has(work'[a].todo, e) \/ e.version \in told'[e.user],
           \A k \in Keys : Deletes(work[a].todo, k) /\ cache'[k].hit
                               => Deletes(work'[a].todo, k) \/ undeleted'[k] = swept[k],
           roomTold' >= roomTold,
           WillAnnounce(a) => WillAnnounce(a)' \/ roomTold' >= announced
    PROVE  ViewsInv'
<1> USE DEF ViewsInv
<1>0. UNCHANGED <<exists, status, version, swept, announced, commits, reads>>
  BY DEF data
<1>1. ExpiryInv'
  <2>1. CASE a # ExpiryWorker
    <3>1. work'[ExpiryWorker] = work[ExpiryWorker]
      BY <2>1, Parts
    <3>2. \A w \in Users : Held(w) => /\ exists' = exists /\ status'[w] = status[w]
                                      /\ version'[StatusKey(w)] = version[StatusKey(w)]
      BY <1>0
    <3>. QED
      BY <3>1, <3>2, ExpiryKept
  <2>2. CASE a = ExpiryWorker
    <3>1. SUFFICES ASSUME NEW i \in 1..Len(work'[a].todo), work'[a].todo[i].do = "commit"
                   PROVE  LET u == work'[a].todo[i].user
                          IN  /\ u \in Users /\ exists /\ status[u] = "LATE"
                              /\ Newer(u) \in told'[u]
      BY <1>0, <2>2 DEF ExpiryInv, Newer, StatusKey
    <3> DEFINE e == work'[a].todo[i]
    <3>2. Has(work'[a].todo, e) /\ e.do = "commit"
      BY <3>1 DEF Has
    <3> HIDE DEF e
    <3>3. Has(work[a].todo, e)
      BY <3>2
    <3>4. /\ e.user \in Users /\ exists /\ status[e.user] = "LATE"
          /\ \/ Newer(e.user) \in told[e.user]
             \/ Next1(a) = TellUser(e.user, Newer(e.user))[1]
      BY <2>2, <3>2, <3>3, ExpiryHas
    <3>5. CASE Next1(a) = TellUser(e.user, Newer(e.user))[1]
      <4>1. /\ Next1(a).do = "tellUser" /\ Next1(a).user = e.user
            /\ Next1(a).version = Newer(e.user)
        BY <3>4, <3>5, NewerTyped, TellIsEffect
      <4>. QED
        BY <3>4, <4>1 DEF e
    <3>6. CASE Newer(e.user) \in told[e.user]
      BY <3>4, <3>6 DEF e
    <3>. QED
      BY <3>4, <3>5, <3>6
  <2>. QED
    BY <2>1, <2>2
<1>2. ReadersInv'
  BY <1>0 DEF ReadersInv
<1>3. DeletionInv'
  <2>1. ASSUME NEW k \in Keys, cache'[k].hit, cache'[k].fresh, cache'[k].version < swept'[k]
        PROVE  \/ \E p \in Handlers : Deletes(work'[p].todo, k)
               \/ cache'[k].version < undeleted'[k]
    <3>1. SUFFICES ASSUME undeleted'[k] # swept[k]
                   PROVE  \/ \E p \in Handlers : Deletes(work'[p].todo, k)
                          \/ cache'[k].version < undeleted'[k]
      BY <1>0, <2>1
    <3>2. cache'[k] = cache[k] /\ undeleted'[k] = undeleted[k]
      BY <2>1, <3>1
    <3>3. ASSUME NEW p \in Handlers, Deletes(work[p].todo, k) PROVE Deletes(work'[p].todo, k)
      <4>1. p \in Activities
        BY Parts
      <4>. QED
        BY <2>1, <3>1, <3>3, <4>1
    <3>. QED
      BY <1>0, <2>1, <3>2, <3>3 DEF DeletionInv
  <2>. QED
    BY <1>0, <2>1 DEF DeletionInv
<1>4. UserTold'
  <2>1. SUFFICES ASSUME exists, NEW u \in Users, NEW v \in 1..version[StatusKey(u)]
                 PROVE  v \in told'[u] \/ \E b \in Finishing : Has(work'[b].todo, TellUser(u, v)[1])
    BY <1>0 DEF UserTold, StatusKey, TellUser, Do, NoKey
  <2>2. v \in Nat
    BY <2>1, Parts, KeysOf
  <2>3. CASE v \in told[u]
    BY <2>3
  <2>4. ASSUME NEW b \in Finishing, Has(work[b].todo, TellUser(u, v)[1])
        PROVE  v \in told'[u] \/ Has(work'[b].todo, TellUser(u, v)[1])
    <3> DEFINE e == TellUser(u, v)[1]
    <3>1. e.do = "tellUser" /\ e.user = u /\ e.version = v
      BY <2>2, TellIsEffect
    <3> HIDE DEF e
    <3>2. CASE b # a
      BY <2>4, <3>2, Parts
    <3>3. CASE b = a
      BY <2>4, <3>1, <3>3 DEF e
    <3>. QED
      BY <3>2, <3>3
  <2>. QED
    BY <2>1, <2>3, <2>4 DEF UserTold
<1>5. RoomTold'
  <2>1. roomTold \in Nat /\ roomTold' \in Nat /\ announced \in Nat
    BY Parts DEF TypeOK
  <2>2. \A b \in Finishing : b # a /\ WillAnnounce(b) => WillAnnounce(b)'
    <3>1. \A b \in Finishing : b # a => work'[b] = work[b]
      BY Parts
    <3>. QED
      BY <1>0, <3>1 DEF WillAnnounce, Announces, Idle, Next1
  <2>3. CASE roomTold >= announced
    <3>1. roomTold' >= announced'
      BY <1>0, <2>1, <2>3
    <3>. QED
      BY <1>0, <3>1 DEF RoomTold
  <2>4. CASE ~(roomTold >= announced)
    <3>1. PICK b \in Finishing : WillAnnounce(b)
      BY <2>4 DEF RoomTold
    <3>2. WillAnnounce(b)' \/ roomTold' >= announced'
      BY <1>0, <2>2, <3>1
    <3>. QED
      BY <1>0, <3>2 DEF RoomTold
  <2>. QED
    BY <2>3, <2>4
<1>. QED
  BY <1>1, <1>2, <1>3, <1>4, <1>5

\* What a step on the list of one activity does.
LEMMA ListChange ==
    ASSUME TypeOK, NEW a \in Activities, NEW L \in Seq(Effect),
           work' = [work EXCEPT ![a].todo = L]
    PROVE  /\ work' \in [Activities -> Work] /\ work'[a].todo = L
           /\ work'[a].seen = work[a].seen
           /\ \A b \in Activities : b # a => work'[b] = work[b]
<1>1. work \in [Activities -> Work]
  BY DEF TypeOK
<1> DEFINE w == [work[a] EXCEPT !.todo = L]
<1>2. w \in Work /\ w.todo = L /\ w.seen = work[a].seen
  BY <1>1 DEF Work
<1>3. work' = [work EXCEPT ![a] = w]
  OBVIOUS
<1> HIDE DEF w
<1>. QED
  BY <1>1, <1>2, <1>3

\* What is next, and what is left after it.
LEMMA NextIs ==
    ASSUME TypeOK, NEW a \in Activities, ~Idle(a)
    PROVE  LET s == work[a].todo
           IN  /\ s \in Seq(Effect) /\ s # <<>> /\ Tail(s) \in Seq(Effect)
               /\ Next1(a) = Head(s) /\ Next1(a) \in Effect
               /\ \A e : Has(s, e) <=> e = Next1(a) \/ Has(Tail(s), e)
               /\ \A k : Deletes(s, k) => \/ Deletes(Tail(s), k)
                                          \/ Next1(a).key = k /\ Next1(a).do \in {"del", "unlink"}
               /\ Announces(s) => \/ Announces(Tail(s))
                                  \/ /\ Next1(a).do = "readQueue" /\ Tail(s) # <<>>
                                     /\ Head(Tail(s)).do = "tellQueue"
<1>1. work[a].todo \in Seq(Effect) /\ work[a].todo # <<>>
  BY Parts DEF Idle
<1>. QED
  BY <1>1, Popped DEF Next1

\* What an activity that neither reads nor tells the room next will announce
\* is in its list.
LEMMA AnnouncesLater ==
    ASSUME TypeOK, NEW a \in Activities, ~Idle(a), WillAnnounce(a),
           Next1(a).do \notin {"readQueue", "tellQueue"}
    PROVE  Announces(Tail(work[a].todo))
BY NextIs DEF WillAnnounce

\* cacheDel looks its keys up and finds what is there.
LEMMA LookupKeeps ==
    ASSUME ViewsInv, NEW a \in Activities, LookupKeys(a), UNCHANGED redis
    PROVE  ViewsInv'
<1> DEFINE s == work[a].todo
           x == [Next1(a) EXCEPT !.do = "unlink"]
           hit == cache[Next1(a).key].hit
           L == IF hit THEN <<x>> \o Tail(s) ELSE Tail(s)
<1>0. TypeOK
  BY DEF ViewsInv
<1>1. /\ ~Idle(a) /\ Next1(a).do = "del"
      /\ work' = [work EXCEPT ![a].todo = L]
      /\ UNCHANGED <<data, redis, reads, told, roomTold>>
  <2>1. redisErrors' = redisErrors /\ redisErrors \in Nat
    BY DEF ViewsInv, TypeOK
  <2>2. ~DeletionFails(a)
    BY <2>1 DEF DeletionFails, RedisFails
  <2>. QED
    BY <2>2, Zenon DEF LookupKeys
<1>2. /\ s \in Seq(Effect) /\ Tail(s) \in Seq(Effect) /\ Next1(a) \in Effect
      /\ \A e : Has(s, e) <=> e = Next1(a) \/ Has(Tail(s), e)
      /\ \A k : Deletes(s, k) => Deletes(Tail(s), k) \/ Next1(a).key = k
  BY <1>0, <1>1, NextIs
<1>3. x \in Effect /\ x.do = "unlink" /\ x.key = Next1(a).key
  BY <1>2 DEF Effect
<1> HIDE DEF x
<1>4. <<x>> \in Seq(Effect) /\ Deletes(<<x>>, Next1(a).key) /\ \A e : Has(<<x>>, e) => e = x
  BY <1>3 DEF Has, Deletes
<1>5. /\ L \in Seq(Effect)
      /\ \A e : Has(L, e) => e = x \/ Has(Tail(s), e)
      /\ \A e : Has(Tail(s), e) => Has(L, e)
      /\ \A k : Deletes(Tail(s), k) => Deletes(L, k)
      /\ hit => Deletes(L, Next1(a).key)
      /\ Announces(Tail(s)) => Announces(L)
  BY <1>2, <1>4, Concat
<1> HIDE DEF L
<1>6. /\ work' \in [Activities -> Work] /\ work'[a].todo = L
      /\ \A b \in Activities : b # a => work'[b] = work[b]
  BY <1>0, <1>1, <1>5, ListChange
<1>7. TypeOK'
  BY <1>0, <1>1, <1>6 DEF TypeOK, data
<1>8. \A e : Has(L, e) /\ e.do # "unlink" => Has(s, e)
  BY <1>2, <1>3, <1>5
<1>9. \A e : Has(s, e) /\ e.do = "tellUser" => Has(L, e)
  BY <1>1, <1>2, <1>5
<1>10. \A k : Deletes(s, k) /\ cache[k].hit => Deletes(L, k)
  BY <1>2, <1>5
<1>11. WillAnnounce(a) => WillAnnounce(a)'
  <2>1. WillAnnounce(a) => Announces(L)
    BY <1>0, <1>1, <1>5, AnnouncesLater
  <2>2. Announces(L) => WillAnnounce(a)'
    BY <1>6 DEF WillAnnounce, Announces
  <2>. QED
    BY <2>1, <2>2
<1>12. roomTold' >= roomTold
  BY <1>0, <1>1, Parts
<1>. QED
  BY <1>1, <1>6, <1>7, <1>8, <1>9, <1>10, <1>11, <1>12, EffectKeeps

\* cacheDel deletes what it has found.
LEMMA UnlinkKeeps ==
    ASSUME ViewsInv, NEW a \in Activities, UnlinkKeys(a), ~DeletionFails(a)
    PROVE  ViewsInv'
<1> DEFINE s == work[a].todo
           L == Tail(s)
<1>0. TypeOK
  BY DEF ViewsInv
<1>1. /\ ~Idle(a) /\ Next1(a).do = "unlink"
      /\ cache' = [cache EXCEPT ![Next1(a).key] = Miss]
      /\ work' = [work EXCEPT ![a].todo = L]
      /\ UNCHANGED <<data, undeleted, redisErrors, reads, told, roomTold>>
  BY DEF UnlinkKeys, Pop
<1>2. /\ L \in Seq(Effect)
      /\ \A e : Has(s, e) <=> e = Next1(a) \/ Has(L, e)
      /\ \A k : Deletes(s, k) => Deletes(L, k) \/ Next1(a).key = k
  BY <1>0, <1>1, NextIs
<1> HIDE DEF L
<1>3. /\ work' \in [Activities -> Work] /\ work'[a].todo = L
      /\ \A b \in Activities : b # a => work'[b] = work[b]
  BY <1>0, <1>1, <1>2, ListChange
<1>4. /\ Miss \in Entry /\ ~Miss.hit
      /\ cache \in [Keys -> Entry]
  BY <1>0 DEF Miss, Entry, TypeOK
<1> HIDE DEF Miss
<1>5. /\ cache' \in [Keys -> Entry]
      /\ \A k \in Keys : cache'[k].hit => cache'[k] = cache[k] /\ k # Next1(a).key
  BY <1>1, <1>4
<1>6. TypeOK'
  BY <1>0, <1>1, <1>3, <1>5 DEF TypeOK, data
<1>7. WillAnnounce(a) => WillAnnounce(a)'
  <2>1. WillAnnounce(a) => Announces(L)
    BY <1>0, <1>1, AnnouncesLater DEF L
  <2>2. Announces(L) => WillAnnounce(a)'
    BY <1>3 DEF WillAnnounce, Announces
  <2>. QED
    BY <2>1, <2>2
<1>8. roomTold' >= roomTold
  BY <1>0, <1>1, Parts
<1>. QED
  BY <1>1, <1>2, <1>3, <1>5, <1>6, <1>7, <1>8, EffectKeeps

\* A command of cacheDel fails: the key stays, and that is remembered.
LEMMA DeletionFailsKeeps ==
    ASSUME ViewsInv, NEW a \in Activities, LookupKeys(a) \/ UnlinkKeys(a), DeletionFails(a)
    PROVE  ViewsInv'
<1> DEFINE s == work[a].todo
           L == Tail(s)
           j == Next1(a).key
<1>0. TypeOK
  BY DEF ViewsInv
<1>1. /\ ~Idle(a) /\ Next1(a).do \in {"del", "unlink"}
      /\ undeleted' = [undeleted EXCEPT ![j] = swept[j]]
      /\ redisErrors' = redisErrors + 1
      /\ work' = [work EXCEPT ![a].todo = L]
      /\ UNCHANGED <<data, cache, reads, told, roomTold>>
  BY DEF LookupKeys, UnlinkKeys, DeletionFails, RedisFails, Pop
<1>2. /\ L \in Seq(Effect)
      /\ \A e : Has(s, e) <=> e = Next1(a) \/ Has(L, e)
      /\ \A k : Deletes(s, k) => Deletes(L, k) \/ k = j
  BY <1>0, <1>1, NextIs
<1> HIDE DEF L, j
<1>3. /\ work' \in [Activities -> Work] /\ work'[a].todo = L
      /\ \A b \in Activities : b # a => work'[b] = work[b]
  BY <1>0, <1>1, <1>2, ListChange
<1>4. /\ undeleted \in [Keys -> Nat] /\ swept \in [Keys -> Nat]
      /\ redisErrors \in Nat
  BY <1>0 DEF TypeOK
<1>5. \A k \in Keys : undeleted'[k] = IF k = j THEN swept[k] ELSE undeleted[k]
  BY <1>1, <1>4
<1>6. undeleted' \in [Keys -> Nat] /\ redisErrors' \in Nat
  <2>1. undeleted' = [k \in Keys |-> IF k = j THEN swept[k] ELSE undeleted[k]]
    BY <1>1, <1>4
  <2>2. undeleted' \in [Keys -> Nat]
    BY <1>4, <2>1
  <2>. QED
    BY <1>1, <1>4, <2>2
<1>7. TypeOK'
  BY <1>0, <1>1, <1>3, <1>6 DEF TypeOK, data
<1>8. WillAnnounce(a) => WillAnnounce(a)'
  <2>1. WillAnnounce(a) => Announces(L)
    BY <1>0, <1>1, AnnouncesLater DEF L
  <2>2. Announces(L) => WillAnnounce(a)'
    BY <1>3 DEF WillAnnounce, Announces
  <2>. QED
    BY <2>1, <2>2
<1>9. roomTold' >= roomTold
  BY <1>0, <1>1, Parts
<1>. QED
  BY <1>1, <1>2, <1>3, <1>5, <1>7, <1>8, <1>9, EffectKeeps

LEMMA TellKeeps ==
    ASSUME ViewsInv, NEW a \in Activities, EmitToUser(a)
    PROVE  ViewsInv'
<1> DEFINE s == work[a].todo
           L == Tail(s)
           u == Next1(a).user
           v == Next1(a).version
<1>0. TypeOK /\ told \in [Users -> SUBSET Nat]
  BY DEF ViewsInv, TypeOK
<1>1. /\ ~Idle(a) /\ Next1(a).do = "tellUser"
      /\ told' = [told EXCEPT ![u] = @ \cup {v}]
      /\ work' = [work EXCEPT ![a].todo = L]
      /\ UNCHANGED <<data, redis, reads, roomTold>>
  BY DEF EmitToUser, Pop
<1>2. /\ L \in Seq(Effect) /\ v \in Nat
      /\ \A e : Has(s, e) <=> e = Next1(a) \/ Has(L, e)
      /\ \A k : Deletes(s, k) => Deletes(L, k)
  BY <1>0, <1>1, NextIs DEF Effect
<1> HIDE DEF L
<1>3. /\ work' \in [Activities -> Work] /\ work'[a].todo = L
      /\ \A b \in Activities : b # a => work'[b] = work[b]
  BY <1>0, <1>1, <1>2, ListChange
<1>4. told' \in [Users -> SUBSET Nat] /\ (\A w \in Users : told[w] \subseteq told'[w])
  BY <1>0, <1>1, <1>2
<1>5. u \in Users => v \in told'[u]
  BY <1>0, <1>1
<1>6. TypeOK'
  BY <1>0, <1>1, <1>3, <1>4 DEF TypeOK, data
<1>7. \A e : Has(s, e) /\ e.do = "tellUser" /\ e.user \in Users =>
                Has(L, e) \/ e.version \in told'[e.user]
  BY <1>2, <1>5
<1>8. WillAnnounce(a) => WillAnnounce(a)'
  <2>1. WillAnnounce(a) => Announces(L)
    BY <1>0, <1>1, AnnouncesLater DEF L
  <2>2. Announces(L) => WillAnnounce(a)'
    BY <1>3 DEF WillAnnounce, Announces
  <2>. QED
    BY <2>1, <2>2
<1>9. roomTold' >= roomTold
  BY <1>0, <1>1, Parts
<1> HIDE DEF u, v
<1>. QED
  BY <1>1, <1>2, <1>3, <1>4, <1>5, <1>6, <1>7, <1>8, <1>9, EffectKeeps DEF u, v

LEMMA ReadKeeps ==
    ASSUME ViewsInv, NEW a \in Activities, ReadTickets(a)
    PROVE  ViewsInv'
<1> DEFINE s == work[a].todo
           L == Tail(s)
           w == [todo |-> L, seen |-> version[PagesKey]]
<1>0. TypeOK /\ work \in [Activities -> Work]
  BY DEF ViewsInv, TypeOK
<1>1. /\ ~Idle(a) /\ Next1(a).do = "readQueue"
      /\ work' = [work EXCEPT ![a] = w]
      /\ UNCHANGED <<data, redis, reads, told, roomTold>>
  BY DEF ReadTickets
<1>2. /\ L \in Seq(Effect)
      /\ \A e : Has(s, e) <=> e = Next1(a) \/ Has(L, e)
      /\ \A k : Deletes(s, k) => Deletes(L, k)
      /\ Announces(s) => Announces(L) \/ (L # <<>> /\ Head(L).do = "tellQueue")
  BY <1>0, <1>1, NextIs
<1>3. version[PagesKey] \in Nat /\ announced \in Nat /\ announced <= version[PagesKey]
  BY <1>0, Parts DEF ViewsInv, RoomTold, Keys
<1> HIDE DEF L
<1>4. w \in Work /\ w.todo = L /\ w.seen = version[PagesKey]
  BY <1>2, <1>3 DEF Work
<1> HIDE DEF w
<1>5. /\ work' \in [Activities -> Work] /\ work'[a].todo = L
      /\ work'[a].seen = version[PagesKey]
      /\ \A b \in Activities : b # a => work'[b] = work[b]
  BY <1>0, <1>1, <1>4
<1>6. TypeOK'
  BY <1>0, <1>1, <1>5 DEF TypeOK, data
<1>7. WillAnnounce(a) => WillAnnounce(a)'
  <2>1. SUFFICES ASSUME WillAnnounce(a) PROVE WillAnnounce(a)'
    OBVIOUS
  <2>2. Announces(s)
    BY <1>1, <2>1 DEF WillAnnounce
  <2>3. CASE Announces(L)
    BY <1>5, <2>3 DEF WillAnnounce, Announces
  <2>4. CASE L # <<>> /\ Head(L).do = "tellQueue"
    <3>1. announced' = announced
      BY <1>1 DEF data
    <3>2. version[PagesKey] >= announced
      BY <1>3
    <3>. QED
      BY <1>5, <2>4, <3>1, <3>2 DEF WillAnnounce, Idle, Next1
  <2>. QED
    BY <1>2, <2>2, <2>3, <2>4
<1>8. roomTold' >= roomTold
  BY <1>0, <1>1, Parts
<1>9. /\ \A e : Has(L, e) => Has(s, e)
      /\ \A e : Has(s, e) /\ e.do = "tellUser" => Has(L, e)
  BY <1>1, <1>2
<1>. QED
  BY <1>1, <1>2, <1>5, <1>6, <1>7, <1>8, <1>9, EffectKeeps

LEMMA EmitKeeps ==
    ASSUME ViewsInv, NEW a \in Activities, EmitToQueue(a)
    PROVE  ViewsInv'
<1> DEFINE s == work[a].todo
           L == Tail(s)
           w == [todo |-> L, seen |-> 0]
<1>0. TypeOK /\ work \in [Activities -> Work]
  BY DEF ViewsInv, TypeOK
<1>1. /\ ~Idle(a) /\ Next1(a).do = "tellQueue"
      /\ roomTold' = IF work[a].seen > roomTold THEN work[a].seen ELSE roomTold
      /\ work' = [work EXCEPT ![a] = w]
      /\ UNCHANGED <<data, redis, reads, told>>
  BY DEF EmitToQueue
<1>2. /\ L \in Seq(Effect)
      /\ \A e : Has(s, e) <=> e = Next1(a) \/ Has(L, e)
      /\ \A k : Deletes(s, k) => Deletes(L, k)
      /\ Announces(s) => Announces(L)
  BY <1>0, <1>1, NextIs
<1>3. work[a].seen \in Nat /\ roomTold \in Nat /\ announced \in Nat
  BY <1>0, Parts
<1> HIDE DEF L
<1>4. w \in Work /\ w.todo = L
  BY <1>2 DEF Work
<1> HIDE DEF w
<1>5. /\ work' \in [Activities -> Work] /\ work'[a].todo = L
      /\ \A b \in Activities : b # a => work'[b] = work[b]
  BY <1>0, <1>1, <1>4
<1>6. roomTold' \in Nat /\ roomTold' >= roomTold /\ roomTold' >= work[a].seen
  BY <1>1, <1>3
<1>7. TypeOK'
  BY <1>0, <1>1, <1>5, <1>6 DEF TypeOK, data
<1>8. WillAnnounce(a) => WillAnnounce(a)' \/ roomTold' >= announced
  <2>1. CASE Announces(s)
    BY <1>2, <1>5, <2>1 DEF WillAnnounce, Announces
  <2>2. CASE work[a].seen >= announced
    BY <1>3, <1>6, <2>2
  <2>. QED
    BY <2>1, <2>2 DEF WillAnnounce
<1>9. /\ \A e : Has(L, e) => Has(s, e)
      /\ \A e : Has(s, e) /\ e.do = "tellUser" => Has(L, e)
  BY <1>1, <1>2
<1>. QED
  BY <1>1, <1>2, <1>5, <1>6, <1>7, <1>8, <1>9, EffectKeeps

-----------------------------------------------------------------------------
(* The readers and the cache. *)

\* A step that touches only the readers and the cache.
LEMMA CacheKeeps ==
    ASSUME ViewsInv, UNCHANGED <<data, undeleted, work, told, roomTold>>, redisErrors' \in Nat,
           reads' \in [Readers -> Read], cache' \in [Keys -> Entry], ReadersInv',
           \A k \in Keys : cache'[k].hit /\ cache'[k].fresh
                               => cache'[k] = cache[k] \/ cache'[k].version = version[k]
    PROVE  ViewsInv'
<1> USE DEF ViewsInv
<1>1. UNCHANGED <<exists, status, version, swept, announced, commits, undeleted, work, told, roomTold>>
  BY DEF data
<1>2. TypeOK'
  BY <1>1 DEF TypeOK
<1>3. ExpiryInv'
  BY <1>1 DEF ExpiryInv, Newer, Next1, StatusKey
<1>4. DeletionInv'
  <2>1. ASSUME NEW k \in Keys, cache'[k].hit, cache'[k].fresh, cache'[k].version < swept[k]
        PROVE  \/ \E p \in Handlers : Deletes(work[p].todo, k)
               \/ cache'[k].version < undeleted[k]
    <3>1. CASE cache'[k] = cache[k]
      BY <2>1, <3>1 DEF DeletionInv
    <3>2. CASE cache'[k].version = version[k]
      <4>1. swept[k] <= version[k] /\ swept[k] \in Nat /\ version[k] \in Nat
        BY Parts DEF DeletionInv
      <4>. QED
        BY <2>1, <3>2, <4>1
    <3>. QED
      BY <2>1, <3>1, <3>2
  <2>. QED
    BY <1>1, <2>1 DEF DeletionInv, Deletes
<1>5. UserTold'
  BY <1>1 DEF UserTold, StatusKey
<1>6. RoomTold'
  BY <1>1 DEF RoomTold, WillAnnounce, Idle, Next1
<1>. QED
  BY <1>2, <1>3, <1>4, <1>5, <1>6

LEMMA GetKeeps ==
    ASSUME ViewsInv, NEW r \in Readers, NEW k \in Keys, CacheGet(r, k)
    PROVE  ViewsInv'
<1> DEFINE x == [IdleRead EXCEPT !.pc = "missed", !.key = k]
<1>1. /\ k[1] \in CachedKinds /\ reads' = [reads EXCEPT ![r] = x]
      /\ redisErrors' \in {redisErrors, redisErrors + 1}
      /\ UNCHANGED <<data, cache, undeleted, work, told, roomTold>>
  BY DEF CacheGet, ReaderFails, RedisFails
<1>2. x \in Read /\ x.key = k
  BY DEF IdleRead, Read, NoKey
<1>3. reads \in [Readers -> Read] /\ cache' \in [Keys -> Entry] /\ redisErrors' \in Nat
  BY <1>1 DEF ViewsInv, TypeOK
<1> HIDE DEF x
<1>4. reads' \in [Readers -> Read]
  BY <1>1, <1>2, <1>3
<1>5. ReadersInv'
  BY <1>1, <1>2, <1>3 DEF ViewsInv, ReadersInv
<1>. QED
  BY <1>1, <1>3, <1>4, <1>5, CacheKeeps

LEMMA DatabaseKeeps ==
    ASSUME ViewsInv, NEW r \in Readers, ReadDatabase(r)
    PROVE  ViewsInv'
<1> DEFINE k == reads[r].key
           y == [pc |-> "read", key |-> k, version |-> version[k]]
           x == IF Readable(k) THEN y ELSE IdleRead
<1>1. /\ reads[r].pc = "missed" /\ reads' = [reads EXCEPT ![r] = x]
      /\ UNCHANGED <<data, redis, work, told, roomTold>>
  BY DEF ReadDatabase
<1>2. k \in Keys /\ k[1] \in CachedKinds
  BY <1>1 DEF ViewsInv, ReadersInv
<1>3. version[k] \in Nat
  BY <1>2, Parts DEF ViewsInv
<1> HIDE DEF k
<1>4. y \in Read /\ y.key = k
  BY <1>2, <1>3 DEF Read
<1>5. IdleRead \in Read /\ IdleRead.pc = "idle"
  BY DEF IdleRead, Read, NoKey
<1> HIDE DEF y, IdleRead
<1>6. x \in Read /\ (x.pc # "idle" => x.key \in Keys /\ x.key[1] \in CachedKinds)
  BY <1>2, <1>4, <1>5
<1> HIDE DEF x
<1>7. reads \in [Readers -> Read] /\ cache' \in [Keys -> Entry] /\ redisErrors' \in Nat
  BY <1>1 DEF ViewsInv, TypeOK
<1>8. reads' \in [Readers -> Read]
  BY <1>1, <1>6, <1>7
<1>9. ReadersInv'
  BY <1>1, <1>6, <1>7 DEF ViewsInv, ReadersInv
<1>. QED
  BY <1>1, <1>7, <1>8, <1>9, CacheKeeps

LEMMA SetKeeps ==
    ASSUME ViewsInv, NEW r \in Readers, CacheSet(r)
    PROVE  ViewsInv'
<1> DEFINE k == reads[r].key
           x == [hit |-> TRUE, version |-> reads[r].version,
                 fresh |-> reads[r].version = version[k]]
<1>1. /\ reads[r].pc = "read" /\ cache' \in {cache, [cache EXCEPT ![k] = x]}
      /\ redisErrors' \in {redisErrors, redisErrors + 1}
      /\ reads' = [reads EXCEPT ![r] = IdleRead]
      /\ UNCHANGED <<data, undeleted, work, told, roomTold>>
  BY DEF CacheSet, ReaderFails, RedisFails
<1>2. k \in Keys /\ k[1] \in CachedKinds
  BY <1>1 DEF ViewsInv, ReadersInv
<1>3. reads \in [Readers -> Read] /\ cache \in [Keys -> Entry]
  BY DEF ViewsInv, TypeOK
<1>4. reads[r].version \in Nat
  BY <1>3 DEF Read
<1> HIDE DEF k
<1>5. x \in Entry /\ (x.fresh => x.version = version[k])
  BY <1>4 DEF Entry
<1>6. IdleRead \in Read /\ IdleRead.pc = "idle"
  BY DEF IdleRead, Read, NoKey
<1> HIDE DEF x, IdleRead
<1>7. cache' \in [Keys -> Entry] /\ reads' \in [Readers -> Read] /\ redisErrors' \in Nat
  <2>1. [cache EXCEPT ![k] = x] \in [Keys -> Entry]
    BY <1>3, <1>5
  <2>2. redisErrors' \in Nat
    BY <1>1 DEF ViewsInv, TypeOK
  <2>. QED
    BY <1>1, <1>3, <1>6, <2>1, <2>2
<1>8. ReadersInv'
  <2>1. \A q \in Readers : reads'[q].pc # "idle" => reads'[q] = reads[q]
    BY <1>1, <1>3, <1>6
  <2>2. \A j \in Keys : cache'[j].hit => j[1] \in CachedKinds
    BY <1>1, <1>2, <1>3 DEF ViewsInv, ReadersInv
  <2>. QED
    BY <2>1, <2>2 DEF ViewsInv, ReadersInv
<1>9. \A j \in Keys : cache'[j].hit /\ cache'[j].fresh
                          => cache'[j] = cache[j] \/ cache'[j].version = version[j]
  BY <1>1, <1>3, <1>5
<1>. QED
  BY <1>1, <1>7, <1>8, <1>9, CacheKeeps

LEMMA ExpireKeeps ==
    ASSUME ViewsInv, NEW k \in Keys, ExpireKey(k)
    PROVE  ViewsInv'
<1>1. /\ cache' = [cache EXCEPT ![k] = Miss]
      /\ UNCHANGED <<data, undeleted, redisErrors, work, reads, told, roomTold>>
  BY DEF ExpireKey
<1>2. Miss \in Entry /\ ~Miss.hit
  BY DEF Miss, Entry
<1> HIDE DEF Miss
<1>3. cache \in [Keys -> Entry] /\ reads' \in [Readers -> Read] /\ redisErrors' \in Nat
  BY <1>1 DEF ViewsInv, TypeOK
<1>4. /\ cache' \in [Keys -> Entry]
      /\ \A j \in Keys : cache'[j].hit => cache'[j] = cache[j]
  BY <1>1, <1>2, <1>3
<1>5. ReadersInv'
  BY <1>1, <1>4 DEF ViewsInv, ReadersInv
<1>. QED
  BY <1>1, <1>3, <1>4, <1>5, CacheKeeps

-----------------------------------------------------------------------------
(* The invariant. *)

LEMMA InitViews == Init => ViewsInv
<1> SUFFICES ASSUME Init PROVE ViewsInv
  OBVIOUS
<1>0. /\ Rest \in Work /\ Rest.todo = <<>> /\ Miss \in Entry /\ ~Miss.hit
      /\ IdleRead \in Read /\ IdleRead.pc = "idle"
  BY DEF Rest, Work, Miss, Entry, IdleRead, Read, NoKey
<1>1. \A a \in Activities : work[a] = Rest
  BY DEF Init
<1>2. TypeOK
  <2> HIDE DEF Rest, Miss, IdleRead
  <2>. QED
    BY <1>0 DEF Init, TypeOK, AnyStatus
<1>3. ExpiryInv
  BY <1>0, <1>1, <1>2, Parts DEF ExpiryInv
<1>4. ReadersInv
  BY <1>0 DEF Init, ReadersInv
<1>5. DeletionInv
  BY <1>0 DEF Init, DeletionInv
<1>6. UserTold
  BY KeysOf DEF Init, UserTold
<1>7. RoomTold
  BY DEF Init, RoomTold, Keys
<1>. QED
  BY <1>2, <1>3, <1>4, <1>5, <1>6, <1>7 DEF ViewsInv

LEMMA NextViews == ViewsInv /\ [Next]_vars => ViewsInv'
<1> SUFFICES ASSUME ViewsInv, [Next]_vars PROVE ViewsInv'
  OBVIOUS
<1>1. CASE UNCHANGED vars
  <2>1. UNCHANGED <<data, redis, work, reads, told, roomTold>>
    BY <1>1 DEF vars
  <2>2. /\ reads' \in [Readers -> Read] /\ cache' \in [Keys -> Entry] /\ redisErrors' \in Nat
        /\ ReadersInv'
    BY <2>1 DEF ViewsInv, TypeOK, ReadersInv
  <2>. QED
    BY <2>1, <2>2, CacheKeeps
<1>2. CASE \E p \in Handlers, u \in Users : Request(p, u)
  BY <1>2, RequestsKeep
<1>3. CASE \E p \in Handlers : UpdateQueue(p) \/ DeleteQueue(p)
  BY <1>3, ChangesKeep
<1>4. CASE \E a \in Promotions : Promote(a)
  BY <1>4, PromoteKeeps
<1>5. CASE \E u \in Users : StartExpiry(u)
  BY <1>5, StartKeeps
<1>6. CASE CommitMissed
  BY <1>6, MissedKeeps
<1>7. CASE AbortMissed
  BY <1>7, AbortKeeps
<1>8. CASE \E a \in Activities : PerformEffect(a)
  <2>1. PICK a \in Activities : PerformEffect(a)
    BY <1>8
  <2>2. CASE LookupKeys(a) \/ UnlinkKeys(a)
    <3>1. LookupKeys(a) => UNCHANGED redis \/ DeletionFails(a)
      BY DEF LookupKeys
    <3>. QED
      BY <2>2, <3>1, LookupKeeps, UnlinkKeeps, DeletionFailsKeeps
  <2>. QED
    BY <2>1, <2>2, TellKeeps, ReadKeeps, EmitKeeps DEF PerformEffect
<1>9. CASE \E r \in Readers, k \in Keys : CacheGet(r, k)
  BY <1>9, GetKeeps
<1>10. CASE \E r \in Readers : ReadDatabase(r) \/ CacheSet(r)
  BY <1>10, DatabaseKeeps, SetKeeps
<1>11. CASE \E k \in Keys : ExpireKey(k)
  BY <1>11, ExpireKeeps
<1>12. CASE Terminating
  BY <1>1, <1>12 DEF Terminating
<1>. QED
  BY <1>1, <1>2, <1>3, <1>4, <1>5, <1>6, <1>7, <1>8, <1>9, <1>10, <1>11, <1>12 DEF Next

\* The inductive invariant: the lists of effects of the activities hold what
\* the three properties below still wait for.
THEOREM ViewsInvariant == Spec => []ViewsInv
BY InitViews, NextViews, PTL DEF Spec

\* Every variable of the clients' view has its type.
THEOREM ViewTypes == Spec => []TypeOK
BY ViewsInvariant, PTL DEF ViewsInv

\* cacheDel after a commit reaches every answer that was right when it was
\* cached: as long as one is left, the handler has yet to delete it, or one of
\* the commands that were to delete it has failed.
THEOREM DeletionsReachFresh == Spec => []InvalidationReachesFresh
<1>1. ViewsInv => InvalidationReachesFresh
  <2>1. SUFFICES ASSUME ViewsInv, NEW k \in Keys,
                        cache[k].hit, cache[k].fresh, cache[k].version < swept[k]
                 PROVE  \/ \E a \in Activities : \E i \in DOMAIN work[a].todo :
                               work[a].todo[i].key = k /\ work[a].todo[i].do \in {"del", "unlink"}
                        \/ cache[k].version < undeleted[k]
    BY DEF InvalidationReachesFresh
  <2>2. (\E p \in Handlers : Deletes(work[p].todo, k)) \/ cache[k].version < undeleted[k]
    BY <2>1 DEF ViewsInv, DeletionInv
  <2>3. \A p \in Handlers : p \in Activities /\ DOMAIN work[p].todo = 1..Len(work[p].todo)
    BY <2>1, Parts, LenProperties DEF ViewsInv
  <2>. QED
    BY <2>2, <2>3 DEF Deletes
<1>. QED
  BY <1>1, ViewsInvariant, PTL

\* emitUserStatusUpdate, emitPromotion and emitQueueUpdate leave nothing
\* untold once everybody is done.
THEOREM EverythingTold == Spec => []NothingUntold
<1>1. ViewsInv => NothingUntold
  <2>1. SUFFICES ASSUME ViewsInv, exists, \A a \in Activities : Idle(a)
                 PROVE  /\ \A u \in Users : 1..version[StatusKey(u)] \subseteq told[u]
                        /\ roomTold >= announced
    BY DEF NothingUntold
  <2>2. \A a \in Finishing : Idle(a)
    BY <2>1, Parts DEF ViewsInv
  <2>3. \A u \in Users : \A v \in 1..version[StatusKey(u)] : v \in told[u]
    BY <2>1, <2>2, IdleHas DEF ViewsInv, UserTold
  <2>4. roomTold >= announced
    BY <2>1, <2>2, IdleHas DEF ViewsInv, RoomTold
  <2>. QED
    BY <2>3, <2>4
<1>. QED
  BY <1>1, ViewsInvariant, PTL

-----------------------------------------------------------------------------
(* The commits follow the life cycle of the tickets. *)

\* A request moves its ticket along an edge of the life cycle.
LEMMA RequestMoves ==
    ASSUME TypeOK, NEW p \in Handlers, NEW u \in Users, Request(p, u)
    PROVE  Lifecycle!Move(u)
<1> DEFINE Edges == Lifecycle!Edges
<1>1. /\ \A to : Edge(u, "LEAVE", to) \/ Edge(u, "COMPLETE", to) \/ Edge(u, "MARK_LATE", to)
                    \/ Edge(u, "REJOIN", to) => <<status[u], to>> \in Edges
      /\ status[u] \in {"NONE", "CANCELLED", "MISSED"} => <<status[u], "WAITING">> \in Edges
      /\ status[u] = "LATE" => <<status[u], "MISSED">> \in Edges
  BY DEF Edge, Transitions, Lifecycle!Edges
<1>2. \A to : <<status[u], to>> \in Edges => to \in {e[2] : e \in Edges}
  OBVIOUS
<1> HIDE DEF Edges
<1>3. ASSUME NEW op, NEW to, NEW effects, MoveTicket(p, op, u, to, effects),
             <<status[u], to>> \in Edges
      PROVE  Lifecycle!Move(u)
  <2>1. /\ exists /\ exists' = exists /\ status' = [status EXCEPT ![u] = to]
    BY <1>3 DEF MoveTicket, Commit
  <2>. QED
    BY <1>2, <1>3, <2>1 DEF Lifecycle!Move, Edges
<1>4. ASSUME NEW to, Rejoined(u, to) PROVE <<status[u], to>> \in Edges
  <2>1. Edge(u, "REJOIN", "WAITING") /\ (to = "WAITING" \/ (to = "MISSED" /\ status[u] = "LATE"))
    BY <1>4 DEF Rejoined
  <2>. QED
    BY <1>1, <2>1
<1>5. CASE JoinQueue(p, u)
  BY <1>1, <1>3, <1>5 DEF JoinQueue
<1>6. CASE LeaveQueue(p, u)
  BY <1>1, <1>3, <1>6 DEF LeaveQueue
<1>7. CASE RemoveQueueUser(p, u)
  BY <1>1, <1>3, <1>7 DEF RemoveQueueUser
<1>8. CASE MarkComplete(p, u)
  BY <1>1, <1>3, <1>8 DEF MarkComplete
<1>9. CASE MarkLate(p, u)
  BY <1>1, <1>3, <1>9 DEF MarkLate
<1>10. CASE LateRejoin(p, u)
  BY <1>3, <1>4, <1>10 DEF LateRejoin
<1>11. CASE LateArrived(p, u)
  BY <1>3, <1>4, <1>11 DEF LateArrived
<1>. QED
  BY <1>5, <1>6, <1>7, <1>8, <1>9, <1>10, <1>11 DEF Request

\* The instance counts with the same operator.
LEMMA SameCount == ASSUME NEW S PROVE Lifecycle!Cardinality(S) = Cardinality(S)
BY DEF Lifecycle!Cardinality, Cardinality

\* A promotion serves waiting users within the slots.
LEMMA PromotionServes ==
    ASSUME TypeOK, NEW a \in Promotions, Promote(a)
    PROVE  \E S \in SUBSET Users : Lifecycle!Promote(S)
<1> DEFINE waiting == {u \in Users : status[u] = "WAITING"}
           served  == Serving(status)
           free    == Slots - Cardinality(served)
           now(S)  == [u \in Users |-> IF u \in S THEN "SERVING" ELSE status[u]]
<1>1. /\ exists /\ exists' = exists
      /\ \E S \in (SUBSET waiting) \ {{}} :
            /\ Cardinality(S) = free \/ (S = waiting /\ Cardinality(S) < free)
            /\ status' = now(S)
  BY Zenon DEF Promote, Commit
<1>2. PICK S \in (SUBSET waiting) \ {{}} :
            /\ Cardinality(S) = free \/ (S = waiting /\ Cardinality(S) < free)
            /\ status' = now(S)
  BY <1>1
<1>3. S \subseteq waiting /\ S # {} /\ S \subseteq Users /\ served \subseteq Users /\ served \cap S = {}
  BY DEF Serving
<1>4. IsFiniteSet(S) /\ IsFiniteSet(served)
  BY <1>3, ActivitiesAssumption, FS_Subset
<1>5. /\ Cardinality(S) \in Nat /\ Cardinality(served) \in Nat
      /\ Cardinality(served \cup S) = Cardinality(served) + Cardinality(S) - Cardinality({})
  BY <1>3, <1>4, FS_CardinalityType, FS_Union
<1>6. Cardinality({}) = 0 /\ Slots \in Nat
  BY FS_EmptySet, ChoicesAssumption
<1> DEFINE m == Cardinality(S)
           n == Cardinality(served)
           both == Cardinality(served \cup S)
           none == Cardinality({})
<1>7. (m = Slots - n \/ m < Slots - n) /\ m \in Nat /\ n \in Nat /\ both = n + m - none /\ none = 0
  BY <1>2, <1>5, <1>6
<1> HIDE DEF m, n, both, none
<1>8. both <= Slots
  BY <1>6, <1>7
<1>9. Lifecycle!Having("SERVING") = served /\ S \subseteq Lifecycle!Having("WAITING")
  BY <1>3 DEF Lifecycle!Having, Serving
<1>10. Lifecycle!Promote(S)
  BY <1>1, <1>2, <1>3, <1>8, <1>9, SameCount DEF Lifecycle!Promote, both
<1>. QED
  BY <1>3, <1>10

\* The initial states are initial states of the life cycle.
LEMMA LifecycleInit == Init => Lifecycle!Init
BY ChoicesAssumption DEF Init, Lifecycle!Init

\* Every step is a step of the life cycle or leaves it unchanged.
LEMMA LifecycleStep ==
    ASSUME ViewsInv, [Next]_vars
    PROVE  [Lifecycle!Next]_(Lifecycle!vars)
<1>0. TypeOK
  BY DEF ViewsInv
<1>1. CASE UNCHANGED data
  BY <1>1 DEF data, Lifecycle!vars
<1>2. CASE \E p \in Handlers, u \in Users : Request(p, u)
  BY <1>0, <1>2, RequestMoves DEF Lifecycle!Next
<1>3. CASE \E p \in Handlers : UpdateQueue(p)
  BY <1>3 DEF UpdateQueue, ChangeQueue, Commit, Lifecycle!vars
<1>4. CASE \E p \in Handlers : DeleteQueue(p)
  <2>1. exists /\ exists' = FALSE /\ status' = [u \in Users |-> "NONE"]
    BY <1>4 DEF DeleteQueue, ChangeQueue, Commit
  <2>2. exists = TRUE
    BY <1>0, <2>1 DEF TypeOK
  <2>. QED
    BY <2>1, <2>2 DEF Lifecycle!Delete, Lifecycle!Next
<1>5. CASE \E a \in Promotions : Promote(a)
  BY <1>0, <1>5, PromotionServes DEF Lifecycle!Next
<1>6. CASE CommitMissed
  <2>1. PICK u \in Users :
              /\ exists /\ exists' = exists /\ status[u] = "LATE" /\ Newer(u) \in told[u]
              /\ announced' = announced /\ commits' = commits
              /\ LET rows == [status EXCEPT ![u] = "MISSED"]
                 IN  Commit(ExpiryWorker, rows, TicketData({u}, rows), {}, <<>>)
    BY <1>6, MissedIs
  <2>2. exists /\ exists' = exists /\ status' = [status EXCEPT ![u] = "MISSED"]
    BY <2>1 DEF Commit
  <2>3. <<status[u], "MISSED">> \in Lifecycle!Edges
    BY <2>1 DEF Lifecycle!Edges
  <2>4. "MISSED" \in {e[2] : e \in Lifecycle!Edges}
    BY <2>3
  <2>5. Lifecycle!Move(u)
    BY <2>2, <2>3, <2>4 DEF Lifecycle!Move
  <2>. QED
    BY <2>5 DEF Lifecycle!Next
<1>7. CASE UNCHANGED vars
  BY <1>1, <1>7 DEF vars
<1>8. \/ \E p \in Handlers, u \in Users : Request(p, u)
      \/ \E p \in Handlers : UpdateQueue(p)
      \/ \E p \in Handlers : DeleteQueue(p)
      \/ \E a \in Promotions : Promote(a)
      \/ CommitMissed
      \/ UNCHANGED vars
      \/ UNCHANGED data
  <2>1. ASSUME \/ \E u \in Users : StartExpiry(u)
               \/ AbortMissed
               \/ \E a \in Activities : PerformEffect(a)
               \/ \E r \in Readers, k \in Keys : CacheGet(r, k)
               \/ \E r \in Readers : ReadDatabase(r) \/ CacheSet(r)
               \/ \E k \in Keys : ExpireKey(k)
        PROVE  UNCHANGED data
    BY <2>1 DEF StartExpiry, AbortMissed, PerformEffect, LookupKeys, UnlinkKeys, EmitToUser,
                ReadTickets, EmitToQueue, CacheGet, ReadDatabase, CacheSet, ExpireKey
  <2>. QED
    BY <2>1 DEF Next, Terminating
<1>. QED
  BY <1>1, <1>2, <1>3, <1>4, <1>5, <1>6, <1>7, <1>8

\* What is cached and told here is what QueueTransactions commits: the commits
\* follow the same life cycle.
THEOREM ViewsFollowLifecycle == Spec => LifecycleSpec
<1>1. ViewsInv /\ [Next]_vars => [Lifecycle!Next]_(Lifecycle!vars)
  BY LifecycleStep
<1>. QED
  BY <1>1, LifecycleInit, ViewsInvariant, PTL DEF Spec, LifecycleSpec, Lifecycle!Spec
=============================================================================
